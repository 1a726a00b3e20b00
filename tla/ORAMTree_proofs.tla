--------------------------- MODULE ORAMTree_proofs ---------------------------
(* Facts about the trees of the two ORAM controllers, for any parameters:  *)
(* which buckets a path has, and where the build puts the blocks.          *)
EXTENDS ORAMTree, WellFoundedInduction, TLAPS

(* The ranges of the model are sets of naturals. *)
LEMMA Ranges ==
  /\ recursion_levels \in Levels /\ 1 \in Levels
  /\ Levels \subseteq Nat /\ Positions \subseteq Nat
  /\ \A l \in Levels : l < recursion_levels => l + 1 \in Levels
  /\ \A l \in Levels : l > 1 => l - 1 \in Levels
  /\ \A l \in Levels : /\ 0 \in Ids(l) /\ Ids(l) \subseteq Nat
                       /\ 0 \in Leaves(l) /\ Leaves(l) \subseteq Nat
                       /\ 0 \in Depths(l) /\ Depths(l) \subseteq Nat
                       /\ gN \notin Ids(l) /\ gN + 1 \notin Ids(l)
BY LevelsAssumption DEF Levels, Ids, Leaves, Depths, Positions

(* A slot holds a block of its level, the dummy or junk, and the id tells  *)
(* which.                                                                  *)
LEMMA SlotById ==
  ASSUME NEW l \in Levels
  PROVE  /\ Dummy \in Slot(l) /\ Junk(l) \in Slot(l)
         /\ Dummy.id \notin Ids(l) /\ Junk(l).id \notin Ids(l)
         /\ isBlockDummy(Dummy)
         /\ \A v \in Slot(l) : /\ v.id \in Ids(l) => v \in Block(l)
                               /\ isBlockDummy(v) => v = Dummy
                               /\ ~isBlockDummy(v) /\ ~(v.id > gN) => v.id \in Ids(l)
<1>1. Dummy.id = gN /\ Junk(l).id = gN + 1
  BY DEF Dummy, Junk
<1>2. \A v \in Block(l) : v.id \in Ids(l)
  BY DEF Block
<1>3. gN \in Nat
  BY LevelsAssumption
<1> QED
  BY <1>1, <1>2, <1>3, Ranges DEF Slot, isBlockDummy

(* The buckets of a path are buckets of the tree. *)
LEMMA NodeOnPath ==
  ASSUME NEW l \in Levels, NEW f \in Leaves(l), NEW i \in Depths(l)
  PROVE  Node(l, f, i) \in Nodes(l)
BY DEF Nodes

(* An entry is a position in a block of labels. *)
LEMMA EntryPosition ==
  ASSUME NEW l \in Levels, NEW b \in Ids(l)
  PROVE  b % x \in Positions
<1>1. b \in Nat /\ x \in Nat \ {0}
  BY Ranges, LevelsAssumption
<1> QED
  BY <1>1 DEF Positions

-----------------------------------------------------------------------------
(* Proof by least counterexample: a set of naturals has a least element. *)
LEMMA LeastElement ==
  ASSUME NEW T \in SUBSET Nat, T # {}
  PROVE  \E m \in T : \A t \in T : m <= t
<1>1. PICK m \in T : \A t \in T : <<t, m>> \notin OpToRel(<, Nat)
  BY NatLessThanWellFounded, WFMin
<1>2. \A t \in T : ~(t < m)
  BY <1>1 DEF OpToRel
<1> QED BY <1>2

(* Division takes apart in the way of shifts. *)
LEMMA DivDiv ==
  ASSUME NEW n \in Nat, NEW a \in Nat \ {0}, NEW b \in Nat \ {0}
  PROVE  (n \div a) \div b = n \div (a * b)
<1> DEFINE q == n \div a
           r == n % a
           t == q \div b
           u == q % b
<1>1. q \in Nat /\ r \in 0 .. a - 1 /\ n = a * q + r
  OBVIOUS
<1>2. t \in Nat /\ u \in 0 .. b - 1 /\ q = b * t + u
  BY <1>1
<1>3. a * b \in Nat \ {0} /\ a * u + r \in 0 .. a * b - 1
  <2>1. a * b \in Nat \ {0} /\ a * u \in Nat
    BY <1>2
  <2>2. a * u <= a * (b - 1)
    BY <1>2
  <2>3. a * (b - 1) = a * b - a
    OBVIOUS
  <2> QED BY <1>1, <2>1, <2>2, <2>3
<1> HIDE DEF q, r, t, u
<1>4. n = (a * b) * t + (a * u + r)
  <2>1. a * (b * t + u) = (a * b) * t + a * u
    BY <1>1, <1>2
  <2> QED BY <1>1, <1>2, <2>1
<1>5. ASSUME NEW m \in Nat \ {0}, NEW s \in Nat, NEW v \in 0 .. m - 1, n = m * s + v
      PROVE  n \div m = s
  <2>1. n \div m \in Nat /\ n % m \in 0 .. m - 1 /\ n = m * (n \div m) + (n % m)
    BY <1>5
  <2>2. m * (n \div m - s) = v - (n % m)
    BY <1>5, <2>1
  <2>3. CASE n \div m - s >= 1
    BY <2>1, <2>2, <2>3
  <2>4. CASE n \div m - s <= -1
    BY <2>1, <2>2, <2>4
  <2> QED BY <2>1, <2>3, <2>4
<1>6. n \div (a * b) = t
  BY <1>2, <1>3, <1>4, <1>5
<1> QED BY <1>6 DEF q, t

(* A longer shift is at least a factor two longer. *)
LEMMA PowersGrow ==
  ASSUME NEW l \in Levels, NEW i \in Depths(l), NEW j \in Depths(l), i < j
  PROVE  2 ^ j >= 2 * 2 ^ i
<1> DEFINE T == {k \in Depths(l) : i < k /\ ~(2 ^ k >= 2 * 2 ^ i)}
<1>1. \A k \in Depths(l) : k \in Nat /\ 2 ^ k \in Nat /\ 2 ^ (k + 1) = 2 * 2 ^ k
  BY Ranges, PowerAssumption
<1>2. SUFFICES ASSUME T # {} PROVE FALSE
  OBVIOUS
<1>3. PICK k \in T : \A t \in T : k <= t
  BY <1>1, <1>2, LeastElement
<1>4. k \in Depths(l) /\ i < k /\ ~(2 ^ k >= 2 * 2 ^ i)
  OBVIOUS
<1>5. k - 1 \in Depths(l) /\ 2 ^ k = 2 * 2 ^ (k - 1)
  <2>1. k - 1 \in Depths(l)
    BY <1>1, <1>4, LevelsAssumption DEF Depths
  <2>2. (k - 1) + 1 = k
    BY <1>1, <1>4
  <2> QED BY <1>1, <2>1, <2>2
<1>6. i = k - 1 \/ i < k - 1
  BY <1>1, <1>4
<1>7. CASE i = k - 1
  BY <1>1, <1>4, <1>5, <1>7
<1>8. CASE i < k - 1
  <2>1. k - 1 \notin T
    BY <1>1, <1>3, <1>4
  <2>2. 2 ^ (k - 1) >= 2 * 2 ^ i
    BY <1>5, <1>8, <2>1
  <2> QED BY <1>1, <1>4, <1>5, <2>2
<1> QED BY <1>6, <1>7, <1>8

(* The buckets of a path differ: the path of a heap visits none twice. *)
LEMMA PathNodesDiffer ==
  ASSUME NEW l \in Levels, NEW f \in Leaves(l), NEW i \in Depths(l), NEW j \in Depths(l),
         Node(l, f, i) = Node(l, f, j)
  PROVE  i = j
<1>1. ASSUME NEW a \in Depths(l), NEW b \in Depths(l), a < b
      PROVE  Node(l, f, a) # Node(l, f, b)
  <2> DEFINE n == f + N_level[l]
             p == 2 ^ a
             q == 2 ^ b
  <2>1. p \in Nat \ {0} /\ q \in Nat \ {0} /\ q >= 2 * p
    <3>1. 0 \in Depths(l) /\ 2 ^ 0 = 1
      BY Ranges, PowerAssumption
    <3>2. \A k \in Depths(l) : 2 ^ k \in Nat \ {0}
      <4> SUFFICES ASSUME NEW k \in Depths(l) PROVE 2 ^ k # 0 /\ 2 ^ k \in Nat
        OBVIOUS
      <4>1. CASE k = 0
        BY <3>1, <4>1
      <4>2. CASE k # 0
        <5>1. 0 < k
          BY <4>2, Ranges
        <5>2. 2 ^ k >= 2 * 2 ^ 0
          BY <3>1, <5>1, PowersGrow
        <5> QED BY <3>1, <5>2, PowerAssumption
      <4> QED BY <4>1, <4>2
    <3> QED BY <1>1, <3>2, PowersGrow
  <2>2. n \in Nat /\ n >= q
    <3>1. q <= 2 ^ D_level[l]
      <4>1. D_level[l] \in Depths(l) /\ b <= D_level[l] /\ b \in Nat /\ D_level[l] \in Nat
        BY LevelsAssumption DEF Depths
      <4>2. b = D_level[l] \/ b < D_level[l]
        BY <4>1
      <4>3. 2 ^ D_level[l] \in Nat
        BY <4>1, PowerAssumption
      <4> QED BY <2>1, <4>1, <4>2, <4>3, PowersGrow
    <3>2. N_level[l] = 2 ^ D_level[l] /\ N_level[l] \in Nat /\ f \in Nat
      BY BuildAssumption, LevelsAssumption, Ranges
    <3> QED BY <2>1, <3>1, <3>2
  <2> HIDE DEF n, p, q
  <2>3. n \div p # n \div q
    <3>1. /\ n \div p \in Nat /\ n % p \in 0 .. p - 1 /\ n = p * (n \div p) + (n % p)
          /\ n \div q \in Nat /\ n % q \in 0 .. q - 1 /\ n = q * (n \div q) + (n % q)
      BY <2>1, <2>2
    <3>2. SUFFICES ASSUME n \div p = n \div q PROVE FALSE
      OBVIOUS
    <3> DEFINE m == n \div p
    <3>3. m \in Nat /\ p * m + (n % p) = q * m + (n % q)
      BY <3>1, <3>2
    <3>4. q * m >= (2 * p) * m
      BY <2>1, <3>3
    <3>5. m >= 1
      BY <2>1, <2>2, <3>1, <3>2
    <3>6. p * m >= p
      BY <2>1, <3>3, <3>5
    <3>7. (2 * p) * m = p * m + p * m
      BY <2>1, <3>3
    <3> QED BY <2>1, <3>1, <3>3, <3>4, <3>6, <3>7
  <2> QED BY <2>3 DEF n, p, q, Node
<1>2. i \in Nat /\ j \in Nat
  BY Ranges
<1> QED BY <1>1, <1>2

-----------------------------------------------------------------------------
(* The build deals the blocks out: first to last block, leaf by leaf.      *)
LEMMA FirstBlocks ==
  ASSUME NEW l \in Levels
  PROVE  /\ FirstBlock(l, 0) = 0
         /\ FirstBlock(l, N_level[l]) = real_max_blocks_level[l]
         /\ \A f \in 0 .. N_level[l] : FirstBlock(l, f) \in Nat
         /\ \A f \in Leaves(l) : /\ FirstBlock(l, f) <= FirstBlock(l, f + 1)
                                 /\ FirstBlock(l, f + 1) <= FirstBlock(l, f) + Z
         /\ \A f, g \in Leaves(l) : f < g => FirstBlock(l, f + 1) <= FirstBlock(l, g)
<1> DEFINE M == real_max_blocks_level[l]
           N == N_level[l]
           q == M \div N
           c == M % N
           least(f) == IF f < c THEN f ELSE c
<1>1. M \in Nat /\ N \in Nat \ {0} /\ Z \in Nat /\ M <= Z * N
  BY LevelsAssumption, BuildAssumption
<1>2. q \in Nat /\ c \in 0 .. N - 1 /\ M = N * q + c
  <2>1. M \in Nat /\ N \in Nat \ {0}
    BY <1>1
  <2> HIDE DEF M, N
  <2> QED BY <2>1
<1>3. \A f : FirstBlock(l, f) = f * q + least(f)
  BY DEF FirstBlock
<1>4. Leaves(l) = 0 .. N - 1
  BY DEF Leaves
<1> HIDE DEF M, N, q, c
<1>5. FirstBlock(l, 0) = 0
  BY <1>2, <1>3
<1>6. FirstBlock(l, N) = M
  BY <1>1, <1>2, <1>3
<1>7. \A f \in Nat : least(f) \in Nat /\ least(f + 1) \in Nat
                     /\ least(f) <= least(f + 1) /\ least(f + 1) <= least(f) + 1
  BY <1>1, <1>2
<1>8. \A f \in Nat : f * q \in Nat /\ (f + 1) * q = f * q + q
  BY <1>2
<1>9. \A f \in 0 .. N : FirstBlock(l, f) \in Nat
  <2> SUFFICES ASSUME NEW f \in 0 .. N PROVE f * q + least(f) \in Nat
    BY <1>3
  <2>1. f \in Nat
    BY <1>1
  <2>2. f * q \in Nat /\ least(f) \in Nat
    BY <1>7, <1>8, <2>1
  <2> QED BY <2>2
<1>10. q <= Z /\ (q = Z => c = 0)
  <2>1. Z * N \in Nat /\ N * q \in Nat /\ N * Z = Z * N
    BY <1>1, <1>2
  <2>2. ASSUME q >= Z + 1 PROVE FALSE
    <3>1. N * q >= N * (Z + 1)
      BY <1>1, <1>2, <2>2
    <3>2. N * (Z + 1) = N * Z + N
      BY <1>1
    <3> QED BY <1>1, <1>2, <2>1, <3>1, <3>2
  <2>3. q = Z => c = 0
    BY <1>1, <1>2, <2>1
  <2> QED BY <1>1, <1>2, <2>2, <2>3
<1>11. ASSUME NEW f \in Leaves(l)
       PROVE  /\ FirstBlock(l, f) <= FirstBlock(l, f + 1)
              /\ FirstBlock(l, f + 1) <= FirstBlock(l, f) + Z
  <2>1. f \in Nat /\ f * q \in Nat /\ (f + 1) * q = f * q + q
    BY <1>1, <1>4, <1>8
  <2>2. FirstBlock(l, f) = f * q + least(f)
    BY <1>3
  <2>3. FirstBlock(l, f + 1) = f * q + q + least(f + 1)
    BY <1>3, <2>1
  <2>4. least(f) <= least(f + 1) /\ least(f + 1) <= least(f) + 1
        /\ least(f) \in Nat /\ least(f + 1) \in Nat
        /\ (c = 0 => least(f) = 0 /\ least(f + 1) = 0)
    BY <1>1, <1>2, <1>7, <2>1
  <2> HIDE DEF least
  <2>5. CASE q = Z
    BY <1>1, <1>2, <1>10, <2>1, <2>2, <2>3, <2>4, <2>5
  <2>6. CASE q < Z
    BY <1>1, <1>2, <1>10, <2>1, <2>2, <2>3, <2>4, <2>6
  <2> QED BY <1>1, <1>2, <1>10, <2>5, <2>6
<1>12. ASSUME NEW f \in Leaves(l), NEW g \in Leaves(l), f < g
       PROVE  FirstBlock(l, f + 1) <= FirstBlock(l, g)
  <2>1. f + 1 \in Nat /\ g \in Nat /\ f + 1 <= g
    BY <1>1, <1>4, <1>12
  <2>2. (f + 1) * q <= g * q
    BY <1>2, <2>1
  <2>3. least(f + 1) <= least(g)
    BY <1>1, <1>2, <2>1
  <2>4. (f + 1) * q \in Nat /\ g * q \in Nat /\ least(f + 1) \in Nat /\ least(g) \in Nat
    BY <1>2, <2>1
  <2> QED BY <1>3, <2>2, <2>3, <2>4
<1> QED BY <1>5, <1>6, <1>9, <1>11, <1>12 DEF M, N

(* Each block is in the bucket of one leaf, which BuildLabel names, and    *)
(* there is a slot for it there.                                           *)
LEMMA BuiltInOneLeaf ==
  ASSUME NEW l \in Levels, NEW b \in Ids(l)
  PROVE  /\ BuildLabel(l, b) \in Leaves(l) /\ b \in BlocksIn(l, BuildLabel(l, b))
         /\ \A f \in Leaves(l) : b \in BlocksIn(l, f) =>
              f = BuildLabel(l, b) /\ b - FirstBlock(l, f) + 1 \in BucketSlots
<1>1. /\ N_level[l] \in Nat \ {0} /\ real_max_blocks_level[l] \in Nat /\ Z \in Nat
      /\ b \in Nat /\ b < real_max_blocks_level[l]
      /\ \A f \in Leaves(l) : f \in Nat /\ f + 1 \in 0 .. N_level[l] /\ f \in 0 .. N_level[l]
      /\ N_level[l] - 1 \in Leaves(l)
  BY LevelsAssumption DEF Ids, Leaves
<1> DEFINE T == {f \in Leaves(l) : b < FirstBlock(l, f + 1)}
<1>2. N_level[l] - 1 \in T
  <2>1. FirstBlock(l, (N_level[l] - 1) + 1) = real_max_blocks_level[l]
    BY <1>1, FirstBlocks
  <2> QED BY <1>1, <2>1
<1>3. PICK m \in T : \A t \in T : m <= t
  BY <1>1, <1>2, LeastElement
<1>4. m \in Leaves(l) /\ b < FirstBlock(l, m + 1)
  OBVIOUS
<1>5. FirstBlock(l, m) <= b
  <2>1. CASE m = 0
    BY <1>1, <2>1, FirstBlocks
  <2>2. CASE m # 0
    <3>1. m - 1 \in Leaves(l) /\ (m - 1) + 1 = m
      BY <1>1, <1>4, <2>2 DEF Leaves
    <3>2. m - 1 \notin T
      BY <1>1, <1>3, <1>4, <3>1
    <3> QED BY <1>1, <1>4, <3>1, <3>2, FirstBlocks
  <2> QED BY <2>1, <2>2
<1>6. b \in BlocksIn(l, m)
  BY <1>1, <1>4, <1>5, FirstBlocks DEF BlocksIn
<1>7. BuildLabel(l, b) \in Leaves(l) /\ b \in BlocksIn(l, BuildLabel(l, b))
  BY <1>4, <1>6 DEF BuildLabel
<1>8. ASSUME NEW f \in Leaves(l), NEW g \in Leaves(l),
             b \in BlocksIn(l, f), b \in BlocksIn(l, g), f < g
      PROVE  FALSE
  <2>1. b <= FirstBlock(l, f + 1) - 1 /\ FirstBlock(l, g) <= b
    BY <1>8 DEF BlocksIn
  <2>2. FirstBlock(l, f + 1) \in Nat /\ FirstBlock(l, g) \in Nat
    BY <1>1, FirstBlocks
  <2>3. FirstBlock(l, f + 1) <= FirstBlock(l, g)
    BY <1>8, FirstBlocks
  <2> QED BY <1>1, <2>1, <2>2, <2>3
<1>9. ASSUME NEW f \in Leaves(l), b \in BlocksIn(l, f)
      PROVE  b - FirstBlock(l, f) + 1 \in BucketSlots
  <2>1. b <= FirstBlock(l, f + 1) - 1 /\ FirstBlock(l, f) <= b
    BY <1>9 DEF BlocksIn
  <2>2. FirstBlock(l, f + 1) \in Nat /\ FirstBlock(l, f) \in Nat
        /\ FirstBlock(l, f + 1) <= FirstBlock(l, f) + Z
    BY <1>1, FirstBlocks
  <2> QED BY <1>1, <2>1, <2>2 DEF BucketSlots
<1>10. ASSUME NEW f \in Leaves(l), b \in BlocksIn(l, f)
       PROVE  f = BuildLabel(l, b)
  <2>1. f \in Nat /\ BuildLabel(l, b) \in Nat
    BY <1>1, <1>7
  <2> QED BY <1>7, <1>8, <1>10, <2>1
<1> QED BY <1>7, <1>9, <1>10

(* The block with the label of a block is a block of the level below. *)
LEMMA EntryHolder ==
  ASSUME NEW l \in Levels, l > 1, NEW b \in Ids(l)
  PROVE  b \div x \in Ids(l - 1)
<1>1. l \in 2 .. recursion_levels /\ l - 1 \in Levels
  BY LevelsAssumption DEF Levels
<1>2. real_max_blocks_level[l] <= x * real_max_blocks_level[l - 1]
  BY <1>1, BuildAssumption
<1>3. /\ x \in Nat \ {0} /\ real_max_blocks_level[l] \in Nat
      /\ real_max_blocks_level[l - 1] \in Nat
      /\ b \in Nat /\ b < real_max_blocks_level[l]
  BY <1>1, LevelsAssumption DEF Ids
<1> DEFINE q == b \div x
           m == real_max_blocks_level[l - 1]
<1>4. q \in Nat /\ b = x * q + (b % x) /\ b % x \in 0 .. x - 1
  BY <1>3
<1> HIDE DEF q, m
<1>5. ASSUME q >= m PROVE FALSE
  <2>1. x * q >= x * m
    BY <1>3, <1>4, <1>5 DEF m
  <2>2. x * q \in Nat /\ x * m \in Nat
    BY <1>3, <1>4 DEF m
  <2> QED BY <1>2, <1>3, <1>4, <2>1, <2>2 DEF m
<1> QED BY <1>3, <1>4, <1>5 DEF q, m, Ids

(* The contents the build gives are contents of the level. *)
LEMMA BuildDataType ==
  ASSUME NEW l \in Levels, NEW b \in Ids(l)
  PROVE  BuildData(l, b) \in Data(l)
<1>1. CASE l = recursion_levels
  BY <1>1, DataAssumption DEF BuildData, Data
<1>2. CASE l # recursion_levels
  <2>1. l + 1 \in Levels
    BY <1>2, LevelsAssumption DEF Levels
  <2>2. \A c \in Ids(l + 1) : BuildLabel(l + 1, c) \in Leaves(l + 1)
    BY <2>1, BuiltInOneLeaf
  <2>3. 0 \in Leaves(l + 1)
    BY <2>1, Ranges
  <2> QED
    BY <1>2, <2>2, <2>3 DEF BuildData, Data
<1> QED
  BY <1>1, <1>2

(* The buckets the build writes. *)
LEMMA BuildTreeType ==
  ASSUME NEW l \in Levels
  PROVE  BuildTree(l) \in [Nodes(l) -> [BucketSlots -> Slot(l)]]
<1>1. \A f \in Leaves(l) : BuildBucket(l, f) \in [BucketSlots -> Slot(l)]
  BY BuildDataType, SlotById DEF BuildBucket, Slot, Block
<1>2. UpperBucket(l) \in [BucketSlots -> Slot(l)]
  BY SlotById DEF UpperBucket
<1> QED
  BY <1>1, <1>2 DEF BuildTree

(* Where the build puts block b, and what it puts there; the slots that    *)
(* hold a block are those.                                                 *)
BuildSlot(l, b) == b - FirstBlock(l, BuildLabel(l, b)) + 1

(* The leaf of a path is a node of the tree, and the build puts there the  *)
(* bucket it made for that leaf.                                           *)
LEMMA LeafBucket ==
  ASSUME NEW l \in Levels, NEW f \in Leaves(l)
  PROVE  /\ Node(l, f, 0) \in Nodes(l)
         /\ BuildTree(l)[Node(l, f, 0)] = BuildBucket(l, f)
<1>1. \A g \in Leaves(l) : Node(l, g, 0) = g + N_level[l]
  <2> TAKE g \in Leaves(l)
  <2>1. g + N_level[l] \in Nat
    BY Ranges, LevelsAssumption
  <2>2. (g + N_level[l]) \div 1 = g + N_level[l]
    <3> DEFINE n == g + N_level[l]
    <3> HIDE DEF n
    <3>1. n \in Nat
      BY <2>1 DEF n
    <3>2. n \div 1 = n
      BY <3>1
    <3> QED BY <3>2 DEF n
  <2> QED BY <2>2, PowerAssumption DEF Node
<1>2. 0 \in Depths(l)
  BY Ranges
<1>3. \A g \in Leaves(l) : Node(l, g, 0) = Node(l, f, 0) => g = f
  BY <1>1, Ranges, LevelsAssumption
<1>4. Node(l, f, 0) \in Nodes(l)
  BY <1>2, NodeOnPath
<1>5. (CHOOSE g \in Leaves(l) : Node(l, f, 0) = Node(l, g, 0)) = f
  BY <1>3
<1> QED BY <1>4, <1>5 DEF BuildTree

(* A block of the level is built in the leaf of its label, in its slot,    *)
(* with its id, label and data.                                            *)
LEMMA BuiltBlock ==
  ASSUME NEW l \in Levels, NEW b \in Ids(l)
  PROVE  LET n == Node(l, BuildLabel(l, b), 0)
         IN  /\ n \in Nodes(l) /\ BuildSlot(l, b) \in BucketSlots
             /\ BuildTree(l)[n][BuildSlot(l, b)] =
                  [id |-> b, label |-> BuildLabel(l, b), data |-> BuildData(l, b)]
<1> DEFINE f == BuildLabel(l, b)
           s == BuildSlot(l, b)
<1>1. f \in Leaves(l) /\ b \in BlocksIn(l, f) /\ s \in BucketSlots
  BY BuiltInOneLeaf DEF BuildSlot
<1>2. FirstBlock(l, f) + s - 1 = b
  <2>1. b \in Int /\ FirstBlock(l, f) \in Int
    <3>1. f \in 0 .. N_level[l]
      BY <1>1, LevelsAssumption DEF Leaves
    <3> QED BY <3>1, Ranges, FirstBlocks
  <2> QED BY <2>1 DEF BuildSlot
<1>3. BuildBucket(l, f)[s] = [id |-> b, label |-> f, data |-> BuildData(l, b)]
  BY <1>1, <1>2 DEF BuildBucket
<1> QED BY <1>1, <1>3, LeafBucket

(* It is built nowhere else. *)
LEMMA BuiltSlot ==
  ASSUME NEW l \in Levels, NEW n \in Nodes(l), NEW s \in BucketSlots,
         NEW b \in Ids(l), BuildTree(l)[n][s].id = b
  PROVE  n = Node(l, BuildLabel(l, b), 0) /\ s = BuildSlot(l, b)
<1>1. CASE \E f \in Leaves(l) : n = Node(l, f, 0)
  <2>1. PICK f \in Leaves(l) : n = Node(l, f, 0)
    BY <1>1
  <2>2. BuildBucket(l, f)[s].id = b
    BY <2>1, LeafBucket
  <2>3. FirstBlock(l, f) + s - 1 = b /\ b \in BlocksIn(l, f)
    BY <2>2, SlotById DEF BuildBucket
  <2>4. f = BuildLabel(l, b)
    BY <2>3, BuiltInOneLeaf
  <2>5. b \in Int /\ FirstBlock(l, f) \in Int /\ s \in Int
    <3>1. f \in 0 .. N_level[l]
      BY LevelsAssumption DEF Leaves
    <3> QED BY <3>1, Ranges, FirstBlocks, LevelsAssumption DEF BucketSlots
  <2> QED BY <2>1, <2>3, <2>4, <2>5 DEF BuildSlot
<1>2. CASE ~ \E f \in Leaves(l) : n = Node(l, f, 0)
  <2>1. BuildTree(l)[n][s] \in {Dummy, Junk(l)}
    BY <1>2 DEF BuildTree, UpperBucket
  <2> QED BY <2>1, SlotById
<1> QED BY <1>1, <1>2
=============================================================================
