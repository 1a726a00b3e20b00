-------------------------- MODULE CircuitORAM_proofs --------------------------
(* Theorems about CircuitORAM, for every value of its constants: that an   *)
(* eviction is planned as its comments say, can be carried out, and only   *)
(* moves blocks.                                                           *)
EXTENDS CircuitORAM, ORAMTree_proofs, FiniteSetTheorems

(* A set of naturals has a least element; a bounded one has a greatest.    *)
LEMMA LeastOf ==
  ASSUME NEW T \in SUBSET Nat, T # {}
  PROVE  Min(T) \in T /\ \A t \in T : Min(T) <= t
BY LeastElement DEF Min

(* Downwards from a bound, the least distance is the greatest element.     *)
LEMMA GreatestOf ==
  ASSUME NEW d \in Nat, NEW T \in SUBSET (0 .. d), T # {}
  PROVE  Max(T) \in T /\ \A t \in T : t <= Max(T)
<1> DEFINE U == { d - t : t \in T }
<1>1. U \in SUBSET Nat /\ U # {}
  <2>1. \A t \in T : t \in Nat /\ t <= d
    OBVIOUS
  <2>2. \A t \in T : d - t \in Nat
    BY <2>1
  <2> QED BY <2>2
<1>2. PICK u \in U : \A t \in U : u <= t
  BY <1>1, LeastElement
<1>3. PICK m \in T : u = d - m
  BY <1>2
<1>4. \A t \in T : t <= m
  <2> TAKE t \in T
  <2>1. d - m <= d - t
    BY <1>2, <1>3
  <2>2. m \in 0 .. d /\ t \in 0 .. d
    OBVIOUS
  <2> QED BY <2>1, <2>2
<1>5. \A t \in T : m >= t
  BY <1>4
<1>6. Max(T) \in T /\ \A t \in T : Max(T) >= t
  BY <1>5 DEF Max
<1> QED BY <1>6

(* Paths that share a bucket share those above it. *)
LEMMA PathsMeet ==
  ASSUME NEW l \in Levels, NEW a \in Nat, NEW f \in Nat,
         NEW i \in Depths(l), Node(l, a, i) = Node(l, f, i)
  PROVE  \A j \in Depths(l) : i <= j => Node(l, a, j) = Node(l, f, j)
<1> DEFINE T == { j \in Depths(l) : i <= j /\ Node(l, a, j) # Node(l, f, j) }
<1> SUFFICES ASSUME T # {} PROVE FALSE
  OBVIOUS
<1>1. Depths(l) \subseteq Nat /\ D_level[l] \in Nat /\ N_level[l] \in Nat
  BY Ranges, LevelsAssumption
<1>2. PICK j \in T : \A t \in T : j <= t
  BY <1>1, LeastElement
<1>3. j \in Depths(l) /\ i <= j /\ Node(l, a, j) # Node(l, f, j) /\ j # i
  OBVIOUS
<1>4. j - 1 \in Depths(l) /\ i <= j - 1 /\ j - 1 \notin T
  BY <1>1, <1>2, <1>3 DEF Depths
<1>5. Node(l, a, j - 1) = Node(l, f, j - 1)
  BY <1>4
<1>6. 2 ^ (j - 1) \in Nat \ {0} /\ 2 ^ j = 2 * 2 ^ (j - 1)
  <2>1. (j - 1) + 1 = j
    BY <1>1, <1>3
  <2>2. 2 ^ (j - 1) \in Nat /\ 2 ^ j = 2 * 2 ^ (j - 1)
    BY <1>4, <2>1, PowerAssumption
  <2>3. 2 ^ (j - 1) # 0
    <3>1. CASE j - 1 = 0
      BY <3>1, PowerAssumption
    <3>2. CASE j - 1 # 0
      <4>1. 0 \in Depths(l) /\ 0 < j - 1
        BY <1>1, <1>4, <3>2, Ranges
      <4>2. 2 ^ (j - 1) >= 2 * 2 ^ 0
        BY <1>4, <4>1, PowersGrow
      <4>3. 2 ^ 0 = 1
        BY PowerAssumption
      <4> QED BY <4>2, <4>3
    <3> QED BY <3>1, <3>2
  <2> QED BY <2>2, <2>3
<1>7. ASSUME NEW n \in Nat PROVE n \div 2 ^ j = (n \div 2 ^ (j - 1)) \div 2
  <2>1. 2 ^ (j - 1) * 2 = 2 ^ j
    BY <1>6
  <2> QED BY <1>6, <2>1, DivDiv
<1>8. a + N_level[l] \in Nat /\ f + N_level[l] \in Nat
  BY <1>1
<1> QED BY <1>3, <1>5, <1>7, <1>8 DEF Node

-----------------------------------------------------------------------------
(* What the plan is made of: the slots at a position, and how far down the *)
(* path to f the block in one of them may go, wherever it is.              *)
SlotNumbers(i) == IF i = 0 THEN StashSlots ELSE BucketSlots
Deep(p, f, i, k) == Reach(f, 0, SlotsAt(p, i)[k])

(* Path p and the stash hold slots. *)
PathTyped(p) ==
  \A i \in PathPositions : SlotsAt(p, i) \in [SlotNumbers(i) -> AnySlot]

(* A label is a natural number, whatever tree it is of. *)
LEMMA AnyLabel == \A v \in AnySlot : v.label \in Nat
BY LevelsAssumption DEF AnySlot

(* The reach of a block is one of the positions it may go to, the last.    *)
LEMMA ReachIs ==
  ASSUME level \in Levels, NEW f, NEW i \in PathPositions, NEW b
  PROVE  /\ Reach(f, i, b) \in {0} \cup CommonBelow(f, i, b)
         /\ \A j \in CommonBelow(f, i, b) : j <= Reach(f, i, b)
         /\ CommonBelow(f, i, b) \subseteq i + 1 .. D_level[level] + 1
         /\ Reach(f, i, b) \in 0 .. D_level[level] + 1
<1> DEFINE d == D_level[level] + 1
<1>1. d \in Nat /\ i \in 0 .. d
  BY LevelsAssumption DEF PathPositions
<1>2. CommonBelow(f, i, b) \subseteq i + 1 .. d
  BY DEF CommonBelow
<1>3. {0} \cup CommonBelow(f, i, b) \in SUBSET (0 .. d)
  BY <1>1, <1>2
<1>4. /\ Reach(f, i, b) \in {0} \cup CommonBelow(f, i, b)
      /\ \A j \in {0} \cup CommonBelow(f, i, b) : j <= Reach(f, i, b)
  BY <1>1, <1>3, GreatestOf DEF Reach
<1> QED BY <1>2, <1>3, <1>4

(* Seen from a position, a block reaches as far, or not below it.          *)
LEMMA ReachFrom ==
  ASSUME level \in Levels, NEW f, NEW i \in PathPositions, NEW b
  PROVE  Reach(f, i, b) = IF Reach(f, 0, b) > i THEN Reach(f, 0, b) ELSE 0
<1> DEFINE d == D_level[level] + 1
<1>1. d \in Nat /\ i \in 0 .. d /\ 0 \in PathPositions
  BY LevelsAssumption DEF PathPositions
<1>2. CommonBelow(f, i, b) = { j \in CommonBelow(f, 0, b) : j > i }
  BY <1>1 DEF CommonBelow
<1>3. /\ Reach(f, 0, b) \in {0} \cup CommonBelow(f, 0, b)
      /\ \A j \in CommonBelow(f, 0, b) : j <= Reach(f, 0, b)
      /\ Reach(f, 0, b) \in 0 .. d /\ CommonBelow(f, 0, b) \subseteq 1 .. d
  BY <1>1, ReachIs
<1>4. /\ Reach(f, i, b) \in {0} \cup CommonBelow(f, i, b)
      /\ \A j \in CommonBelow(f, i, b) : j <= Reach(f, i, b)
      /\ Reach(f, i, b) \in 0 .. d
  BY <1>1, ReachIs
<1>5. CASE Reach(f, 0, b) > i
  <2>1. Reach(f, 0, b) \in CommonBelow(f, i, b)
    BY <1>1, <1>2, <1>3, <1>5
  <2>2. Reach(f, i, b) \in CommonBelow(f, 0, b)
    BY <1>1, <1>2, <1>3, <1>4, <1>5, <2>1
  <2>3. Reach(f, 0, b) <= Reach(f, i, b) /\ Reach(f, i, b) <= Reach(f, 0, b)
    BY <1>3, <1>4, <2>1, <2>2
  <2> QED BY <1>3, <1>4, <1>5, <2>3
<1>6. CASE ~(Reach(f, 0, b) > i)
  <2>1. CommonBelow(f, i, b) = {}
    BY <1>1, <1>2, <1>3, <1>6
  <2> QED BY <1>4, <1>6, <2>1
<1> QED BY <1>5, <1>6

(* A block may go to each position between its own and its reach.          *)
LEMMA ReachesAll ==
  ASSUME level \in Levels, NEW f \in Nat, NEW b, b.label \in Nat,
         NEW j \in 1 .. D_level[level] + 1, j <= Reach(f, 0, b)
  PROVE  /\ ~isBlockDummy(b)
         /\ Node(level, b.label, D_level[level] + 1 - j)
              = Node(level, f, D_level[level] + 1 - j)
<1> DEFINE D == D_level[level]
           r == Reach(f, 0, b)
<1>1. D \in Nat /\ 0 \in PathPositions
  BY LevelsAssumption DEF PathPositions
<1>2. r \in CommonBelow(f, 0, b) /\ r \in 1 .. D + 1 /\ j \in 1 .. D + 1 /\ j <= r
  <2>1. r \in {0} \cup CommonBelow(f, 0, b) /\ r \in 0 .. D + 1
    BY <1>1, ReachIs
  <2> QED BY <1>1, <2>1
<1>3. ~isBlockDummy(b) /\ Node(level, b.label, D + 1 - r) = Node(level, f, D + 1 - r)
  BY <1>2 DEF CommonBelow
<1>4. D + 1 - r \in Depths(level) /\ D + 1 - j \in Depths(level) /\ D + 1 - r <= D + 1 - j
  <2> HIDE DEF r
  <2> QED BY <1>1, <1>2 DEF Depths
<1> QED BY <1>3, <1>4, PathsMeet

-----------------------------------------------------------------------------
(* The scan of prepare_deepest is a function defined by itself: there is   *)
(* one, built a position at a time.                                        *)
AreScans(s, p, f, d) ==
  s = [i \in 0 .. d |-> ScanPosition(p, f, i, IF i = 0 THEN NoScan ELSE s[i - 1])]

(* By least counterexample: the prover cannot be given an induction.       *)
LEMMA ScansExist ==
  ASSUME NEW p, NEW f, NEW d \in Nat
  PROVE  \E s : AreScans(s, p, f, d)
<1> DEFINE T == { i \in Nat : ~\E s : AreScans(s, p, f, i) }
<1> SUFFICES ASSUME T # {} PROVE FALSE
  OBVIOUS
<1>1. PICK i \in T : \A j \in T : i <= j
  BY LeastElement
<1>2. CASE i = 0
  <2> DEFINE s == [j \in 0 .. 0 |-> ScanPosition(p, f, 0, NoScan)]
  <2>1. AreScans(s, p, f, 0)
    BY DEF AreScans
  <2> QED BY <1>2, <2>1
<1>3. CASE i # 0
  <2>1. i - 1 \in Nat /\ i - 1 \notin T
    BY <1>1, <1>3
  <2>2. PICK s : AreScans(s, p, f, i - 1)
    BY <2>1
  <2>3. \A j \in 0 .. i - 1 :
          s[j] = ScanPosition(p, f, j, IF j = 0 THEN NoScan ELSE s[j - 1])
    <3>1. s = [j \in 0 .. i - 1 |->
                 ScanPosition(p, f, j, IF j = 0 THEN NoScan ELSE s[j - 1])]
      BY <2>2 DEF AreScans
    <3> QED BY <3>1
  <2> DEFINE t == [j \in 0 .. i |-> IF j = i THEN ScanPosition(p, f, i, s[i - 1])
                                             ELSE s[j]]
  <2>4. ASSUME NEW j \in 0 .. i
        PROVE  t[j] = ScanPosition(p, f, j, IF j = 0 THEN NoScan ELSE t[j - 1])
    <3>1. CASE j = i
      BY <1>3, <2>1, <3>1
    <3>2. CASE j # i
      <4>1. j \in 0 .. i - 1 /\ (j # 0 => j - 1 \in 0 .. i /\ j - 1 # i)
        BY <3>2
      <4> QED BY <2>3, <4>1
    <3> QED BY <3>1, <3>2
  <2>5. AreScans(t, p, f, i)
    <3>1. t = [j \in 0 .. i |-> t[j]]
      OBVIOUS
    <3> HIDE DEF t
    <3> QED BY <2>4, <3>1 DEF AreScans
  <2> QED BY <2>5
<1> QED BY <1>2, <1>3

(* So the chosen function is the scan. *)
LEMMA ScanIs ==
  ASSUME level \in Levels, NEW p, NEW f, NEW i \in PathPositions
  PROVE  DeepestScan(p, f)[i]
           = ScanPosition(p, f, i, IF i = 0 THEN NoScan ELSE DeepestScan(p, f)[i - 1])
<1> DEFINE d == D_level[level] + 1
           Def(s) == s = [j \in 0 .. d |->
                            ScanPosition(p, f, j, IF j = 0 THEN NoScan ELSE s[j - 1])]
           s == CHOOSE t : Def(t)
<1>1. d \in Nat
  BY LevelsAssumption
<1>2. \E t : Def(t)
  <2>1. PICK t : AreScans(t, p, f, d)
    BY <1>1, ScansExist
  <2>2. Def(t)
    BY <2>1 DEF AreScans
  <2> QED BY <2>2
<1>3. Def(s)
  BY <1>2
<1>4. DeepestScan(p, f) = s
  BY DEF DeepestScan, PathPositions
<1> HIDE DEF s
<1> QED BY <1>3, <1>4 DEF PathPositions

(* What the scan of one position does with the deepest block so far.       *)
LEMMA ScanSlotsDoes ==
  ASSUME level \in Levels, NEW p, NEW f, PathTyped(p), NEW i \in PathPositions,
         NEW a, a.local_deepest \in Nat
  PROVE  LET b == ScanSlots(p, f, i, a)
         IN  /\ b.deepest = a.deepest
             /\ \/ /\ \A k \in SlotNumbers(i) : Deep(p, f, i, k) <= a.local_deepest
                                                   \/ Deep(p, f, i, k) <= i
                   /\ b.local_deepest = a.local_deepest
                   /\ b.src = a.src /\ b.goal = a.goal
                \/ /\ b.local_deepest > a.local_deepest /\ b.local_deepest > i
                   /\ b.local_deepest \in 1 .. D_level[level] + 1
                   /\ b.src = i /\ b.goal = b.local_deepest
                   /\ b.deepest_position \in SlotNumbers(i)
                   /\ Deep(p, f, i, b.deepest_position) = b.local_deepest
                   /\ \A k \in SlotNumbers(i) : Deep(p, f, i, k) <= b.local_deepest
                                                   \/ Deep(p, f, i, k) <= i
<1> DEFINE d == D_level[level] + 1
           slots == SlotsAt(p, i)
           R(k) == Reach(f, i, slots[k])
           all == {0} \cup { R(k) : k \in DOMAIN slots }
           m == Max(all)
           best == { k \in DOMAIN slots : R(k) = m }
           first == IF i = 0 THEN Min(best) ELSE Max(best)
           b == ScanSlots(p, f, i, a)
<1>1. d \in Nat /\ i \in 0 .. d /\ DOMAIN slots = SlotNumbers(i)
  BY LevelsAssumption DEF PathPositions, PathTyped
<1>2. \A k : /\ R(k) \in 0 .. d /\ Deep(p, f, i, k) \in 0 .. d
             /\ R(k) = IF Deep(p, f, i, k) > i THEN Deep(p, f, i, k) ELSE 0
  <2>1. 0 \in PathPositions
    BY <1>1 DEF PathPositions
  <2> QED BY <2>1, ReachIs, ReachFrom DEF Deep
<1>3. b = [local_deepest |-> IF m > a.local_deepest THEN m ELSE a.local_deepest,
           src |-> IF m > a.local_deepest THEN i ELSE a.src,
           goal |-> IF m > a.local_deepest THEN m ELSE a.goal,
           deepest |-> a.deepest,
           deepest_position |-> IF m > a.local_deepest THEN first ELSE None]
  BY DEF ScanSlots
<1>4. m \in all /\ \A r \in all : r <= m
  <2>1. all \in SUBSET (0 .. d)
    BY <1>1, <1>2
  <2> HIDE DEF all
  <2>2. 0 \in all
    BY DEF all
  <2> QED BY <1>1, <2>1, <2>2, GreatestOf
<1>5. m \in 0 .. d /\ \A k \in SlotNumbers(i) : R(k) <= m
  BY <1>1, <1>2, <1>4
<1>6. CASE m > a.local_deepest
  <2>1. m # 0 /\ m \in 1 .. d
    BY <1>5, <1>6
  <2>2. best # {} /\ best \subseteq SlotNumbers(i)
    BY <1>1, <1>4, <2>1
  <2>3. first \in best
    <3>1. StashSlots \subseteq 0 .. STASH_SIZE /\ BucketSlots \subseteq 0 .. Z
          /\ STASH_SIZE \in Nat /\ Z \in Nat
      BY LevelsAssumption DEF StashSlots, BucketSlots
    <3> HIDE DEF best
    <3>2. CASE i = 0
      <4>1. best \in SUBSET Nat
        BY <2>2, <3>1, <3>2 DEF SlotNumbers
      <4> QED BY <2>2, <3>2, <4>1, LeastOf
    <3>3. CASE i # 0
      <4>1. best \in SUBSET (0 .. Z)
        BY <2>2, <3>1, <3>3 DEF SlotNumbers
      <4> QED BY <2>2, <3>1, <3>3, <4>1, GreatestOf
    <3> QED BY <3>2, <3>3
  <2>4. first \in SlotNumbers(i) /\ R(first) = m
    BY <2>2, <2>3
  <2> HIDE DEF first, m, b, R
  <2>5. /\ b.deepest = a.deepest /\ b.local_deepest = m /\ b.src = i /\ b.goal = m
        /\ b.deepest_position = first
    BY <1>3, <1>6
  <2>6. Deep(p, f, i, first) = m /\ m > i
    BY <1>2, <2>1, <2>4
  <2>7. \A k \in SlotNumbers(i) : Deep(p, f, i, k) <= m \/ Deep(p, f, i, k) <= i
    BY <1>1, <1>2, <1>5
  <2> QED BY <1>6, <2>1, <2>4, <2>5, <2>6, <2>7 DEF b
<1>7. CASE ~(m > a.local_deepest)
  <2> HIDE DEF first, m, b, R
  <2>1. /\ b.deepest = a.deepest /\ b.local_deepest = a.local_deepest
        /\ b.src = a.src /\ b.goal = a.goal
    BY <1>3, <1>7
  <2>2. \A k \in SlotNumbers(i) : \/ Deep(p, f, i, k) <= a.local_deepest
                                  \/ Deep(p, f, i, k) <= i
    BY <1>1, <1>2, <1>5, <1>7
  <2> QED BY <2>1, <2>2 DEF b
<1> QED BY <1>6, <1>7

(* What holds after position i was scanned: the deepest block that can go  *)
(* below it is known, if there is one.                                     *)
ScannedTo(p, f, i, s) ==
  LET a == s[i]
  IN  /\ a.local_deepest \in 0 .. D_level[level] + 1
      /\ \A q \in 0 .. i : \A k \in SlotNumbers(q) :
           Deep(p, f, q, k) <= a.local_deepest \/ Deep(p, f, q, k) <= i
      /\ \/ a.local_deepest <= i /\ a.goal = None /\ a.src = None
         \/ /\ a.local_deepest > i /\ a.goal = a.local_deepest /\ a.src \in 0 .. i
            /\ s[a.src].deepest_position \in SlotNumbers(a.src)
            /\ Deep(p, f, a.src, s[a.src].deepest_position) = a.local_deepest

(* The plan's first half, as the comment above prepare_deepest has it: for *)
(* each position of the path the block before it that goes deepest, if one *)
(* goes as far.                                                            *)
DeepestIs(p, f, deep, pos) ==
  \A j \in 1 .. D_level[level] + 1 :
    \/ /\ deep[j] = None
       /\ \A q \in 0 .. j - 1 : \A k \in SlotNumbers(q) : Deep(p, f, q, k) < j
    \/ /\ deep[j] \in 0 .. j - 1 /\ pos[deep[j]] \in SlotNumbers(deep[j])
       /\ Deep(p, f, deep[j], pos[deep[j]]) >= j
       /\ \A q \in 0 .. j - 1 : \A k \in SlotNumbers(q) :
            Deep(p, f, q, k) <= Deep(p, f, deep[j], pos[deep[j]])

(* One position more. *)
LEMMA ScanOnce ==
  ASSUME level \in Levels, NEW p, NEW f, PathTyped(p), NEW i \in PathPositions,
         i # 0 => ScannedTo(p, f, i - 1, DeepestScan(p, f))
  PROVE  ScannedTo(p, f, i, DeepestScan(p, f))
<1> DEFINE d == D_level[level] + 1
           s == DeepestScan(p, f)
           o == IF i = 0 THEN NoScan ELSE s[i - 1]
           a == SetDeepest(i, o)
           b == s[i]
<1>1. d \in Nat /\ i \in 0 .. d
  BY LevelsAssumption DEF PathPositions
<1>2. \A q \in 0 .. i : \A k : Deep(p, f, q, k) \in 0 .. d
  <2>1. 0 \in PathPositions
    BY <1>1 DEF PathPositions
  <2> QED BY <2>1, ReachIs DEF Deep
<1>3. b = ScanSlots(p, f, i, a)
  BY ScanIs DEF ScanPosition
<1>4. /\ o.local_deepest \in 0 .. d
      /\ \A q \in 0 .. i - 1 : \A k \in SlotNumbers(q) :
           Deep(p, f, q, k) <= o.local_deepest \/ Deep(p, f, q, k) <= i - 1
      /\ \/ o.local_deepest <= i /\ o.goal = None /\ o.src = None
         \/ /\ o.local_deepest >= i /\ o.goal = o.local_deepest /\ o.src \in 0 .. i - 1
            /\ s[o.src].deepest_position \in SlotNumbers(o.src)
            /\ Deep(p, f, o.src, s[o.src].deepest_position) = o.local_deepest
  <2>1. CASE i = 0
    BY <1>1, <2>1 DEF NoScan
  <2>2. CASE i # 0
    <3>1. o = s[i - 1] /\ i - 1 \in 0 .. d
      BY <1>1, <2>2
    <3> HIDE DEF o, s
    <3>2. ScannedTo(p, f, i - 1, s)
      BY <2>2 DEF s
    <3> QED BY <1>1, <3>1, <3>2 DEF ScannedTo
  <2> QED BY <2>1, <2>2
<1> HIDE DEF o, s
<1>5. /\ a.local_deepest = o.local_deepest
      /\ \/ o.local_deepest <= i /\ a.goal = None /\ a.src = None
         \/ /\ o.local_deepest > i /\ a.goal = o.local_deepest /\ a.src = o.src
            /\ o.src \in 0 .. i - 1
            /\ s[o.src].deepest_position \in SlotNumbers(o.src)
            /\ Deep(p, f, o.src, s[o.src].deepest_position) = o.local_deepest
  BY <1>1, <1>4 DEF SetDeepest, None
<1>6. a.local_deepest \in Nat
  BY <1>1, <1>4, <1>5
<1> HIDE DEF a
<1>7. \/ /\ \A k \in SlotNumbers(i) : Deep(p, f, i, k) <= a.local_deepest
                                        \/ Deep(p, f, i, k) <= i
         /\ b.local_deepest = a.local_deepest
         /\ b.src = a.src /\ b.goal = a.goal
      \/ /\ b.local_deepest > a.local_deepest /\ b.local_deepest > i
         /\ b.local_deepest \in 1 .. d
         /\ b.src = i /\ b.goal = b.local_deepest
         /\ b.deepest_position \in SlotNumbers(i)
         /\ Deep(p, f, i, b.deepest_position) = b.local_deepest
         /\ \A k \in SlotNumbers(i) : Deep(p, f, i, k) <= b.local_deepest
                                        \/ Deep(p, f, i, k) <= i
  <2> DEFINE c == ScanSlots(p, f, i, a)
  <2>1. \/ /\ \A k \in SlotNumbers(i) : Deep(p, f, i, k) <= a.local_deepest
                                          \/ Deep(p, f, i, k) <= i
           /\ c.local_deepest = a.local_deepest
           /\ c.src = a.src /\ c.goal = a.goal
        \/ /\ c.local_deepest > a.local_deepest /\ c.local_deepest > i
           /\ c.local_deepest \in 1 .. d
           /\ c.src = i /\ c.goal = c.local_deepest
           /\ c.deepest_position \in SlotNumbers(i)
           /\ Deep(p, f, i, c.deepest_position) = c.local_deepest
           /\ \A k \in SlotNumbers(i) : Deep(p, f, i, k) <= c.local_deepest
                                          \/ Deep(p, f, i, k) <= i
    BY <1>6, ScanSlotsDoes
  <2>2. b = c
    BY <1>3
  <2> HIDE DEF b, c
  <2> QED BY <2>1, <2>2
<1>8. \A q \in 0 .. i : q \in 0 .. i - 1 \/ q = i
  BY <1>1
<1>9. CASE /\ \A k \in SlotNumbers(i) : Deep(p, f, i, k) <= a.local_deepest
                                        \/ Deep(p, f, i, k) <= i
           /\ b.local_deepest = a.local_deepest
           /\ b.src = a.src /\ b.goal = a.goal
  <2>1. \A q \in 0 .. i : \A k \in SlotNumbers(q) :
          Deep(p, f, q, k) <= b.local_deepest \/ Deep(p, f, q, k) <= i
    BY <1>1, <1>2, <1>4, <1>5, <1>8, <1>9
  <2>2. \/ b.local_deepest <= i /\ b.goal = None /\ b.src = None
        \/ /\ b.local_deepest > i /\ b.goal = b.local_deepest /\ b.src \in 0 .. i
           /\ s[b.src].deepest_position \in SlotNumbers(b.src)
           /\ Deep(p, f, b.src, s[b.src].deepest_position) = b.local_deepest
    BY <1>1, <1>4, <1>5, <1>9
  <2> QED BY <1>4, <1>5, <1>9, <2>1, <2>2 DEF ScannedTo, s
<1>10. CASE /\ b.local_deepest > a.local_deepest /\ b.local_deepest > i
            /\ b.local_deepest \in 1 .. d
            /\ b.src = i /\ b.goal = b.local_deepest
            /\ b.deepest_position \in SlotNumbers(i)
            /\ Deep(p, f, i, b.deepest_position) = b.local_deepest
            /\ \A k \in SlotNumbers(i) : Deep(p, f, i, k) <= b.local_deepest
                                        \/ Deep(p, f, i, k) <= i
  <2>1. \A q \in 0 .. i : \A k \in SlotNumbers(q) :
          Deep(p, f, q, k) <= b.local_deepest \/ Deep(p, f, q, k) <= i
    BY <1>1, <1>2, <1>4, <1>5, <1>8, <1>10
  <2>2. i \in 0 .. i
    BY <1>1
  <2> QED BY <1>10, <2>1, <2>2 DEF ScannedTo, s
<1> QED BY <1>7, <1>9, <1>10

(* So after the whole scan the plan's first half is right. *)
LEMMA ScanIsRight ==
  ASSUME level \in Levels, NEW p, NEW f, PathTyped(p)
  PROVE  DeepestIs(p, f, [i \in PathPositions |-> DeepestScan(p, f)[i].deepest],
                   [i \in PathPositions |-> DeepestScan(p, f)[i].deepest_position])
<1> DEFINE d == D_level[level] + 1
           s == DeepestScan(p, f)
           deep == [i \in PathPositions |-> s[i].deepest]
           pos == [i \in PathPositions |-> s[i].deepest_position]
           T == { i \in PathPositions : ~ScannedTo(p, f, i, s) }
<1>1. d \in Nat /\ PathPositions = 0 .. d
  BY LevelsAssumption DEF PathPositions
<1>2. T = {}
  <2> SUFFICES ASSUME T # {} PROVE FALSE
    OBVIOUS
  <2>1. T \in SUBSET Nat
    BY <1>1
  <2>2. PICK i \in T : \A j \in T : i <= j
    BY <2>1, LeastElement
  <2>3. i # 0 => i - 1 \in PathPositions /\ i - 1 \notin T
    BY <1>1, <2>2
  <2> HIDE DEF s
  <2>4. i # 0 => ScannedTo(p, f, i - 1, s)
    BY <2>3
  <2>5. ScannedTo(p, f, i, s)
    BY <2>2, <2>4, ScanOnce DEF s
  <2> QED BY <2>2, <2>5
<1> SUFFICES ASSUME NEW j \in 1 .. d
             PROVE  \/ /\ deep[j] = None
                       /\ \A q \in 0 .. j - 1 : \A k \in SlotNumbers(q) :
                            Deep(p, f, q, k) < j
                    \/ /\ deep[j] \in 0 .. j - 1 /\ pos[deep[j]] \in SlotNumbers(deep[j])
                       /\ Deep(p, f, deep[j], pos[deep[j]]) >= j
                       /\ \A q \in 0 .. j - 1 : \A k \in SlotNumbers(q) :
                            Deep(p, f, q, k) <= Deep(p, f, deep[j], pos[deep[j]])
  BY DEF DeepestIs
<1>3. j \in PathPositions /\ j # 0 /\ j - 1 \in PathPositions
  BY <1>1
<1>4. \A q \in 0 .. j - 1 : q \in PathPositions /\ \A k : Deep(p, f, q, k) \in 0 .. d
  <2>1. 0 \in PathPositions
    BY <1>1
  <2>2. \A q, k : Deep(p, f, q, k) \in 0 .. d
    BY <2>1, ReachIs DEF Deep
  <2>3. \A q \in 0 .. j - 1 : q \in PathPositions
    BY <1>1
  <2> QED BY <2>2, <2>3
<1> DEFINE a == s[j - 1]
<1>5. deep[j] = IF a.goal >= j THEN a.src ELSE None
  <2>1. s[j] = ScanSlots(p, f, j, SetDeepest(j, a))
    BY <1>3, ScanIs DEF ScanPosition
  <2>2. s[j].deepest = SetDeepest(j, a).deepest
    BY <2>1 DEF ScanSlots
  <2> QED BY <1>3, <2>2 DEF SetDeepest
<1> HIDE DEF s
<1>6. ScannedTo(p, f, j - 1, s)
  BY <1>2, <1>3
<1>7. /\ a.local_deepest \in 0 .. d
      /\ \A q \in 0 .. j - 1 : \A k \in SlotNumbers(q) :
           Deep(p, f, q, k) <= a.local_deepest \/ Deep(p, f, q, k) <= j - 1
      /\ \/ a.local_deepest <= j - 1 /\ a.goal = None /\ a.src = None
         \/ /\ a.local_deepest > j - 1 /\ a.goal = a.local_deepest /\ a.src \in 0 .. j - 1
            /\ s[a.src].deepest_position \in SlotNumbers(a.src)
            /\ Deep(p, f, a.src, s[a.src].deepest_position) = a.local_deepest
  BY <1>6 DEF ScannedTo
<1>8. CASE a.local_deepest <= j - 1 /\ a.goal = None /\ a.src = None
  <2>1. deep[j] = None
    BY <1>5, <1>8
  <2>2. \A q \in 0 .. j - 1 : \A k \in SlotNumbers(q) : Deep(p, f, q, k) < j
    BY <1>1, <1>4, <1>7, <1>8
  <2> QED BY <2>1, <2>2
<1>9. CASE /\ a.local_deepest > j - 1 /\ a.goal = a.local_deepest /\ a.src \in 0 .. j - 1
           /\ s[a.src].deepest_position \in SlotNumbers(a.src)
           /\ Deep(p, f, a.src, s[a.src].deepest_position) = a.local_deepest
  <2>1. a.goal >= j
    BY <1>1, <1>7, <1>9
  <2>2. deep[j] = a.src /\ pos[a.src] = s[a.src].deepest_position
    BY <1>4, <1>5, <1>9, <2>1
  <2>3. \A q \in 0 .. j - 1 : \A k \in SlotNumbers(q) : Deep(p, f, q, k) <= a.local_deepest
    BY <1>1, <1>4, <1>7, <1>9
  <2>4. Deep(p, f, deep[j], pos[deep[j]]) = a.local_deepest /\ a.local_deepest >= j
    BY <1>9, <2>1, <2>2
  <2> HIDE DEF deep, pos
  <2> QED BY <1>9, <2>2, <2>3, <2>4
<1> QED BY <1>7, <1>8, <1>9

-----------------------------------------------------------------------------
(* The scan of prepare_target, from the leaf upwards. *)
AreTargets(s, h) ==
  s = [i \in h .. D_level[level] + 1 |->
         SetTarget(i, IF i = D_level[level] + 1 THEN NoTarget ELSE s[i + 1])]

(* By least counterexample, counting from the leaf. *)
LEMMA TargetsExist ==
  ASSUME level \in Levels, NEW h \in Nat, h <= D_level[level] + 1
  PROVE  \E s : AreTargets(s, h)
<1> DEFINE d == D_level[level] + 1
           T == { i \in Nat : ~\E s : AreTargets(s, d - i) }
<1>0. d \in Nat
  BY LevelsAssumption
<1> SUFFICES ASSUME T # {} PROVE FALSE
  <2>1. d - h \in Nat /\ d - (d - h) = h
    BY <1>0
  <2> QED BY <2>1
<1>1. PICK i \in T : \A j \in T : i <= j
  BY LeastElement
<1>2. CASE i = 0
  <2> DEFINE s == [j \in d .. d |-> SetTarget(d, NoTarget)]
  <2>1. s = [j \in d .. d |-> SetTarget(j, IF j = d THEN NoTarget ELSE s[j + 1])]
    <3>1. \A j \in d .. d : j = d
      BY <1>0
    <3> HIDE DEF d
    <3> QED BY <3>1
  <2>2. AreTargets(s, d) /\ d - i = d
    BY <1>0, <1>2, <2>1 DEF AreTargets
  <2> QED BY <2>2
<1>3. CASE i # 0
  <2> DEFINE g == d - i
  <2>0. g \in Int /\ d - (i - 1) = g + 1 /\ g < d
    BY <1>0, <1>3
  <2>1. i - 1 \in Nat /\ i - 1 \notin T
    BY <1>1, <1>3
  <2>2. PICK s : AreTargets(s, g + 1)
    BY <2>0, <2>1
  <2>3. \A j \in g + 1 .. d :
          s[j] = SetTarget(j, IF j = d THEN NoTarget ELSE s[j + 1])
    <3>1. s = [j \in g + 1 .. d |->
                 SetTarget(j, IF j = d THEN NoTarget ELSE s[j + 1])]
      BY <2>2 DEF AreTargets
    <3> HIDE DEF g, d
    <3> QED BY <3>1
  <2> DEFINE t == [j \in g .. d |-> IF j = g THEN SetTarget(g, s[g + 1]) ELSE s[j]]
  <2>4. ASSUME NEW j \in g .. d
        PROVE  t[j] = SetTarget(j, IF j = d THEN NoTarget ELSE t[j + 1])
    <3> HIDE DEF g, d
    <3>1. CASE j = g
      <4>1. j # d /\ j + 1 \in g .. d /\ j + 1 # g
        BY <1>0, <2>0, <3>1
      <4>2. t[j + 1] = s[j + 1]
        BY <4>1
      <4> QED BY <3>1, <4>1, <4>2
    <3>2. CASE j # g
      <4>1. j \in g + 1 .. d /\ (j # d => j + 1 \in g .. d /\ j + 1 # g)
        BY <1>0, <2>0, <3>2
      <4> QED BY <2>3, <4>1
    <3> QED BY <3>1, <3>2
  <2>5. AreTargets(t, g)
    <3>1. t = [j \in g .. d |-> t[j]]
      OBVIOUS
    <3> HIDE DEF t, g
    <3> QED BY <2>4, <3>1 DEF AreTargets
  <2> QED BY <2>5
<1> QED BY <1>2, <1>3

(* So the chosen function is the scan. *)
LEMMA TargetsAre ==
  ASSUME level \in Levels, NEW i \in PathPositions
  PROVE  TargetScan[i]
           = SetTarget(i, IF i = D_level[level] + 1 THEN NoTarget ELSE TargetScan[i + 1])
<1> DEFINE d == D_level[level] + 1
           Def(s) == s = [j \in 0 .. d |->
                            SetTarget(j, IF j = d THEN NoTarget ELSE s[j + 1])]
           s == CHOOSE t : Def(t)
<1>1. d \in Nat
  BY LevelsAssumption
<1>2. \E t : Def(t)
  <2>1. PICK t : AreTargets(t, 0)
    BY <1>1, TargetsExist
  <2>2. Def(t)
    BY <2>1 DEF AreTargets
  <2> QED BY <2>2
<1>3. Def(s)
  BY <1>2
<1>4. TargetScan = s
  BY DEF TargetScan, PathPositions
<1> HIDE DEF s
<1> QED BY <1>3, <1>4 DEF PathPositions

(* A move that is planned for position i: to a place below, as the block   *)
(* that was chosen for that place, into an empty slot, and no other move   *)
(* starts on the way.                                                      *)
MoveFits(i, tg, tp) ==
  /\ tg[i] \in i + 1 .. D_level[level] + 1
  /\ deepest[tg[i]] = i
  /\ tp[tg[i]] \in EmptySlots(tg[i])
  /\ \A j \in i + 1 .. tg[i] - 1 : tg[j] = None

PlanIs(tg, tp) == \A i \in PathPositions : tg[i] = None \/ MoveFits(i, tg, tp)

(* The same for the scan: what holds when position i is done, and what it  *)
(* is looking for.                                                         *)
TargetFits(i, s) ==
  LET g == s[i].target
  IN  \/ g = None
      \/ /\ g \in i + 1 .. D_level[level] + 1 /\ deepest[g] = i
         /\ s[g].target_position \in EmptySlots(g)
         /\ \A j \in i + 1 .. g - 1 : s[j].target = None

Seeks(a, i, s) ==
  \/ a.src = None /\ a.dest = None
  \/ /\ a.dest \in i .. D_level[level] + 1 /\ a.src \in 0 .. i - 1
     /\ a.dest > 0 /\ deepest[a.dest] = a.src
     /\ s[a.dest].target_position \in EmptySlots(a.dest)
     /\ \A j \in i .. a.dest - 1 : s[j].target = None

(* One position more. *)
LEMMA TargetOnce ==
  ASSUME level \in Levels, NEW i \in PathPositions,
         \A j \in 1 .. D_level[level] + 1 : deepest[j] = None \/ deepest[j] \in 0 .. j - 1,
         i # D_level[level] + 1 => Seeks(TargetScan[i + 1], i + 1, TargetScan)
  PROVE  TargetFits(i, TargetScan) /\ Seeks(TargetScan[i], i, TargetScan)
<1> DEFINE d == D_level[level] + 1
           s == TargetScan
           o == IF i = d THEN NoTarget ELSE s[i + 1]
           a == s[i]
<1>1. d \in Nat /\ i \in 0 .. d /\ None \notin Nat
  BY LevelsAssumption DEF PathPositions, None
<1>2. a = SetTarget(i, o)
  BY TargetsAre
<1>3. i > 0 /\ EmptySlots(i) # {} => a.target_position \in EmptySlots(i)
  <2>1. EmptySlots(i) \in SUBSET Nat
    BY LevelsAssumption DEF EmptySlots, BucketSlots
  <2> HIDE DEF o, s
  <2>2. i > 0 /\ EmptySlots(i) # {} => a.target_position = Min(EmptySlots(i))
    BY <1>2 DEF SetTarget
  <2> QED BY <2>1, <2>2, LeastOf
<1>4. \/ o.src = None /\ o.dest = None
      \/ /\ o.dest \in i + 1 .. d /\ o.src \in 0 .. i
         /\ o.dest > 0 /\ deepest[o.dest] = o.src
         /\ s[o.dest].target_position \in EmptySlots(o.dest)
         /\ \A j \in i + 1 .. o.dest - 1 : s[j].target = None
  <2>1. CASE i = d
    BY <2>1 DEF NoTarget
  <2>2. CASE i # d
    <3>1. o = s[i + 1]
      BY <2>2
    <3> HIDE DEF o, s
    <3>2. Seeks(o, i + 1, s)
      BY <2>2, <3>1 DEF s
    <3>3. (i + 1) - 1 = i
      BY <1>1
    <3> QED BY <3>2, <3>3 DEF Seeks
  <2> QED BY <2>1, <2>2
<1> HIDE DEF o, s
<1>5. a.target = IF i = o.src THEN o.dest ELSE None
  BY <1>2 DEF SetTarget
<1>6. TargetFits(i, s)
  BY <1>1, <1>4, <1>5 DEF TargetFits
<1>7. CASE i > 0 /\ Wanted(i, IF i = o.src THEN None ELSE o.dest)
  <2>1. a.src = deepest[i] /\ a.dest = i
    BY <1>2, <1>7 DEF SetTarget
  <2>2. deepest[i] \in 0 .. i - 1 /\ EmptySlots(i) # {}
    BY <1>1, <1>7 DEF Wanted
  <2>3. a.dest \in i .. d /\ \A j \in i .. a.dest - 1 : FALSE
    BY <1>1, <2>1
  <2>4. s[a.dest].target_position \in EmptySlots(a.dest)
    BY <1>3, <1>7, <2>1, <2>2
  <2> HIDE DEF a
  <2>5. Seeks(a, i, s)
    BY <1>1, <1>7, <2>1, <2>2, <2>3, <2>4 DEF Seeks
  <2> QED BY <1>6, <2>5 DEF a, s
<1>8. CASE ~(i > 0 /\ Wanted(i, IF i = o.src THEN None ELSE o.dest)) /\ i = o.src
  <2>1. a.src = None /\ a.dest = None
    BY <1>2, <1>8 DEF SetTarget
  <2> QED BY <1>6, <2>1 DEF Seeks, s
<1>9. CASE ~(i > 0 /\ Wanted(i, IF i = o.src THEN None ELSE o.dest)) /\ i # o.src
  <2>1. a.src = o.src /\ a.dest = o.dest /\ a.target = None
    BY <1>2, <1>5, <1>9 DEF SetTarget
  <2>2. o.dest = None \/ o.dest \in Nat
    BY <1>1, <1>4
  <2>3. \A j \in i .. o.dest - 1 : s[j].target = None
    <3> TAKE j \in i .. o.dest - 1
    <3>1. o.dest # None /\ (j = i \/ j \in i + 1 .. o.dest - 1)
      BY <1>1, <2>2 DEF None
    <3>2. CASE j = i
      BY <2>1, <3>2
    <3>3. CASE j \in i + 1 .. o.dest - 1
      BY <1>4, <3>1, <3>3
    <3> QED BY <3>1, <3>2, <3>3
  <2>4. Seeks(a, i, s)
    BY <1>1, <1>4, <1>9, <2>1, <2>3 DEF Seeks
  <2> QED BY <1>6, <2>4 DEF s
<1> QED BY <1>7, <1>8, <1>9

(* So the plan's second half fits its first. *)
LEMMA TargetsFit ==
  ASSUME level \in Levels,
         \A j \in 1 .. D_level[level] + 1 : deepest[j] = None \/ deepest[j] \in 0 .. j - 1
  PROVE  PlanIs([i \in PathPositions |-> TargetScan[i].target],
                [i \in PathPositions |-> TargetScan[i].target_position])
<1> DEFINE d == D_level[level] + 1
           s == TargetScan
           tg == [i \in PathPositions |-> s[i].target]
           tp == [i \in PathPositions |-> s[i].target_position]
           Good(i) == TargetFits(i, s) /\ Seeks(s[i], i, s)
           T == { i \in Nat : i <= d /\ ~Good(d - i) }
<1>1. d \in Nat /\ PathPositions = 0 .. d
  BY LevelsAssumption DEF PathPositions
<1>2. T = {}
  <2> SUFFICES ASSUME T # {} PROVE FALSE
    OBVIOUS
  <2>1. PICK i \in T : \A j \in T : i <= j
    BY LeastElement
  <2> DEFINE g == d - i
  <2>2. g \in PathPositions /\ ~Good(g)
    BY <1>1
  <2>3. ASSUME g # d PROVE Seeks(s[g + 1], g + 1, s)
    <3>1. i - 1 \in Nat /\ i - 1 <= d /\ i - 1 \notin T /\ d - (i - 1) = g + 1
      BY <1>1, <2>1, <2>3
    <3> QED BY <3>1
  <2> HIDE DEF g
  <2> QED BY <2>2, <2>3, TargetOnce
<1>3. \A i \in PathPositions : TargetFits(i, s)
  <2> TAKE i \in PathPositions
  <2>1. d - i \in Nat /\ d - i <= d /\ d - (d - i) = i
    BY <1>1
  <2>2. d - i \notin T
    BY <1>2
  <2>3. Good(d - (d - i))
    BY <2>1, <2>2
  <2> QED BY <2>1, <2>3
<1> SUFFICES ASSUME NEW i \in PathPositions, tg[i] # None PROVE MoveFits(i, tg, tp)
  BY DEF PlanIs
<1> HIDE DEF s
<1>4. /\ s[i].target \in i + 1 .. d /\ deepest[s[i].target] = i
      /\ s[s[i].target].target_position \in EmptySlots(s[i].target)
      /\ \A j \in i + 1 .. s[i].target - 1 : s[j].target = None
  BY <1>3 DEF TargetFits
<1>5. s[i].target \in PathPositions
      /\ \A j \in i + 1 .. s[i].target - 1 : j \in PathPositions
  BY <1>1, <1>4
<1> QED BY <1>4, <1>5 DEF MoveFits

-----------------------------------------------------------------------------
(* EvictOnceFast, position by position. *)
AfterPosition(i, e) == WriteSlot(i, PickUp(i, PutDown(i, Arrive(i, e))))

AreMoves(s, h) ==
  s = [i \in 0 .. h |-> AfterPosition(i, IF i = 0 THEN NothingHeld ELSE s[i - 1])]

(* By least counterexample, as for the scans. *)
LEMMA MovesExist ==
  ASSUME NEW h \in Nat
  PROVE  \E s : AreMoves(s, h)
<1> DEFINE T == { i \in Nat : ~\E s : AreMoves(s, i) }
<1> SUFFICES ASSUME T # {} PROVE FALSE
  OBVIOUS
<1>1. PICK i \in T : \A j \in T : i <= j
  BY LeastElement
<1>2. CASE i = 0
  <2> DEFINE s == [j \in 0 .. 0 |-> AfterPosition(0, NothingHeld)]
  <2>1. AreMoves(s, 0)
    BY DEF AreMoves
  <2> QED BY <1>2, <2>1
<1>3. CASE i # 0
  <2>1. i - 1 \in Nat /\ i - 1 \notin T
    BY <1>1, <1>3
  <2>2. PICK s : AreMoves(s, i - 1)
    BY <2>1
  <2>3. \A j \in 0 .. i - 1 :
          s[j] = AfterPosition(j, IF j = 0 THEN NothingHeld ELSE s[j - 1])
    <3>1. s = [j \in 0 .. i - 1 |->
                 AfterPosition(j, IF j = 0 THEN NothingHeld ELSE s[j - 1])]
      BY <2>2 DEF AreMoves
    <3> QED BY <3>1
  <2> DEFINE t == [j \in 0 .. i |-> IF j = i THEN AfterPosition(i, s[i - 1]) ELSE s[j]]
  <2>4. ASSUME NEW j \in 0 .. i
        PROVE  t[j] = AfterPosition(j, IF j = 0 THEN NothingHeld ELSE t[j - 1])
    <3>1. CASE j = i
      BY <1>3, <2>1, <3>1
    <3>2. CASE j # i
      <4>1. j \in 0 .. i - 1 /\ (j # 0 => j - 1 \in 0 .. i /\ j - 1 # i)
        BY <3>2
      <4> QED BY <2>3, <4>1
    <3> QED BY <3>1, <3>2
  <2>5. AreMoves(t, i)
    <3>1. t = [j \in 0 .. i |-> t[j]]
      OBVIOUS
    <3> HIDE DEF t
    <3> QED BY <2>4, <3>1 DEF AreMoves
  <2> QED BY <2>5
<1> QED BY <1>2, <1>3

(* So the chosen function is the pass over the path. *)
LEMMA MovesAre ==
  ASSUME level \in Levels, NEW i \in PathPositions
  PROVE  Eviction[i] = AfterPosition(i, IF i = 0 THEN NothingHeld ELSE Eviction[i - 1])
<1> DEFINE d == D_level[level] + 1
           Def(s) == s = [j \in 0 .. d |->
                            AfterPosition(j, IF j = 0 THEN NothingHeld ELSE s[j - 1])]
           s == CHOOSE t : Def(t)
<1>1. d \in Nat
  BY LevelsAssumption
<1>2. \E t : Def(t)
  <2>1. PICK t : AreMoves(t, d)
    BY <1>1, MovesExist
  <2>2. Def(t)
    BY <2>1 DEF AreMoves
  <2> QED BY <2>2
<1>3. Def(s)
  BY <1>2
<1>4. Eviction = s
  BY DEF Eviction, PathPositions, AfterPosition
<1> HIDE DEF s
<1> QED BY <1>3, <1>4 DEF PathPositions

(* An eviction that can be carried out. *)
Ready ==
  /\ level \in Levels /\ evicted \in Leaves(level)
  /\ PathTyped(eviction_path)
  /\ DeepestIs(eviction_path, evicted, deepest, deepest_position)
  /\ PlanIs(target, target_position)

(* The block that moves from position q, and what each slot is to hold.    *)
Source(q) == SlotsAt(eviction_path, q)[deepest_position[q]]
Filled(i) == \E q \in PathPositions : target[q] # None /\ target[q] = i
NewSlot(i, k) ==
  IF Filled(i) /\ k = target_position[i] THEN Source(deepest[i])
  ELSE IF target[i] # None /\ k = deepest_position[i] THEN Dummy
  ELSE SlotsAt(eviction_path, i)[k]

(* What is known of a planned move. *)
LEMMA MoveFacts ==
  ASSUME Ready, NEW q \in PathPositions, target[q] # None
  PROVE  /\ target[q] \in q + 1 .. D_level[level] + 1
         /\ target[q] \in PathPositions /\ target[q] > q /\ target[q] # 0
         /\ deepest[target[q]] = q
         /\ deepest_position[q] \in SlotNumbers(q)
         /\ Source(q) \in AnySlot /\ ~isBlockDummy(Source(q))
         /\ Node(level, Source(q).label, D_level[level] + 1 - target[q])
              = Node(level, evicted, D_level[level] + 1 - target[q])
         /\ target_position[target[q]] \in BucketSlots
         /\ isBlockDummy(SlotsAt(eviction_path, target[q])[target_position[target[q]]])
         /\ \A j \in PathPositions : q < j /\ j < target[q] => target[j] = None
<1> DEFINE D == D_level[level]
           g == target[q]
<1>1. D \in Nat /\ q \in 0 .. D + 1 /\ PathPositions = 0 .. D + 1
  BY LevelsAssumption DEF Ready, PathPositions
<1>2. MoveFits(q, target, target_position)
  BY DEF Ready, PlanIs
<1>3. /\ g \in q + 1 .. D + 1 /\ deepest[g] = q
      /\ target_position[g] \in EmptySlots(g)
      /\ \A j \in q + 1 .. g - 1 : target[j] = None
  BY <1>2 DEF MoveFits
<1>4. g \in 1 .. D + 1 /\ q # None
  BY <1>1, <1>3 DEF None
<1>5. /\ deepest_position[q] \in SlotNumbers(q)
      /\ Deep(eviction_path, evicted, q, deepest_position[q]) >= g
  BY <1>3, <1>4 DEF Ready, DeepestIs
<1>6. Source(q) \in AnySlot
  BY <1>5 DEF Ready, PathTyped, Source
<1>7. evicted \in Nat /\ Source(q).label \in Nat
  BY <1>6, AnyLabel, Ranges DEF Ready
<1>8. g <= Reach(evicted, 0, Source(q))
  <2>1. 0 \in PathPositions
    BY <1>1
  <2>2. Reach(evicted, 0, Source(q)) \in 0 .. D + 1
    BY <2>1, ReachIs DEF Ready
  <2>3. Reach(evicted, 0, Source(q)) >= g
    BY <1>5 DEF Deep, Source
  <2> QED BY <1>1, <1>4, <2>2, <2>3
<1>9. /\ ~isBlockDummy(Source(q))
      /\ Node(level, Source(q).label, D + 1 - g) = Node(level, evicted, D + 1 - g)
  BY <1>4, <1>7, <1>8, ReachesAll DEF Ready
<1>10. /\ target_position[g] \in BucketSlots
       /\ isBlockDummy(SlotsAt(eviction_path, g)[target_position[g]])
  BY <1>3 DEF EmptySlots
<1>11. \A j \in PathPositions : q < j /\ j < g => target[j] = None
  BY <1>1, <1>3
<1> QED BY <1>1, <1>3, <1>5, <1>6, <1>9, <1>10, <1>11

(* Two moves do not overlap. *)
LEMMA MovesApart ==
  ASSUME Ready, NEW q \in PathPositions, target[q] # None,
         NEW r \in PathPositions, target[r] # None, q < r
  PROVE  target[q] <= r
<1>1. target[q] \in Int /\ r \in Int
  <2>1. target[q] \in PathPositions
    BY MoveFacts
  <2> QED BY <2>1 DEF PathPositions
<1>2. ~(r < target[q])
  BY MoveFacts
<1> QED BY <1>1, <1>2

(* What is in hand after position i, and what the position is left with.   *)
InHand(a, i) ==
  \/ /\ a.hold = None /\ a.dest = None
     /\ \A q \in PathPositions : q <= i /\ target[q] # None => target[q] <= i
  \/ \E q \in PathPositions :
       /\ q <= i /\ target[q] # None /\ target[q] > i
       /\ a.hold = target[q] /\ a.dest = target[q] /\ a.block_hold = Source(q)

Carried(i, s) ==
  /\ \E b, c : s[i] = [hold |-> s[i].hold, dest |-> s[i].dest, block_hold |-> b,
                       block_write |-> <<>>, slots |-> c]
  /\ InHand(s[i], i)
  /\ s[i].slots = [k \in SlotNumbers(i) |-> NewSlot(i, k)]

(* A block is picked up where its move starts. *)
LEMMA PickedUp ==
  ASSUME Ready, NEW i \in PathPositions, NEW b, NEW w,
         \A q \in PathPositions : q < i /\ target[q] # None => target[q] <= i
  PROVE  LET e == [hold |-> None, dest |-> None, block_hold |-> b, block_write |-> w,
                   slots |-> SlotsAt(eviction_path, i)]
             c == [k \in SlotNumbers(i) |->
                     IF target[i] # None /\ k = deepest_position[i] THEN Dummy
                     ELSE SlotsAt(eviction_path, i)[k]]
         IN  \E h : /\ PickUp(i, e) = [hold |-> target[i], dest |-> target[i],
                                       block_hold |-> h, block_write |-> w, slots |-> c]
                    /\ target[i] # None => h = Source(i)
<1> DEFINE o == SlotsAt(eviction_path, i)
           e == [hold |-> None, dest |-> None, block_hold |-> b, block_write |-> w,
                 slots |-> o]
           c == [k \in SlotNumbers(i) |->
                   IF target[i] # None /\ k = deepest_position[i] THEN Dummy ELSE o[k]]
<1>1. o \in [SlotNumbers(i) -> AnySlot]
  BY DEF Ready, PathTyped
<1>2. CASE target[i] = None
  <2>1. PickUp(i, e) = e
    BY <1>2 DEF PickUp
  <2>2. c = o
    <3> HIDE DEF o
    <3> QED BY <1>1, <1>2
  <2> HIDE DEF c, o
  <2> QED BY <1>2, <2>1, <2>2 DEF c, o
<1>3. CASE target[i] # None
  <2> DEFINE k == deepest_position[i]
  <2>1. k \in SlotNumbers(i) /\ ~isBlockDummy(Source(i))
    BY <1>3, MoveFacts
  <2>2. k # None
    <3> HIDE DEF k
    <3>1. k \in StashSlots \/ k \in BucketSlots
      BY <2>1 DEF SlotNumbers
    <3> QED BY <3>1 DEF StashSlots, BucketSlots, None
  <2>3. o[k] = Source(i) /\ e.slots[k] = Source(i)
    BY DEF Source
  <2>4. PickUp(i, e) = [e EXCEPT !.block_hold = Source(i), !.hold = target[i],
                                 !.dest = target[i], !.slots = [@ EXCEPT ![k] = Dummy]]
    BY <1>3, <2>1, <2>2, <2>3 DEF PickUp
  <2>5. [o EXCEPT ![k] = Dummy] = c
    <3> HIDE DEF o
    <3> QED BY <1>1, <1>3
  <2>6. PickUp(i, e) = [hold |-> target[i], dest |-> target[i], block_hold |-> Source(i),
                        block_write |-> w, slots |-> [o EXCEPT ![k] = Dummy]]
    BY <2>4
  <2> HIDE DEF c, o, k, e
  <2> QED BY <1>3, <2>5, <2>6 DEF c, o, e
<1> QED BY <1>2, <1>3

(* One position more. *)
LEMMA CarryOnce ==
  ASSUME Ready, NEW i \in PathPositions, i # 0 => Carried(i - 1, Eviction)
  PROVE  Carried(i, Eviction)
<1> DEFINE D == D_level[level]
           s == Eviction
           o == IF i = 0 THEN NothingHeld ELSE s[i - 1]
           old == SlotsAt(eviction_path, i)
           e == Arrive(i, o)
           c == [k \in SlotNumbers(i) |->
                   IF target[i] # None /\ k = deepest_position[i] THEN Dummy ELSE old[k]]
<1>1. D \in Nat /\ PathPositions = 0 .. D + 1 /\ i \in 0 .. D + 1 /\ None \notin Nat
  BY LevelsAssumption DEF Ready, PathPositions, None
<1>2. s[i] = WriteSlot(i, PickUp(i, PutDown(i, e)))
  BY MovesAre DEF AfterPosition, Ready
<1>3. /\ \E b : e = [hold |-> o.hold, dest |-> o.dest, block_hold |-> b,
                     block_write |-> <<>>, slots |-> old] /\ b = o.block_hold
      /\ \/ /\ o.hold = None /\ o.dest = None
            /\ \A q \in PathPositions : q < i /\ target[q] # None => target[q] < i
         \/ \E q \in PathPositions :
              /\ q < i /\ target[q] # None /\ target[q] >= i
              /\ o.hold = target[q] /\ o.dest = target[q] /\ o.block_hold = Source(q)
  <2>1. CASE i = 0
    <3>1. o = NothingHeld /\ \A q \in PathPositions : ~(q < i)
      BY <1>1, <2>1
    <3> HIDE DEF o
    <3> QED BY <3>1 DEF NothingHeld, Arrive
  <2>2. CASE i # 0
    <3>1. o = s[i - 1]
      BY <2>2
    <3> HIDE DEF o, s
    <3>2. Carried(i - 1, s)
      BY <2>2 DEF s
    <3>3. PICK b, x1 : o = [hold |-> o.hold, dest |-> o.dest, block_hold |-> b,
                          block_write |-> <<>>, slots |-> x1]
      BY <3>1, <3>2 DEF Carried
    <3>4. e = [hold |-> o.hold, dest |-> o.dest, block_hold |-> b,
               block_write |-> <<>>, slots |-> old]
      BY <3>3 DEF Arrive
    <3>5. b = o.block_hold
      BY <3>3
    <3>6. InHand(o, i - 1)
      BY <3>1, <3>2 DEF Carried
    <3>7. \A q \in PathPositions : /\ q <= i - 1 <=> q < i
                                   /\ target[q] # None =>
                                        /\ target[q] <= i - 1 <=> target[q] < i
                                        /\ target[q] > i - 1 <=> target[q] >= i
      <4> TAKE q \in PathPositions
      <4>1. target[q] # None => target[q] \in PathPositions
        BY MoveFacts
      <4> QED BY <1>1, <4>1
    <3>8. \/ /\ o.hold = None /\ o.dest = None
             /\ \A q \in PathPositions : q < i /\ target[q] # None => target[q] < i
          \/ \E q \in PathPositions :
               /\ q < i /\ target[q] # None /\ target[q] >= i
               /\ o.hold = target[q] /\ o.dest = target[q] /\ o.block_hold = Source(q)
      BY <3>6, <3>7 DEF InHand
    <3> HIDE DEF e
    <3> QED BY <3>4, <3>5, <3>8
  <2> QED BY <2>1, <2>2
<1> HIDE DEF o, s, e
<1>4. c \in [SlotNumbers(i) -> AnySlot \cup {Dummy}]
  <2>1. old \in [SlotNumbers(i) -> AnySlot]
    BY DEF Ready, PathTyped
  <2> HIDE DEF old
  <2> QED BY <2>1
(* With nothing in hand. *)
<1>5. ASSUME o.hold = None, o.dest = None,
             \A q \in PathPositions : q < i /\ target[q] # None => target[q] < i
      PROVE  Carried(i, Eviction)
  <2>1. PICK b : e = [hold |-> None, dest |-> None, block_hold |-> b,
                      block_write |-> <<>>, slots |-> old]
    BY <1>3, <1>5
  <2>2. PutDown(i, e) = e
    BY <2>1 DEF PutDown
  <2>3. \A q \in PathPositions : q < i /\ target[q] # None => target[q] <= i
    <3> TAKE q \in PathPositions
    <3>1. target[q] # None => target[q] \in PathPositions
      BY MoveFacts
    <3> QED BY <1>1, <1>5, <3>1
  <2>4. PICK h : /\ PickUp(i, e) = [hold |-> target[i], dest |-> target[i],
                                    block_hold |-> h, block_write |-> <<>>, slots |-> c]
                 /\ target[i] # None => h = Source(i)
    BY <2>1, <2>3, PickedUp
  <2>5. s[i] = [hold |-> target[i], dest |-> target[i],
                block_hold |-> h, block_write |-> <<>>, slots |-> c]
    BY <1>2, <2>2, <2>4 DEF WriteSlot
  <2>6. ~Filled(i)
    <3> SUFFICES ASSUME NEW q \in PathPositions, target[q] # None, target[q] = i PROVE FALSE
      BY DEF Filled
    <3>1. q < i
      BY MoveFacts
    <3>2. target[q] < i
      BY <1>5, <3>1
    <3> QED BY <1>1, <3>2
  <2>7. c = [k \in SlotNumbers(i) |-> NewSlot(i, k)]
    BY <2>6 DEF NewSlot
  <2>8. InHand(s[i], i)
    <3>1. \A q \in PathPositions : q <= i => q < i \/ q = i
      BY <1>1
    <3>2. CASE target[i] = None
      <4>1. \A q \in PathPositions : q <= i /\ target[q] # None => target[q] <= i
        BY <2>3, <3>1, <3>2
      <4> QED BY <2>5, <3>2, <4>1 DEF InHand
    <3>3. CASE target[i] # None
      <4>1. i <= i /\ target[i] > i
        BY <1>1, <3>3, MoveFacts
      <4> QED BY <2>4, <2>5, <3>3, <4>1 DEF InHand
    <3> QED BY <3>2, <3>3
  <2> HIDE DEF c
  <2>9. s[i].hold = target[i] /\ s[i].dest = target[i] /\ s[i].slots = c
    BY <2>5
  <2> QED BY <2>5, <2>7, <2>8, <2>9 DEF Carried, s
(* With a block in hand that goes further. *)
<1>6. ASSUME NEW q \in PathPositions, q < i, target[q] # None, target[q] > i,
             o.hold = target[q], o.dest = target[q], o.block_hold = Source(q)
      PROVE  Carried(i, Eviction)
  <2>1. e = [hold |-> target[q], dest |-> target[q], block_hold |-> Source(q),
             block_write |-> <<>>, slots |-> old]
    BY <1>3, <1>6
  <2>2. target[i] = None
    BY <1>6, MoveFacts
  <2>3. target[q] # i
    BY <1>1, <1>6
  <2>4. PutDown(i, e) = e /\ PickUp(i, e) = e /\ WriteSlot(i, e) = e
    BY <2>1, <2>2, <2>3 DEF PutDown, PickUp, WriteSlot
  <2>5. s[i] = e
    BY <1>2, <2>4
  <2>6. ~Filled(i)
    <3> SUFFICES ASSUME NEW r \in PathPositions, target[r] # None, target[r] = i PROVE FALSE
      BY DEF Filled
    <3>1. r < i /\ r # q
      BY <2>3, MoveFacts
    <3>2. CASE q < r
      <4>1. target[q] <= r
        BY <1>6, <3>2, MovesApart
      <4>2. target[q] \in PathPositions
        BY <1>6, MoveFacts
      <4>3. target[q] > i /\ r < i
        BY <1>6, <3>1
      <4> QED BY <1>1, <4>1, <4>2, <4>3
    <3>3. CASE r < q
      <4>1. target[r] <= q
        BY <1>6, <3>3, MovesApart
      <4> QED BY <1>1, <1>6, <4>1
    <3> QED BY <1>1, <3>1, <3>2, <3>3
  <2>7. old = [k \in SlotNumbers(i) |-> NewSlot(i, k)]
    <3>1. old \in [SlotNumbers(i) -> AnySlot]
      BY DEF Ready, PathTyped
    <3>2. \A k : NewSlot(i, k) = old[k]
      BY <2>2, <2>6 DEF NewSlot
    <3> HIDE DEF old
    <3> QED BY <3>1, <3>2
  <2>8. InHand(e, i)
    <3>1. q <= i
      BY <1>1, <1>6
    <3> QED BY <1>6, <2>1, <3>1 DEF InHand
  <2> HIDE DEF old
  <2>9. e.hold = target[q] /\ e.dest = target[q] /\ e.slots = old
    BY <2>1
  <2> QED BY <2>1, <2>5, <2>7, <2>8, <2>9 DEF Carried, s
(* With a block in hand that belongs here. *)
<1>7. ASSUME NEW q \in PathPositions, q < i, target[q] # None, target[q] = i,
             o.hold = target[q], o.dest = target[q], o.block_hold = Source(q)
      PROVE  Carried(i, Eviction)
  <2>1. e = [hold |-> i, dest |-> i, block_hold |-> Source(q),
             block_write |-> <<>>, slots |-> old]
    BY <1>3, <1>7
  <2>2. i # None /\ i > 0
    BY <1>1, <1>7
  <2>3. PutDown(i, e) = [hold |-> None, dest |-> None, block_hold |-> Source(q),
                         block_write |-> <<Source(q)>>, slots |-> old]
    BY <2>1, <2>2 DEF PutDown
  <2>4. \A r \in PathPositions : r < i /\ target[r] # None => target[r] <= i
    <3> TAKE r \in PathPositions
    <3> SUFFICES ASSUME r < i, target[r] # None PROVE target[r] <= i
      OBVIOUS
    <3>1. CASE r < q
      <4>1. target[r] <= q /\ target[r] \in PathPositions
        BY <1>7, <3>1, MovesApart, MoveFacts
      <4> QED BY <1>1, <1>7, <4>1
    <3>2. CASE r = q
      BY <1>1, <1>7, <3>2
    <3>3. CASE q < r
      BY <1>7, <3>3, MoveFacts
    <3> QED BY <1>1, <3>1, <3>2, <3>3
  <2>5. PICK h : /\ PickUp(i, PutDown(i, e))
                      = [hold |-> target[i], dest |-> target[i],
                         block_hold |-> h, block_write |-> <<Source(q)>>, slots |-> c]
                 /\ target[i] # None => h = Source(i)
    BY <2>3, <2>4, PickedUp
  <2> DEFINE t == target_position[i]
             new == [c EXCEPT ![t] = Source(q)]
  <2>6. /\ t \in BucketSlots /\ t # None /\ isBlockDummy(old[t]) /\ deepest[i] = q
    <3>1. t \in BucketSlots /\ isBlockDummy(old[t]) /\ deepest[i] = q
      BY <1>7, MoveFacts
    <3> QED BY <3>1 DEF BucketSlots, None
  <2>7. s[i] = [hold |-> target[i], dest |-> target[i],
                block_hold |-> h, block_write |-> <<>>, slots |-> new]
    <3> HIDE DEF c, t
    <3>1. <<Source(q)>> # <<>> /\ <<Source(q)>>[1] = Source(q)
      OBVIOUS
    <3> DEFINE w == PickUp(i, PutDown(i, e))
    <3>2. w = [hold |-> target[i], dest |-> target[i],
               block_hold |-> h, block_write |-> <<Source(q)>>, slots |-> c]
      BY <2>5
    <3> HIDE DEF w
    <3>3. WriteSlot(i, w) = [w EXCEPT !.slots = [@ EXCEPT ![t] = w.block_write[1]],
                                      !.block_write = <<>>]
      BY <2>2, <2>6, <3>1, <3>2 DEF WriteSlot, t
    <3>4. WriteSlot(i, w) = [hold |-> target[i], dest |-> target[i], block_hold |-> h,
                             block_write |-> <<>>, slots |-> [c EXCEPT ![t] = Source(q)]]
      BY <3>1, <3>2, <3>3
    <3> QED BY <1>2, <3>4 DEF w
  <2>8. Filled(i)
    BY <1>7 DEF Filled
  <2>9. new = [k \in SlotNumbers(i) |-> NewSlot(i, k)]
    <3>1. \A k \in SlotNumbers(i) : NewSlot(i, k) = IF k = t THEN Source(q) ELSE c[k]
      BY <2>6, <2>8 DEF NewSlot
    <3> HIDE DEF c, t
    <3> QED BY <1>4, <3>1
  <2>10. InHand(s[i], i)
    <3>1. \A r \in PathPositions : r <= i => r < i \/ r = i
      BY <1>1
    <3>2. CASE target[i] = None
      <4>1. \A r \in PathPositions : r <= i /\ target[r] # None => target[r] <= i
        BY <2>4, <3>1, <3>2
      <4> QED BY <2>7, <3>2, <4>1 DEF InHand
    <3>3. CASE target[i] # None
      <4>1. i <= i /\ target[i] > i
        BY <1>1, <3>3, MoveFacts
      <4> QED BY <2>5, <2>7, <3>3, <4>1 DEF InHand
    <3> QED BY <3>2, <3>3
  <2> HIDE DEF new
  <2>11. s[i].hold = target[i] /\ s[i].dest = target[i] /\ s[i].slots = new
    BY <2>7
  <2> QED BY <2>7, <2>9, <2>10, <2>11 DEF Carried, s
<1>8. ASSUME NEW q \in PathPositions, target[q] # None, target[q] >= i
      PROVE  target[q] > i \/ target[q] = i
  <2>1. target[q] \in PathPositions
    BY <1>8, MoveFacts
  <2> QED BY <1>1, <1>8, <2>1
<1> QED BY <1>3, <1>5, <1>6, <1>7, <1>8

(* So an eviction that is planned is carried out: each block that is to    *)
(* move is moved, its old slot holds a dummy, and nothing else changes.    *)
LEMMA EvictionIs ==
  ASSUME Ready, NEW i \in PathPositions
  PROVE  Eviction[i].slots = [k \in SlotNumbers(i) |-> NewSlot(i, k)]
<1> DEFINE T == { j \in PathPositions : ~Carried(j, Eviction) }
<1>1. PathPositions \subseteq Nat /\ \A j \in PathPositions : j # 0 => j - 1 \in PathPositions
  BY LevelsAssumption DEF Ready, PathPositions
<1>2. T = {}
  <2> SUFFICES ASSUME T # {} PROVE FALSE
    OBVIOUS
  <2>1. T \in SUBSET Nat
    BY <1>1
  <2>2. PICK j \in T : \A k \in T : j <= k
    BY <2>1, LeastElement
  <2>3. ASSUME j # 0 PROVE Carried(j - 1, Eviction)
    <3>1. j - 1 \in PathPositions /\ j - 1 \notin T
      BY <1>1, <2>2, <2>3
    <3> QED BY <3>1
  <2>4. Carried(j, Eviction)
    BY <2>2, <2>3, CarryOnce
  <2> QED BY <2>2, <2>4
<1>3. Carried(i, Eviction)
  BY <1>2
<1> QED BY <1>3 DEF Carried

-----------------------------------------------------------------------------
(* Types. *)
Phases == {"idle", "descend", "fetch", "clear", "plan", "target", "evict",
           "return", "crashed"}
Fetching == {"clear", "plan", "target", "evict", "return"}
Half(l) == N_level[l] \div 2

StoreKinds ==
  /\ posmap \in [Ids(1) -> Leaves(1)]
  /\ tree = [l \in Levels |-> tree[l]]
  /\ \A l \in Levels : tree[l] \in [Nodes(l) -> [BucketSlots -> AnySlot]]
  /\ stash = [l \in Levels |-> stash[l]]
  /\ \A l \in Levels : stash[l] \in [StashSlots -> AnySlot]
  /\ discard_block \in [Levels -> [StashSlots -> BOOLEAN]]
  /\ serialized_result_block \in AnySlot

RequestKinds ==
  /\ phase \in Phases
  /\ level \in Levels
  /\ ids = [l \in Levels |-> ids[l]]
  /\ \A l \in Levels : ids[l] \in Ids(l)
  /\ req.op \in {"r", "z", "w"} /\ req.id \in Ids(recursion_levels)
  /\ req.op = "w" => req.val \in Values
  /\ data_out \in Contents

LabelKinds ==
  /\ phase = "fetch" => leaf \in Leaves(level) /\ newleaf \in Leaves(level)
  /\ phase \in Fetching => newleaf \in Leaves(level)
  /\ phase \in Fetching /\ level < recursion_levels =>
       /\ return_value \in Leaves(level + 1) \cup {None}
       /\ newleaf_nextlevel \in Leaves(level + 1)

EvictionKinds ==
  /\ side \in {"left", "right"}
  /\ phase \notin {"plan", "target", "evict"} => side = "left"
  /\ phase = "plan" /\ side = "right" => evicted \in 0 .. Half(level) - 1
  /\ phase \in {"target", "evict"} => /\ evicted \in Leaves(level)
                                      /\ side = "left" => evicted < Half(level)
                                      /\ eviction_path = ReadPath(evicted)

Kinds == StoreKinds /\ RequestKinds /\ LabelKinds /\ EvictionKinds

(* What the plan is, once it is made. *)
Planned ==
  /\ phase \in {"target", "evict"} =>
       DeepestIs(eviction_path, evicted, deepest, deepest_position)
  /\ phase = "evict" =>
       /\ target \in [PathPositions -> {None} \cup PathPositions]
       /\ PlanIs(target, target_position)

(* The path to a leaf is a path. *)
LEMMA PathOfTree ==
  ASSUME StoreKinds, level \in Levels, NEW f \in Leaves(level)
  PROVE  /\ PathTyped(ReadPath(f))
         /\ \A i \in Depths(level) : /\ ReadPath(f)[i] = tree[level][Node(level, f, i)]
                                     /\ ReadPath(f)[i] \in [BucketSlots -> AnySlot]
<1>1. \A i \in Depths(level) : /\ ReadPath(f)[i] = tree[level][Node(level, f, i)]
                               /\ ReadPath(f)[i] \in [BucketSlots -> AnySlot]
  BY NodeOnPath DEF ReadPath, StoreKinds
<1>2. ASSUME NEW i \in PathPositions
      PROVE  SlotsAt(ReadPath(f), i) \in [SlotNumbers(i) -> AnySlot]
  <2>1. CASE i = 0
    BY <2>1 DEF SlotsAt, SlotNumbers, StoreKinds
  <2>2. CASE i # 0
    <3>1. D_level[level] + 1 - i \in Depths(level)
      BY <2>2, LevelsAssumption DEF PathPositions, Depths
    <3> QED BY <1>1, <2>2, <3>1 DEF SlotsAt, SlotNumbers
  <2> QED BY <2>1, <2>2
<1> QED BY <1>1, <1>2 DEF PathTyped

(* When an eviction comes to be carried out, it can be. *)
LEMMA PlannedIsReady ==
  ASSUME Kinds, Planned, phase = "evict"
  PROVE  Ready
<1>1. level \in Levels /\ evicted \in Leaves(level) /\ eviction_path = ReadPath(evicted)
  BY DEF Kinds, RequestKinds, EvictionKinds
<1>2. PathTyped(eviction_path)
  BY <1>1, PathOfTree DEF Kinds
<1> QED BY <1>1, <1>2 DEF Planned, Ready

(* The kinds say what TypeOK does. *)
LEMMA KindsAreTypes ==
  ASSUME Kinds, Planned
  PROVE  TypeOK
<1>1. ASSUME phase = "evict"
      PROVE  \A i \in PathPositions :
               /\ target[i] \in {None} \cup (i + 1 .. D_level[level] + 1)
               /\ target[i] # None => /\ deepest_position[i] # None
                                      /\ target_position[target[i]] # None
  <2> TAKE i \in PathPositions
  <2>1. Ready
    BY <1>1, PlannedIsReady
  <2>2. CASE target[i] = None
    BY <2>2
  <2>3. CASE target[i] # None
    <3>1. /\ target[i] \in i + 1 .. D_level[level] + 1
          /\ deepest_position[i] \in SlotNumbers(i)
          /\ target_position[target[i]] \in BucketSlots
      BY <2>1, <2>3, MoveFacts
    <3>2. None \notin StashSlots /\ None \notin BucketSlots
      BY DEF None, StashSlots, BucketSlots
    <3> QED BY <3>1, <3>2 DEF SlotNumbers
  <2> QED BY <2>2, <2>3
<1> QED
  BY <1>1 DEF TypeOK, Kinds, StoreKinds, RequestKinds, LabelKinds, Phases

-----------------------------------------------------------------------------
(* What can be in a slot. *)
LEMMA SlotsAreAny ==
  /\ Dummy \in AnySlot
  /\ \A l \in Levels : Slot(l) \subseteq AnySlot
<1>1. Unset \in Contents /\ Values \subseteq Contents
  BY DEF Contents
<1>2. ASSUME NEW l \in Levels PROVE Data(l) \subseteq Contents
  <2>1. CASE l = recursion_levels
    BY <1>1, <2>1 DEF Data
  <2>2. CASE l # recursion_levels
    <3>1. l + 1 \in Levels \ {1}
      BY <2>2, LevelsAssumption DEF Levels
    <3>2. Leaves(l + 1) \subseteq {None} \cup UNION { Leaves(m) : m \in Levels \ {1} }
      BY <3>1
    <3>3. Data(l) = [Positions -> Leaves(l + 1)]
      BY <2>2 DEF Data
    <3> QED BY <3>2, <3>3 DEF Contents
  <2> QED BY <2>1, <2>2
<1> DEFINE L == UNION { 0 .. N_level[l] : l \in Levels }
<1>3. ASSUME NEW l \in Levels
      PROVE  /\ Leaves(l) \subseteq L /\ N_level[l] \in L /\ 0 \in L
             /\ Ids(l) \subseteq 0 .. gN + 1
  <2>1. N_level[l] \in Nat /\ real_max_blocks_level[l] <= gN /\ real_max_blocks_level[l] \in Nat
        /\ gN \in Nat
    BY LevelsAssumption
  <2>2. Leaves(l) \subseteq 0 .. N_level[l] /\ N_level[l] \in 0 .. N_level[l]
        /\ 0 \in 0 .. N_level[l]
    BY <2>1 DEF Leaves
  <2>3. Ids(l) \subseteq 0 .. gN + 1
    BY <2>1 DEF Ids
  <2> QED BY <2>2, <2>3
<1>4. AnySlot = [id : 0 .. gN + 1, label : L, data : Contents]
  BY DEF AnySlot
<1> HIDE DEF L
<1>5. gN \in 0 .. gN + 1 /\ gN + 1 \in 0 .. gN + 1
  BY LevelsAssumption
<1>6. Dummy \in AnySlot
  BY <1>1, <1>3, <1>4, <1>5, Ranges DEF Dummy
<1>7. ASSUME NEW l \in Levels PROVE Slot(l) \subseteq AnySlot
  <2>1. Block(l) \subseteq AnySlot
    BY <1>2, <1>3, <1>4 DEF Block
  <2>2. Junk(l) \in AnySlot
    BY <1>1, <1>3, <1>4, <1>5 DEF Junk
  <2> QED BY <1>6, <2>1, <2>2 DEF Slot
<1> QED BY <1>6, <1>7

(* A slot keeps being one when it gets a label or a content. *)
LEMMA SlotsChange ==
  ASSUME NEW b \in AnySlot, NEW l \in Levels, NEW f \in Leaves(l), NEW c \in Contents
  PROVE  /\ [b EXCEPT !.label = f] \in AnySlot
         /\ [b EXCEPT !.data = c] \in AnySlot
         /\ [b EXCEPT !.label = f, !.data = c] \in AnySlot
         /\ b.data \in Contents /\ b.id \in 0 .. gN + 1
<1>1. f \in 0 .. N_level[l]
  BY LevelsAssumption DEF Leaves
<1> DEFINE L == UNION { 0 .. N_level[m] : m \in Levels }
<1>2. f \in L
  BY <1>1
<1>3. AnySlot = [id : 0 .. gN + 1, label : L, data : Contents]
  BY DEF AnySlot
<1> HIDE DEF L
<1> QED BY <1>2, <1>3

(* What writing a path does to the trees. *)
LEMMA PathWritten ==
  ASSUME StoreKinds, level \in Levels, NEW f \in Leaves(level), NEW p,
         \A i \in Depths(level) : p[i] \in [BucketSlots -> AnySlot]
  PROVE  LET t == WritePath(f, p)
         IN  /\ t = [l \in Levels |-> t[l]]
             /\ \A l \in Levels : /\ t[l] \in [Nodes(l) -> [BucketSlots -> AnySlot]]
                                  /\ l # level => t[l] = tree[l]
             /\ \A i \in Depths(level) : t[level][Node(level, f, i)] = p[i]
             /\ \A n \in Nodes(level) : (\A i \in Depths(level) : n # Node(level, f, i))
                                          => t[level][n] = tree[level][n]
<1> DEFINE On(n) == \E i \in Depths(level) : n = Node(level, f, i)
           At(n) == CHOOSE i \in Depths(level) : n = Node(level, f, i)
           u == [n \in Nodes(level) |-> IF On(n) THEN p[At(n)] ELSE tree[level][n]]
           t == WritePath(f, p)
<1>1. t = [tree EXCEPT ![level] = u]
  BY DEF WritePath
<1>2. \A n : On(n) => At(n) \in Depths(level) /\ n = Node(level, f, At(n))
  OBVIOUS
<1>3. \A i \in Depths(level) : On(Node(level, f, i)) /\ At(Node(level, f, i)) = i
  <2> TAKE i \in Depths(level)
  <2>1. On(Node(level, f, i))
    OBVIOUS
  <2>2. /\ At(Node(level, f, i)) \in Depths(level)
        /\ Node(level, f, i) = Node(level, f, At(Node(level, f, i)))
    BY <1>2, <2>1
  <2> HIDE DEF At
  <2> QED BY <2>1, <2>2, PathNodesDiffer
<1> HIDE DEF On, At
<1>4. tree[level] \in [Nodes(level) -> [BucketSlots -> AnySlot]]
      /\ tree = [l \in Levels |-> tree[l]]
      /\ \A l \in Levels : tree[l] \in [Nodes(l) -> [BucketSlots -> AnySlot]]
  BY DEF StoreKinds
<1>5. u \in [Nodes(level) -> [BucketSlots -> AnySlot]]
  BY <1>2, <1>4
<1>6. \A i \in Depths(level) : u[Node(level, f, i)] = p[i]
  BY <1>3, NodeOnPath
<1>7. \A n \in Nodes(level) : ~On(n) => u[n] = tree[level][n]
  OBVIOUS
<1> HIDE DEF u, t
<1>8. t[level] = u /\ (\A l \in Levels : l # level => t[l] = tree[l])
      /\ t = [l \in Levels |-> t[l]]
  BY <1>1, <1>4
<1>9. \A l \in Levels : t[l] \in [Nodes(l) -> [BucketSlots -> AnySlot]]
  BY <1>4, <1>5, <1>8
<1>10. \A n \in Nodes(level) : (\A i \in Depths(level) : n # Node(level, f, i)) => ~On(n)
  BY DEF On
<1> QED BY <1>6, <1>7, <1>8, <1>9, <1>10 DEF t

(* The kinds of what a fetch handles. *)
LEMMA FetchedKinds ==
  ASSUME Kinds, NEW f \in Leaves(level)
  PROVE  /\ Fetched(ReadPath(f)) \in AnySlot
         /\ \A i \in Depths(level) : Removed(ReadPath(f))[i] \in [BucketSlots -> AnySlot]
<1> DEFINE p == ReadPath(f)
           b == ids[level]
           found == { i \in Depths(level) : SlotsOf(b, p[i]) # {} }
<1>1. level \in Levels /\ STASH_SIZE \in Nat /\ Z \in Nat /\ D_level[level] \in Nat
  BY LevelsAssumption DEF Kinds, RequestKinds
<1>2. /\ \A i \in Depths(level) : p[i] \in [BucketSlots -> AnySlot]
      /\ stash[level] \in [StashSlots -> AnySlot]
  BY <1>1, PathOfTree DEF Kinds, StoreKinds
<1> HIDE DEF p
<1>3. ASSUME NEW d \in Nat, NEW g \in [1 .. d -> AnySlot], SlotsOf(b, g) # {}
      PROVE  g[Max(SlotsOf(b, g))] \in AnySlot
  <2>1. SlotsOf(b, g) \in SUBSET (0 .. d) /\ SlotsOf(b, g) \subseteq 1 .. d
    BY DEF SlotsOf
  <2>2. Max(SlotsOf(b, g)) \in 1 .. d
    BY <1>3, <2>1, GreatestOf
  <2> QED BY <2>2
<1>4. SlotsOf(b, stash[level]) # {} => stash[level][Max(SlotsOf(b, stash[level]))] \in AnySlot
  BY <1>1, <1>2, <1>3 DEF StashSlots
<1>5. found # {} => p[Max(found)][Max(SlotsOf(b, p[Max(found)]))] \in AnySlot
  <2> SUFFICES ASSUME found # {} PROVE p[Max(found)][Max(SlotsOf(b, p[Max(found)]))] \in AnySlot
    OBVIOUS
  <2>1. found \in SUBSET (0 .. D_level[level])
    BY DEF Depths
  <2>2. Max(found) \in found
    BY <1>1, <2>1, GreatestOf
  <2>3. SlotsOf(b, p[Max(found)]) # {} /\ p[Max(found)] \in [1 .. Z -> AnySlot]
    BY <1>2, <2>2 DEF BucketSlots
  <2> QED BY <1>1, <1>3, <2>3
<1>6. serialized_result_block \in AnySlot
  BY DEF Kinds, StoreKinds
<1>7. Fetched(p) = CASE SlotsOf(b, stash[level]) # {} ->
                          stash[level][Max(SlotsOf(b, stash[level]))]
                     [] SlotsOf(b, stash[level]) = {} /\ found # {} ->
                          p[Max(found)][Max(SlotsOf(b, p[Max(found)]))]
                     [] OTHER -> serialized_result_block
  BY DEF Fetched
<1>8. Fetched(p) \in AnySlot
  <2> HIDE DEF found, b
  <2> QED BY <1>4, <1>5, <1>6, <1>7
<1>9. \A i \in Depths(level) : Removed(p)[i] \in [BucketSlots -> AnySlot]
  BY <1>2, SlotsAreAny DEF Removed
<1> QED BY <1>8, <1>9 DEF p

(* Insertion changes at most one slot of the stash. *)
LEMMA InsertedKinds ==
  ASSUME NEW b \in AnySlot, NEW slots \in [StashSlots -> AnySlot]
  PROVE  pass_insert(b, slots) \in [StashSlots -> AnySlot]
<1> DEFINE free == { k \in StashSlots : isBlockDummy(slots[k]) }
<1>1. free # {} => Min(free) \in StashSlots
  <2>1. free \in SUBSET Nat
    BY LevelsAssumption DEF StashSlots
  <2> SUFFICES ASSUME free # {} PROVE Min(free) \in StashSlots
    OBVIOUS
  <2>2. Min(free) \in free
    BY <2>1, LeastOf
  <2> QED BY <2>2
<1>2. pass_insert(b, slots) = IF isBlockDummy(b) \/ free = {} THEN slots
                              ELSE [slots EXCEPT ![Min(free)] = b]
  BY DEF pass_insert
<1> HIDE DEF free
<1> QED BY <1>1, <1>2

-----------------------------------------------------------------------------
(* The inductive invariant: kinds, the plan, and blocks on their paths;    *)
(* what is in buckets that were never built is on no path.                 *)
IInv == Kinds /\ Planned /\ (isLSinit => OnPath)

(* The build leaves blocks in the leaf of their label, and empty stashes.  *)
LEMMA InitIInv == Init => IInv
<1> SUFFICES ASSUME Init PROVE IInv
  OBVIOUS
<1>1. \A l \in Levels : BuildTree(l) \in [Nodes(l) -> [BucketSlots -> Slot(l)]]
  BY BuildTreeType
<1>2. \A l \in Levels : tree[l] = BuildTree(l)
  BY DEF Init
<1>3. StoreKinds
  <2>1. posmap \in [Ids(1) -> Leaves(1)]
    BY Ranges, BuiltInOneLeaf DEF Init
  <2>2. tree = [l \in Levels |-> tree[l]] /\ stash = [l \in Levels |-> stash[l]]
    BY DEF Init
  <2>3. \A l \in Levels : tree[l] \in [Nodes(l) -> [BucketSlots -> AnySlot]]
    <3> TAKE l \in Levels
    <3>1. Slot(l) \subseteq AnySlot
      BY SlotsAreAny
    <3> HIDE DEF Init
    <3>2. BuildTree(l) \in [Nodes(l) -> [BucketSlots -> AnySlot]]
      BY <1>1, <3>1
    <3> QED BY <1>2, <3>2
  <2>4. \A l \in Levels : stash[l] \in [StashSlots -> AnySlot]
    BY SlotsAreAny DEF Init
  <2>5. discard_block \in [Levels -> [StashSlots -> BOOLEAN]]
    BY DataAssumption DEF Init
  <2>6. serialized_result_block \in AnySlot
    BY SlotsAreAny DEF Init
  <2> QED BY <2>1, <2>2, <2>3, <2>4, <2>5, <2>6 DEF StoreKinds
<1>4. RequestKinds
  BY Ranges DEF Init, RequestKinds, Phases, Contents
<1>5. LabelKinds /\ EvictionKinds /\ Planned
  BY DEF Init, LabelKinds, EvictionKinds, Planned, Fetching
<1>6. isLSinit => OnPath
  <2> SUFFICES ASSUME isLSinit,
                      NEW l \in Levels, NEW n \in Nodes(l), NEW s \in BucketSlots,
                      ~isBlockDummy(tree[l][n][s])
               PROVE  \E i \in Depths(l) : n = Node(l, tree[l][n][s].label, i)
    BY DEF OnPath
  <2> DEFINE v == BuildTree(l)[n][s]
  <2>1. v \in Slot(l) /\ tree[l][n][s] = v
    BY <1>1, <1>2
  <2>2. CASE \E f \in Leaves(l) : n = Node(l, f, 0)
    <3>1. PICK f \in Leaves(l) : n = Node(l, f, 0)
      BY <2>2
    <3>2. v = BuildBucket(l, f)[s]
      BY <3>1, LeafBucket
    <3>3. v.label = f
      <4>1. ~isBlockDummy(v)
        BY <2>1
      <4> HIDE DEF v
      <4>2. v = Dummy \/ v.label = f
        BY <3>2 DEF BuildBucket
      <4> QED BY <4>1, <4>2, SlotById
    <3> QED BY <2>1, <3>1, <3>3, Ranges
  <2>3. CASE ~\E f \in Leaves(l) : n = Node(l, f, 0)
    <3>1. v = UpperBucket(l)[s]
      BY <2>3 DEF BuildTree
    <3> QED BY <2>1, <3>1, SlotById DEF UpperBucket
  <2> QED BY <2>2, <2>3
<1> QED BY <1>3, <1>4, <1>5, <1>6 DEF IInv, Kinds

(* Steps that leave the trees alone leave blocks on their paths. *)
LEMMA PathsKept ==
  ASSUME OnPath, UNCHANGED tree
  PROVE  OnPath'
BY DEF OnPath

(* What the plan's first half says rests on the stash and the level.       *)
LEMMA DeepestNow ==
  ASSUME UNCHANGED <<stash, level>>, NEW p, NEW f, NEW deep, NEW pos,
         DeepestIs(p, f, deep, pos),
         eviction_path' = p, evicted' = f, deepest' = deep, deepest_position' = pos
  PROVE  DeepestIs(eviction_path, evicted, deepest, deepest_position)'
<1>1. \A q, k : Deep(eviction_path, evicted, q, k)' = Deep(p, f, q, k)
  BY DEF Deep, Reach, CommonBelow, SlotsAt
<1> QED BY <1>1 DEF DeepestIs, SlotNumbers

(* Steps that neither plan nor carry out an eviction nor fetch. *)
LEMMA RequestStep ==
  ASSUME IInv, Request
  PROVE  IInv'
<1>1. PICK id \in ClientIds, op \in {"r", "z", "w"}, val \in Values \cup {Unset} :
        /\ Access_temp(op, id, val)
        /\ op = "w" => val \in Values
  BY DEF Request
<1>2. id \in Ids(recursion_levels) /\ recursion_levels \in Levels
  BY DataAssumption, Ranges
<1>3. phase' = "descend" /\ phase = "idle"
  BY <1>1 DEF Access_temp
<1>4. StoreKinds'
  BY <1>1 DEF Access_temp, IInv, Kinds, StoreKinds
<1>5. RequestKinds'
  <2>1. ids = [l \in Levels |-> ids[l]] /\ \A l \in Levels : ids[l] \in Ids(l)
    BY DEF IInv, Kinds, RequestKinds
  <2>2. ids' = [ids EXCEPT ![recursion_levels] = id]
    BY <1>1 DEF Access_temp
  <2>3. ids' = [l \in Levels |-> ids'[l]] /\ \A l \in Levels : ids'[l] \in Ids(l)
    BY <1>2, <2>1, <2>2
  <2>4. /\ level' = recursion_levels /\ data_out' = Unset
        /\ req' = [op |-> op, id |-> id, val |-> val]
    BY <1>1 DEF Access_temp
  <2> QED BY <1>1, <1>2, <1>3, <2>3, <2>4 DEF RequestKinds, Phases, Contents
<1>6. LabelKinds' /\ EvictionKinds' /\ Planned'
  BY <1>1, <1>3 DEF Access_temp, IInv, Kinds, LabelKinds, EvictionKinds, Planned,
                    Fetching, eviction
<1>7. isLSinit => OnPath'
  BY <1>1, PathsKept DEF Access_temp, IInv
<1> QED BY <1>4, <1>5, <1>6, <1>7 DEF IInv, Kinds

(* The block that holds a label exists. *)
LEMMA DescendStep ==
  ASSUME IInv, Descend
  PROVE  IInv'
<1>1. phase' = phase /\ phase = "descend" /\ level' = level - 1 /\ level \in Levels /\ level > 1
  BY DEF Descend, IInv, Kinds, RequestKinds
<1>2. level - 1 \in Levels
  BY <1>1, Ranges
<1>3. StoreKinds'
  BY DEF Descend, IInv, Kinds, StoreKinds
<1>4. RequestKinds'
  <2>1. ids = [l \in Levels |-> ids[l]] /\ \A l \in Levels : ids[l] \in Ids(l)
    BY DEF IInv, Kinds, RequestKinds
  <2>2. ids' = [ids EXCEPT ![level - 1] = ids[level] \div x]
    BY DEF Descend
  <2>3. ids[level] \div x \in Ids(level - 1)
    BY <1>1, <2>1, EntryHolder
  <2>4. ids' = [l \in Levels |-> ids'[l]] /\ \A l \in Levels : ids'[l] \in Ids(l)
    BY <1>2, <2>1, <2>2, <2>3
  <2> QED BY <1>1, <1>2, <2>4 DEF RequestKinds, Descend, IInv, Kinds
<1>5. LabelKinds' /\ EvictionKinds' /\ Planned'
  BY <1>1 DEF Descend, IInv, Kinds, LabelKinds, EvictionKinds, Planned, Fetching, eviction
<1>6. isLSinit => OnPath'
  BY PathsKept DEF Descend, IInv
<1> QED BY <1>3, <1>4, <1>5, <1>6 DEF IInv, Kinds

(* Labels in the position map are leaves of the first tree. *)
LEMMA LookupStep ==
  ASSUME IInv, LookupPosmap
  PROVE  IInv'
<1>1. PICK f \in Leaves(1) : newleaf' = f /\ posmap' = [posmap EXCEPT ![ids[1]] = f]
  BY DEF LookupPosmap
<1>2. /\ level = 1 /\ level' = 1 /\ phase' = "fetch" /\ phase = "descend"
      /\ leaf' = posmap[ids[1]] /\ 1 \in Levels
  BY Ranges DEF LookupPosmap
<1>3. posmap \in [Ids(1) -> Leaves(1)] /\ ids[1] \in Ids(1)
  BY <1>2 DEF IInv, Kinds, StoreKinds, RequestKinds
<1>4. StoreKinds'
  <2>1. posmap' \in [Ids(1) -> Leaves(1)]
    BY <1>1, <1>3
  <2> QED BY <2>1 DEF LookupPosmap, IInv, Kinds, StoreKinds
<1>5. RequestKinds'
  BY <1>2 DEF LookupPosmap, IInv, Kinds, RequestKinds, Phases
<1>6. LabelKinds' /\ EvictionKinds' /\ Planned'
  BY <1>1, <1>2, <1>3 DEF LookupPosmap, IInv, Kinds, LabelKinds, EvictionKinds, Planned,
                          Fetching, eviction
<1>7. isLSinit => OnPath'
  BY PathsKept DEF LookupPosmap, IInv
<1> QED BY <1>4, <1>5, <1>6, <1>7 DEF IInv, Kinds

(* Clearing leaves dummies. *)
LEMMA ClearStep ==
  ASSUME IInv, clear
  PROVE  IInv'
<1>1. /\ phase = "clear" /\ phase' = "return" /\ level \in Levels /\ level' = level
      /\ side' = side /\ evicted' = evicted
  BY DEF clear, IInv, Kinds, RequestKinds, eviction
<1>2. StoreKinds'
  <2> DEFINE d == discard_block[level]
  <2>1. stash = [l \in Levels |-> stash[l]] /\ \A l \in Levels : stash[l] \in [StashSlots -> AnySlot]
    BY DEF IInv, Kinds, StoreKinds
  <2>2. stash' = [stash EXCEPT ![level] = [k \in StashSlots |-> IF d[k] THEN Dummy ELSE @[k]]]
    BY DEF clear
  <2> HIDE DEF d
  <2>3. [k \in StashSlots |-> IF d[k] THEN Dummy ELSE stash[level][k]] \in [StashSlots -> AnySlot]
    BY <1>1, <2>1, SlotsAreAny
  <2>4. /\ stash' = [l \in Levels |-> stash'[l]]
        /\ \A l \in Levels : stash'[l] \in [StashSlots -> AnySlot]
    BY <1>1, <2>1, <2>2, <2>3
  <2>5. discard_block' \in [Levels -> [StashSlots -> BOOLEAN]]
    BY <1>1 DEF clear, IInv, Kinds, StoreKinds
  <2> QED BY <2>4, <2>5 DEF clear, IInv, Kinds, StoreKinds
<1>3. RequestKinds'
  BY <1>1 DEF clear, IInv, Kinds, RequestKinds, Phases
<1>4. LabelKinds' /\ EvictionKinds' /\ Planned'
  BY <1>1 DEF clear, IInv, Kinds, LabelKinds, EvictionKinds, Planned, Fetching, eviction, labels
<1>5. isLSinit => OnPath'
  BY PathsKept DEF clear, IInv
<1> QED BY <1>2, <1>3, <1>4, <1>5 DEF IInv, Kinds

(* The next access starts with a leaf of its tree, or not at all. *)
LEMMA NextLevelStep ==
  ASSUME IInv, NextLevel
  PROVE  IInv'
<1>1. /\ phase = "return" /\ level \in Levels /\ level < recursion_levels
      /\ level + 1 \in Levels
      /\ return_value \in Leaves(level + 1) \cup {None}
      /\ newleaf_nextlevel \in Leaves(level + 1)
  BY Ranges DEF NextLevel, IInv, Kinds, RequestKinds, LabelKinds, Fetching
<1>2. /\ leaf' = return_value /\ newleaf' = newleaf_nextlevel
      /\ \/ return_value = None /\ phase' = "crashed" /\ level' = level
         \/ return_value # None /\ phase' = "fetch" /\ level' = level + 1
  BY DEF NextLevel
<1>3. StoreKinds'
  BY DEF NextLevel, IInv, Kinds, StoreKinds
<1>4. RequestKinds'
  BY <1>1, <1>2 DEF NextLevel, IInv, Kinds, RequestKinds, Phases
<1>5. LabelKinds' /\ EvictionKinds' /\ Planned'
  BY <1>1, <1>2 DEF NextLevel, IInv, Kinds, LabelKinds, EvictionKinds, Planned, Fetching,
                    eviction
<1>6. isLSinit => OnPath'
  BY PathsKept DEF NextLevel, IInv
<1> QED BY <1>3, <1>4, <1>5, <1>6 DEF IInv, Kinds

(* The end of a request. *)
LEMMA ReturnStep ==
  ASSUME IInv, Return
  PROVE  IInv'
<1>1. phase = "return" /\ phase' = "idle"
  BY DEF Return
<1>2. StoreKinds'
  BY DEF Return, IInv, Kinds, StoreKinds
<1>3. RequestKinds'
  BY <1>1 DEF Return, IInv, Kinds, RequestKinds, Phases
<1>4. LabelKinds' /\ EvictionKinds' /\ Planned'
  BY <1>1 DEF Return, IInv, Kinds, LabelKinds, EvictionKinds, Planned, Fetching, eviction
<1>5. isLSinit => OnPath'
  BY PathsKept DEF Return, IInv
<1> QED BY <1>2, <1>3, <1>4, <1>5 DEF IInv, Kinds

(* A step that changes no variable. *)
LEMMA StutterStep ==
  ASSUME IInv, UNCHANGED vars
  PROVE  IInv'
<1>1. StoreKinds' /\ RequestKinds'
  BY DEF vars, IInv, Kinds, StoreKinds, RequestKinds
<1>2. LabelKinds'
  BY DEF vars, IInv, Kinds, LabelKinds
<1>3. EvictionKinds'
  BY DEF vars, IInv, Kinds, EvictionKinds, ReadPath
<1>4. Planned'
  <2>1. ASSUME phase' \in {"target", "evict"}
        PROVE  DeepestIs(eviction_path, evicted, deepest, deepest_position)'
    <3>1. DeepestIs(eviction_path, evicted, deepest, deepest_position)
      BY <2>1 DEF vars, IInv, Planned
    <3> QED BY <3>1, DeepestNow DEF vars, eviction, plan
  <2>2. ASSUME phase' = "evict"
        PROVE  (/\ target \in [PathPositions -> {None} \cup PathPositions]
                /\ PlanIs(target, target_position))'
    <3>1. /\ target \in [PathPositions -> {None} \cup PathPositions]
          /\ PlanIs(target, target_position)
      BY <2>2 DEF vars, IInv, Planned
    <3> QED BY <3>1 DEF vars, eviction, plan, PlanIs, MoveFits, EmptySlots, SlotsAt, PathPositions
  <2> QED BY <2>1, <2>2 DEF Planned
<1>5. isLSinit => OnPath'
  BY PathsKept DEF vars, IInv
<1> QED BY <1>1, <1>2, <1>3, <1>4, <1>5 DEF IInv, Kinds

(* What a fetch does to the trees: it can only take blocks out of them.    *)
LEMMA FetchTree ==
  ASSUME IInv, phase = "fetch",
         tree' = IF req.op = "w" THEN WritePath(leaf, Removed(ReadPath(leaf))) ELSE tree
  PROVE  /\ tree' = [l \in Levels |-> tree'[l]]
         /\ \A l \in Levels : tree'[l] \in [Nodes(l) -> [BucketSlots -> AnySlot]]
         /\ isLSinit => OnPath'
<1>1. /\ tree = [l \in Levels |-> tree[l]]
      /\ \A l \in Levels : tree[l] \in [Nodes(l) -> [BucketSlots -> AnySlot]]
      /\ level \in Levels /\ leaf \in Leaves(level)
      /\ isLSinit => OnPath
  BY DEF IInv, Kinds, StoreKinds, RequestKinds, LabelKinds
<1>2. CASE req.op # "w"
  BY <1>1, <1>2, PathsKept
<1>3. CASE req.op = "w"
  <2> DEFINE p == ReadPath(leaf)
             t == WritePath(leaf, Removed(p))
  <2>1. tree' = t
    BY <1>3
  <2>2. \A i \in Depths(level) : /\ p[i] = tree[level][Node(level, leaf, i)]
                                 /\ Removed(p)[i] \in [BucketSlots -> AnySlot]
    BY <1>1, FetchedKinds, PathOfTree DEF IInv, Kinds
  <2>3. /\ t = [l \in Levels |-> t[l]]
        /\ \A l \in Levels : /\ t[l] \in [Nodes(l) -> [BucketSlots -> AnySlot]]
                             /\ l # level => t[l] = tree[l]
        /\ \A i \in Depths(level) : t[level][Node(level, leaf, i)] = Removed(p)[i]
        /\ \A n \in Nodes(level) : (\A i \in Depths(level) : n # Node(level, leaf, i))
                                     => t[level][n] = tree[level][n]
    <3> HIDE DEF p
    <3> QED BY <1>1, <2>2, PathWritten DEF IInv, Kinds
  <2>4. \A i \in Depths(level), s \in BucketSlots :
          \/ isBlockDummy(Removed(p)[i][s])
          \/ Removed(p)[i][s] = tree[level][Node(level, leaf, i)][s]
    BY <2>2, SlotsAreAny DEF Removed, isBlockDummy, Dummy
  <2> HIDE DEF p, t
  <2>5. ASSUME NEW l \in Levels, NEW n \in Nodes(l), NEW s \in BucketSlots
        PROVE  isBlockDummy(t[l][n][s]) \/ t[l][n][s] = tree[l][n][s]
    <3>1. CASE l # level
      BY <2>3, <3>1
    <3>2. CASE l = level /\ \E i \in Depths(level) : n = Node(level, leaf, i)
      BY <2>3, <2>4, <3>2
    <3>3. CASE l = level /\ ~\E i \in Depths(level) : n = Node(level, leaf, i)
      BY <2>3, <3>3
    <3> QED BY <3>1, <3>2, <3>3
  <2>6. ASSUME OnPath PROVE OnPath'
    <3> SUFFICES ASSUME NEW l \in Levels, NEW n \in Nodes(l), NEW s \in BucketSlots,
                        ~isBlockDummy(t[l][n][s])
                 PROVE  \E i \in Depths(l) : n = Node(l, t[l][n][s].label, i)
      BY <2>1 DEF OnPath
    <3>1. t[l][n][s] = tree[l][n][s]
      BY <2>5
    <3>2. ~isBlockDummy(tree[l][n][s])
      BY <3>1
    <3>3. \E i \in Depths(l) : n = Node(l, tree[l][n][s].label, i)
      BY <2>6, <3>2 DEF OnPath
    <3> QED BY <3>1, <3>3
  <2> QED BY <1>1, <2>1, <2>3, <2>6
<1> QED BY <1>2, <1>3

(* What is left of the kinds, once the slots are known to have them.       *)
LEMMA FetchStep ==
  ASSUME IInv, phase = "fetch", phase' = AfterFetch,
         tree' = IF req.op = "w" THEN WritePath(leaf, Removed(ReadPath(leaf))) ELSE tree,
         NEW s \in [StashSlots -> AnySlot], stash' = [stash EXCEPT ![level] = s],
         serialized_result_block' \in AnySlot, data_out' \in Contents,
         level < recursion_levels =>
           /\ return_value' \in Leaves(level + 1) \cup {None}
           /\ newleaf_nextlevel' \in Leaves(level + 1),
         UNCHANGED <<posmap, discard_block, req, ids, level, leaf, newleaf, eviction>>
  PROVE  IInv'
<1>1. phase' \in {"plan", "clear", "return"} /\ side = "left" /\ side' = side
      /\ level \in Levels /\ newleaf \in Leaves(level)
  BY DEF AfterFetch, IInv, Kinds, EvictionKinds, RequestKinds, LabelKinds, eviction
<1>2. StoreKinds'
  <2>1. /\ stash' = [l \in Levels |-> stash'[l]]
        /\ \A l \in Levels : stash'[l] \in [StashSlots -> AnySlot]
    BY <1>1 DEF IInv, Kinds, StoreKinds
  <2>2. /\ tree' = [l \in Levels |-> tree'[l]]
        /\ \A l \in Levels : tree'[l] \in [Nodes(l) -> [BucketSlots -> AnySlot]]
    BY FetchTree
  <2>3. posmap' \in [Ids(1) -> Leaves(1)]
        /\ discard_block' \in [Levels -> [StashSlots -> BOOLEAN]]
    BY DEF IInv, Kinds, StoreKinds
  <2> QED BY <2>1, <2>2, <2>3 DEF StoreKinds
<1>3. RequestKinds'
  BY <1>1 DEF IInv, Kinds, RequestKinds, Phases
<1>4. LabelKinds' /\ EvictionKinds' /\ Planned'
  BY <1>1 DEF IInv, Kinds, LabelKinds, EvictionKinds, Planned, Fetching
<1>5. isLSinit => OnPath'
  BY FetchTree
<1> QED BY <1>2, <1>3, <1>4, <1>5 DEF IInv, Kinds

(* The fetched block gets a new entry, whatever it holds. *)
LEMMA FetchEntryStep ==
  ASSUME IInv, FetchEntry
  PROVE  IInv'
<1> DEFINE p == ReadPath(leaf)
           e == ids[level + 1] % x
           b == Fetched(p)
<1>1. /\ phase = "fetch" /\ level \in Levels /\ level + 1 \in Levels \ {1}
      /\ leaf \in Leaves(level) /\ newleaf \in Leaves(level)
      /\ ids[level + 1] \in Ids(level + 1) /\ data_out \in Contents
      /\ stash[level] \in [StashSlots -> AnySlot]
  <2>1. phase = "fetch" /\ level \in Levels /\ level < recursion_levels
    BY DEF FetchEntry, IInv, Kinds, RequestKinds
  <2>2. level + 1 \in Levels \ {1}
    BY <2>1, Ranges DEF Levels
  <2> QED BY <2>1, <2>2 DEF IInv, Kinds, StoreKinds, RequestKinds, LabelKinds
<1>2. PICK f \in Leaves(level + 1) :
        LET r == Labelled([b EXCEPT !.data = [Entries(@) EXCEPT ![e] = f]])
        IN  /\ newleaf_nextlevel' = f
            /\ return_value' \in EntryRead(b.data, e)
            /\ serialized_result_block' = r
            /\ tree' = IF req.op = "w" THEN WritePath(leaf, Removed(p)) ELSE tree
            /\ stash' = [stash EXCEPT ![level] = pass_insert(r, @)]
  BY DEF FetchEntry
<1>3. b \in AnySlot
  BY <1>1, FetchedKinds DEF IInv
<1> DEFINE c == [Entries(b.data) EXCEPT ![e] = f]
           r == Labelled([b EXCEPT !.data = c])
<1>4. e \in Positions
  BY <1>1, EntryPosition
<1> HIDE DEF b, e, p
<1>5. c \in Contents
  <2> DEFINE L == {None} \cup UNION { Leaves(l) : l \in Levels \ {1} }
  <2>1. b.data \in Values \cup {Unset} \cup [Positions -> L]
    BY <1>1, <1>3, SlotsChange DEF Contents
  <2>2. f \in L /\ None \in L
    BY <1>1
  <2> HIDE DEF L
  <2>3. Entries(b.data) \in [Positions -> L]
    <3>1. CASE b.data \in Maps
      <4>1. b.data \notin Values \cup {Unset}
        BY <3>1, EvictionAssumption DEF Maps
      <4> QED BY <2>1, <3>1, <4>1 DEF Entries
    <3>2. CASE b.data \notin Maps
      BY <2>2, <3>2 DEF Entries
    <3> QED BY <3>1, <3>2
  <2>4. c \in [Positions -> L]
    BY <2>2, <2>3
  <2> QED BY <2>4 DEF Contents, L
<1> HIDE DEF c
<1>6. r \in AnySlot
  <2>1. [b EXCEPT !.data = c] \in AnySlot
    BY <1>1, <1>3, <1>5, SlotsChange
  <2> QED BY <1>1, <1>5, <2>1, SlotsChange DEF Labelled
<1>7. pass_insert(r, stash[level]) \in [StashSlots -> AnySlot]
  <2> HIDE DEF r
  <2> QED BY <1>1, <1>6, InsertedKinds
<1>8. /\ newleaf_nextlevel' = f /\ return_value' \in EntryRead(b.data, e)
      /\ serialized_result_block' = r
      /\ tree' = IF req.op = "w" THEN WritePath(leaf, Removed(p)) ELSE tree
      /\ stash' = [stash EXCEPT ![level] = pass_insert(r, stash[level])]
  BY <1>2 DEF c
<1>9. return_value' \in Leaves(level + 1) \cup {None}
  BY <1>8 DEF EntryRead
<1>10. /\ phase' = AfterFetch /\ data_out' \in Contents
       /\ UNCHANGED <<posmap, discard_block, req, ids, level, leaf, newleaf, eviction>>
  BY <1>1 DEF FetchEntry
<1> HIDE DEF r
<1> QED BY <1>1, <1>6, <1>7, <1>8, <1>9, <1>10, FetchStep DEF p

(* The requested block is fetched, and every copy in the stash accessed.   *)
LEMMA FetchDataStep ==
  ASSUME IInv, FetchData
  PROVE  IInv'
<1> DEFINE p == ReadPath(leaf)
           r == Labelled(Fetched(p))
           s == pass_insert(r, stash[level])
<1>1. /\ phase = "fetch" /\ level = recursion_levels /\ level \in Levels
      /\ leaf \in Leaves(level) /\ newleaf \in Leaves(level)
      /\ data_out \in Contents
      /\ stash[level] \in [StashSlots -> AnySlot]
      /\ req.op = "w" => req.val \in Contents
  BY DEF FetchData, IInv, Kinds, StoreKinds, RequestKinds, LabelKinds, Contents
<1>2. /\ serialized_result_block' = r
      /\ tree' = IF req.op = "w" THEN WritePath(leaf, Removed(p)) ELSE tree
      /\ stash' = [stash EXCEPT ![level] = Accessed(s)]
      /\ data_out' = IF req.op # "w" /\ SlotsOf(req.id, s) # {}
                     THEN s[Max(SlotsOf(req.id, s))].data ELSE data_out
      /\ phase' = AfterFetch
      /\ UNCHANGED <<posmap, discard_block, req, ids, level, leaf, newleaf, eviction>>
  BY DEF FetchData, labels
<1>3. r \in AnySlot
  <2> DEFINE b == Fetched(p)
  <2>1. b \in AnySlot
    BY <1>1, FetchedKinds DEF IInv
  <2> HIDE DEF b
  <2>2. Dummy.data \in Contents
    BY DEF Dummy, Contents
  <2>3. Labelled(b) \in AnySlot
    BY <1>1, <2>1, <2>2, SlotsChange DEF Labelled
  <2> QED BY <2>3 DEF b
<1> HIDE DEF r, p
<1>4. s \in [StashSlots -> AnySlot]
  BY <1>1, <1>3, InsertedKinds
<1> HIDE DEF s
<1>5. Accessed(s) \in [StashSlots -> AnySlot]
  <2>1. ASSUME NEW k \in StashSlots PROVE Accessed(s)[k] \in AnySlot
    <3>1. s[k] \in AnySlot /\ s[k].data \in Contents
      <4>1. s[k] \in AnySlot
        BY <1>4
      <4> QED BY <4>1 DEF AnySlot
    <3>2. (IF req.op = "w" THEN req.val ELSE s[k].data) \in Contents
      BY <1>1, <3>1
    <3>3. [s[k] EXCEPT !.label = newleaf,
                       !.data = IF req.op = "w" THEN req.val ELSE s[k].data] \in AnySlot
      BY <1>1, <3>1, <3>2, SlotsChange
    <3> QED BY <3>1, <3>3 DEF Accessed
  <2> QED BY <2>1 DEF Accessed
<1>6. data_out' \in Contents
  <2>1. CASE req.op # "w" /\ SlotsOf(req.id, s) # {}
    <3>1. SlotsOf(req.id, s) \in SUBSET (0 .. STASH_SIZE) /\ STASH_SIZE \in Nat
          /\ SlotsOf(req.id, s) \subseteq StashSlots
      BY <1>4, LevelsAssumption DEF SlotsOf, StashSlots
    <3>2. Max(SlotsOf(req.id, s)) \in StashSlots
      BY <2>1, <3>1, GreatestOf
    <3>3. s[Max(SlotsOf(req.id, s))] \in AnySlot
      BY <1>4, <3>2
    <3> QED BY <1>2, <2>1, <3>3 DEF AnySlot
  <2>2. CASE ~(req.op # "w" /\ SlotsOf(req.id, s) # {})
    BY <1>1, <1>2, <2>2
  <2> QED BY <2>1, <2>2
<1>7. ~(level < recursion_levels)
  BY <1>1, LevelsAssumption
<1> QED BY <1>1, <1>2, <1>3, <1>5, <1>6, <1>7, FetchStep DEF p

-----------------------------------------------------------------------------
(* The left eviction path is in the left half of the tree, the right one   *)
(* as far into the right half.                                             *)
LEMMA EvictionPaths ==
  ASSUME Kinds, phase = "plan", NEW f \in EvictionLeaves
  PROVE  f \in Leaves(level) /\ (side = "left" => f < Half(level))
<1>1. level \in Levels /\ N_level[level] \in Nat
  BY LevelsAssumption DEF Kinds, RequestKinds
<1>2. CASE side = "left"
  BY <1>2 DEF EvictionLeaves, Half
<1>3. CASE side = "right"
  <2>1. f = evicted + Half(level) /\ evicted \in 0 .. Half(level) - 1
    BY <1>3 DEF EvictionLeaves, Half, Kinds, EvictionKinds
  <2>2. Half(level) + Half(level) <= N_level[level] /\ Half(level) \in Nat
    BY <1>1 DEF Half
  <2> QED BY <1>1, <1>3, <2>1, <2>2 DEF Leaves
<1> QED BY <1>2, <1>3 DEF Kinds, EvictionKinds

(* The first half of the plan is made, and is right. *)
LEMMA PrepareDeepestStep ==
  ASSUME IInv, prepare_deepest
  PROVE  IInv'
<1>1. PICK f \in EvictionLeaves :
        /\ evicted' = f /\ eviction_path' = ReadPath(f)
        /\ deepest' = [i \in PathPositions |-> DeepestScan(ReadPath(f), f)[i].deepest]
        /\ deepest_position' =
             [i \in PathPositions |-> DeepestScan(ReadPath(f), f)[i].deepest_position]
  BY DEF prepare_deepest
<1>2. /\ phase = "plan" /\ phase' = "target" /\ level \in Levels
      /\ UNCHANGED <<posmap, tree, stash, discard_block, serialized_result_block,
                     req, ids, level, labels, data_out, side>>
  BY DEF prepare_deepest, IInv, Kinds, RequestKinds
<1>3. f \in Leaves(level) /\ (side = "left" => f < Half(level))
  BY <1>2, EvictionPaths DEF IInv
<1>4. PathTyped(ReadPath(f))
  BY <1>2, <1>3, PathOfTree DEF IInv, Kinds
<1>5. DeepestIs(ReadPath(f), f, deepest', deepest_position')
  BY <1>1, <1>2, <1>4, ScanIsRight
<1>6. DeepestIs(eviction_path, evicted, deepest, deepest_position)'
  BY <1>1, <1>2, <1>5, DeepestNow
<1>7. StoreKinds' /\ RequestKinds'
  BY <1>2 DEF IInv, Kinds, StoreKinds, RequestKinds, Phases
<1>8. LabelKinds'
  BY <1>2 DEF IInv, Kinds, LabelKinds, labels, Fetching
<1>9. EvictionKinds'
  BY <1>1, <1>2, <1>3 DEF IInv, Kinds, EvictionKinds, ReadPath
<1>10. Planned'
  BY <1>2, <1>6 DEF Planned
<1>11. isLSinit => OnPath'
  BY <1>2, PathsKept DEF IInv
<1> QED BY <1>7, <1>8, <1>9, <1>10, <1>11 DEF IInv, Kinds

(* The second half of the plan is made, and fits the first. *)
LEMMA PrepareTargetStep ==
  ASSUME IInv, prepare_target
  PROVE  IInv'
<1>1. /\ target' = [i \in PathPositions |-> TargetScan[i].target]
      /\ target_position' = [i \in PathPositions |-> TargetScan[i].target_position]
      /\ phase = "target" /\ phase' = "evict" /\ level \in Levels
      /\ UNCHANGED <<posmap, tree, stash, discard_block, serialized_result_block,
                     req, ids, level, labels, data_out, side, evicted,
                     eviction_path, deepest, deepest_position>>
  <2>1. level \in Levels
    <3>1. Kinds
      BY DEF IInv
    <3>2. RequestKinds
      BY <3>1 DEF Kinds
    <3> QED BY <3>2 DEF RequestKinds
  <2> QED BY <2>1 DEF prepare_target
<1>2. DeepestIs(eviction_path, evicted, deepest, deepest_position)
  BY <1>1 DEF IInv, Planned
<1>3. \A j \in 1 .. D_level[level] + 1 : deepest[j] = None \/ deepest[j] \in 0 .. j - 1
  BY <1>2 DEF DeepestIs
<1>4. PlanIs(target', target_position')
  BY <1>1, <1>3, TargetsFit
<1>5. PlanIs(target, target_position)'
  BY <1>1, <1>4 DEF PlanIs, MoveFits, EmptySlots, SlotsAt, PathPositions
<1>6. target' \in [PathPositions -> {None} \cup PathPositions]
  <2>1. \A i \in PathPositions : target'[i] = None \/ MoveFits(i, target', target_position')
    BY <1>4 DEF PlanIs
  <2>2. \A i \in PathPositions : i + 1 .. D_level[level] + 1 \subseteq PathPositions
    BY <1>1, LevelsAssumption DEF PathPositions
  <2>3. \A i \in PathPositions : target'[i] \in {None} \cup PathPositions
    BY <2>1, <2>2 DEF MoveFits
  <2>4. target' = [i \in PathPositions |-> target'[i]]
    BY <1>1
  <2> QED BY <2>3, <2>4
<1>7. Planned'
  <2>1. PathPositions' = PathPositions
    BY <1>1 DEF PathPositions
  <2>2. DeepestIs(eviction_path, evicted, deepest, deepest_position)'
    BY <1>1, <1>2, DeepestNow
  <2>3. (target \in [PathPositions -> {None} \cup PathPositions])'
    BY <1>6, <2>1
  <2> QED BY <1>5, <2>2, <2>3 DEF Planned
<1>8. StoreKinds' /\ RequestKinds'
  BY <1>1 DEF IInv, Kinds, StoreKinds, RequestKinds, Phases
<1>9. LabelKinds'
  BY <1>1 DEF IInv, Kinds, LabelKinds, labels, Fetching
<1>10. EvictionKinds'
  BY <1>1 DEF IInv, Kinds, EvictionKinds, ReadPath
<1>11. isLSinit => OnPath'
  BY <1>1, PathsKept DEF IInv
<1> QED BY <1>7, <1>8, <1>9, <1>10, <1>11 DEF IInv, Kinds

-----------------------------------------------------------------------------
(* The places of a level, in its tree and its stash, and what is in them.  *)
Places(l) ==
  { <<0, n, s>> : n \in Nodes(l), s \in BucketSlots } \cup { <<1, 0, k>> : k \in StashSlots }
ContentAt(t, st, c) == IF c[1] = 0 THEN t[c[2]][c[3]] ELSE st[c[3]]
Where(l, t, st, b) == { c \in Places(l) : ContentAt(t, st, c) = b }

(* Position i of the path that is evicted along, as a place.               *)
PlaceOf(i, k) ==
  IF i = 0 THEN <<1, 0, k>> ELSE <<0, Node(level, evicted, D_level[level] + 1 - i), k>>

(* One place for each slot of each position. *)
LEMMA PlacesApart ==
  ASSUME level \in Levels, evicted \in Leaves(level),
         NEW i \in PathPositions, NEW k \in SlotNumbers(i)
  PROVE  /\ PlaceOf(i, k) \in Places(level)
         /\ i # 0 => D_level[level] + 1 - i \in Depths(level)
         /\ \A j \in PathPositions : \A m \in SlotNumbers(j) :
              PlaceOf(i, k) = PlaceOf(j, m) => i = j /\ k = m
<1> DEFINE D == D_level[level]
<1>1. D \in Nat /\ PathPositions = 0 .. D + 1
  BY LevelsAssumption DEF PathPositions
<1>2. \A j \in PathPositions : j # 0 => D + 1 - j \in Depths(level)
  BY <1>1 DEF Depths
<1>3. PlaceOf(i, k) \in Places(level)
  <2>1. CASE i = 0
    BY <2>1 DEF PlaceOf, Places, SlotNumbers
  <2>2. CASE i # 0
    <3>1. Node(level, evicted, D + 1 - i) \in Nodes(level) /\ k \in BucketSlots
      BY <1>2, <2>2, NodeOnPath DEF SlotNumbers
    <3> QED BY <2>2, <3>1 DEF PlaceOf, Places
  <2> QED BY <2>1, <2>2
<1>4. ASSUME NEW j \in PathPositions, NEW m \in SlotNumbers(j), PlaceOf(i, k) = PlaceOf(j, m)
      PROVE  i = j /\ k = m
  <2>1. k = m /\ (i = 0 <=> j = 0)
    BY <1>4 DEF PlaceOf
  <2>2. CASE i # 0
    <3>1. Node(level, evicted, D + 1 - i) = Node(level, evicted, D + 1 - j)
      BY <1>4, <2>1, <2>2 DEF PlaceOf
    <3>2. D + 1 - i = D + 1 - j
      BY <1>2, <2>1, <2>2, <3>1, PathNodesDiffer
    <3> QED BY <1>1, <2>1, <3>2
  <2> QED BY <2>1, <2>2
<1> QED BY <1>2, <1>3, <1>4

(* What each slot gets is a slot's content. *)
LEMMA NewSlotKind ==
  ASSUME Ready, NEW i \in PathPositions, NEW k \in SlotNumbers(i)
  PROVE  NewSlot(i, k) \in AnySlot
<1>1. Filled(i) => Source(deepest[i]) \in AnySlot
  BY MoveFacts DEF Filled
<1>2. SlotsAt(eviction_path, i)[k] \in AnySlot
  BY DEF Ready, PathTyped
<1> QED BY <1>1, <1>2, SlotsAreAny DEF NewSlot

(* What EvictOnceFast does to the trees and the stashes. *)
LEMMA Evicted ==
  ASSUME Kinds, Planned, EvictOnceFast
  PROVE  /\ tree' = [l \in Levels |-> tree'[l]] /\ stash' = [l \in Levels |-> stash'[l]]
         /\ \A l \in Levels : /\ tree'[l] \in [Nodes(l) -> [BucketSlots -> AnySlot]]
                              /\ stash'[l] \in [StashSlots -> AnySlot]
                              /\ l # level => tree'[l] = tree[l] /\ stash'[l] = stash[l]
         /\ \A i \in PathPositions : \A k \in SlotNumbers(i) :
              /\ ContentAt(tree[level], stash[level], PlaceOf(i, k))
                   = SlotsAt(eviction_path, i)[k]
              /\ ContentAt(tree'[level], stash'[level], PlaceOf(i, k)) = NewSlot(i, k)
         /\ \A n \in Nodes(level) :
              (\A i \in PathPositions : i # 0 => n # Node(level, evicted, D_level[level] + 1 - i))
                => tree'[level][n] = tree[level][n]
<1> DEFINE D == D_level[level]
           p == [i \in Depths(level) |-> Eviction[D + 1 - i].slots]
           t == WritePath(evicted, p)
<1>1. /\ phase = "evict" /\ Ready /\ level \in Levels /\ evicted \in Leaves(level)
      /\ eviction_path = ReadPath(evicted) /\ StoreKinds
      /\ D \in Nat /\ PathPositions = 0 .. D + 1 /\ Depths(level) = 0 .. D
  BY PlannedIsReady, LevelsAssumption
     DEF EvictOnceFast, Kinds, RequestKinds, EvictionKinds, PathPositions, Depths
<1>2. tree' = t /\ stash' = [stash EXCEPT ![level] = Eviction[0].slots]
  BY DEF EvictOnceFast
<1>3. \A i \in PathPositions :
        /\ Eviction[i].slots = [k \in SlotNumbers(i) |-> NewSlot(i, k)]
        /\ Eviction[i].slots \in [SlotNumbers(i) -> AnySlot]
  <2> TAKE i \in PathPositions
  <2>1. Eviction[i].slots = [k \in SlotNumbers(i) |-> NewSlot(i, k)]
    BY <1>1, EvictionIs
  <2> QED BY <1>1, <2>1, NewSlotKind
<1>4. \A j \in Depths(level) : D + 1 - j \in PathPositions /\ D + 1 - j # 0
  BY <1>1
<1>5. \A i \in PathPositions : i # 0 => D + 1 - i \in Depths(level) /\ D + 1 - (D + 1 - i) = i
  BY <1>1
<1>6. \A j \in Depths(level) : p[j] \in [BucketSlots -> AnySlot]
  BY <1>3, <1>4 DEF SlotNumbers
<1>7. \A i \in PathPositions : i # 0 => p[D + 1 - i] = Eviction[i].slots
  BY <1>5
<1> HIDE DEF p
<1>8. /\ t = [l \in Levels |-> t[l]]
      /\ \A l \in Levels : /\ t[l] \in [Nodes(l) -> [BucketSlots -> AnySlot]]
                           /\ l # level => t[l] = tree[l]
      /\ \A j \in Depths(level) : t[level][Node(level, evicted, j)] = p[j]
      /\ \A n \in Nodes(level) : (\A j \in Depths(level) : n # Node(level, evicted, j))
                                   => t[level][n] = tree[level][n]
  BY <1>1, <1>6, PathWritten
<1> HIDE DEF t
<1>9. /\ stash' = [l \in Levels |-> stash'[l]]
      /\ stash'[level] = Eviction[0].slots
      /\ \A l \in Levels : /\ stash'[l] \in [StashSlots -> AnySlot]
                           /\ l # level => stash'[l] = stash[l]
  <2>1. Eviction[0].slots \in [StashSlots -> AnySlot]
    <3>1. 0 \in PathPositions /\ SlotNumbers(0) = StashSlots
      BY <1>1 DEF SlotNumbers
    <3> QED BY <1>3, <3>1
  <2>2. stash = [l \in Levels |-> stash[l]] /\ \A l \in Levels : stash[l] \in [StashSlots -> AnySlot]
    BY <1>1 DEF StoreKinds
  <2> QED BY <1>1, <1>2, <2>1, <2>2
<1>10. ASSUME NEW i \in PathPositions, NEW k \in SlotNumbers(i)
       PROVE  /\ ContentAt(tree[level], stash[level], PlaceOf(i, k))
                   = SlotsAt(eviction_path, i)[k]
              /\ ContentAt(tree'[level], stash'[level], PlaceOf(i, k)) = NewSlot(i, k)
  <2>1. CASE i = 0
    <3>1. PlaceOf(i, k)[1] = 1 /\ PlaceOf(i, k)[3] = k
      BY <2>1 DEF PlaceOf
    <3>2. ContentAt(tree[level], stash[level], PlaceOf(i, k)) = stash[level][k]
      BY <3>1 DEF ContentAt
    <3>3. ContentAt(tree'[level], stash'[level], PlaceOf(i, k)) = Eviction[0].slots[k]
      BY <1>9, <3>1 DEF ContentAt
    <3> QED BY <1>3, <2>1, <3>2, <3>3 DEF SlotsAt
  <2>2. CASE i # 0
    <3> DEFINE n == Node(level, evicted, D + 1 - i)
    <3>1. PlaceOf(i, k)[1] = 0 /\ PlaceOf(i, k)[2] = n /\ PlaceOf(i, k)[3] = k
      BY <2>2 DEF PlaceOf
    <3> HIDE DEF n
    <3>2. ContentAt(tree[level], stash[level], PlaceOf(i, k)) = tree[level][n][k]
      BY <3>1 DEF ContentAt
    <3>3. ContentAt(tree'[level], stash'[level], PlaceOf(i, k)) = t[level][n][k]
      BY <1>2, <3>1 DEF ContentAt
    <3>4. SlotsAt(eviction_path, i) = tree[level][n]
      BY <1>1, <1>5, <2>2, PathOfTree DEF SlotsAt, n
    <3>5. t[level][n] = Eviction[i].slots
      BY <1>5, <1>7, <1>8, <2>2 DEF n
    <3>6. Eviction[i].slots[k] = NewSlot(i, k)
      BY <1>3
    <3>7. ContentAt(tree[level], stash[level], PlaceOf(i, k)) = SlotsAt(eviction_path, i)[k]
      BY <3>2, <3>4
    <3>8. ContentAt(tree'[level], stash'[level], PlaceOf(i, k)) = NewSlot(i, k)
      BY <3>3, <3>5, <3>6
    <3> QED BY <3>7, <3>8
  <2> QED BY <2>1, <2>2
<1>11. ASSUME NEW n \in Nodes(level),
              \A i \in PathPositions : i # 0 => n # Node(level, evicted, D + 1 - i)
       PROVE  t[level][n] = tree[level][n]
  <2>1. \A j \in Depths(level) : D + 1 - (D + 1 - j) = j
    BY <1>1
  <2>2. \A j \in Depths(level) : n # Node(level, evicted, j)
    <3> TAKE j \in Depths(level)
    <3>1. n # Node(level, evicted, D + 1 - (D + 1 - j))
      BY <1>4, <1>11
    <3> QED BY <2>1, <3>1
  <2> QED BY <1>8, <2>2
<1> QED BY <1>2, <1>8, <1>9, <1>10, <1>11

(* What the plan moves, it moves along the path of the label. *)
LEMMA EvictStep ==
  ASSUME IInv, EvictOnceFast
  PROVE  IInv'
<1> DEFINE D == D_level[level]
<1>1. /\ phase = "evict" /\ Ready /\ level \in Levels /\ evicted \in Leaves(level)
      /\ D \in Nat /\ PathPositions = 0 .. D + 1 /\ Depths(level) = 0 .. D
      /\ \/ side = "left" /\ side' = "right" /\ phase' = "plan" /\ evicted' = evicted
         \/ side = "right" /\ side' = "left" /\ phase' = "return" /\ evicted' = 0
      /\ UNCHANGED <<posmap, discard_block, serialized_result_block, req, ids,
                     level, labels, data_out>>
  <2>1. phase = "evict" /\ level \in Levels /\ evicted \in Leaves(level)
        /\ side \in {"left", "right"}
    BY DEF EvictOnceFast, IInv, Kinds, RequestKinds, EvictionKinds
  <2>2. Ready
    BY <2>1, PlannedIsReady DEF IInv
  <2>3. /\ \/ side = "left" /\ side' = "right" /\ phase' = "plan" /\ evicted' = evicted
           \/ side = "right" /\ side' = "left" /\ phase' = "return" /\ evicted' = 0
        /\ UNCHANGED <<posmap, discard_block, serialized_result_block, req, ids,
                       level, labels, data_out>>
    BY <2>1 DEF EvictOnceFast
  <2> QED BY <2>1, <2>2, <2>3, LevelsAssumption DEF PathPositions, Depths
<1>2. StoreKinds'
  <2>1. /\ tree' = [l \in Levels |-> tree'[l]] /\ stash' = [l \in Levels |-> stash'[l]]
        /\ \A l \in Levels : /\ tree'[l] \in [Nodes(l) -> [BucketSlots -> AnySlot]]
                             /\ stash'[l] \in [StashSlots -> AnySlot]
    BY Evicted DEF IInv
  <2> QED BY <1>1, <2>1 DEF IInv, Kinds, StoreKinds
<1>3. RequestKinds'
  BY <1>1 DEF IInv, Kinds, RequestKinds, Phases
<1>4. LabelKinds'
  BY <1>1 DEF IInv, Kinds, LabelKinds, labels, Fetching
<1>5. EvictionKinds'
  <2>1. side = "left" => evicted \in 0 .. Half(level) - 1
    <3>1. side = "left" => evicted < Half(level)
      BY <1>1 DEF IInv, Kinds, EvictionKinds
    <3>2. evicted \in Nat /\ Half(level) \in Nat
      BY <1>1, LevelsAssumption, Ranges DEF Half
    <3> QED BY <3>1, <3>2
  <2> QED BY <1>1, <2>1 DEF EvictionKinds, Half
<1>6. Planned'
  BY <1>1 DEF Planned
<1>7. ASSUME isLSinit PROVE OnPath'
  <2> SUFFICES ASSUME NEW l \in Levels, NEW n \in Nodes(l), NEW s \in BucketSlots,
                      ~isBlockDummy(tree'[l][n][s])
               PROVE  \E i \in Depths(l) : n = Node(l, tree'[l][n][s].label, i)
    BY DEF OnPath
  <2>1. ASSUME tree'[l][n][s] = tree[l][n][s]
        PROVE  \E i \in Depths(l) : n = Node(l, tree'[l][n][s].label, i)
    <3>1. ~isBlockDummy(tree[l][n][s])
      BY <2>1
    <3>2. \E i \in Depths(l) : n = Node(l, tree[l][n][s].label, i)
      BY <1>7, <3>1 DEF IInv, OnPath
    <3> QED BY <2>1, <3>2
  <2>2. CASE l # level \/ \A i \in PathPositions : i # 0 => n # Node(level, evicted, D + 1 - i)
    <3>1. tree'[l][n] = tree[l][n]
      BY <2>2, Evicted DEF IInv
    <3> QED BY <2>1, <3>1
  <2>3. CASE l = level /\ \E i \in PathPositions : i # 0 /\ n = Node(level, evicted, D + 1 - i)
    <3>1. PICK i \in PathPositions : i # 0 /\ n = Node(level, evicted, D + 1 - i)
      BY <2>3
    <3>2. PlaceOf(i, s) = <<0, n, s>> /\ s \in SlotNumbers(i)
      BY <3>1 DEF PlaceOf, SlotNumbers
    <3>3. /\ ContentAt(tree[level], stash[level], <<0, n, s>>) = SlotsAt(eviction_path, i)[s]
          /\ ContentAt(tree'[level], stash'[level], <<0, n, s>>) = NewSlot(i, s)
      BY <3>2, Evicted DEF IInv
    <3>4. /\ tree[level][n][s] = SlotsAt(eviction_path, i)[s]
          /\ tree'[level][n][s] = NewSlot(i, s)
      BY <3>3 DEF ContentAt
    <3>5. CASE Filled(i) /\ s = target_position[i]
      <4>1. PICK q \in PathPositions : target[q] # None /\ target[q] = i
        BY <3>5 DEF Filled
      <4>2. NewSlot(i, s) = Source(q)
        BY <1>1, <3>5, <4>1, MoveFacts DEF NewSlot
      <4>3. Node(level, Source(q).label, D + 1 - i) = n
        BY <1>1, <3>1, <4>1, MoveFacts
      <4>4. D + 1 - i \in Depths(level)
        BY <1>1, <3>1
      <4> QED BY <2>3, <3>4, <4>2, <4>3, <4>4
    <3>6. CASE ~(Filled(i) /\ s = target_position[i])
      <4>1. NewSlot(i, s) = Dummy \/ NewSlot(i, s) = SlotsAt(eviction_path, i)[s]
        BY <3>6 DEF NewSlot
      <4>2. NewSlot(i, s) # Dummy
        BY <2>3, <3>4 DEF isBlockDummy, Dummy
      <4> QED BY <2>1, <2>3, <3>4, <4>1, <4>2
    <3> QED BY <3>5, <3>6
  <2> QED BY <2>2, <2>3
<1> QED BY <1>2, <1>3, <1>4, <1>5, <1>6, <1>7 DEF IInv, Kinds

(* So the invariant is inductive. *)
LEMMA NextIInv == IInv /\ [Next]_vars => IInv'
<1> SUFFICES ASSUME IInv, [Next]_vars PROVE IInv'
  OBVIOUS
<1>1. CASE Request
  BY <1>1, RequestStep
<1>2. CASE Descend
  BY <1>2, DescendStep
<1>3. CASE LookupPosmap
  BY <1>3, LookupStep
<1>4. CASE FetchEntry
  BY <1>4, FetchEntryStep
<1>5. CASE FetchData
  BY <1>5, FetchDataStep
<1>6. CASE clear
  BY <1>6, ClearStep
<1>7. CASE prepare_deepest
  BY <1>7, PrepareDeepestStep
<1>8. CASE prepare_target
  BY <1>8, PrepareTargetStep
<1>9. CASE EvictOnceFast
  BY <1>9, EvictStep
<1>10. CASE NextLevel
  BY <1>10, NextLevelStep
<1>11. CASE Return
  BY <1>11, ReturnStep
<1>12. CASE UNCHANGED vars
  BY <1>12, StutterStep
<1> QED BY <1>1, <1>2, <1>3, <1>4, <1>5, <1>6, <1>7, <1>8, <1>9, <1>10, <1>11, <1>12
        DEF Next, Step

(* It holds of every behaviour. *)
LEMMA InvariantIInv == Spec => []IInv
BY InitIInv, NextIInv, PTL DEF Spec

(* Slots hold blocks, labels in use are leaves of the tree they are used   *)
(* for, and when a path comes to be evicted along, every block the plan    *)
(* moves goes down, from a slot that was found, to a slot set aside for it *)
(* (prepare_deepest and prepare_target, before EvictOnceFast).             *)
THEOREM CircuitTypeCorrect == Spec => []TypeOK
<1>1. IInv => TypeOK
  BY KindsAreTypes DEF IInv
<1> QED BY <1>1, InvariantIInv, PTL

(* A block in a tree is on the path of its label: fetches take blocks out, *)
(* and EvictOnceFast puts them down only where their paths share a bucket  *)
(* with the one it writes.  Buckets that were never built decrypt to       *)
(* anything, so the build has to have written those above the leaves.      *)
THEOREM CircuitBlocksOnPath ==
  ASSUME isLSinit
  PROVE  Spec => []OnPath
<1>1. IInv => OnPath
  BY DEF IInv
<1> QED BY <1>1, InvariantIInv, PTL

(* How deep a block may be on the path is how far it reaches along it.     *)
LEMMA ReachIsPosition ==
  ASSUME level \in Levels, NEW b
  PROVE  DeepestPosition(b) = Reach(evicted, 0, b)
<1> DEFINE D == D_level[level]
           P == { j \in 1 .. D + 1 :
                    /\ ~isBlockDummy(b)
                    /\ \E i \in Depths(level) :
                         /\ Node(level, b.label, i) = Node(level, evicted, i)
                         /\ j = D + 1 - i }
<1>1. D \in Nat /\ Depths(level) = 0 .. D
  BY LevelsAssumption DEF Depths
<1>2. \A j \in 1 .. D + 1 : D + 1 - j \in Depths(level) /\ j = D + 1 - (D + 1 - j)
  BY <1>1
<1>3. \A j \in 1 .. D + 1 : \A i \in Depths(level) : j = D + 1 - i => i = D + 1 - j
  BY <1>1
<1>4. \A j \in 1 .. D + 1 :
        (\E i \in Depths(level) : /\ Node(level, b.label, i) = Node(level, evicted, i)
                                  /\ j = D + 1 - i)
          <=> Node(level, b.label, D + 1 - j) = Node(level, evicted, D + 1 - j)
  BY <1>2, <1>3
<1>5. P = CommonBelow(evicted, 0, b)
  <2>1. 0 + 1 = 1
    OBVIOUS
  <2> QED BY <1>4, <2>1 DEF CommonBelow
<1>6. DeepestPosition(b) = Max({0} \cup P)
  BY DEF DeepestPosition
<1> QED BY <1>5, <1>6 DEF Reach

(* What the comment above prepare_deepest says of its one pass over the    *)
(* path is so, whatever the path and the stash hold.                       *)
THEOREM DeepestIsRight == Spec => []DeepestRight
<1>1. IInv => DeepestRight
  <2> SUFFICES ASSUME IInv, phase \in {"target", "evict"},
                      NEW i \in 1 .. D_level[level] + 1
               PROVE  LET able == { c \in ScannedBefore(i) : DeepestPosition(c[2]) >= i }
                      IN  IF able = {} THEN deepest[i] = None
                          ELSE \E c \in able :
                                 /\ deepest[i] = c[1]
                                 /\ \A d \in able : DeepestPosition(d[2]) <= DeepestPosition(c[2])
    BY DEF DeepestRight
  <2> DEFINE p == eviction_path
             R(q, k) == Deep(p, evicted, q, k)
             able == { c \in ScannedBefore(i) : DeepestPosition(c[2]) >= i }
  <2>1. /\ level \in Levels /\ D_level[level] + 1 \in Nat
        /\ i \in Nat
    BY LevelsAssumption DEF IInv, Kinds, RequestKinds
  <2>2. DeepestIs(p, evicted, deepest, deepest_position)
    BY DEF IInv, Planned
  <2>3. \A q \in 0 .. i - 1 : \A k \in SlotNumbers(q) :
          /\ <<q, SlotsAt(p, q)[k]>> \in ScannedBefore(i)
          /\ DeepestPosition(SlotsAt(p, q)[k]) = R(q, k)
    BY <2>1, ReachIsPosition DEF ScannedBefore, SlotNumbers, Deep
  <2>4. \A c \in ScannedBefore(i) : \E q \in 0 .. i - 1 : \E k \in SlotNumbers(q) :
          c[1] = q /\ c[2] = SlotsAt(p, q)[k]
    BY DEF ScannedBefore, SlotNumbers
  <2>5. \A c \in ScannedBefore(i) : \E q \in 0 .. i - 1 : \E k \in SlotNumbers(q) :
          DeepestPosition(c[2]) = R(q, k)
    BY <2>3, <2>4
  <2>6. \A q, k : R(q, k) \in 0 .. D_level[level] + 1
    <3>1. 0 \in PathPositions
      BY <2>1 DEF PathPositions
    <3> QED BY <2>1, <3>1, ReachIs DEF Deep
  <2> HIDE DEF R
  <2>7. CASE /\ deepest[i] = None
             /\ \A q \in 0 .. i - 1 : \A k \in SlotNumbers(q) : R(q, k) < i
    <3>1. \A c \in ScannedBefore(i) : ~(DeepestPosition(c[2]) >= i)
      <4> TAKE c \in ScannedBefore(i)
      <4>1. PICK q \in 0 .. i - 1 : \E k \in SlotNumbers(q) : DeepestPosition(c[2]) = R(q, k)
        BY <2>5
      <4>2. PICK k \in SlotNumbers(q) : DeepestPosition(c[2]) = R(q, k)
        BY <4>1
      <4>3. R(q, k) < i /\ R(q, k) \in Int
        BY <2>6, <2>7
      <4> QED BY <2>1, <4>2, <4>3
    <3> QED BY <2>7, <3>1
  <2>8. CASE /\ deepest[i] \in 0 .. i - 1
             /\ deepest_position[deepest[i]] \in SlotNumbers(deepest[i])
             /\ R(deepest[i], deepest_position[deepest[i]]) >= i
             /\ \A q \in 0 .. i - 1 : \A k \in SlotNumbers(q) :
                  R(q, k) <= R(deepest[i], deepest_position[deepest[i]])
    <3> DEFINE s == deepest[i]
               k == deepest_position[s]
               c == <<s, SlotsAt(p, s)[k]>>
    <3>1. c[1] = s /\ c[2] = SlotsAt(p, s)[k]
      OBVIOUS
    <3>2. c \in ScannedBefore(i) /\ DeepestPosition(c[2]) = R(s, k)
      BY <2>3, <2>8
    <3> HIDE DEF c, k, s
    <3>3. c \in able
      BY <2>8, <3>2 DEF s, k
    <3>4. \A d \in able : DeepestPosition(d[2]) <= DeepestPosition(c[2])
      BY <2>5, <2>8, <3>2 DEF s, k
    <3> QED BY <3>1, <3>3, <3>4 DEF s
  <2> QED BY <2>2, <2>7, <2>8 DEF DeepestIs, R
<1> QED BY <1>1, InvariantIInv, PTL

-----------------------------------------------------------------------------
(* Moving contents from some places to others, none of which has content b, *)
(* one to one, leaves as much of content b.                                *)
Moving(P, M, from, to, old, new, b) ==
  /\ from \in [M -> P] /\ to \in [M -> P]
  /\ \A m, o \in M : from[m] = from[o] => m = o
  /\ \A m, o \in M : to[m] = to[o] => m = o
  /\ \A m \in M : new[to[m]] = old[from[m]] /\ old[to[m]] # b /\ new[from[m]] # b
  /\ \A c \in P : (\A m \in M : c # from[m] /\ c # to[m]) => new[c] = old[c]

(* The places of b before map one to one to those after. *)
LEMMA MovesKeepCount ==
  ASSUME NEW P, IsFiniteSet(P), NEW M, NEW from, NEW to, NEW old, NEW new, NEW b,
         Moving(P, M, from, to, old, new, b),
         NEW S, NEW T, S = { c \in P : old[c] = b }, T = { c \in P : new[c] = b }
  PROVE  Cardinality(T) = Cardinality(S)
<1>0. /\ from \in [M -> P] /\ to \in [M -> P]
      /\ \A m, o \in M : from[m] = from[o] => m = o
      /\ \A m, o \in M : to[m] = to[o] => m = o
      /\ \A m \in M : new[to[m]] = old[from[m]] /\ old[to[m]] # b /\ new[from[m]] # b
      /\ \A c \in P : (\A m \in M : c # from[m] /\ c # to[m]) => new[c] = old[c]
  BY DEF Moving
<1> DEFINE Moves(c) == \E m \in M : c = from[m]
           f == [c \in S |-> IF Moves(c) THEN to[CHOOSE m \in M : c = from[m]] ELSE c]
<1>1. \A m \in M : from[m] \in S => f[from[m]] = to[m]
  <2> SUFFICES ASSUME NEW m \in M, from[m] \in S PROVE f[from[m]] = to[m]
    OBVIOUS
  <2>1. (CHOOSE o \in M : from[m] = from[o]) = m
    BY <1>0
  <2> QED BY <2>1
<1>2. \A c \in S : ~Moves(c) => f[c] = c
  OBVIOUS
<1>3. DOMAIN f = S
  OBVIOUS
<1> HIDE DEF f
<1>4. \A c \in S : f[c] \in T
  <2> TAKE c \in S
  <2>1. CASE Moves(c)
    <3>1. PICK m \in M : c = from[m]
      BY <2>1
    <3> QED BY <1>0, <1>1, <3>1
  <2>2. CASE ~Moves(c)
    <3>1. \A m \in M : c # to[m]
      BY <1>0
    <3>2. new[c] = old[c]
      BY <1>0, <2>2, <3>1
    <3> QED BY <1>0, <1>2, <2>2, <3>2
  <2> QED BY <2>1, <2>2
<1>5. \A c, d \in S : f[c] = f[d] => c = d
  <2> SUFFICES ASSUME NEW c \in S, NEW d \in S, f[c] = f[d] PROVE c = d
    OBVIOUS
  <2>1. ASSUME NEW a \in S, NEW e \in S, Moves(a), f[a] = f[e] PROVE a = e
    <3>1. PICK m \in M : a = from[m]
      BY <2>1
    <3>2. f[a] = to[m]
      BY <1>0, <1>1, <3>1
    <3>3. CASE Moves(e)
      <4>1. PICK o \in M : e = from[o]
        BY <3>3
      <4>2. to[m] = to[o]
        BY <1>0, <1>1, <2>1, <3>2, <4>1
      <4> QED BY <1>0, <3>1, <4>1, <4>2
    <3>4. CASE ~Moves(e)
      <4>1. e = to[m]
        BY <1>0, <1>2, <2>1, <3>2, <3>4
      <4> QED BY <1>0, <4>1
    <3> QED BY <3>3, <3>4
  <2> QED BY <1>0, <1>2, <2>1
<1>6. \A d \in T : \E c \in S : f[c] = d
  <2> TAKE d \in T
  <2>1. CASE \E m \in M : d = to[m]
    <3>1. PICK m \in M : d = to[m]
      BY <2>1
    <3>2. from[m] \in S
      BY <1>0, <3>1
    <3> QED BY <1>0, <1>1, <3>1, <3>2
  <2>2. CASE ~\E m \in M : d = to[m]
    <3>1. \A m \in M : d # from[m]
      BY <1>0
    <3>2. d \in S
      BY <1>0, <2>2, <3>1
    <3> QED BY <1>0, <1>2, <3>1, <3>2
  <2> QED BY <2>1, <2>2
<1>7. f \in Bijection(S, T)
  <2>1. f = [c \in S |-> f[c]]
    BY DEF f
  <2>2. f \in [S -> T]
    BY <1>4, <2>1
  <2>3. f \in Injection(S, T)
    BY <1>5, <2>2 DEF Injection, IsInjective
  <2>4. f \in Surjection(S, T)
    BY <1>6, <2>2 DEF Surjection
  <2> QED BY <2>3, <2>4 DEF Bijection
<1>8. IsFiniteSet(S)
  BY FS_Subset
<1> QED BY <1>7, <1>8, FS_Bijection DEF ExistsBijection

(* Division makes nothing larger. *)
LEMMA DivBelow ==
  ASSUME NEW a \in Nat, NEW w \in Nat \ {0}
  PROVE  a \div w \in Nat /\ a \div w <= a
<1> DEFINE q == a \div w
           r == a % w
<1>1. q \in Nat /\ r \in 0 .. w - 1 /\ a = w * q + r
  OBVIOUS
<1> HIDE DEF q, r
<1>2. w * q >= q
  BY <1>1
<1> QED BY <1>1, <1>2 DEF q

(* The slots of a level's tree, as Held has them. *)
TreeSlots(l) == { <<n, s>> : n \in Nodes(l), s \in BucketSlots }

(* A level has finitely many places. *)
LEMMA PlacesFinite ==
  ASSUME NEW l \in Levels
  PROVE  /\ IsFiniteSet(Places(l)) /\ IsFiniteSet(StashSlots)
         /\ IsFiniteSet(TreeSlots(l))
<1> DEFINE d == D_level[l] + 1
           m == N_level[l] + N_level[l]
<1>1. /\ D_level[l] \in Nat /\ N_level[l] \in Nat /\ Z \in Nat /\ STASH_SIZE \in Nat
  BY LevelsAssumption
<1>2. \A n \in Nodes(l) : n \in 0 .. m
  <2> TAKE n \in Nodes(l)
  <2>1. PICK f \in Leaves(l), i \in Depths(l) : n = Node(l, f, i)
    BY DEF Nodes
  <2>2. f + N_level[l] \in 0 .. m
    BY <1>1 DEF Leaves
  <2>3. 2 ^ i \in Nat \ {0}
    <3>1. 2 ^ i \in Nat
      BY PowerAssumption
    <3>2. 2 ^ i # 0
      <4>1. CASE i = 0
        BY <4>1, PowerAssumption
      <4>2. CASE i # 0
        <5>1. 0 \in Depths(l) /\ i \in Depths(l) /\ 0 < i
          BY <1>1, <4>2 DEF Depths
        <5>2. 2 ^ i >= 2 * 2 ^ 0 /\ 2 ^ 0 = 1
          BY <5>1, PowersGrow, PowerAssumption
        <5> QED BY <5>2
      <4> QED BY <4>1, <4>2
    <3> QED BY <3>1, <3>2
  <2> DEFINE a == f + N_level[l]
             w == 2 ^ i
  <2>4. a \in Nat /\ w \in Nat \ {0} /\ a <= m /\ m \in Nat
    BY <1>1, <2>2, <2>3
  <2>5. n = a \div w
    BY <2>1 DEF Node
  <2> HIDE DEF a, w, m
  <2>6. a \div w \in Nat /\ a \div w <= a
    BY <2>4, DivBelow
  <2> QED BY <2>4, <2>5, <2>6
<1>3. IsFiniteSet(Nodes(l)) /\ IsFiniteSet(BucketSlots) /\ IsFiniteSet(StashSlots)
  <2>1. IsFiniteSet(0 .. m)
    BY <1>1, FS_Interval
  <2>2. Nodes(l) \in SUBSET (0 .. m)
    BY <1>2
  <2>3. IsFiniteSet(1 .. Z) /\ IsFiniteSet(1 .. STASH_SIZE)
    <3>1. 1 \in Int /\ Z \in Int /\ STASH_SIZE \in Int
      BY <1>1
    <3> QED BY <3>1, FS_Interval
  <2>4. IsFiniteSet(Nodes(l))
    BY <2>1, <2>2, FS_Subset
  <2> QED BY <2>3, <2>4 DEF BucketSlots, StashSlots
<1> DEFINE A == { <<n, s>> : n \in Nodes(l), s \in BucketSlots }
           B == { <<0, n, s>> : n \in Nodes(l), s \in BucketSlots }
           C == { <<1, 0, k>> : k \in StashSlots }
<1>4. IsFiniteSet(A)
  <2>1. A = Nodes(l) \X BucketSlots
    OBVIOUS
  <2> QED BY <1>3, <2>1, FS_Product
<1>5. IsFiniteSet(B)
  <2> DEFINE f == [c \in A |-> <<0, c[1], c[2]>>]
  <2>1. f \in Surjection(A, B)
    <3>1. f \in [A -> B]
      OBVIOUS
    <3>2. \A e \in B : \E c \in A : f[c] = e
      <4> TAKE e \in B
      <4>1. PICK n \in Nodes(l), s \in BucketSlots : e = <<0, n, s>>
        OBVIOUS
      <4>2. <<n, s>> \in A /\ f[<<n, s>>] = e
        BY <4>1
      <4> QED BY <4>2
    <3> HIDE DEF f, A, B
    <3> QED BY <3>1, <3>2 DEF Surjection
  <2> QED BY <1>4, <2>1, FS_Surjection
<1>6. IsFiniteSet(C)
  <2> DEFINE f == [k \in StashSlots |-> <<1, 0, k>>]
  <2>1. f \in Surjection(StashSlots, C)
    BY DEF Surjection
  <2> QED BY <1>3, <2>1, FS_Surjection
<1>7. IsFiniteSet(Places(l))
  <2>1. Places(l) = B \cup C
    BY DEF Places
  <2> HIDE DEF B, C
  <2> QED BY <1>5, <1>6, <2>1, FS_Union
<1>8. TreeSlots(l) = A
  BY DEF TreeSlots
<1> HIDE DEF A
<1> QED BY <1>3, <1>4, <1>7, <1>8

(* How many copies of each block a tree and a stash hold, as Held counts   *)
(* them and as a count of places.                                          *)
Copies(l, t, st, b) ==
  Cardinality({ p \in TreeSlots(l) : t[p[1]][p[2]] = b })
    + Cardinality({ k \in StashSlots : st[k] = b })
BlocksOf(l, t, st) ==
  { t[p[1]][p[2]] : p \in TreeSlots(l) } \cup { st[k] : k \in StashSlots }
HeldIn(l, t, st) ==
  [b \in { b \in BlocksOf(l, t, st) : ~isBlockDummy(b) } |-> Copies(l, t, st, b)]

(* A copy is a place. *)
LEMMA CopiesAre ==
  ASSUME NEW l \in Levels, NEW t, NEW st, NEW b
  PROVE  /\ Copies(l, t, st, b) = Cardinality(Where(l, t, st, b))
         /\ IsFiniteSet(Where(l, t, st, b))
         /\ b \in BlocksOf(l, t, st) <=> Where(l, t, st, b) # {}
<1> DEFINE A == { p \in TreeSlots(l) : t[p[1]][p[2]] = b }
           K == { k \in StashSlots : st[k] = b }
           U == { <<0, p[1], p[2]>> : p \in A }
           V == { <<1, 0, k>> : k \in K }
           W == Where(l, t, st, b)
<1>1. IsFiniteSet(A) /\ IsFiniteSet(K)
  <2>1. IsFiniteSet(TreeSlots(l)) /\ IsFiniteSet(StashSlots)
    BY PlacesFinite
  <2>2. A \in SUBSET TreeSlots(l) /\ K \in SUBSET StashSlots
    OBVIOUS
  <2> HIDE DEF A, K
  <2> QED BY <2>1, <2>2, FS_Subset
<1>2. \A p \in TreeSlots(l) : p = <<p[1], p[2]>> /\ p[1] \in Nodes(l) /\ p[2] \in BucketSlots
  BY DEF TreeSlots
<1>3. W = U \cup V
  <2>1. ASSUME NEW c \in W PROVE c \in U \cup V
    <3>1. c \in Places(l) /\ ContentAt(t, st, c) = b
      BY DEF Where
    <3>2. CASE \E n \in Nodes(l), s \in BucketSlots : c = <<0, n, s>>
      <4>1. PICK n \in Nodes(l), s \in BucketSlots : c = <<0, n, s>>
        BY <3>2
      <4>2. <<n, s>> \in A
        BY <3>1, <4>1 DEF ContentAt, TreeSlots
      <4>3. <<0, <<n, s>>[1], <<n, s>>[2]>> = c
        BY <4>1
      <4> QED BY <4>2, <4>3
    <3>3. CASE \E k \in StashSlots : c = <<1, 0, k>>
      <4>1. PICK k \in StashSlots : c = <<1, 0, k>>
        BY <3>3
      <4> QED BY <3>1, <4>1 DEF ContentAt
    <3> QED BY <3>1, <3>2, <3>3 DEF Places
  <2>2. ASSUME NEW p \in A PROVE <<0, p[1], p[2]>> \in W
    <3>1. p[1] \in Nodes(l) /\ p[2] \in BucketSlots
      BY <1>2
    <3> QED BY <3>1 DEF Where, Places, ContentAt
  <2>3. ASSUME NEW k \in K PROVE <<1, 0, k>> \in W
    BY DEF Where, Places, ContentAt
  <2> HIDE DEF W
  <2> QED BY <2>1, <2>2, <2>3
<1>4. U \cap V = {}
  OBVIOUS
<1>5. IsFiniteSet(U) /\ Cardinality(U) = Cardinality(A)
  <2> DEFINE f == [p \in A |-> <<0, p[1], p[2]>>]
  <2>1. f \in [A -> U] /\ \A u \in U : \E p \in A : f[p] = u
    OBVIOUS
  <2>2. \A p, q \in A : f[p] = f[q] => p = q
    <3> SUFFICES ASSUME NEW p \in A, NEW q \in A, f[p] = f[q] PROVE p = q
      OBVIOUS
    <3>1. p[1] = q[1] /\ p[2] = q[2]
      OBVIOUS
    <3>2. p = <<p[1], p[2]>> /\ q = <<q[1], q[2]>>
      BY <1>2
    <3> QED BY <3>1, <3>2
  <2> HIDE DEF f, A, U
  <2>3. f \in Injection(A, U) /\ f \in Surjection(A, U)
    BY <2>1, <2>2 DEF Injection, IsInjective, Surjection
  <2>4. ExistsBijection(A, U)
    BY <2>3 DEF ExistsBijection, Bijection
  <2> QED BY <1>1, <2>4, FS_Bijection
<1>6. IsFiniteSet(V) /\ Cardinality(V) = Cardinality(K)
  <2> DEFINE f == [k \in K |-> <<1, 0, k>>]
  <2>1. f \in [K -> V] /\ \A v \in V : \E k \in K : f[k] = v
    OBVIOUS
  <2>2. \A k, m \in K : f[k] = f[m] => k = m
    OBVIOUS
  <2> HIDE DEF f, K, V
  <2>3. f \in Injection(K, V) /\ f \in Surjection(K, V)
    BY <2>1, <2>2 DEF Injection, IsInjective, Surjection
  <2>4. ExistsBijection(K, V)
    BY <2>3 DEF ExistsBijection, Bijection
  <2> QED BY <1>1, <2>4, FS_Bijection
<1>7. b \in BlocksOf(l, t, st) <=> A # {} \/ K # {}
  BY DEF BlocksOf
<1>8. W # {} <=> A # {} \/ K # {}
  BY <1>3
<1>9. Copies(l, t, st, b) = Cardinality(A) + Cardinality(K)
  BY DEF Copies
<1> HIDE DEF A, K, U, V, W
<1>10. IsFiniteSet(W) /\ Cardinality(W) = Cardinality(U) + Cardinality(V) - Cardinality({})
  BY <1>3, <1>4, <1>5, <1>6, FS_Union
<1>11. Cardinality({}) = 0 /\ Cardinality(U) \in Nat /\ Cardinality(V) \in Nat
  BY <1>5, <1>6, FS_EmptySet, FS_CardinalityType
<1>12. Cardinality(W) = Copies(l, t, st, b)
  BY <1>5, <1>6, <1>9, <1>10, <1>11
<1> QED BY <1>7, <1>8, <1>10, <1>12 DEF W

(* Trees and stashes with a block in as many places hold as many copies.   *)
LEMMA SameHeld ==
  ASSUME NEW l \in Levels, NEW t, NEW st, NEW u, NEW su,
         \A b : ~isBlockDummy(b) =>
           Cardinality(Where(l, u, su, b)) = Cardinality(Where(l, t, st, b))
  PROVE  HeldIn(l, u, su) = HeldIn(l, t, st)
<1> DEFINE S == { b \in BlocksOf(l, t, st) : ~isBlockDummy(b) }
           T == { b \in BlocksOf(l, u, su) : ~isBlockDummy(b) }
<1>1. ASSUME NEW b, ~isBlockDummy(b)
      PROVE  /\ Copies(l, u, su, b) = Copies(l, t, st, b)
             /\ b \in BlocksOf(l, u, su) <=> b \in BlocksOf(l, t, st)
  <2>1. /\ Copies(l, u, su, b) = Cardinality(Where(l, u, su, b))
        /\ Copies(l, t, st, b) = Cardinality(Where(l, t, st, b))
        /\ Cardinality(Where(l, u, su, b)) = Cardinality(Where(l, t, st, b))
    BY <1>1, CopiesAre
  <2>2. Where(l, u, su, b) = {} <=> Where(l, t, st, b) = {}
    <3>1. IsFiniteSet(Where(l, u, su, b)) /\ IsFiniteSet(Where(l, t, st, b))
      BY CopiesAre
    <3> QED BY <2>1, <3>1, FS_EmptySet
  <2> QED BY <2>1, <2>2, CopiesAre
<1>2. S = T
  BY <1>1
<1>3. \A b \in S : Copies(l, u, su, b) = Copies(l, t, st, b)
  BY <1>1
<1>4. HeldIn(l, t, st) = [b \in S |-> Copies(l, t, st, b)]
      /\ HeldIn(l, u, su) = [b \in T |-> Copies(l, u, su, b)]
  BY DEF HeldIn
<1> HIDE DEF S, T
<1> QED BY <1>2, <1>3, <1>4

(* An eviction moves blocks, and a block that moves is not lost: its new   *)
(* place is its own, and held a dummy.                                     *)
LEMMA EvictionMoves ==
  ASSUME Kinds, Planned, EvictOnceFast, NEW b, ~isBlockDummy(b)
  PROVE  Cardinality(Where(level, tree'[level], stash'[level], b))
           = Cardinality(Where(level, tree[level], stash[level], b))
<1> DEFINE P == Places(level)
           M == { q \in PathPositions : target[q] # None }
           from == [q \in M |-> PlaceOf(q, deepest_position[q])]
           to == [q \in M |-> PlaceOf(target[q], target_position[target[q]])]
           old == [c \in P |-> ContentAt(tree[level], stash[level], c)]
           new == [c \in P |-> ContentAt(tree'[level], stash'[level], c)]
<1>1. /\ Ready /\ level \in Levels /\ evicted \in Leaves(level)
      /\ D_level[level] \in Nat /\ PathPositions = 0 .. D_level[level] + 1
  BY PlannedIsReady, LevelsAssumption
     DEF EvictOnceFast, Kinds, RequestKinds, EvictionKinds, PathPositions
<1>2. \A q \in M : /\ q \in PathPositions /\ target[q] \in PathPositions
                   /\ target[q] # 0 /\ target[q] # None
                   /\ deepest[target[q]] = q
                   /\ deepest_position[q] \in SlotNumbers(q)
                   /\ target_position[target[q]] \in SlotNumbers(target[q])
                   /\ ~isBlockDummy(Source(q))
                   /\ isBlockDummy(SlotsAt(eviction_path, target[q])[target_position[target[q]]])
  BY <1>1, MoveFacts DEF SlotNumbers
<1>3. from \in [M -> P] /\ to \in [M -> P]
  BY <1>1, <1>2, PlacesApart
<1>4. \A m, o \in M : from[m] = from[o] => m = o
  BY <1>1, <1>2, PlacesApart
<1>5. \A m, o \in M : to[m] = to[o] => m = o
  <2> SUFFICES ASSUME NEW m \in M, NEW o \in M, to[m] = to[o] PROVE m = o
    OBVIOUS
  <2>1. target[m] = target[o]
    BY <1>1, <1>2, PlacesApart
  <2> QED BY <1>2, <2>1
<1>6. \A i \in PathPositions : \A k \in SlotNumbers(i) :
        /\ PlaceOf(i, k) \in P
        /\ old[PlaceOf(i, k)] = SlotsAt(eviction_path, i)[k]
        /\ new[PlaceOf(i, k)] = NewSlot(i, k)
  <2> TAKE i \in PathPositions
  <2> TAKE k \in SlotNumbers(i)
  <2>1. PlaceOf(i, k) \in P
    BY <1>1, PlacesApart
  <2>2. /\ ContentAt(tree[level], stash[level], PlaceOf(i, k))
             = SlotsAt(eviction_path, i)[k]
        /\ ContentAt(tree'[level], stash'[level], PlaceOf(i, k)) = NewSlot(i, k)
    BY Evicted
  <2> QED BY <2>1, <2>2
<1>7. \A q \in M : from[q] = PlaceOf(q, deepest_position[q])
                   /\ to[q] = PlaceOf(target[q], target_position[target[q]])
  OBVIOUS
<1>8. Dummy # b
  BY DEF isBlockDummy, Dummy
<1>9. \A c \in P : \/ \E i \in PathPositions : \E k \in SlotNumbers(i) : c = PlaceOf(i, k)
                   \/ new[c] = old[c]
  <2> SUFFICES ASSUME NEW c \in P,
                      ~\E i \in PathPositions : \E k \in SlotNumbers(i) : c = PlaceOf(i, k)
               PROVE  new[c] = old[c]
    OBVIOUS
  <2>1. CASE \E k \in StashSlots : c = <<1, 0, k>>
    <3>1. 0 \in PathPositions
      BY <1>1
    <3> QED BY <2>1, <3>1 DEF PlaceOf, SlotNumbers
  <2>2. CASE \E n \in Nodes(level), s \in BucketSlots : c = <<0, n, s>>
    <3>1. PICK n \in Nodes(level), s \in BucketSlots : c = <<0, n, s>>
      BY <2>2
    <3>2. \A i \in PathPositions : i # 0 => n # Node(level, evicted, D_level[level] + 1 - i)
      BY <3>1 DEF PlaceOf, SlotNumbers
    <3>3. tree'[level][n] = tree[level][n]
      BY <3>2, Evicted
    <3>4. /\ ContentAt(tree[level], stash[level], c) = tree[level][n][s]
          /\ ContentAt(tree'[level], stash'[level], c) = tree'[level][n][s]
      BY <3>1 DEF ContentAt
    <3> QED BY <3>3, <3>4
  <2> QED BY <2>1, <2>2 DEF Places
<1> HIDE DEF from, to, old, new, P
<1>10. \A q \in M : new[to[q]] = old[from[q]] /\ old[to[q]] # b /\ new[from[q]] # b
  <2> TAKE q \in M
  <2>1. old[from[q]] = Source(q)
    BY <1>2, <1>6, <1>7 DEF Source
  <2>2. new[to[q]] = Source(q)
    <3>1. Filled(target[q])
      BY <1>2 DEF Filled
    <3> QED BY <1>2, <1>6, <1>7, <3>1 DEF NewSlot
  <2>3. old[to[q]] # b
    BY <1>2, <1>6, <1>7
  <2>4. new[from[q]] = Dummy
    <3>1. new[from[q]] = NewSlot(q, deepest_position[q])
      BY <1>2, <1>6, <1>7
    <3>2. ~(Filled(q) /\ deepest_position[q] = target_position[q])
      <4> SUFFICES ASSUME NEW o \in PathPositions, target[o] # None, target[o] = q,
                          deepest_position[q] = target_position[q]
                   PROVE  FALSE
        BY DEF Filled
      <4>1. isBlockDummy(SlotsAt(eviction_path, q)[target_position[q]])
        BY <1>2
      <4> QED BY <1>2, <4>1 DEF Source
    <3> QED BY <1>2, <3>1, <3>2 DEF NewSlot
  <2> QED BY <1>8, <2>1, <2>2, <2>3, <2>4
<1>11. \A c \in P : (\A q \in M : c # from[q] /\ c # to[q]) => new[c] = old[c]
  <2> SUFFICES ASSUME NEW c \in P, \A q \in M : c # from[q] /\ c # to[q],
                      NEW i \in PathPositions, NEW k \in SlotNumbers(i), c = PlaceOf(i, k)
               PROVE  new[c] = old[c]
    BY <1>9
  <2>1. ~(Filled(i) /\ k = target_position[i])
    <3> SUFFICES ASSUME NEW o \in PathPositions, target[o] # None, target[o] = i,
                        k = target_position[i]
                 PROVE  FALSE
      BY DEF Filled
    <3>1. o \in M /\ to[o] = c
      BY <1>7
    <3> QED BY <3>1
  <2>2. ~(target[i] # None /\ k = deepest_position[i])
    BY <1>7
  <2>3. NewSlot(i, k) = SlotsAt(eviction_path, i)[k]
    BY <2>1, <2>2 DEF NewSlot
  <2> QED BY <1>6, <2>3
<1>12. IsFiniteSet(P)
  <2>1. \A l \in Levels : IsFiniteSet(Places(l))
    BY PlacesFinite
  <2>2. level \in Levels
    BY <1>1
  <2> QED BY <2>1, <2>2 DEF P
<1> HIDE DEF M
<1> DEFINE S == Where(level, tree[level], stash[level], b)
           T == Where(level, tree'[level], stash'[level], b)
<1>13. S = { c \in P : old[c] = b } /\ T = { c \in P : new[c] = b }
  BY DEF Where, P, new, old
<1> HIDE DEF S, T
<1>14. Moving(P, M, from, to, old, new, b)
  BY <1>3, <1>4, <1>5, <1>10, <1>11 DEF Moving
<1>15. Cardinality(T) = Cardinality(S)
  BY <1>12, <1>13, <1>14, MovesKeepCount
<1> QED BY <1>15 DEF S, T

(* An eviction only moves blocks: EvictOnceFast neither overwrites a block *)
(* in a bucket or in its hands, nor puts one down twice, nor forgets one   *)
(* at the end of the path.                                                 *)
THEOREM EvictionsKeepBlocks == Spec => EvictionKeeps
<1>1. ASSUME IInv, [Next]_vars
      PROVE  [phase = "evict" => \A l \in Levels : Held(l)' = Held(l)]_vars
  <2> SUFFICES ASSUME phase = "evict", Next, NEW l \in Levels PROVE Held(l)' = Held(l)
    BY <1>1
  <2>1. EvictOnceFast
    BY DEF Next, Request, Step, Access_temp, Descend, LookupPosmap, FetchEntry, FetchData,
           clear, prepare_deepest, prepare_target, NextLevel, Return
  <2>2. /\ Held(l) = HeldIn(l, tree[l], stash[l])
        /\ Held(l)' = HeldIn(l, tree'[l], stash'[l])
    BY DEF Held, HeldIn, Copies, BlocksOf, TreeSlots
  <2>3. CASE l = level
    <3>1. \A b : ~isBlockDummy(b) =>
            Cardinality(Where(l, tree'[l], stash'[l], b))
              = Cardinality(Where(l, tree[l], stash[l], b))
      BY <1>1, <2>1, <2>3, EvictionMoves DEF IInv
    <3> QED BY <2>2, <3>1, SameHeld
  <2>4. CASE l # level
    <3>1. tree'[l] = tree[l] /\ stash'[l] = stash[l]
      BY <1>1, <2>1, <2>4, Evicted DEF IInv
    <3> QED BY <2>2, <3>1
  <2> QED BY <2>3, <2>4
<1> QED BY <1>1, InvariantIInv, PTL DEF Spec, EvictionKeeps
=============================================================================
