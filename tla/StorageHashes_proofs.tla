------------------------ MODULE StorageHashes_proofs ------------------------
(* That the hashes in the storage are those of its buckets: more proofs    *)
(* about Storage.                                                          *)
EXTENDS Storage_proofs

(* Division takes apart in the way of shifts. *)
LEMMA DivTwice ==
  ASSUME NEW n \in Nat, NEW b \in Nat \ {0}
  PROVE  (n \div b) \div 2 = n \div (2 * b)
<1> DEFINE q == n \div b
           r == n % b
           t == q \div 2
           u == q % 2
           c == 2 * b
<1>1. q \in Nat /\ r \in 0 .. b - 1 /\ n = b * q + r
  BY DivMod
<1>2. t \in Nat /\ u \in 0 .. 1 /\ q = 2 * t + u
  BY <1>1
<1>3. c \in Nat \ {0}
  OBVIOUS
<1> HIDE DEF q, r, t, u
<1>4. b * q = c * t + b * u
  BY <1>2
<1>5. b * u + r \in 0 .. c - 1
  <2>1. u = 0 \/ u = 1
    BY <1>2
  <2> QED BY <1>1, <2>1
<1>6. n = c * t + (b * u + r)
  BY <1>1, <1>2, <1>3, <1>4
<1> HIDE DEF c
<1>7. n \div c = t
  BY <1>2, <1>3, <1>5, <1>6, Quotient
<1> QED BY <1>7 DEF t, q, c

(* A path in a heap: from a leaf to bucket 1, each bucket to its parent. *)
LEMMA PathNodes ==
  ASSUME Sized, phase \notin {"init", "new"}, NEW l \in Levels,
         NEW f \in 0 .. N_level[l] - 1
  PROVE  /\ D_level[l] \in Nat /\ N_level[l] \in Nat \ {0}
         /\ 0 \in Depths(l) /\ D_level[l] \in Depths(l)
         /\ Node(l, f, 0) \in Nat /\ Node(l, f, 0) >= N_level[l]
         /\ Node(l, f, D_level[l]) = 1
         /\ \A i \in Depths(l) :
              /\ Node(l, f, i) \in Nat \ {0}
              /\ i < D_level[l] => /\ i + 1 \in Depths(l)
                                   /\ Node(l, f, i + 1) = Node(l, f, i) \div 2
              /\ i > 0 => /\ i - 1 \in Depths(l)
                          /\ Node(l, f, i) = Node(l, f, i - 1) \div 2
                          /\ Node(l, f, i) < N_level[l]
<1> DEFINE d == D_level[l]
           n == f + N_level[l]
<1>1. /\ d \in Nat /\ N_level[l] \in Nat \ {0} /\ N_level[l] = 2 ^ d /\ 2 ^ 0 = 1
      /\ \A i \in Depths(l) : /\ 2 ^ i \in Nat \ {0} /\ 2 ^ i <= N_level[l]
                              /\ 2 ^ (i + 1) = 2 * 2 ^ i
  BY Kinds
<1>2. n \in Nat /\ N_level[l] <= n /\ n < 2 * N_level[l]
  BY <1>1
<1>3. Depths(l) = 0 .. d
  BY DEF Depths
<1>4. \A i : Node(l, f, i) = n \div 2 ^ i
  BY DEF Node
<1>5. \A i \in Depths(l) : Node(l, f, i) \in Nat \ {0}
  BY NodeIsBucket, BuiltAreBuckets
<1> HIDE DEF d, n
<1>6. Node(l, f, 0) = n
  <2>1. n \div 1 = n
    BY <1>2
  <2> QED BY <1>1, <1>4, <2>1
<1>7. Node(l, f, d) = 1
  <2> DEFINE b == N_level[l]
  <2>1. b \in Nat \ {0} /\ n - b \in 0 .. b - 1 /\ n = b * 1 + (n - b)
    BY <1>1, <1>2
  <2>2. Node(l, f, d) = n \div b
    BY <1>1, <1>4
  <2> HIDE DEF b
  <2> QED BY <2>1, <2>2, Quotient
<1>8. ASSUME NEW i \in Depths(l), i < d
      PROVE  i + 1 \in Depths(l) /\ Node(l, f, i + 1) = Node(l, f, i) \div 2
  <2>1. i + 1 \in Depths(l)
    BY <1>1, <1>3, <1>8
  <2>2. (n \div 2 ^ i) \div 2 = n \div (2 * 2 ^ i)
    BY <1>1, <1>2, DivTwice
  <2> QED BY <1>1, <1>4, <2>1, <2>2
<1>9. ASSUME NEW i \in Depths(l), i > 0
      PROVE  /\ i - 1 \in Depths(l) /\ Node(l, f, i) = Node(l, f, i - 1) \div 2
             /\ Node(l, f, i) < N_level[l]
  <2>1. i - 1 \in Depths(l) /\ i - 1 < d /\ (i - 1) + 1 = i
    BY <1>1, <1>3, <1>9
  <2>2. Node(l, f, i) = Node(l, f, i - 1) \div 2
    BY <1>8, <2>1
  <2>3. Node(l, f, i - 1) <= n
    <3>1. Node(l, f, i - 1) \in Buckets(l)
      BY <2>1, NodeIsBucket
    <3>2. n \div 2 ^ (i - 1) <= n
      <4> DEFINE b == 2 ^ (i - 1)
      <4>1. b \in Nat \ {0}
        BY <1>1, <2>1
      <4> HIDE DEF b
      <4>2. n \div b \in Nat /\ n % b \in Nat /\ n = b * (n \div b) + (n % b)
        <5>1. n \div b \in Nat /\ n % b \in 0 .. b - 1 /\ n = b * (n \div b) + (n % b)
          BY <1>2, <4>1, DivMod
        <5> QED BY <4>1, <5>1
      <4>3. \A j \in Nat \ {0}, q \in Nat : j * q \in Nat /\ q <= j * q
        OBVIOUS
      <4>4. b * (n \div b) \in Nat /\ n \div b <= b * (n \div b)
        BY <4>1, <4>2, <4>3
      <4>5. n \div b <= n
        BY <1>2, <4>2, <4>4
      <4> QED BY <4>5 DEF b
    <3> QED BY <1>4, <3>2
  <2>4. Node(l, f, i - 1) \in Nat
    BY <1>5, <2>1
  <2> QED BY <1>1, <1>2, <2>1, <2>2, <2>3, <2>4
<1>10. 0 \in Depths(l) /\ d \in Depths(l)
  BY <1>1, <1>3
<1> QED BY <1>1, <1>2, <1>5, <1>6, <1>7, <1>8, <1>9, <1>10 DEF d

(* A path visits no bucket twice. *)
LEMMA PathBucketsDiffer ==
  ASSUME Sized, phase \notin {"init", "new"}, NEW l \in Levels,
         NEW f \in 0 .. N_level[l] - 1, NEW i \in Depths(l), NEW j \in Depths(l),
         Node(l, f, i) = Node(l, f, j)
  PROVE  i = j
<1>1. ASSUME NEW a \in Depths(l), NEW b \in Depths(l), a < b
      PROVE  Node(l, f, b) < Node(l, f, a)
  <2> DEFINE T == { k \in Depths(l) : a < k /\ ~(Node(l, f, k) < Node(l, f, a)) }
  <2>1. D_level[l] \in Nat /\ a \in Nat /\ \A k \in Depths(l) : k \in Nat
    BY PathNodes DEF Depths
  <2>2. SUFFICES ASSUME T # {} PROVE FALSE
    BY <1>1
  <2>3. PICK k \in T : \A t \in T : k <= t
    <3>1. T \in SUBSET Nat
      BY <2>1
    <3> QED BY <2>2, <3>1, LeastElement
  <2>4. k - 1 \in Depths(l) /\ Node(l, f, k) = Node(l, f, k - 1) \div 2
        /\ Node(l, f, k - 1) \in Nat \ {0} /\ Node(l, f, a) \in Nat \ {0}
    <3>1. k > 0 /\ k \in Depths(l)
      BY <2>1, <2>3
    <3>2. k - 1 \in Depths(l) /\ Node(l, f, k) = Node(l, f, k - 1) \div 2
      BY <3>1, PathNodes
    <3> QED BY <3>2, PathNodes
  <2>5. a = k - 1 \/ (a < k - 1 /\ k - 1 \notin T)
    BY <2>1, <2>3
  <2>6. Node(l, f, k - 1) <= Node(l, f, a)
    BY <2>4, <2>5
  <2>7. \A h \in Nat \ {0} : h \div 2 < h
    OBVIOUS
  <2>8. Node(l, f, k) < Node(l, f, a)
    <3>1. Node(l, f, k - 1) \div 2 < Node(l, f, k - 1) /\ Node(l, f, k - 1) \div 2 \in Nat
      BY <2>4, <2>7
    <3> QED BY <2>4, <2>6, <3>1
  <2> QED BY <2>3, <2>8
<1>2. i \in Nat /\ j \in Nat /\ Node(l, f, i) \in Nat
  BY PathNodes DEF Depths
<1> QED BY <1>1, <1>2

(* The child of a bucket of the path that is not on the path itself. *)
LEMMA OffPath ==
  ASSUME Sized, phase \notin {"init", "new"}, NEW l \in Levels,
         NEW f \in 0 .. N_level[l] - 1, NEW n \in Nat \ {0}, NEW c \in {2 * n, 2 * n + 1},
         NEW j \in Depths(l), c = Node(l, f, j)
  PROVE  /\ j < D_level[l] /\ j + 1 \in Depths(l) /\ n = Node(l, f, j + 1)
         /\ \A i \in Depths(l) : n = Node(l, f, i) => i = j + 1
<1>1. c \in Nat /\ c >= 2 /\ c \div 2 = n
  OBVIOUS
<1>2. j # D_level[l] /\ D_level[l] \in Nat /\ j \in 0 .. D_level[l]
  BY <1>1, PathNodes DEF Depths
<1>3. j < D_level[l]
  BY <1>2
<1>4. j + 1 \in Depths(l) /\ n = Node(l, f, j + 1)
  BY <1>1, <1>3, PathNodes
<1> QED BY <1>3, <1>4, PathBucketsDiffer

-----------------------------------------------------------------------------
(* Trees whose hashes are to be right.  The hash tree of a position map    *)
(* goes wrong with the first path that is written back to it, as the new   *)
(* path is hashed with the bucket size of the data level.                  *)
Intact(l) ==
  /\ cfg.isLSinit /\ Roomy(l) /\ D_level[l] > 0
  /\ l = recursion_levels \/ last[l][1] = 0

(* The hash of what was last uploaded and of the hashes below. *)
NodeHash(l, n) ==
  IF n >= N_level[l] THEN sha256(Bucket(l, n, last[l][n]))
  ELSE sha256_node(Bucket(l, n, last[l][n]), ChildHash(l, 2 * n), ChildHash(l, 2 * n + 1))

(* HashTreeConsistent and VerifyAgrees speak of storage at rest and of the *)
(* end of verifyPath.  Between: the build has hashed the buckets before    *)
(* the next one, what downloadPath fetched is still what is stored, and    *)
(* the hashes that are going to be uploaded are those of the new path.     *)
Rooted(l) ==
  1 \in Done(l) /\ ~(phase = "upload" /\ level = l) =>
    merkle_root_hash_level[l] = ChildHash(l, 1)

DoneHashed ==
  phase \notin {"init", "new"} =>
    /\ DOMAIN merkle_root_hash_level = Levels
    /\ \A l \in Levels : Intact(l) =>
         Rooted(l) /\ \A n \in Done(l) : ChildHash(l, n) = NodeHash(l, n)

Fetched ==
  Comfortable =>
    /\ phase \in {"verify", "verified", "upload"} =>
         \A h \in 0 .. 2 * D_level[level] : path_hash[h] = PathHashes(leaf)[h]
    /\ phase = "verify" =>
         \A i \in Depths(level), k \in 0 .. BucketSize(level) - 1 :
           fetched_path_array[i * BucketSize(level) + k]
             = Byte(inmem_tree_l[level],
                    PathOffset(level, Node(level, leaf, i)) + k)

(* The hash of the new bucket i of a path, h below it. *)
NewNodeHash(i, below) ==
  LET b == Bucket(level, Node(level, leaf, i), accesses)
  IN  IF i = 0 THEN sha256(b)
      ELSE IF Node(level, leaf, i - 1) % 2 = 0
           THEN sha256_node(b, below, path_hash[2 * i - 1])
           ELSE sha256_node(b, path_hash[2 * i - 2], below)

NewHashReady ==
  phase = "upload" /\ level = recursion_levels /\ Comfortable =>
    /\ \A i \in Depths(level) :
         new_path_hash[i] = NewNodeHash(i, new_path_hash[i - 1])
    /\ D_level[level] > 0 =>
         merkle_root_hash_level[level] = new_path_hash[D_level[level]]

Agreed ==
  /\ phase \in {"download", "verify", "verified", "upload"} => accesses > 0
  /\ phase = "verified" /\ Intact(level) => failed = {}

HashInv == FaithInv /\ DoneHashed /\ Fetched /\ NewHashReady /\ Agreed

(* Once a tree is built, all of it is. *)
LEMMA AllDone ==
  ASSUME phase \notin {"init", "new", "build"}, NEW l \in Levels, cfg.isLSinit
  PROVE  Done(l) = Buckets(l)
BY DEF Done, BuiltBuckets

(* What parameters and uploads decide stays as long as they do. *)
LEMMA SameHashes ==
  ASSUME UNCHANGED <<params, last, inmem_hash_l>>
  PROVE  \A l : /\ Intact(l)' = Intact(l)
                /\ \A n : ChildHash(l, n)' = ChildHash(l, n) /\ NodeHash(l, n)' = NodeHash(l, n)
<1> TAKE l
<1>1. Roomy(l)' = Roomy(l) /\ BucketSize(l)' = BucketSize(l)
  BY SameTrees
<1>2. UNCHANGED <<cfg, recursion_levels, D_level, N_level>>
  BY DEF params
<1>3. Intact(l)' = Intact(l)
  BY <1>1, <1>2 DEF Intact
<1>4. \A n : ChildHash(l, n)' = ChildHash(l, n)
  BY DEF ChildHash, Byte
<1>5. ASSUME NEW n PROVE NodeHash(l, n)' = NodeHash(l, n)
  <2>1. Bucket(l, n, last[l][n])' = Bucket(l, n, last[l][n])
    BY <1>1 DEF Bucket
  <2> QED BY <1>2, <1>4, <2>1 DEF NodeHash, sha256, sha256_node
<1> QED BY <1>3, <1>4, <1>5

(* Where the hashes and the roots stay, so does their agreement. *)
LEMMA HashedStays ==
  ASSUME DoneHashed, Built, Built', UNCHANGED <<params, last, inmem_hash_l>>,
         UNCHANGED merkle_root_hash_level, phase # "upload"
  PROVE  DoneHashed'
<1>1. phase \notin {"init", "new", "build"} /\ phase' \notin {"init", "new", "build"}
  BY DEF Built
<1>2. UNCHANGED params
  BY DEF params
<1>3. Levels' = Levels /\ \A l : BuiltBuckets(l)' = BuiltBuckets(l)
  BY <1>2, SameTrees
<1>4. \A l : Done(l)' = Done(l)
  BY <1>1, <1>3 DEF Done
<1>5. \A l \in Levels : Intact(l) => /\ 1 \in Done(l) => merkle_root_hash_level[l] = ChildHash(l, 1)
                                     /\ \A n \in Done(l) : ChildHash(l, n) = NodeHash(l, n)
  BY <1>1 DEF DoneHashed, Rooted
<1> QED BY <1>1, <1>3, <1>4, <1>5, SameHashes DEF DoneHashed, Rooted

(* Writing the hash of one bucket changes that of no other. *)
LEMMA OneHashWritten ==
  ASSUME Sized, phase \notin {"init", "new"}, Comfortable,
         NEW l \in Levels, NEW c \in Buckets(l), NEW hash,
         inmem_hash_l' =
           [inmem_hash_l EXCEPT ![l] = Stored(@, c - 1, [k \in {0} |-> hash])]
  PROVE  /\ ChildHash(l, c)' = hash
         /\ \A n \in Nat : n # c => ChildHash(l, n)' = ChildHash(l, n)
<1> DEFINE mem == inmem_hash_l[l]
           new == inmem_hash_l'[l]
<1>1. c \in Nat \ {0} /\ DOMAIN inmem_hash_l = Levels
  BY BuiltAreBuckets DEF Sized, MemorySized
<1>2. new = [a \in DOMAIN mem |-> IF a - (c - 1) \in {0} THEN hash ELSE mem[a]]
  <2>1. new = Stored(mem, c - 1, [k \in {0} |-> hash])
    BY <1>1
  <2>2. \A k \in {0} : [j \in {0} |-> hash][k] = hash
    OBVIOUS
  <2> HIDE DEF mem, new
  <2> QED BY <2>1, <2>2 DEF Stored
<1>3. c - 1 \in DOMAIN mem
  <2>1. Inside(inmem_hash_l[l], c - 1, 1)
    <3>1. BucketSize(l) * (c - 1) \in Nat
      <4>1. BucketSize(l) \in Nat /\ c - 1 \in Nat
        BY <1>1, Kinds
      <4> QED BY <4>1
    <3> QED BY <3>1, BucketInside
  <2>2. c - 1 \in c - 1 .. (c - 1) + 1 - 1
    BY <1>1
  <2> QED BY <2>1, <2>2 DEF Inside
<1>4. \A n : ChildHash(l, n) = Byte(mem, n - 1) /\ ChildHash(l, n)' = Byte(new, n - 1)
  BY DEF ChildHash, Byte
<1> HIDE DEF mem, new
<1>5. Byte(new, c - 1) = hash
  <2>1. (c - 1) - (c - 1) = 0
    BY <1>1
  <2> QED BY <1>2, <1>3, <2>1 DEF Byte
<1>6. ASSUME NEW n \in Nat, n # c PROVE Byte(new, n - 1) = Byte(mem, n - 1)
  <2>1. (n - 1) - (c - 1) # 0
    BY <1>1, <1>6
  <2> QED BY <1>2, <2>1 DEF Byte
<1> QED BY <1>4, <1>5, <1>6

(* A step of the build hashes one bucket, with the hashes of its children  *)
(* as they are in the storage by then, and no bucket is hashed before its  *)
(* children are.                                                           *)
LEMMA BuildHashed ==
  ASSUME HashInv, BuildTreeRecursive, Sized'
  PROVE  DoneHashed'
<1> DEFINE hash == BuildHash(level, next)
<1>1. /\ phase = "build" /\ level \in Levels /\ next \in Buckets(level) /\ Sized
      /\ UNCHANGED <<params, last>> /\ phase' \in {"build", "ready"}
      /\ LastSized /\ phase \notin {"init", "new"}
  BY DEF BuildTreeRecursive, HashInv, FaithInv, Sized, TreesSized, DoneWritten
<1>2. /\ inmem_hash_l' =
           [inmem_hash_l EXCEPT ![level] = Stored(@, next - 1, [k \in {0} |-> hash])]
      /\ merkle_root_hash_level' = [merkle_root_hash_level EXCEPT ![level] = hash]
  BY DEF BuildTreeRecursive
<1>3. /\ DOMAIN merkle_root_hash_level = Levels
      /\ \A l \in Levels : Intact(l) =>
           Rooted(l) /\ \A n \in Done(l) : ChildHash(l, n) = NodeHash(l, n)
  BY <1>1 DEF HashInv, DoneHashed
<1>4. /\ Levels' = Levels
      /\ \A l : BucketSize(l)' = BucketSize(l) /\ Roomy(l)' = Roomy(l)
      /\ UNCHANGED <<cfg, recursion_levels, D_level, N_level>>
  BY <1>1, SameTrees DEF params
<1>5. \A l : /\ Intact(l)' = Intact(l)
             /\ \A n : Bucket(l, n, last[l][n])' = Bucket(l, n, last[l][n])
  BY <1>1, <1>4 DEF Intact, Bucket
<1>6. DOMAIN inmem_hash_l = Levels /\ next \in Nat \ {0} /\ next <= 2 * N_level[level] - 1
  <2>1. N_level[level] \in Nat
    BY <1>1, Kinds
  <2> QED BY <1>1, <2>1 DEF Sized, MemorySized, Buckets
<1>7. ASSUME NEW l \in Levels, l # level
      PROVE  /\ merkle_root_hash_level'[l] = merkle_root_hash_level[l]
             /\ \A n : ChildHash(l, n)' = ChildHash(l, n) /\ NodeHash(l, n)' = NodeHash(l, n)
  <2>1. inmem_hash_l'[l] = inmem_hash_l[l]
        /\ merkle_root_hash_level'[l] = merkle_root_hash_level[l]
    BY <1>2, <1>3, <1>6, <1>7
  <2>2. \A n : ChildHash(l, n)' = ChildHash(l, n)
    BY <2>1 DEF ChildHash, Byte
  <2> QED BY <1>4, <1>5, <2>1, <2>2 DEF NodeHash, sha256, sha256_node
<1>8. ASSUME NEW l \in Levels, l = level, Intact(l), NEW c \in Nat, c = next
      PROVE  /\ ChildHash(l, c)' = hash
             /\ \A n \in Nat : n # c => ChildHash(l, n)' = ChildHash(l, n)
  <2>1. inmem_hash_l' =
          [inmem_hash_l EXCEPT ![l] = Stored(@, c - 1, [k \in {0} |-> hash])]
    BY <1>2, <1>8
  <2>2. c \in Buckets(l) /\ Comfortable
    BY <1>1, <1>8 DEF Intact, Roomy
  <2>3. Sized /\ phase \notin {"init", "new"}
    BY <1>1
  <2> HIDE DEF hash
  <2> QED BY <2>1, <2>2, <2>3, OneHashWritten
<1>9. ASSUME NEW l \in Levels, l = level, Intact(l), NEW n \in Done(l)
      PROVE  n # next /\ 2 * n + 1 # next /\ n # 1
             /\ (n < N_level[l] => 2 * n # next /\ n > next)
  <2>1. /\ n \in Buckets(l) /\ n \in Nat \ {0} /\ N_level[l] \in Nat \ {0}
        /\ IF next >= N_level[l] THEN N_level[l] <= n /\ n < next ELSE n > next
    BY <1>1, <1>9, Kinds, BuiltAreBuckets DEF Done
  <2>2. N_level[l] >= 2
    <3>1. /\ D_level[l] \in Nat /\ 2 ^ 0 = 1
          /\ \A i \in Depths(l) : 2 ^ i <= N_level[l] /\ 2 ^ (i + 1) = 2 * 2 ^ i
      BY <1>1, Kinds
    <3>2. 0 \in Depths(l) /\ 1 \in Depths(l)
      BY <1>9, <3>1 DEF Depths, Intact
    <3>3. 2 ^ 1 = 2
      BY <3>1, <3>2
    <3> QED BY <3>1, <3>2, <3>3
  <2> QED BY <1>6, <1>9, <2>1, <2>2
<1>10. ASSUME NEW l \in Levels, Intact(l), NEW n \in Done(l)'
       PROVE  ChildHash(l, n)' = NodeHash(l, n)'
  <2>1. n \in Done(l) \/ (l = level /\ n = next)
    BY <1>1, BuildOrder
  <2>2. CASE l # level
    BY <1>3, <1>7, <1>10, <2>1, <2>2
  <2>3. CASE l = level /\ n = next
    <3>1. /\ ChildHash(l, n)' = hash
          /\ ChildHash(l, 2 * n)' = ChildHash(l, 2 * n)
          /\ ChildHash(l, 2 * n + 1)' = ChildHash(l, 2 * n + 1)
      <4>1. n \in Nat \ {0} /\ 2 * n \in Nat /\ 2 * n + 1 \in Nat /\ 2 * n # n /\ 2 * n + 1 # n
        BY <1>6, <2>3
      <4> HIDE DEF hash
      <4> QED BY <1>8, <1>10, <2>3, <4>1
    <3>2. last[l][n] = 0
      BY <1>1, <2>3 DEF LastSized
    <3>3. Bucket(l, n, last[l][n])' = Bucket(l, n, 0)
      BY <1>5, <3>2
    <3>4. NodeHash(l, n)' = IF n >= N_level[l] THEN sha256(Bucket(l, n, 0))
                            ELSE sha256_node(Bucket(l, n, 0), ChildHash(l, 2 * n),
                                             ChildHash(l, 2 * n + 1))
      BY <1>4, <3>1, <3>3 DEF NodeHash, sha256, sha256_node
    <3> QED BY <2>3, <3>1, <3>4 DEF BuildHash
  <2>4. CASE l = level /\ n # next
    <3>1. n \in Done(l) /\ n \in Nat
      BY <1>1, <2>1, <2>4, BuiltAreBuckets DEF Done
    <3>2. /\ ChildHash(l, n)' = ChildHash(l, n)
          /\ n < N_level[l] => /\ ChildHash(l, 2 * n)' = ChildHash(l, 2 * n)
                               /\ ChildHash(l, 2 * n + 1)' = ChildHash(l, 2 * n + 1)
      <4>1. 2 * n \in Nat /\ 2 * n + 1 \in Nat
        BY <3>1
      <4> QED BY <1>6, <1>8, <1>9, <1>10, <2>4, <3>1, <4>1
    <3>3. N_level[l] \in Nat
      BY <1>1, Kinds
    <3>4. NodeHash(l, n)' = NodeHash(l, n)
      BY <1>4, <1>5, <3>1, <3>2, <3>3 DEF NodeHash, sha256, sha256_node
    <3> QED BY <1>3, <1>10, <3>1, <3>2, <3>4
  <2> QED BY <2>2, <2>3, <2>4
<1>11. ASSUME NEW l \in Levels, Intact(l), 1 \in Done(l)'
       PROVE  merkle_root_hash_level'[l] = ChildHash(l, 1)'
  <2>1. 1 \in Done(l) \/ (l = level /\ 1 = next)
    BY <1>1, <1>11, BuildOrder
  <2>2. CASE l # level
    BY <1>1, <1>3, <1>7, <1>11, <2>1, <2>2 DEF Rooted
  <2>3. CASE l = level
    <3>1. 1 = next
      BY <1>9, <1>11, <2>1, <2>3
    <3>2. ChildHash(l, 1)' = hash
      <4> HIDE DEF hash
      <4> QED BY <1>8, <1>11, <2>3, <3>1
    <3> QED BY <1>2, <1>3, <2>3, <3>2
  <2> QED BY <2>2, <2>3
<1>12. DOMAIN merkle_root_hash_level' = Levels
  BY <1>2, <1>3
<1> QED BY <1>1, <1>4, <1>5, <1>10, <1>11, <1>12 DEF DoneHashed, Rooted

-----------------------------------------------------------------------------
(* A path of unchanged storage is the same path. *)
LEMMA SamePath ==
  ASSUME UNCHANGED <<params, memory, level>>
  PROVE  /\ Depths(level)' = Depths(level) /\ BucketSize(level)' = BucketSize(level)
         /\ Comfortable' = Comfortable
         /\ \A f : PathHashes(f)' = PathHashes(f)
         /\ \A f, i, k : Byte(inmem_tree_l[level], PathOffset(level, Node(level, f, i)) + k)'
              = Byte(inmem_tree_l[level], PathOffset(level, Node(level, f, i)) + k)
<1>1. UNCHANGED <<cfg, recursion_levels, D_level, N_level, inmem_tree_l, inmem_hash_l>>
  BY DEF params, memory
<1>2. BucketSize(level)' = BucketSize(level) /\ Depths(level)' = Depths(level)
      /\ Comfortable' = Comfortable
  BY <1>1 DEF BucketSize, BlockSize, Depths, Comfortable
<1>3. \A f, i : Node(level, f, i)' = Node(level, f, i)
  BY <1>1 DEF Node
<1>4. \A n : ChildHash(level, n)' = ChildHash(level, n)
  BY <1>1 DEF ChildHash, Byte
<1>5. \A f : PathHashes(f)' = PathHashes(f)
  BY <1>1, <1>3, <1>4 DEF PathHashes
<1>6. \A n : PathOffset(level, n)' = PathOffset(level, n)
  BY <1>2 DEF PathOffset
<1> QED BY <1>1, <1>2, <1>3, <1>5, <1>6 DEF Byte

(* What downloadPath leaves in the buffers is the path that is stored. *)
LEMMA DownloadFetched ==
  ASSUME Sized, downloadPath
  PROVE  Fetched'
<1>1. /\ phase = "download" /\ phase' = "verify" /\ level \in Levels /\ Built
      /\ phase \notin {"init", "new"}
      /\ UNCHANGED <<params, memory, level>>
  BY DEF downloadPath, Sized, TreesSized, Built, Phases
<1>2. PICK f \in 0 .. N_level[level] - 1 :
        /\ leaf' = f
        /\ fetched_path_array' = Stored(fetched_path_array, 0, PathBytes(f))
        /\ path_hash' = Stored(path_hash, 0, PathHashes(f))
  BY DEF downloadPath
<1>3. /\ Depths(level)' = Depths(level) /\ BucketSize(level)' = BucketSize(level)
      /\ Comfortable' = Comfortable /\ PathHashes(leaf)' = PathHashes(f)
      /\ \A i, k : Byte(inmem_tree_l[level], PathOffset(level, Node(level, leaf, i)) + k)'
           = Byte(inmem_tree_l[level], PathOffset(level, Node(level, f, i)) + k)
  <2>1. PathHashes(leaf)' = PathHashes(f)
    <3>1. UNCHANGED <<N_level, D_level, level, inmem_hash_l>>
      BY <1>1 DEF params, memory
    <3> QED BY <1>2, <3>1 DEF PathHashes, Node, ChildHash, Byte
  <2>2. UNCHANGED <<cfg, recursion_levels, N_level, inmem_tree_l>>
    BY <1>1 DEF params, memory
  <2>3. BucketSize(level)' = BucketSize(level)
    BY <1>1, SamePath
  <2>4. \A i, k : Byte(inmem_tree_l[level], PathOffset(level, Node(level, leaf, i)) + k)'
           = Byte(inmem_tree_l[level], PathOffset(level, Node(level, f, i)) + k)
    BY <1>1, <1>2, <2>2, <2>3 DEF Byte, PathOffset, Node
  <2> QED BY <1>1, <2>1, <2>4, SamePath
<1>4. ASSUME Comfortable, NEW h \in 0 .. 2 * D_level[level]
      PROVE  path_hash'[h] = PathHashes(f)[h]
  <2>1. D_level[level] \in Nat /\ DOMAIN path_hash = 0 .. HashSlots - 1
        /\ 2 * D_level[level] + 1 <= HashSlots /\ HashSlots \in Nat
    BY <1>1, <1>4, Kinds, PathInside DEF Sized, BuffersSized
  <2>2. h \in DOMAIN path_hash /\ h - 0 = h
    BY <2>1
  <2>3. h \in DOMAIN PathHashes(f)
    BY DEF PathHashes
  <2> QED BY <1>2, <2>2, <2>3 DEF Stored
<1>5. ASSUME Comfortable, NEW i \in Depths(level), NEW k \in 0 .. BucketSize(level) - 1
      PROVE  fetched_path_array'[i * BucketSize(level) + k]
               = Byte(inmem_tree_l[level], PathOffset(level, Node(level, f, i)) + k)
  <2> DEFINE s == BucketSize(level)
             d == D_level[level]
             a == i * s + k
             B(n, j) == Byte(inmem_tree_l[level], PathOffset(level, n) + j)
             bytes == [h \in 0 .. s * (d + 1) - 1 |-> B(Node(level, f, h \div s), h % s)]
  <2>1. s \in Nat \ {0} /\ d \in Nat /\ i \in 0 .. d /\ k \in 0 .. s - 1
    BY <1>1, Kinds DEF Depths
  <2>2. a \in 0 .. s * (d + 1) - 1 /\ a \div s = i /\ a % s = k
    <3> HIDE DEF s, d
    <3> QED BY <2>1, PlaceInPath
  <2>3. PathBytes(f) = bytes
    BY DEF PathBytes
  <2>4. a \in DOMAIN fetched_path_array
    <3>1. DOMAIN fetched_path_array = 0 .. largest_path_size - 1
      BY <1>1 DEF Sized, BuffersSized
    <3>2. s * (d + 1) \in Nat /\ largest_path_size \in Nat /\ s * (d + 1) <= largest_path_size
      BY <1>1, <1>5, PathInside
    <3> HIDE DEF s, d, a
    <3> QED BY <2>2, <3>1, <3>2
  <2>5. a - 0 = a
    BY <2>1
  <2>6. fetched_path_array'[a] = bytes[a]
    <3>1. a - 0 \in DOMAIN bytes
      BY <2>2, <2>5
    <3> HIDE DEF bytes, a
    <3> QED BY <1>2, <2>3, <2>4, <2>5, <3>1 DEF Stored
  <2>7. bytes[a] = B(Node(level, f, i), k)
    <3> HIDE DEF s, a, B
    <3> QED BY <2>2
  <2> QED BY <2>6, <2>7
<1>6. D_level'[level'] = D_level[level]
  BY <1>1 DEF params
<1> QED BY <1>1, <1>3, <1>4, <1>5, <1>6 DEF Fetched

(* It stays that until the upload. *)
LEMMA FetchedStays ==
  ASSUME Fetched, UNCHANGED <<params, memory, level>>, UNCHANGED <<leaf, path_hash>>,
         phase \in {"verify", "verified", "upload"}, phase' # "verify"
  PROVE  Fetched'
<1>1. Comfortable' = Comfortable /\ D_level'[level'] = D_level[level]
  BY SamePath DEF params
<1>2. PathHashes(leaf)' = PathHashes(leaf)
  <2>1. UNCHANGED <<N_level, D_level, level, inmem_hash_l, leaf>>
    BY DEF params, memory
  <2> QED BY <2>1 DEF PathHashes, Node, ChildHash, Byte
<1> QED BY <1>1, <1>2 DEF Fetched

-----------------------------------------------------------------------------
(* Where the hashes of a path are: of each bucket but the root those of it *)
(* and its sibling, the children of the next bucket; of the root its own.  *)
LEMMA PlacesOfHashes ==
  ASSUME Sized, Built, NEW f \in 0 .. N_level[level] - 1
  PROVE  /\ 2 * D_level[level] \in 0 .. 2 * D_level[level]
         /\ PathHashes(f)[2 * D_level[level]] = ChildHash(level, 1)
         /\ \A i \in Depths(level) : i < D_level[level] =>
              LET up == Node(level, f, i + 1)
                  n == Node(level, f, i)
              IN  /\ {2 * i, 2 * i + 1, 2 * i + (n % 2)} \subseteq 0 .. 2 * D_level[level]
                  /\ PathHashes(f)[2 * i] = ChildHash(level, 2 * up)
                  /\ PathHashes(f)[2 * i + 1] = ChildHash(level, 2 * up + 1)
                  /\ PathHashes(f)[2 * i + (n % 2)] = ChildHash(level, n)
<1> DEFINE d == D_level[level]
<1>1. level \in Levels /\ phase \notin {"init", "new"}
  BY DEF Sized, Built, TreesSized
<1>2. d \in Nat
  BY <1>1, Kinds
<1>3. ASSUME NEW h \in 0 .. 2 * d
      PROVE  PathHashes(f)[h] =
               IF h = 2 * d THEN ChildHash(level, Node(level, f, h \div 2))
               ELSE ChildHash(level, 2 * (Node(level, f, h \div 2) \div 2) + (h % 2))
  BY DEF PathHashes
<1>4. 2 * d \in 0 .. 2 * d /\ (2 * d) \div 2 = d
  BY <1>2
<1>5. PathHashes(f)[2 * d] = ChildHash(level, 1)
  <2>1. Node(level, f, d) = 1
    BY <1>1, PathNodes
  <2> HIDE DEF d
  <2> QED BY <1>3, <1>4, <2>1
<1>6. ASSUME NEW i \in Depths(level), i < d
      PROVE  LET up == Node(level, f, i + 1)
                 n == Node(level, f, i)
             IN  /\ {2 * i, 2 * i + 1, 2 * i + (n % 2)} \subseteq 0 .. 2 * d
                 /\ PathHashes(f)[2 * i] = ChildHash(level, 2 * up)
                 /\ PathHashes(f)[2 * i + 1] = ChildHash(level, 2 * up + 1)
                 /\ PathHashes(f)[2 * i + (n % 2)] = ChildHash(level, n)
  <2> DEFINE up == Node(level, f, i + 1)
             n == Node(level, f, i)
  <2>1. n \in Nat \ {0} /\ up = n \div 2 /\ i \in Nat
    BY <1>1, <1>2, <1>6, PathNodes DEF Depths
  <2> HIDE DEF up, n, d
  <2>2. /\ 2 * i \in 0 .. 2 * d /\ 2 * i + 1 \in 0 .. 2 * d /\ n % 2 \in {0, 1}
        /\ 2 * i # 2 * d /\ 2 * i + 1 # 2 * d
        /\ (2 * i) \div 2 = i /\ (2 * i + 1) \div 2 = i
        /\ (2 * i) % 2 = 0 /\ (2 * i + 1) % 2 = 1
    BY <1>2, <1>6, <2>1
  <2>3. PathHashes(f)[2 * i] = ChildHash(level, 2 * up)
    <3>1. PathHashes(f)[2 * i] = ChildHash(level, 2 * (n \div 2) + 0)
      BY <1>3, <2>2 DEF n
    <3> QED BY <2>1, <3>1
  <2>4. PathHashes(f)[2 * i + 1] = ChildHash(level, 2 * up + 1)
    BY <1>3, <2>1, <2>2 DEF n
  <2>5. PathHashes(f)[2 * i + (n % 2)] = ChildHash(level, n)
    <3>1. CASE n % 2 = 0
      <4>1. n = 2 * up
        BY <2>1, <3>1
      <4>2. 2 * i + (n % 2) = 2 * i
        BY <2>1, <3>1
      <4> QED BY <2>3, <4>1, <4>2
    <3>2. CASE n % 2 = 1
      <4>1. n = 2 * up + 1
        BY <2>1, <3>2
      <4>2. 2 * i + (n % 2) = 2 * i + 1
        BY <3>2
      <4> QED BY <2>4, <4>1, <4>2
    <3> QED BY <2>2, <3>1, <3>2
  <2>6. {2 * i, 2 * i + 1, 2 * i + (n % 2)} \subseteq 0 .. 2 * d
    <3>1. 2 * i + (n % 2) = 2 * i \/ 2 * i + (n % 2) = 2 * i + 1
      BY <2>1, <2>2
    <3> QED BY <2>2, <3>1
  <2> QED BY <2>3, <2>4, <2>5, <2>6 DEF up, n
<1> QED BY <1>4, <1>5, <1>6 DEF d

(* A bucket that is written has its bytes in a row. *)
LEMMA FetchedIsBucket ==
  ASSUME HashInv, phase = "verify", Intact(level), NEW i \in Depths(level)
  PROVE  FetchedBucket(i)
           = Bucket(level, Node(level, leaf, i), last[level][Node(level, leaf, i)])
<1> DEFINE s == BucketSize(level)
           n == Node(level, leaf, i)
<1>1. /\ level \in Levels /\ phase \notin {"init", "new", "build"} /\ Sized /\ Built
      /\ leaf \in 0 .. N_level[level] - 1 /\ cfg.isLSinit /\ Comfortable /\ Roomy(level)
  BY DEF HashInv, FaithInv, Sized, TreesSized, Built, Phases, Intact, Roomy
<1>2. s \in Nat /\ i \in Nat
  BY <1>1, Kinds DEF Depths
<1>3. n \in Buckets(level)
  BY <1>1, NodeIsBucket
<1>4. n \in Done(level)
  BY <1>1, <1>3, AllDone
<1>5. Written(level, n)
  BY <1>1, <1>4 DEF HashInv, FaithInv, DoneWritten
<1>6. ASSUME NEW k \in 0 .. s - 1
      PROVE  Byte(fetched_path_array, i * s + k) = <<level, n, last[level][n], k>>
  <2>1. PathOffset(level, n) = s * (n - 1)
    <3>1. s > 0
      BY <1>2, <1>6
    <3> QED BY <1>1, <1>3, <3>1, Addresses DEF Roomy
  <2>2. fetched_path_array[i * s + k] = Byte(inmem_tree_l[level], PathOffset(level, n) + k)
    BY <1>1 DEF HashInv, Fetched
  <2>3. i * s + k \in DOMAIN fetched_path_array
    <3> DEFINE d == D_level[level]
    <3>1. DOMAIN fetched_path_array = 0 .. largest_path_size - 1
      BY <1>1 DEF Sized, BuffersSized
    <3>2. s * (d + 1) \in Nat /\ largest_path_size \in Nat /\ s * (d + 1) <= largest_path_size
      BY <1>1, PathInside
    <3>3. d \in Nat /\ i \in 0 .. d /\ s \in Nat \ {0} /\ k \in 0 .. s - 1
      BY <1>1, <1>2, Kinds DEF Depths
    <3> HIDE DEF s, d
    <3>4. i * s + k \in 0 .. s * (d + 1) - 1
      BY <3>3, PlaceInPath
    <3> QED BY <3>1, <3>2, <3>4
  <2> HIDE DEF s, n
  <2> QED BY <1>5, <2>1, <2>2, <2>3 DEF Byte, Written, s
<1>7. FetchedBucket(i) = [k \in 0 .. s - 1 |-> Byte(fetched_path_array, i * s + k)]
  BY DEF FetchedBucket, Bytes
<1> HIDE DEF n
<1> QED BY <1>6, <1>7 DEF Bucket, n

(* Of a path of an intact tree no comparison fails. *)
LEMMA NoComparisonFails ==
  ASSUME HashInv, phase = "verify", Intact(level)
  PROVE  FailedComparisons = {}
<1> DEFINE d == D_level[level]
           N(i) == Node(level, leaf, i)
<1>1. /\ level \in Levels /\ phase \notin {"init", "new", "build"} /\ Sized /\ Built
      /\ leaf \in 0 .. N_level[level] - 1 /\ cfg.isLSinit /\ Comfortable /\ d > 0
  BY DEF HashInv, FaithInv, Sized, TreesSized, Built, Phases, Intact, Roomy
<1>2. /\ d \in Nat /\ 0 \in Depths(level) /\ N(0) \in Nat /\ N(0) >= N_level[level]
      /\ N_level[level] \in Nat \ {0}
  BY <1>1, PathNodes
<1>3. /\ merkle_root_hash_level[level] = ChildHash(level, 1)
      /\ \A n \in Buckets(level) : ChildHash(level, n) = NodeHash(level, n)
  <2>1. Done(level) = Buckets(level) /\ 1 \in Buckets(level)
    BY <1>1, <1>2, AllDone DEF Buckets
  <2> QED BY <1>1, <2>1 DEF HashInv, DoneHashed, Rooted
<1>4. \A h \in 0 .. 2 * d : path_hash[h] = PathHashes(leaf)[h]
  BY <1>1 DEF HashInv, Fetched
<1>5. path_hash[2 * d] = merkle_root_hash_level[level]
  BY <1>1, <1>3, <1>4, PlacesOfHashes
<1>6. ASSUME NEW i \in Depths(level), ~(i = d /\ i > 0)
      PROVE  ComputedHash(i) = Retrieved(i)
  <2>1. i \in Nat /\ i < d
    BY <1>1, <1>2, <1>6 DEF Depths
  <2>2. /\ N(i) \in Buckets(level) /\ N(i) \in Nat \ {0}
        /\ FetchedBucket(i) = Bucket(level, N(i), last[level][N(i)])
        /\ i > 0 => i - 1 \in Depths(level) /\ N(i) < N_level[level]
    BY <1>1, <2>1, NodeIsBucket, PathNodes, FetchedIsBucket
  <2>3. Retrieved(i) = ChildHash(level, N(i))
    BY <1>1, <1>4, <2>1, PlacesOfHashes DEF Retrieved
  <2>4. CASE i = 0
    BY <1>2, <1>3, <2>2, <2>3, <2>4 DEF ComputedHash, NodeHash
  <2>5. CASE i > 0
    <3>1. i - 1 \in Depths(level) /\ i - 1 < d /\ (i - 1) + 1 = i
          /\ 2 * i - 2 = 2 * (i - 1) /\ 2 * i - 1 = 2 * (i - 1) + 1
      BY <1>2, <2>1, <2>2, <2>5
    <3>2. /\ path_hash[2 * i - 2] = ChildHash(level, 2 * N(i))
          /\ path_hash[2 * i - 1] = ChildHash(level, 2 * N(i) + 1)
      <4> HIDE DEF d
      <4> QED BY <1>1, <1>4, <3>1, PlacesOfHashes DEF d
    <3>3. ~(N(i) >= N_level[level])
      BY <1>2, <2>2, <2>5
    <3> QED BY <1>3, <2>2, <2>3, <2>5, <3>2, <3>3 DEF ComputedHash, NodeHash
  <2> QED BY <2>1, <2>4, <2>5
<1> QED BY <1>5, <1>6 DEF FailedComparisons

-----------------------------------------------------------------------------
(* The hashes of a new path exist: the function NewHash is defined by      *)
(* recursion.                                                              *)
HashAbove(p, i, below) ==
  IF i = 0 THEN sha256(HashedBucket(p, 0))
  ELSE IF Node(level, leaf, i - 1) % 2 = 0
       THEN sha256_node(HashedBucket(p, i), below, path_hash[2 * i - 1])
       ELSE sha256_node(HashedBucket(p, i), path_hash[2 * i - 2], below)

AreHashes(h, p, k) == h = [i \in 0 .. k |-> HashAbove(p, i, h[i - 1])]

(* There is such a function for a path of any length: one for a shorter    *)
(* path can be made longer.                                                *)
LEMMA NewHashExists ==
  ASSUME NEW p, NEW d \in Nat
  PROVE  \E h : AreHashes(h, p, d)
<1> DEFINE T == { k \in Nat : ~\E h : AreHashes(h, p, k) }
<1> SUFFICES ASSUME T # {} PROVE FALSE
  OBVIOUS
<1>1. PICK k \in T : \A j \in T : k <= j
  BY LeastElement
<1>2. CASE k = 0
  <2>1. HashAbove(p, 0, [j \in 0 .. 0 |-> HashAbove(p, 0, p)][0 - 1]) = HashAbove(p, 0, p)
    BY DEF HashAbove
  <2>2. AreHashes([j \in 0 .. 0 |-> HashAbove(p, 0, p)], p, 0)
    <3> DEFINE h == [j \in 0 .. 0 |-> HashAbove(p, 0, p)]
    <3>1. \A j \in 0 .. 0 : HashAbove(p, j, h[j - 1]) = HashAbove(p, 0, p)
      BY <2>1
    <3> QED BY <3>1 DEF AreHashes
  <2> QED BY <1>2, <2>2
<1>3. CASE k # 0
  <2>1. k - 1 \in Nat /\ k - 1 \notin T
    BY <1>1, <1>3
  <2>2. PICK h : AreHashes(h, p, k - 1)
    BY <2>1
  <2>3. \A j \in 0 .. k - 1 : h[j] = HashAbove(p, j, h[j - 1])
    <3>1. h = [j \in 0 .. k - 1 |-> HashAbove(p, j, h[j - 1])]
      BY <2>2 DEF AreHashes
    <3> QED BY <3>1
  <2> DEFINE g == [j \in 0 .. k |-> IF j = k THEN HashAbove(p, k, h[k - 1]) ELSE h[j]]
  <2>4. ASSUME NEW j \in 0 .. k PROVE g[j] = HashAbove(p, j, g[j - 1])
    <3>1. CASE j = 0
      <4>1. j \in 0 .. k - 1 /\ g[j] = h[j]
        BY <1>3, <2>1, <3>1
      <4>2. \A a, b : HashAbove(p, 0, a) = HashAbove(p, 0, b)
        BY DEF HashAbove
      <4> QED BY <2>3, <3>1, <4>1, <4>2
    <3>2. CASE j # 0
      <4>1. j - 1 \in 0 .. k /\ j - 1 # k
        BY <3>2
      <4>2. g[j - 1] = h[j - 1]
        BY <4>1
      <4>3. j # k => j \in 0 .. k - 1
        OBVIOUS
      <4> QED BY <2>3, <4>2, <4>3
    <3> QED BY <3>1, <3>2
  <2>5. AreHashes(g, p, k)
    <3>1. g = [j \in 0 .. k |-> g[j]]
      OBVIOUS
    <3> HIDE DEF g
    <3> QED BY <2>4, <3>1 DEF AreHashes
  <2> QED BY <2>5
<1> QED BY <1>2, <1>3

(* So NewHash, which is a choice of such a function, is one. *)
LEMMA NewHashIs ==
  ASSUME NEW p, D_level[level] \in Nat
  PROVE  /\ DOMAIN NewHash(p) = Depths(level)
         /\ \A i \in Depths(level) : NewHash(p)[i] = HashAbove(p, i, NewHash(p)[i - 1])
<1>1. Depths(level) = 0 .. D_level[level]
  BY DEF Depths
<1>2. NewHash(p) = CHOOSE h : AreHashes(h, p, D_level[level])
  BY <1>1 DEF NewHash, AreHashes, HashAbove
<1>3. AreHashes(NewHash(p), p, D_level[level])
  BY <1>2, NewHashExists
<1> HIDE DEF NewHash
<1> DEFINE g == NewHash(p)
<1>4. g = [i \in Depths(level) |-> HashAbove(p, i, g[i - 1])]
  BY <1>1, <1>3 DEF AreHashes
<1> HIDE DEF g
<1>5. DOMAIN g = Depths(level) /\ \A i \in Depths(level) : g[i] = HashAbove(p, i, g[i - 1])
  BY <1>4
<1> QED BY <1>5 DEF g

(* The hashes made for a new path of the data level are its hashes. *)
LEMMA NewPathHashed ==
  ASSUME HashInv, CreateNewPathHash, FaithInv'
  PROVE  NewHashReady'
<1> SUFFICES ASSUME level = recursion_levels, Comfortable PROVE NewHashReady'
  <2>1. UNCHANGED <<cfg, recursion_levels, level>>
    BY DEF CreateNewPathHash, params
  <2> QED BY <2>1 DEF NewHashReady, Comfortable
<1> DEFINE p == encrypted_path'
           h == NewHash(p)
           d == D_level[level]
           s == BucketSize(level)
           N(i) == Node(level, leaf, i)
<1>1. /\ phase = "verified" /\ phase' = "upload" /\ level \in Levels /\ Sized /\ Built
      /\ phase \notin {"init", "new"} /\ leaf \in 0 .. N_level[level] - 1
      /\ UNCHANGED <<params, level, leaf, path_hash, accesses>>
      /\ new_path_hash' = Stored(new_path_hash, 0, h)
      /\ d > 0 => merkle_root_hash_level' = [merkle_root_hash_level EXCEPT ![level] = h[d]]
      /\ DOMAIN merkle_root_hash_level = Levels
  BY DEF CreateNewPathHash, HashInv, FaithInv, Sized, TreesSized, Built, Phases, DoneHashed
<1>2. /\ d \in Nat /\ s \in Nat /\ d \in Depths(level)
  BY <1>1, Kinds, PathNodes
<1>3. /\ DOMAIN h = Depths(level)
      /\ \A i \in Depths(level) : h[i] = HashAbove(p, i, h[i - 1])
  BY <1>2, NewHashIs
<1>4. \A i \in Depths(level) : new_path_hash'[i] = h[i]
  <2> TAKE i \in Depths(level)
  <2>1. /\ DOMAIN new_path_hash = 0 .. HashSlots - 1 /\ HashSlots \in Nat
        /\ 2 * d + 1 <= HashSlots
    BY <1>1, PathInside DEF Sized, BuffersSized
  <2>2. i \in DOMAIN new_path_hash /\ i - 0 = i
    BY <1>2, <2>1 DEF Depths
  <2>3. i - 0 \in DOMAIN h
    BY <1>3, <2>2
  <2> HIDE DEF h
  <2> QED BY <1>1, <2>2, <2>3 DEF Stored
<1>5. UNCHANGED <<cfg, recursion_levels, D_level, N_level>>
  BY <1>1 DEF params
<1>6. /\ BucketSize(level)' = s /\ Depths(level)' = Depths(level) /\ Comfortable'
      /\ \A i : Node(level, leaf, i)' = N(i)
  BY <1>1, <1>5 DEF BucketSize, BlockSize, Depths, Comfortable, Node
<1>7. ASSUME NEW i \in Depths(level)
      PROVE  HashedBucket(p, i) = Bucket(level, N(i), accesses)
  <2>1. ASSUME NEW k \in 0 .. s - 1
        PROVE  Byte(p, i * s + k) = <<level, N(i), accesses, k>>
    <3>1. p[i * s + k] = <<level, N(i), accesses, k>>
      BY <1>1, <1>6 DEF FaithInv, PathReady
    <3>2. i * s + k \in DOMAIN p
      <4>1. DOMAIN p = 0 .. largest_path_size - 1
        <5>1. DOMAIN encrypted_path' = DOMAIN encrypted_path
          BY MemoryKeepsSize DEF CreateNewPathHash, EncryptedPath
        <5> QED BY <1>1, <5>1 DEF Sized, BuffersSized
      <4>2. s * (d + 1) \in Nat /\ largest_path_size \in Nat /\ s * (d + 1) <= largest_path_size
        BY <1>1, PathInside
      <4>3. i \in 0 .. d /\ s \in Nat \ {0} /\ k \in 0 .. s - 1
        BY <1>2 DEF Depths
      <4> HIDE DEF s, d, p
      <4>4. i * s + k \in 0 .. s * (d + 1) - 1
        BY <1>2, <4>3, PlaceInPath
      <4> QED BY <4>1, <4>2, <4>4
    <3> HIDE DEF s, p
    <3> QED BY <3>1, <3>2 DEF Byte
  <2>2. HashedBucket(p, i) = [k \in 0 .. s - 1 |-> Byte(p, i * s + k)]
    BY DEF HashedBucket, Bytes
  <2> HIDE DEF N, p
  <2> QED BY <2>1, <2>2 DEF Bucket
<1>8. ASSUME NEW i \in Depths(level), NEW below
      PROVE  HashAbove(p, i, below) = NewNodeHash(i, below)
  <2>1. i = 0 => HashedBucket(p, 0) = Bucket(level, N(0), accesses)
    BY <1>7
  <2>2. HashedBucket(p, i) = Bucket(level, N(i), accesses)
    BY <1>7
  <2> HIDE DEF p
  <2> QED BY <2>1, <2>2 DEF HashAbove, NewNodeHash
<1>9. ASSUME NEW i \in Depths(level)
      PROVE  NewNodeHash(i, new_path_hash[i - 1])' = NewNodeHash(i, new_path_hash'[i - 1])
  <2>1. Bucket(level, Node(level, leaf, i), accesses)' = Bucket(level, N(i), accesses)
    BY <1>1, <1>6 DEF Bucket
  <2>2. Node(level, leaf, i - 1)' = N(i - 1)
    BY <1>6
  <2> QED BY <1>1, <2>1, <2>2 DEF NewNodeHash, sha256, sha256_node
<1>10. ASSUME NEW i \in Depths(level)
       PROVE  h[i] = NewNodeHash(i, new_path_hash'[i - 1])
  <2>1. h[i] = NewNodeHash(i, h[i - 1])
    BY <1>3, <1>8
  <2>2. CASE i = 0
    BY <2>1, <2>2 DEF NewNodeHash
  <2>3. CASE i # 0
    <3>1. i - 1 \in Depths(level)
      BY <1>2, <2>3 DEF Depths
    <3> HIDE DEF h
    <3> QED BY <1>4, <2>1, <3>1
  <2> QED BY <2>2, <2>3
<1>11. d > 0 => merkle_root_hash_level'[level] = new_path_hash'[d]
  <2> HIDE DEF h, d
  <2> QED BY <1>1, <1>2, <1>4 DEF d
<1> HIDE DEF h
<1>12. \A i \in Depths(level) :
         new_path_hash'[i] = NewNodeHash(i, new_path_hash[i - 1])'
  BY <1>4, <1>9, <1>10
<1>13. D_level'[level'] = d /\ level' = level
  BY <1>1, <1>5
<1> HIDE DEF d
<1> QED BY <1>6, <1>11, <1>12, <1>13 DEF NewHashReady

-----------------------------------------------------------------------------
(* What uploadPath does to the hash of a bucket of its level: the new one  *)
(* if the bucket is on the path, and nothing otherwise.                    *)
LEMMA HashesUploaded ==
  ASSUME Sized, uploadPath, Comfortable, NEW l \in Levels, l = level, NEW n \in Buckets(l)
  PROVE  /\ \A i \in Depths(l) : n = Node(l, leaf, i) => ChildHash(l, n)' = new_path_hash[i]
         /\ ~(\E i \in Depths(l) : n = Node(l, leaf, i)) => ChildHash(l, n)' = ChildHash(l, n)
<1> DEFINE mem == inmem_hash_l[l]
           P(h, i) == h = Node(l, leaf, i) - 1
<1>1. /\ phase = "upload" /\ phase \notin {"init", "new"}
      /\ leaf \in 0 .. N_level[l] - 1 /\ DOMAIN inmem_hash_l = Levels
  BY DEF uploadPath, Sized, MemorySized
<1>2. inmem_hash_l'[l] =
        [h \in DOMAIN mem |-> IF \E i \in Depths(l) : P(h, i)
                              THEN new_path_hash[CHOOSE i \in Depths(l) : P(h, i)]
                              ELSE mem[h]]
  BY <1>1 DEF uploadPath
<1>3. n \in Nat \ {0} /\ n - 1 \in DOMAIN mem
  <2>1. n \in Nat \ {0} /\ BucketSize(l) \in Nat
    BY <1>1, Kinds, BuiltAreBuckets
  <2>2. BucketSize(l) * (n - 1) \in Nat
    BY <2>1
  <2>3. Inside(mem, n - 1, 1)
    BY <1>1, <2>2, BucketInside
  <2>4. n - 1 \in n - 1 .. (n - 1) + 1 - 1
    BY <2>1
  <2> QED BY <2>1, <2>3, <2>4 DEF Inside
<1>4. ASSUME NEW i \in Depths(l)
      PROVE  P(n - 1, i) <=> n = Node(l, leaf, i)
  <2>1. Node(l, leaf, i) \in Nat
    BY <1>1, PathNodes
  <2> QED BY <1>3, <2>1
<1>5. ChildHash(l, n) = mem[n - 1] /\ ChildHash(l, n)' = inmem_hash_l'[l][n - 1]
  BY <1>2, <1>3 DEF ChildHash, Byte
<1> HIDE DEF mem, P
<1>6. ASSUME NEW i \in Depths(l), n = Node(l, leaf, i)
      PROVE  ChildHash(l, n)' = new_path_hash[i]
  <2>1. \A j \in Depths(l) : P(n - 1, j) <=> j = i
    BY <1>1, <1>4, <1>6, PathBucketsDiffer
  <2>2. (CHOOSE j \in Depths(l) : P(n - 1, j)) = i
    BY <2>1
  <2> QED BY <1>2, <1>3, <1>5, <2>1, <2>2
<1>7. ASSUME ~(\E i \in Depths(l) : n = Node(l, leaf, i))
      PROVE  ChildHash(l, n)' = ChildHash(l, n)
  BY <1>2, <1>3, <1>4, <1>5, <1>7
<1> QED BY <1>6, <1>7

(* The upload leaves the data level a hash tree: a bucket off the path has *)
(* no child on it, and one on the path has one there, whose hash is new    *)
(* too, and one off it, whose hash is the one downloadPath fetched.        *)
LEMMA UploadHashed ==
  ASSUME HashInv, uploadPath, FaithInv'
  PROVE  DoneHashed'
<1>1. /\ phase = "upload" /\ level \in Levels /\ Sized /\ Built
      /\ phase \notin {"init", "new", "build"} /\ leaf \in 0 .. N_level[level] - 1
      /\ UNCHANGED params /\ UNCHANGED merkle_root_hash_level
      /\ phase' \in {"ready", "download"} /\ accesses > 0 /\ accesses \in Nat
      /\ LastSized
  <2>1. phase' \in {"ready", "download"}
    BY NextLevelSized DEF uploadPath, HashInv, FaithInv, Sized
  <2> QED BY <2>1 DEF uploadPath, HashInv, FaithInv, Sized, TreesSized, Built, Phases,
                      Agreed, DoneWritten
<1>2. /\ Levels' = Levels
      /\ \A l : /\ BucketSize(l)' = BucketSize(l) /\ Buckets(l)' = Buckets(l)
                /\ BuiltBuckets(l)' = BuiltBuckets(l) /\ Roomy(l)' = Roomy(l)
      /\ UNCHANGED <<cfg, recursion_levels, D_level, N_level>>
  BY <1>1, SameTrees DEF params
<1>3. \A l : Done(l)' = Done(l)
  BY <1>1, <1>2 DEF Done
<1>4. /\ DOMAIN merkle_root_hash_level = Levels
      /\ \A l \in Levels : Intact(l) =>
           Rooted(l) /\ \A n \in Done(l) : ChildHash(l, n) = NodeHash(l, n)
  BY <1>1 DEF HashInv, DoneHashed
<1>5. /\ DOMAIN inmem_hash_l = Levels
      /\ \A l \in Levels \ {level} : inmem_hash_l'[l] = inmem_hash_l[l] /\ last'[l] = last[l]
      /\ last'[level] =
           [n \in Buckets(level) |->
              IF \E i \in Depths(level) : n = Node(level, leaf, i) THEN accesses
                                                                   ELSE last[level][n]]
  BY <1>1 DEF uploadPath, Sized, MemorySized, LastSized
<1>6. ASSUME NEW l \in Levels, l # level, Intact(l)'
      PROVE  Rooted(l)' /\ \A n \in Done(l)' : ChildHash(l, n)' = NodeHash(l, n)'
  <2>1. last'[l] = last[l] /\ inmem_hash_l'[l] = inmem_hash_l[l]
    BY <1>5, <1>6
  <2>2. Intact(l)
    BY <1>2, <1>6, <2>1 DEF Intact
  <2>3. \A n : ChildHash(l, n)' = ChildHash(l, n)
    BY <2>1 DEF ChildHash, Byte
  <2>4. \A n : NodeHash(l, n)' = NodeHash(l, n)
    <3> TAKE n
    <3>1. Bucket(l, n, last[l][n])' = Bucket(l, n, last[l][n])
      BY <1>2, <2>1 DEF Bucket
    <3> QED BY <1>2, <2>3, <3>1 DEF NodeHash, sha256, sha256_node
  <2>5. Rooted(l)'
    BY <1>1, <1>3, <1>4, <1>6, <2>2, <2>3 DEF Rooted
  <2> QED BY <1>3, <1>4, <2>2, <2>3, <2>4, <2>5
<1>7. ASSUME NEW l \in Levels, l = level, Intact(l)'
      PROVE  Rooted(l)' /\ \A n \in Done(l)' : ChildHash(l, n)' = NodeHash(l, n)'
  <2> DEFINE d == D_level[l]
             N(i) == Node(l, leaf, i)
  <2>1. /\ d \in Nat /\ N_level[l] \in Nat \ {0} /\ d \in Depths(l) /\ 0 \in Depths(l)
        /\ N(d) = 1 /\ Comfortable /\ d > 0 /\ Roomy(l) /\ cfg.isLSinit
        /\ 1 \in Buckets(l) /\ leaf \in 0 .. N_level[l] - 1
    <3>1. /\ d \in Nat /\ N_level[l] \in Nat \ {0} /\ d \in Depths(l) /\ 0 \in Depths(l)
          /\ N(d) = 1
      BY <1>1, <1>7, PathNodes
    <3> QED BY <1>1, <1>2, <1>7, <3>1 DEF Intact, Roomy, Buckets
  <2>2. last'[l][1] = accesses
    <3>1. \E i \in Depths(l) : 1 = N(i)
      BY <2>1
    <3> QED BY <1>5, <1>7, <2>1, <3>1
  <2>3. l = recursion_levels
    BY <1>1, <1>2, <1>7, <2>2 DEF Intact
  <2>4. Intact(l)
    BY <2>1, <2>3 DEF Intact
  <2>5. /\ Done(l) = Buckets(l)
        /\ \A n \in Buckets(l) : ChildHash(l, n) = NodeHash(l, n)
    BY <1>1, <1>4, <2>1, <2>4, AllDone
  <2>6. /\ \A i \in Depths(l) :
             new_path_hash[i] = NewNodeHash(i, new_path_hash[i - 1])
        /\ merkle_root_hash_level[l] = new_path_hash[d]
    BY <1>1, <1>7, <2>1, <2>3 DEF HashInv, NewHashReady
  <2>7. ASSUME NEW n \in Buckets(l)
        PROVE  /\ \A i \in Depths(l) : n = N(i) =>
                    ChildHash(l, n)' = new_path_hash[i] /\ last'[l][n] = accesses
               /\ ~(\E i \in Depths(l) : n = N(i)) =>
                    ChildHash(l, n)' = ChildHash(l, n) /\ last'[l][n] = last[l][n]
    <3>1. /\ \A i \in Depths(l) : n = N(i) => last'[l][n] = accesses
          /\ ~(\E i \in Depths(l) : n = N(i)) => last'[l][n] = last[l][n]
      BY <1>5, <1>7
    <3>2. /\ \A i \in Depths(l) : n = N(i) => ChildHash(l, n)' = new_path_hash[i]
          /\ ~(\E i \in Depths(l) : n = N(i)) => ChildHash(l, n)' = ChildHash(l, n)
      BY <1>1, <1>7, <2>1, HashesUploaded
    <3> QED BY <3>1, <3>2
  <2>8. Rooted(l)'
    <3>1. ChildHash(l, 1)' = new_path_hash[d]
      <4> HIDE DEF d, N
      <4> QED BY <2>1, <2>7
    <3> QED BY <1>1, <2>6, <3>1 DEF Rooted
  <2>9. ASSUME NEW n \in Buckets(l) PROVE ChildHash(l, n)' = NodeHash(l, n)'
    <3>1. n \in Nat \ {0}
      BY <1>1, BuiltAreBuckets
    <3>2. NodeHash(l, n)' =
            IF n >= N_level[l] THEN sha256(Bucket(l, n, last'[l][n]))
            ELSE sha256_node(Bucket(l, n, last'[l][n]),
                             ChildHash(l, 2 * n)', ChildHash(l, 2 * n + 1)')
      <4>1. Bucket(l, n, last[l][n])' = Bucket(l, n, last'[l][n])
        BY <1>2 DEF Bucket
      <4> QED BY <1>2, <4>1 DEF NodeHash, sha256, sha256_node
    <3>3. n < N_level[l] => 2 * n \in Buckets(l) /\ 2 * n + 1 \in Buckets(l)
      BY <2>1, <3>1 DEF Buckets
    <3>4. CASE ~(\E i \in Depths(l) : n = N(i))
      <4>1. ASSUME NEW c \in {2 * n, 2 * n + 1}, n < N_level[l]
            PROVE  ChildHash(l, c)' = ChildHash(l, c)
        <5>1. ~(\E j \in Depths(l) : c = N(j))
          BY <1>1, <2>1, <3>1, <3>4, OffPath
        <5> QED BY <2>7, <3>3, <4>1, <5>1
      <4> HIDE DEF N
      <4>2. ChildHash(l, n)' = ChildHash(l, n) /\ last'[l][n] = last[l][n]
        BY <2>7, <3>4
      <4>3. n < N_level[l] \/ n >= N_level[l]
        BY <2>1, <3>1
      <4> QED BY <2>5, <3>2, <4>1, <4>2, <4>3 DEF NodeHash
    <3>5. ASSUME NEW i \in Depths(l), n = N(i)
          PROVE  ChildHash(l, n)' = NodeHash(l, n)'
      <4> DEFINE b == Bucket(l, n, accesses)
      <4>1. ChildHash(l, n)' = NewNodeHash(i, new_path_hash[i - 1])
        BY <2>6, <2>7, <3>5
      <4>2. last'[l][n] = accesses /\ i \in Nat /\ i <= d
        BY <2>1, <2>7, <3>5 DEF Depths
      <4>3. Bucket(level, Node(level, leaf, i), accesses) = b
        BY <1>7, <3>5
      <4>4. CASE i = 0
        <5>1. n >= N_level[l]
          BY <1>1, <2>1, <3>5, <4>4, PathNodes
        <5>2. NewNodeHash(i, new_path_hash[i - 1]) = sha256(b)
          BY <4>3, <4>4 DEF NewNodeHash
        <5> QED BY <3>2, <4>1, <4>2, <5>1, <5>2
      <4>5. CASE i > 0
        <5>1. /\ i - 1 \in Depths(l) /\ n = N(i - 1) \div 2 /\ n < N_level[l]
              /\ N(i - 1) \in Nat /\ i - 1 < d /\ (i - 1) + 1 = i
          <6>1. i - 1 \in Depths(l) /\ n = N(i - 1) \div 2 /\ n < N_level[l]
            BY <1>1, <2>1, <3>5, <4>5, PathNodes
          <6>2. N(i - 1) \in Nat
            BY <1>1, <2>1, <6>1, PathNodes
          <6> HIDE DEF d
          <6> QED BY <2>1, <4>2, <4>5, <6>1, <6>2
        <5>0. PICK c \in Nat : c = N(i - 1)
          BY <5>1
        <5>2. /\ path_hash[2 * i - 2] = ChildHash(l, 2 * n)
              /\ path_hash[2 * i - 1] = ChildHash(l, 2 * n + 1)
          <6> DEFINE j == i - 1
          <6>1. /\ {2 * j, 2 * j + 1} \subseteq 0 .. 2 * d
                /\ PathHashes(leaf)[2 * j] = ChildHash(level, 2 * Node(level, leaf, j + 1))
                /\ PathHashes(leaf)[2 * j + 1] = ChildHash(level, 2 * Node(level, leaf, j + 1) + 1)
            BY <1>1, <1>7, <5>1, PlacesOfHashes
          <6>2. \A h \in 0 .. 2 * d : path_hash[h] = PathHashes(leaf)[h]
            BY <1>1, <1>7, <2>1 DEF HashInv, Fetched
          <6>3. 2 * j = 2 * i - 2 /\ 2 * j + 1 = 2 * i - 1
            BY <4>2
          <6>4. Node(level, leaf, j + 1) = n
            BY <1>7, <3>5, <5>1
          <6> HIDE DEF j, d
          <6> QED BY <1>7, <6>1, <6>2, <6>3, <6>4
        <5>3. ChildHash(l, c)' = new_path_hash[i - 1]
          <6>1. c \in Buckets(l)
            BY <1>1, <2>1, <5>1, <5>0, NodeIsBucket
          <6> HIDE DEF N
          <6> QED BY <2>7, <5>1, <5>0, <6>1
        <5>4. ASSUME NEW o \in {2 * n, 2 * n + 1}, o # c
              PROVE  ChildHash(l, o)' = ChildHash(l, o)
          <6>1. ASSUME NEW j \in Depths(l), o = N(j) PROVE FALSE
            <7>1. i = j + 1
              BY <1>1, <2>1, <3>1, <3>5, <6>1, OffPath
            <7>2. j \in Nat
              BY <2>1 DEF Depths
            <7>3. j = i - 1
              BY <4>2, <7>1, <7>2
            <7> QED BY <5>4, <5>0, <6>1, <7>3
          <6> QED BY <2>7, <3>3, <5>1, <5>4, <6>1
        <5>5. ~(n >= N_level[l])
          BY <2>1, <3>1, <5>1
        <5>6. c % 2 \in {0, 1} /\ c = 2 * n + (c % 2)
          <6>1. n = c \div 2
            BY <5>1, <5>0
          <6> QED BY <5>0, <6>1
        <5>7. Node(level, leaf, i - 1) = c
          BY <1>7, <5>0
        <5> HIDE DEF N, b
        <5>8. CASE c % 2 = 0
          <6>1. c = 2 * n /\ 2 * n + 1 # c
            BY <3>1, <5>6, <5>8
          <6>2. NewNodeHash(i, new_path_hash[i - 1])
                  = sha256_node(b, new_path_hash[i - 1], path_hash[2 * i - 1])
            BY <4>3, <4>5, <5>7, <5>8 DEF NewNodeHash
          <6> QED BY <3>2, <4>1, <4>2, <5>2, <5>3, <5>4, <5>5, <6>1, <6>2 DEF b
        <5>9. CASE c % 2 = 1
          <6>1. c = 2 * n + 1 /\ 2 * n # c
            BY <3>1, <5>6, <5>9
          <6>2. NewNodeHash(i, new_path_hash[i - 1])
                  = sha256_node(b, path_hash[2 * i - 2], new_path_hash[i - 1])
            BY <4>3, <4>5, <5>7, <5>9 DEF NewNodeHash
          <6> QED BY <3>2, <4>1, <4>2, <5>2, <5>3, <5>4, <5>5, <6>1, <6>2 DEF b
        <5> QED BY <5>6, <5>8, <5>9
      <4> QED BY <4>2, <4>4, <4>5
    <3> QED BY <3>4, <3>5
  <2> QED BY <1>3, <2>5, <2>8, <2>9
<1> QED BY <1>1, <1>2, <1>4, <1>6, <1>7 DEF DoneHashed

-----------------------------------------------------------------------------
(* Every step keeps the hashes right. *)
LEMMA NextHashed == HashInv /\ NoOverrun /\ [Next]_vars => HashInv'
<1> SUFFICES ASSUME HashInv, NoOverrun, [Next]_vars PROVE HashInv'
  OBVIOUS
<1>1. FaithInv' /\ Sized' /\ FaithInv /\ Sized
  BY NextFaith DEF HashInv, FaithInv
<1> SUFFICES DoneHashed' /\ Fetched' /\ NewHashReady' /\ Agreed'
  BY <1>1 DEF HashInv
<1>2. accesses \in Nat
  BY <1>1, ConfigAssumption DEF Sized
<1>3. CASE ZT_initLocalStorage
  BY <1>3 DEF ZT_initLocalStorage, DoneHashed, Fetched, NewHashReady, Agreed
<1>4. CASE ZT_New
  <2>1. /\ phase' = "build" /\ merkle_root_hash_level' = [l \in Levels |-> junk]
        /\ Levels' = Levels /\ \A l \in Levels : Done(l)' = {}
    BY <1>1, <1>4, NothingDone DEF ZT_New
  <2> QED BY <2>1 DEF DoneHashed, Rooted, Fetched, NewHashReady, Agreed
<1>5. CASE BuildTreeRecursive
  <2>1. phase' \in {"build", "ready"}
    BY <1>5 DEF BuildTreeRecursive
  <2>2. DoneHashed'
    BY <1>1, <1>5, BuildHashed
  <2> QED BY <2>1, <2>2 DEF Fetched, NewHashReady, Agreed
<1>6. ASSUME NEW o \in {"w", "z"}, Access(o)
      PROVE  DoneHashed' /\ Fetched' /\ NewHashReady' /\ Agreed'
  <2>1. /\ phase = "ready" /\ phase' = "download" /\ accesses' = accesses + 1
        /\ UNCHANGED <<params, last, inmem_hash_l>> /\ UNCHANGED merkle_root_hash_level
        /\ Built /\ Built'
    BY <1>6 DEF Access, memory, Built, Phases
  <2>2. DoneHashed'
    BY <2>1, HashedStays DEF HashInv
  <2> QED BY <1>2, <2>1, <2>2 DEF Fetched, NewHashReady, Agreed
<1>7. CASE downloadPath
  <2>1. /\ phase = "download" /\ phase' = "verify" /\ accesses' = accesses
        /\ UNCHANGED <<params, last, inmem_hash_l>> /\ UNCHANGED merkle_root_hash_level
        /\ Built /\ Built'
    BY <1>7 DEF downloadPath, memory, Built, Phases
  <2>2. DoneHashed' /\ Fetched'
    BY <1>1, <1>7, <2>1, HashedStays, DownloadFetched DEF HashInv
  <2> QED BY <2>1, <2>2 DEF NewHashReady, Agreed, HashInv
<1>8. CASE verifyPath
  <2>1. /\ phase = "verify" /\ phase' = "verified" /\ failed' = FailedComparisons
        /\ UNCHANGED <<params, memory, level>> /\ UNCHANGED <<leaf, path_hash>>
        /\ UNCHANGED <<params, last, inmem_hash_l>> /\ UNCHANGED merkle_root_hash_level
        /\ accesses' = accesses /\ Built /\ Built'
    BY <1>8 DEF verifyPath, memory, buffers, Built, Phases
  <2>2. DoneHashed'
    BY <2>1, HashedStays DEF HashInv
  <2>3. Fetched'
    BY <2>1, FetchedStays DEF HashInv
  <2>4. Intact(level)' => failed' = {}
    <3>1. Intact(level)' = Intact(level)
      <4>1. Roomy(level)' = Roomy(level)
        <5>1. BucketSize(level)' = BucketSize(level) /\ Comfortable' = Comfortable
          BY <2>1, SamePath
        <5> QED BY <2>1, <5>1 DEF Roomy, Addressable, params
      <4> QED BY <2>1, <4>1 DEF Intact, params
    <3> QED BY <2>1, <3>1, NoComparisonFails
  <2> QED BY <2>1, <2>2, <2>3, <2>4 DEF NewHashReady, Agreed, HashInv
<1>9. CASE AccessRead
  <2>1. /\ Built /\ phase = "verified" /\ UNCHANGED <<params, last, inmem_hash_l>>
        /\ UNCHANGED merkle_root_hash_level /\ NextLevel("ready") /\ accesses' = accesses
    BY <1>9 DEF AccessRead, memory, Built, Phases
  <2>2. phase' \in {"ready", "download"}
    BY <1>1, <2>1, NextLevelSized
  <2>3. Built'
    BY <2>2 DEF Built, Phases
  <2>4. DoneHashed'
    BY <2>1, <2>3, HashedStays DEF HashInv
  <2> QED BY <2>1, <2>2, <2>4 DEF Fetched, NewHashReady, Agreed, HashInv
<1>10. CASE CreateNewPathHash
  <2>1. /\ phase = "verified" /\ phase' = "upload"
        /\ UNCHANGED <<params, memory, level>> /\ UNCHANGED <<leaf, path_hash>>
        /\ UNCHANGED <<params, last, inmem_hash_l>> /\ accesses' = accesses
        /\ level \in Levels /\ Built
    BY <1>1, <1>10 DEF CreateNewPathHash, memory, Built, Phases, Sized, TreesSized
  <2>2. Fetched'
    BY <2>1, FetchedStays DEF HashInv
  <2>3. NewHashReady'
    BY <1>1, <1>10, NewPathHashed
  <2>4. DoneHashed'
    <3>1. /\ DOMAIN merkle_root_hash_level = Levels
          /\ \A l \in Levels : Intact(l) =>
               Rooted(l) /\ \A n \in Done(l) : ChildHash(l, n) = NodeHash(l, n)
      BY <2>1 DEF HashInv, DoneHashed, Built
    <3>2. /\ DOMAIN merkle_root_hash_level' = Levels
          /\ \A l \in Levels : l # level =>
               merkle_root_hash_level'[l] = merkle_root_hash_level[l]
      BY <1>10, <3>1 DEF CreateNewPathHash
    <3>3. Levels' = Levels /\ \A l : Done(l)' = Done(l)
      <4>1. Levels' = Levels /\ \A l : BuiltBuckets(l)' = BuiltBuckets(l)
        BY <2>1, SameTrees
      <4> QED BY <2>1, <4>1 DEF Done
    <3> QED BY <2>1, <3>1, <3>2, <3>3, SameHashes DEF DoneHashed, Rooted
  <2> QED BY <2>1, <2>2, <2>3, <2>4 DEF Agreed, HashInv
<1>11. CASE uploadPath
  <2>1. phase' \in {"ready", "download"} /\ phase = "upload" /\ accesses' = accesses
    BY <1>1, <1>11, NextLevelSized DEF uploadPath
  <2>2. DoneHashed'
    BY <1>1, <1>11, UploadHashed
  <2> QED BY <2>1, <2>2 DEF Fetched, NewHashReady, Agreed, HashInv
<1>12. CASE UNCHANGED vars
  <2>1. /\ UNCHANGED <<params, memory, level>> /\ UNCHANGED <<params, last, inmem_hash_l>>
        /\ UNCHANGED <<phase, leaf, path_hash, fetched_path_array, new_path_hash,
                       merkle_root_hash_level, accesses, next, failed>>
        /\ UNCHANGED <<cfg, recursion_levels, D_level, N_level, inmem_tree_l>>
    BY <1>12 DEF vars, params, memory
  <2>2. DoneHashed'
    <3>1. Levels' = Levels /\ \A l : BuiltBuckets(l)' = BuiltBuckets(l)
      BY <2>1, SameTrees
    <3>2. \A l : Done(l)' = Done(l)
      BY <2>1, <3>1 DEF Done
    <3> QED BY <2>1, <3>1, <3>2, SameHashes DEF HashInv, DoneHashed, Rooted
  <2>3. /\ Depths(level)' = Depths(level) /\ BucketSize(level)' = BucketSize(level)
        /\ Comfortable' = Comfortable /\ PathHashes(leaf)' = PathHashes(leaf)
        /\ \A i, k : Byte(inmem_tree_l[level], PathOffset(level, Node(level, leaf, i)) + k)'
             = Byte(inmem_tree_l[level], PathOffset(level, Node(level, leaf, i)) + k)
    <3>1. PathHashes(leaf)' = PathHashes(leaf)
      BY <2>1 DEF PathHashes, Node, ChildHash, Byte
    <3>2. BucketSize(level)' = BucketSize(level)
      BY <2>1, SamePath
    <3> QED BY <2>1, <3>1, <3>2, SamePath DEF Byte, PathOffset, Node
  <2>4. Fetched'
    BY <2>1, <2>3 DEF HashInv, Fetched
  <2>5. NewHashReady'
    <3>1. ASSUME NEW i
          PROVE  NewNodeHash(i, new_path_hash[i - 1])' = NewNodeHash(i, new_path_hash[i - 1])
      <4>1. Bucket(level, Node(level, leaf, i), accesses)'
              = Bucket(level, Node(level, leaf, i), accesses)
        BY <2>1, <2>3 DEF Bucket, Node
      <4> QED BY <2>1, <4>1 DEF NewNodeHash, sha256, sha256_node, Node
    <3> QED BY <2>1, <2>3, <3>1 DEF HashInv, NewHashReady
  <2>6. Agreed'
    <3>1. Roomy(level)' = Roomy(level)
      BY <2>1, <2>3 DEF Roomy, Addressable
    <3> QED BY <2>1, <3>1 DEF HashInv, Agreed, Intact
  <2> QED BY <2>2, <2>4, <2>5, <2>6
<1> QED
  BY <1>3, <1>4, <1>5, <1>6, <1>7, <1>8, <1>9, <1>10, <1>11, <1>12 DEF Next

(* The hashes are right in every state. *)
LEMMA AlwaysHashed == Spec => []HashInv
<1>1. Init => HashInv
  BY InitSized DEF Init, HashInv, FaithInv, DoneWritten, PathReady, DoneHashed, Fetched,
                   NewHashReady, Agreed
<1> QED BY <1>1, NextHashed, AlwaysSized, PTL DEF Spec

(* The hash tree of the data level is the hash tree of its buckets         *)
(* whenever no path is on its way back, and the root the enclave keeps is  *)
(* the root of it: the build and the upload of any path keep it so.        *)
THEOREM DataTreeStaysHashed == Spec => []HashTreeConsistent
<1>1. HashInv => HashTreeConsistent
  <2> SUFFICES ASSUME HashInv, Settled, cfg.isLSinit, Comfortable,
                      D_level[recursion_levels] > 0, Addressable(recursion_levels)
               PROVE  HashTreeConsistent
    BY DEF HashTreeConsistent
  <2> DEFINE l == recursion_levels
  <2>1. phase \notin {"init", "new", "build", "upload"} /\ Sized
    BY DEF Settled, HashInv, FaithInv
  <2>2. l \in Levels /\ N_level[l] \in Nat \ {0} /\ 1 \in Buckets(l)
    <3>1. l \in Levels
      BY <2>1, Parameters DEF Sized, MemorySized, Levels
    <3> QED BY <2>1, <3>1, Kinds DEF Buckets
  <2>3. Intact(l) /\ Roomy(l)
    BY DEF Intact, Roomy
  <2>4. Done(l) = Buckets(l)
    BY <2>1, <2>2, AllDone
  <2>5. /\ merkle_root_hash_level[l] = ChildHash(l, 1)
        /\ \A n \in Buckets(l) : ChildHash(l, n) = NodeHash(l, n)
    BY <2>1, <2>2, <2>3, <2>4 DEF HashInv, DoneHashed, Rooted
  <2>6. ASSUME NEW n \in Buckets(l)
        PROVE  Bytes(inmem_tree_l[l], BucketSize(l) * (n - 1), BucketSize(l))
                 = Bucket(l, n, last[l][n])
    <3>1. Written(l, n)
      BY <2>1, <2>2, <2>3, <2>4 DEF HashInv, FaithInv, DoneWritten
    <3> QED BY <3>1 DEF Written, Bytes, Bucket
  <2> QED BY <2>5, <2>6 DEF HashTreeConsistent, NodeHash
<1> QED BY <1>1, AlwaysHashed, PTL

(* verifyPath accepts every path that nobody tampered with, of the data    *)
(* level and of a position map that no path has been written back to.      *)
THEOREM HonestPathsVerify == Spec => []VerifyAgrees
<1>1. HashInv => VerifyAgrees
  BY DEF HashInv, Agreed, VerifyAgrees, Intact, Roomy
<1> QED BY <1>1, AlwaysHashed, PTL
=============================================================================
