------------------------------ MODULE Storage ------------------------------
(***************************************************************************)
(* The untrusted storage and how the enclave uses it: the application sizes *)
(* the memory of each tree (ZT_Untrusted/App.cpp, LocalStorage.cpp), the    *)
(* enclave works out the geometry of the trees for itself and builds them   *)
(* bucket by bucket (ORAMTree.cpp), and every access downloads a path,      *)
(* verifies it against the hash tree, and uploads a new path with its       *)
(* hashes (ReadBucketsFromPath; PathORAM_Access).                           *)
(*                                                                          *)
(* Memory is modelled byte by byte, so that a path and an object that       *)
(* disagree about an address are seen to.  A byte says which bucket of      *)
(* which level it was written for, when, and its place in the bucket: the   *)
(* contents are encrypted afresh at every upload and never repeat.  The     *)
(* hash of some bytes and child hashes is the tuple of them, as if SHA-256  *)
(* had no collisions.  A hash is one cell; the sizes of a label and of the  *)
(* metadata of a block are parameters.                                      *)
(***************************************************************************)
EXTENDS Integers, FiniteSets, FiniteSetsExt

CONSTANTS
  Configs,      \* the arguments of ZT_initLocalStorage and ZT_New, and isLSinit
  LABEL_SIZE,   \* sizeof(uint32_t)
  ADDITIONAL_METADATA_SIZE,
  W,            \* width of the unsigned arithmetic in uploadPath, downloadPath
  MaxAccesses,  \* bound on the accesses of a behaviour
  junk          \* what malloc'ed memory holds

VARIABLES
  cfg,              \* the arguments in use
  phase,
  recursion_levels,
  D_level, N_level, \* depth and leaves of each tree, in the enclave
  inmem_tree_l,     \* the bytes of each tree
  inmem_hash_l,     \* the hashes of its buckets
  merkle_root_hash_level, \* in the enclave
  level,
  next,             \* the bucket BuildTreeRecursive builds next
  op,               \* opType: 'z' does not write back
  leaf,
  fetched_path_array, path_hash, \* buffers, sized for the longest path
  encrypted_path, new_path_hash,
  accesses,
  failed,           \* the comparisons of verifyPath that fail
  overrun,          \* history: an access went outside its memory
  last              \* history: the last upload of each bucket, 0 the build

vars == <<cfg, phase, recursion_levels, D_level, N_level, inmem_tree_l,
          inmem_hash_l, merkle_root_hash_level, level, next, op, leaf,
          fetched_path_array, path_hash, encrypted_path, new_path_hash,
          accesses, failed, overrun, last>>
params == <<cfg, recursion_levels, D_level, N_level>>
memory == <<inmem_tree_l, inmem_hash_l>>
buffers == <<fetched_path_array, path_hash, encrypted_path, new_path_hash>>

CeilDiv(a, b) == (a + b - 1) \div b

(* The blocks left after k rounds of ceil(blocks / x). *)
Shrunk(blocks, x, k) ==
  LET s[i \in 0 .. k] == IF i = 0 THEN blocks ELSE CeilDiv(s[i - 1], x) IN s[k]

(* The rounds until the labels of the blocks fit in the enclave's memory. *)
RoundsToFit(c, x) ==
  Min({ k \in 0 .. c.max_blocks :
          Shrunk(c.max_blocks, x, k) * LABEL_SIZE <= c.posmap_limit })

(* There are at least two labels to a block, few enough for the uint8_t of *)
(* computeRecursionLevels, and a position map in a tree.                   *)
ASSUME ConfigAssumption ==
  /\ LABEL_SIZE \in Nat \ {0}
  /\ \A c \in Configs :
       /\ c.max_blocks \in Nat \ {0} /\ c.Z \in Nat \ {0}
       /\ c.data_size \in Nat /\ c.recursion_data_size \in Nat
       /\ c.posmap_limit \in Nat /\ c.isLSinit \in BOOLEAN
       /\ c.recursion_data_size \div LABEL_SIZE \in 2 .. 255
       /\ c.max_blocks * LABEL_SIZE > c.posmap_limit
       /\ c.posmap_limit >= LABEL_SIZE
  /\ W \in Nat /\ MaxAccesses \in Nat /\ ADDITIONAL_METADATA_SIZE \in Nat

(* Arithmetic of powers, which the provers do not know, up to the depths a *)
(* configuration can need.                                                 *)
ASSUME PowerAssumption ==
  /\ 2 ^ W \in Nat \ {0} /\ 2 ^ 0 = 1
  /\ \A c \in Configs :
       LET b == c.recursion_data_size \div LABEL_SIZE
           r == RoundsToFit(c, b)
       IN  /\ b ^ 0 = 1
           /\ \A k \in 0 .. r : b ^ k \in Nat \ {0} /\ b ^ (k + 1) = b * b ^ k
           /\ \A d \in 0 .. Shrunk(c.max_blocks, b, r) * b ^ r :
                2 ^ d \in Nat \ {0} /\ 2 ^ (d + 1) = 2 * 2 ^ d

x == cfg.recursion_data_size \div LABEL_SIZE

computeRecursionLevels_mapsOnly(c) ==
  RoundsToFit(c, (c.recursion_data_size \div LABEL_SIZE) % 256)
computeRecursionLevels(c) ==
  1 + RoundsToFit(c, (c.recursion_data_size \div LABEL_SIZE) % 256)

Levels == 1 .. recursion_levels

(* The bytes of a block of level l, metadata included. *)
BlockSize(l) ==
  (IF l = recursion_levels THEN cfg.data_size ELSE cfg.recursion_data_size)
    + ADDITIONAL_METADATA_SIZE
BucketSize(l) == cfg.Z * BlockSize(l)

(* ORAMTree::SetParams: as many blocks as fit in the trees above a full    *)
(* position map.                                                           *)
max_blocks_level(l) ==
  Shrunk(cfg.max_blocks, x, RoundsToFit(cfg, x)) * x ^ (l - 1)

(* BuildTreeRecursive: the least depth whose leaf buckets take them all. *)
Depth(l) ==
  Min({ d \in 0 .. max_blocks_level(l) :
          2 ^ d >= CeilDiv(max_blocks_level(l), cfg.Z) })
Buckets(l) == 1 .. 2 * N_level[l] - 1
Depths(l) == 0 .. D_level[l]
Node(l, f, i) == (f + N_level[l]) \div 2 ^ i

-----------------------------------------------------------------------------
(* Memory: a function on the addresses that are allocated. *)
Inside(mem, off, len) == off .. off + len - 1 \subseteq DOMAIN mem
Byte(mem, a) == IF a \in DOMAIN mem THEN mem[a] ELSE junk
Bytes(mem, off, len) == [k \in 0 .. len - 1 |-> Byte(mem, off + k)]
Stored(mem, off, bytes) ==
  [a \in DOMAIN mem |-> IF a - off \in DOMAIN bytes THEN bytes[a - off] ELSE mem[a]]
Malloc(size) == [a \in 0 .. size - 1 |-> junk]

(* What is encrypted into bucket n of level l at time t. *)
Bucket(l, n, t) == [k \in 0 .. BucketSize(l) - 1 |-> <<l, n, t, k>>]

sha256(bytes) == <<bytes>>
sha256_node(bytes, lchild, rchild) == <<bytes, lchild, rchild>>

(* Where uploadObject, and where uploadPath and downloadPath, have bucket  *)
(* n: the first computes in 64 bits, the others in W.                      *)
ObjectOffset(l, n) == (BucketSize(l) % 2 ^ W) * (n - 1)
PathOffset_dataSize(l, n) == (BucketSize(recursion_levels) * (n - 1)) % 2 ^ W
PathOffset(l, n) == (BucketSize(l) * (n - 1)) % 2 ^ W

-----------------------------------------------------------------------------
Init ==
  /\ cfg \in Configs
  /\ phase = "init"
  /\ recursion_levels = 0 /\ D_level = <<>> /\ N_level = <<>>
  /\ inmem_tree_l = <<>> /\ inmem_hash_l = <<>>
  /\ merkle_root_hash_level = <<>>
  /\ level = 0 /\ next = 0 /\ op = "z" /\ leaf = 0
  /\ fetched_path_array = <<>> /\ path_hash = <<>>
  /\ encrypted_path = <<>> /\ new_path_hash = <<>>
  /\ accesses = 0 /\ failed = {} /\ overrun = FALSE
  /\ last = <<>>

(* LocalStorage::setParams: its own count of the blocks of each level, and *)
(* what it allocates for them.  dataSize_p has the metadata in it already. *)
maxBlocks_of_pmap_level(rl, l) ==
  Shrunk(cfg.max_blocks, x, rl - 1) * x ^ (l - 1)

level_size(rl, l) ==
  LET size == IF l = rl THEN cfg.data_size ELSE cfg.recursion_data_size
  IN  2 * maxBlocks_of_pmap_level(rl, l)
        * cfg.Z * (size + 2 * ADDITIONAL_METADATA_SIZE)

hashtree_size_leaves(rl, l) == maxBlocks_of_pmap_level(rl, l)
hashtree_size(rl, l) == 2 * maxBlocks_of_pmap_level(rl, l)

ZT_initLocalStorage ==
  /\ phase = "init"
  /\ phase' = "new"
  /\ LET rl == computeRecursionLevels(cfg)
     IN  /\ recursion_levels' = rl
         /\ inmem_tree_l' = [l \in 1 .. rl |-> Malloc(level_size(rl, l))]
         /\ inmem_hash_l' = [l \in 1 .. rl |-> Malloc(hashtree_size(rl, l))]
  /\ UNCHANGED <<cfg, D_level, N_level, merkle_root_hash_level, level, next, op,
                 leaf, buffers, accesses, failed, overrun, last>>

(* ZT_New, createNewORAMInstance, ORAMTree::SetParams: the build starts at *)
(* the first leaf bucket of the last level.                                *)
ZT_New ==
  /\ phase = "new"
  /\ phase' = "build"
  /\ D_level' = [l \in Levels |-> Depth(l)]
  /\ N_level' = [l \in Levels |-> 2 ^ Depth(l)]
  /\ merkle_root_hash_level' = [l \in Levels |-> junk]
  /\ level' = recursion_levels
  /\ next' = 2 ^ Depth(recursion_levels)
  /\ last' = [l \in Levels |-> [n \in 1 .. 2 * 2 ^ Depth(l) - 1 |-> 0]]
  /\ UNCHANGED <<cfg, recursion_levels, memory, op, leaf, buffers, accesses,
                 failed, overrun>>

(* fetchHash *)
ChildHash(l, n) == Byte(inmem_hash_l[l], n - 1)

(* The hash BuildTreeRecursive has of bucket n: the children's hashes are  *)
(* fetched from the storage (build_fetchChildHash).                        *)
BuildHash(l, n) ==
  IF n >= N_level[l] THEN sha256(Bucket(l, n, 0))
  ELSE sha256_node(Bucket(l, n, 0), ChildHash(l, 2 * n), ChildHash(l, 2 * n + 1))

(* The leaves from the first to the last, the buckets above them from the  *)
(* last to the root (those only if isLSinit), then the level below.        *)
AfterLeaves == IF cfg.isLSinit THEN N_level[level] - 1 ELSE 0
NextBucket ==
  CASE next >= N_level[level] /\ next < 2 * N_level[level] - 1 -> next + 1
    [] next = 2 * N_level[level] - 1 -> AfterLeaves
    [] OTHER -> next - 1

(* The buffers are sized for a path of the last level. *)
largest_path_size ==
  BucketSize(recursion_levels) * (D_level[recursion_levels] + 1)
HashSlots == 2 * (D_level[recursion_levels] + 1)

BuildTreeRecursive ==
  /\ phase = "build"
  /\ LET off == ObjectOffset(level, next)
         hash == BuildHash(level, next)
     IN  /\ inmem_tree_l' =
              [inmem_tree_l EXCEPT ![level] = Stored(@, off, Bucket(level, next, 0))]
         /\ inmem_hash_l' =
              [inmem_hash_l EXCEPT ![level] = Stored(@, next - 1, [k \in {0} |-> hash])]
         /\ merkle_root_hash_level' = [merkle_root_hash_level EXCEPT ![level] = hash]
         /\ overrun' = \/ overrun
                       \/ ~Inside(inmem_tree_l[level], off, BucketSize(level))
                       \/ ~Inside(inmem_hash_l[level], next - 1, 1)
  /\ CASE NextBucket > 0 ->
            next' = NextBucket /\ UNCHANGED <<phase, level, buffers>>
       [] NextBucket = 0 /\ level > 1 ->
            /\ level' = level - 1
            /\ next' = N_level[level - 1]
            /\ UNCHANGED <<phase, buffers>>
       [] OTHER ->
            /\ phase' = "ready"
            /\ next' = 0
            /\ fetched_path_array' = Malloc(largest_path_size)
            /\ encrypted_path' = Malloc(largest_path_size)
            /\ path_hash' = Malloc(HashSlots)
            /\ new_path_hash' = Malloc(HashSlots)
            /\ UNCHANGED level
  /\ UNCHANGED <<params, op, leaf, accesses, failed, last>>

-----------------------------------------------------------------------------
(* An access goes through the levels from the first to the last. *)
Access(o) ==
  /\ phase = "ready" /\ accesses < MaxAccesses
  /\ phase' = "download"
  /\ op' = o /\ level' = 1
  /\ accesses' = accesses + 1
  /\ UNCHANGED <<params, memory, merkle_root_hash_level, next,
                 leaf, buffers, failed, overrun, last>>

(* downloadPath: the buckets from the leaf to the root; with each but the  *)
(* root the hashes of it and its sibling, left one first, with the root    *)
(* its own.                                                                *)
PathBytes(f) ==
  [a \in 0 .. BucketSize(level) * (D_level[level] + 1) - 1 |->
     LET n == Node(level, f, a \div BucketSize(level))
     IN  Byte(inmem_tree_l[level],
              PathOffset(level, n) + (a % BucketSize(level)))]

PathHashes(f) ==
  [h \in 0 .. 2 * D_level[level] |->
     LET n == Node(level, f, h \div 2)
     IN  IF h = 2 * D_level[level] THEN ChildHash(level, n)
         ELSE ChildHash(level, 2 * (n \div 2) + (h % 2))]

downloadPath ==
  /\ phase = "download"
  /\ phase' = "verify"
  /\ \E f \in 0 .. N_level[level] - 1 :
       /\ leaf' = f
       /\ fetched_path_array' = Stored(fetched_path_array, 0, PathBytes(f))
       /\ path_hash' = Stored(path_hash, 0, PathHashes(f))
       /\ overrun' =
            \/ overrun
            \/ ~Inside(fetched_path_array, 0,
                       BucketSize(level) * (D_level[level] + 1))
            \/ ~Inside(path_hash, 0, 2 * D_level[level] + 1)
            \/ \E i \in Depths(level) :
                 LET n == Node(level, f, i)
                 IN  \/ ~Inside(inmem_tree_l[level], PathOffset(level, n),
                                BucketSize(level))
                     \/ ~Inside(inmem_hash_l[level], n - 1, 1)
  /\ UNCHANGED <<params, memory, merkle_root_hash_level, level,
                 next, op, encrypted_path, new_path_hash, accesses, failed, last>>

FetchedBucket(i) ==
  Bytes(fetched_path_array, i * BucketSize(level), BucketSize(level))

(* What verifyPath computes for bucket i, and the hash it compares that    *)
(* with; for the root it compares the downloaded hash with its own, and    *)
(* the computed one with nothing.                                          *)
ComputedHash(i) ==
  IF i = 0 THEN sha256(FetchedBucket(0))
  ELSE sha256_node(FetchedBucket(i), path_hash[2 * i - 2], path_hash[2 * i - 1])
Retrieved_left(i) == path_hash[2 * i]
Retrieved(i) == path_hash[2 * i + (Node(level, leaf, i) % 2)]

FailedComparisons ==
  { i \in Depths(level) :
      IF i = D_level[level] /\ i > 0
      THEN path_hash[2 * i] # merkle_root_hash_level[level]
      ELSE ComputedHash(i) # Retrieved(i) }

NextLevel(after) ==
  IF level < recursion_levels
  THEN level' = level + 1 /\ phase' = "download"
  ELSE UNCHANGED level /\ phase' = after

(* verifyPath: the comparisons are made and nothing depends on them. *)
verifyPath ==
  /\ phase = "verify"
  /\ phase' = "verified"
  /\ failed' = FailedComparisons
  /\ UNCHANGED <<params, memory, merkle_root_hash_level, level,
                 next, op, leaf, buffers, accesses, overrun, last>>

(* PathORAM_Access_Read writes nothing back. *)
AccessRead ==
  /\ phase = "verified" /\ op = "z"
  /\ NextLevel("ready")
  /\ failed' = {}
  /\ UNCHANGED <<params, memory, merkle_root_hash_level, next,
                 op, leaf, buffers, accesses, overrun, last>>

(* The path after the access, encrypted into the front of encrypted_path;  *)
(* what an access at a level with longer paths left behind it stays.       *)
EncryptedPath ==
  Stored(encrypted_path, 0,
    [a \in 0 .. BucketSize(level) * (D_level[level] + 1) - 1 |->
       <<level, Node(level, leaf, a \div BucketSize(level)), accesses,
         a % BucketSize(level)>>])

(* CreateNewPathHash is told that buckets have the size of the last level, *)
(* whatever the level.                                                     *)
HashedBucket(p, i) ==
  Bytes(p, i * BucketSize(recursion_levels), BucketSize(recursion_levels))

NewHash_swapped(p) ==
  LET h[i \in Depths(level)] ==
        IF i = 0 THEN sha256(HashedBucket(p, 0))
        ELSE IF Node(level, leaf, i) % 2 = 0
             THEN sha256_node(HashedBucket(p, i), h[i - 1], path_hash[2 * i - 1])
             ELSE sha256_node(HashedBucket(p, i), path_hash[2 * i - 2], h[i - 1])
  IN  h
(* Bucket i is hashed with the new hash of the bucket below and that of    *)
(* its sibling as downloaded.                                              *)
NewHash(p) ==
  LET h[i \in Depths(level)] ==
        IF i = 0 THEN sha256(HashedBucket(p, 0))
        ELSE IF Node(level, leaf, i - 1) % 2 = 0
             THEN sha256_node(HashedBucket(p, i), h[i - 1], path_hash[2 * i - 1])
             ELSE sha256_node(HashedBucket(p, i), path_hash[2 * i - 2], h[i - 1])
  IN  h

(* The root the enclave keeps is replaced unless the root is the leaf. *)
CreateNewPathHash ==
  /\ phase = "verified" /\ op = "w"
  /\ phase' = "upload"
  /\ failed' = {}
  /\ encrypted_path' = EncryptedPath
  /\ LET h == NewHash(encrypted_path')
     IN  /\ new_path_hash' = Stored(new_path_hash, 0, h)
         /\ merkle_root_hash_level' =
              IF D_level[level] = 0 THEN merkle_root_hash_level
              ELSE [merkle_root_hash_level EXCEPT ![level] = h[D_level[level]]]
  /\ overrun' =
       \/ overrun
       \/ ~Inside(encrypted_path, 0, BucketSize(level) * (D_level[level] + 1))
       \/ ~Inside(encrypted_path, 0,
                  BucketSize(recursion_levels) * (D_level[level] + 1))
       \/ ~Inside(new_path_hash, 0, D_level[level] + 1)
  /\ UNCHANGED <<params, memory, level, next, op, leaf,
                 fetched_path_array, path_hash, accesses, last>>

(* uploadPath: the buckets and their hashes, from the leaf up; a later one *)
(* overwrites an earlier one at the same address.                          *)
OnPath(a) ==
  { i \in Depths(level) :
      LET off == PathOffset(level, Node(level, leaf, i))
      IN  a \in off .. off + BucketSize(level) - 1 }

uploadPath ==
  /\ phase = "upload"
  /\ inmem_tree_l' = [inmem_tree_l EXCEPT ![level] =
       [a \in DOMAIN @ |->
          LET over == OnPath(a)
          IN  IF over = {} THEN @[a]
              ELSE encrypted_path[Max(over) * BucketSize(level) + a
                     - PathOffset(level, Node(level, leaf, Max(over)))]]]
  /\ inmem_hash_l' = [inmem_hash_l EXCEPT ![level] =
       [h \in DOMAIN @ |->
          IF \E i \in Depths(level) : h = Node(level, leaf, i) - 1
          THEN new_path_hash[CHOOSE i \in Depths(level) :
                               h = Node(level, leaf, i) - 1]
          ELSE @[h]]]
  /\ overrun' =
       \/ overrun
       \/ \E i \in Depths(level) :
            LET n == Node(level, leaf, i)
            IN  \/ ~Inside(inmem_tree_l[level], PathOffset(level, n),
                           BucketSize(level))
                \/ ~Inside(inmem_hash_l[level], n - 1, 1)
  /\ last' = [last EXCEPT ![level] =
       [n \in Buckets(level) |->
          IF \E i \in Depths(level) : n = Node(level, leaf, i) THEN accesses
                                                               ELSE @[n]]]
  /\ NextLevel("ready")
  /\ UNCHANGED <<params, merkle_root_hash_level, next, op, leaf,
                 buffers, accesses, failed>>

Next ==
  \/ ZT_initLocalStorage \/ ZT_New \/ BuildTreeRecursive
  \/ \E o \in {"w", "z"} : Access(o)
  \/ downloadPath \/ verifyPath \/ AccessRead \/ CreateNewPathHash \/ uploadPath

Spec == Init /\ [][Next]_vars

-----------------------------------------------------------------------------
(* The trees are built, and no path is half way back to the storage. *)
Settled == phase \in {"ready", "download", "verify", "verified"}

(* Paths and objects agree about the addresses of level l: the last byte   *)
(* of the tree has an address of W bits.                                   *)
Addressable(l) == BucketSize(l) * (2 * N_level[l] - 1) <= 2 ^ W

TypeOK ==
  /\ cfg \in Configs
  /\ phase \in {"init", "new", "build", "ready", "download", "verify",
                "verified", "upload"}
  /\ phase # "init" =>
       /\ recursion_levels >= 2
       /\ DOMAIN inmem_tree_l = Levels /\ DOMAIN inmem_hash_l = Levels
  /\ phase = "build" => next \in Buckets(level)
  /\ phase \in {"verify", "verified", "upload"} => leaf \in 0 .. N_level[level] - 1
  /\ accesses \in 0 .. MaxAccesses

(* Every read and write stays in the memory it is meant for, although the  *)
(* application and the enclave each work out the size of the trees for     *)
(* themselves, and every level uses the buffers of the last one.  That     *)
(* needs two slots to a bucket, and paths that fit in those buffers.       *)
Comfortable ==
  /\ cfg.Z >= 2
  /\ cfg.recursion_data_size <= cfg.data_size

NoOverrun == Comfortable => ~overrun

(* A bucket holds what was last uploaded to it, as an object or in a path, *)
(* and nothing else has been written over any of it.                       *)
MemoryFaithful ==
  Settled => \A l \in Levels : Addressable(l) /\ Comfortable =>
    \A n \in (IF cfg.isLSinit THEN Buckets(l) ELSE N_level[l] .. 2 * N_level[l] - 1) :
      \A k \in 0 .. BucketSize(l) - 1 :
        Byte(inmem_tree_l[l], BucketSize(l) * (n - 1) + k) = <<l, n, last[l][n], k>>

(* The hash tree of the data level stays a hash tree through every access, *)
(* and its root is the one the enclave keeps.                              *)
HashTreeConsistent ==
  Settled /\ cfg.isLSinit /\ Comfortable /\ D_level[recursion_levels] > 0
    /\ Addressable(recursion_levels) =>
    LET l == recursion_levels IN
    /\ merkle_root_hash_level[l] = ChildHash(l, 1)
    /\ \A n \in Buckets(l) :
         LET bytes == Bytes(inmem_tree_l[l], BucketSize(l) * (n - 1), BucketSize(l))
         IN  ChildHash(l, n) =
               IF n >= N_level[l] THEN sha256(bytes)
               ELSE sha256_node(bytes, ChildHash(l, 2 * n), ChildHash(l, 2 * n + 1))

(* No comparison of verifyPath fails on storage that nobody tampered with, *)
(* on the data level, and on a level of the position map until a path has  *)
(* been written back to it.                                                *)
VerifyAgrees ==
  phase = "verified" /\ cfg.isLSinit /\ Comfortable /\ Addressable(level)
    /\ D_level[level] > 0 /\ (level = recursion_levels \/ last[level][1] = 0)
    => failed = {}
=============================================================================
