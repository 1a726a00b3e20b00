------------------------------ MODULE ORAMTree ------------------------------
(***************************************************************************)
(* What the two ORAM controllers of the enclave inherit from ORAMTree      *)
(* (ZT_Enclave/ORAMTree.cpp): the parameters of an instance, the trees as  *)
(* heaps of buckets, blocks and the dummy block, and the trees as          *)
(* BuildTreeRecursive leaves them.                                         *)
(***************************************************************************)
EXTENDS Integers, FiniteSets

CONSTANTS
  recursion_levels,      \* number of ORAM trees; level 0 is the position map
  x,                     \* labels held by one block of a position-map tree
  Z,                     \* slots in a bucket
  STASH_SIZE,            \* slots in the stash of each level
  real_max_blocks_level, \* blocks stored at each level
  D_level,               \* depth of the tree of each level
  N_level,               \* leaves of the tree of each level
  gN,                    \* the id that marks a dummy block
  Values,                \* contents of a data block
  InitValue,             \* the content the build leaves in each data block
  ClientIds,             \* data blocks the client asks for
  Unset,                 \* content of a dummy, and of an unwritten data_out
  isLSinit,              \* were the buckets above the leaves built
  InitDiscard            \* values the malloc'ed discard_block flags may have

Levels == 1 .. recursion_levels
Ids(l) == 0 .. real_max_blocks_level[l] - 1
Leaves(l) == 0 .. N_level[l] - 1
Depths(l) == 0 .. D_level[l]
BucketSlots == 1 .. Z
StashSlots == 1 .. STASH_SIZE
Positions == 0 .. x - 1

(* ShiftBy(leaf + nlevel, i): the bucket i levels above a leaf. *)
Node(l, leaf, i) == (leaf + N_level[l]) \div (2 ^ i)
Nodes(l) == { Node(l, f, i) : f \in Leaves(l), i \in Depths(l) }

(* BuildTreeRecursive deals the blocks in order to the leaf buckets; the   *)
(* first buckets get one more when they do not divide evenly.              *)
FirstBlock(l, f) ==
  LET c == real_max_blocks_level[l] % N_level[l]
  IN  f * (real_max_blocks_level[l] \div N_level[l]) + (IF f < c THEN f ELSE c)
BlocksIn(l, f) == FirstBlock(l, f) .. FirstBlock(l, f + 1) - 1
BuildLabel(l, b) == CHOOSE f \in Leaves(l) : b \in BlocksIn(l, f)

ASSUME LevelsAssumption ==
  /\ recursion_levels \in Nat /\ recursion_levels >= 2
  /\ x \in Nat \ {0} /\ Z \in Nat \ {0} /\ STASH_SIZE \in Nat /\ gN \in Nat
  /\ \A l \in Levels : /\ real_max_blocks_level[l] \in Nat \ {0}
                       /\ real_max_blocks_level[l] <= gN
                       /\ D_level[l] \in Nat
                       /\ N_level[l] \in Nat \ {0}

ASSUME DataAssumption ==
  /\ InitValue \in [Ids(recursion_levels) -> Values] /\ Unset \notin Values
  /\ ClientIds \subseteq Ids(recursion_levels)
  /\ isLSinit \in BOOLEAN /\ InitDiscard \in SUBSET BOOLEAN

(* What SetParams and BuildTreeRecursive compute: every block has an entry *)
(* in a block of the level below, a tree of depth D has 2^D leaves, and    *)
(* the leaf buckets have room for the blocks of the level.                 *)
ASSUME BuildAssumption ==
  /\ \A l \in 2 .. recursion_levels :
       real_max_blocks_level[l] <= x * real_max_blocks_level[l - 1]
  /\ \A l \in Levels : /\ N_level[l] = 2 ^ D_level[l]
                       /\ real_max_blocks_level[l] <= Z * N_level[l]

(* Arithmetic of powers, which the provers do not know. *)
ASSUME PowerAssumption ==
  /\ 2 ^ 0 = 1 /\ x ^ 0 = 1
  /\ \A l \in Levels : \A i \in Depths(l) : 2 ^ i \in Nat /\ 2 ^ (i + 1) = 2 * 2 ^ i
  /\ \A i \in Levels : x ^ (i - 1) \in Nat \ {0} /\ x ^ i = x * x ^ (i - 1)

Data(l) == IF l = recursion_levels THEN Values
                                   ELSE [Positions -> Leaves(l + 1)]
Block(l) == [id : Ids(l), label : Leaves(l), data : Data(l)]
Dummy == [id |-> gN, label |-> 0, data |-> Unset]

(* What a bucket nobody wrote decrypts to: an id that is not gN, and a     *)
(* label outside the tree.                                                 *)
Junk(l) == [id |-> gN + 1, label |-> N_level[l], data |-> Unset]
Slot(l) == Block(l) \cup {Dummy, Junk(l)}

isBlockDummy(b) == b.id = gN

(* The content BuildTreeRecursive gives block b of level l.  Data blocks   *)
(* are not written: each keeps what encrypting the bucket before it left   *)
(* in memory (Block::aes_enc works in place).  Entries past the last block *)
(* of the next level are never read.                                       *)
BuildData(l, b) ==
  IF l = recursion_levels THEN InitValue[b]
  ELSE [p \in Positions |-> IF b * x + p \in Ids(l + 1)
                            THEN BuildLabel(l + 1, b * x + p) ELSE 0]

BuildBucket(l, f) ==
  [s \in BucketSlots |->
     LET b == FirstBlock(l, f) + s - 1
     IN  IF b \in BlocksIn(l, f) \cap Ids(l)
         THEN [id |-> b, label |-> f, data |-> BuildData(l, b)] ELSE Dummy]

UpperBucket(l) ==
  [s \in BucketSlots |-> IF isLSinit THEN Dummy ELSE Junk(l)]

BuildTree(l) ==
  [n \in Nodes(l) |->
     IF \E f \in Leaves(l) : n = Node(l, f, 0)
     THEN BuildBucket(l, CHOOSE f \in Leaves(l) : n = Node(l, f, 0))
     ELSE UpperBucket(l)]

NoPath == [i \in {} |-> Dummy]
=============================================================================
