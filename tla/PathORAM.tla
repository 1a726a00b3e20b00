------------------------------ MODULE PathORAM ------------------------------
(***************************************************************************)
(* The recursive Path ORAM controller of the enclave                       *)
(* (ZT_Enclave/PathORAM_Enclave.cpp, ORAMTree.cpp, Stash.cpp), in the      *)
(* oblivious configuration (oblivious_flag = 1) of the OPTIMIZED build.    *)
(*                                                                         *)
(* A request walks down the recursion to the position map in the enclave   *)
(* and back up through the trees of levels 1 .. recursion_levels.  At each *)
(* level one path of the untrusted tree is copied into the stash of that   *)
(* level, the requested block is served there, and the path is rebuilt     *)
(* from the stash and written back.  A 'z' request is the read without     *)
(* write-back: the blocks it brings into the stashes are flagged and       *)
(* discarded when it ends.                                                 *)
(*                                                                         *)
(* Encryption and the hash tree are not modelled here.  A dummy slot is    *)
(* one value whatever bytes it holds: every reader tests the id first.     *)
(***************************************************************************)
EXTENDS ORAMTree

VARIABLES
  posmap,          \* labels of the blocks of level 1, in the enclave
  tree,            \* the buckets of each level, in untrusted memory
  stash,           \* the stash of each level, slots in list order
  discard_block,   \* the flag of each stash slot
  phase,           \* what the enclave does next
  req,             \* opType, id and data_in of the request
  ids,             \* the block id at each level of the recursion
  level,
  leaf,            \* the label read for ids[level]
  newleaf,         \* *prev_sampled_leaf: the label ids[level] is to get
  nextLeaf,        \* the label read for ids[level + 1]
  newleaf_nextlevel,
  path,            \* decrypted_path, bucket 0 is the leaf
  bucket,          \* the bucket PathORAM_RebuildPath fills
  posk,            \* the blocks it has put in there
  data_out,
  stash_oc_before, \* stashOccupancy of each level before a 'z' request
  dropped          \* history: blocks lost to a full stash, per level

vars == <<posmap, tree, stash, discard_block, phase, req, ids, level, leaf,
          newleaf, nextLeaf, newleaf_nextlevel, path, bucket, posk, data_out,
          stash_oc_before, dropped>>
locals == <<leaf, newleaf, nextLeaf, newleaf_nextlevel, path, bucket, posk>>
store == <<posmap, tree, stash, discard_block>>

Init ==
  /\ posmap = [b \in Ids(1) |-> BuildLabel(1, b)]
  /\ tree = [l \in Levels |-> BuildTree(l)]
  /\ stash = [l \in Levels |-> [k \in StashSlots |-> Dummy]]
  /\ discard_block \in [Levels -> [StashSlots -> InitDiscard]]
  /\ phase = "idle"
  /\ req = [op |-> "r", id |-> 0, val |-> Unset]
  /\ ids = [l \in Levels |-> 0]
  /\ level = recursion_levels
  /\ leaf = 0 /\ newleaf = 0 /\ nextLeaf = 0 /\ newleaf_nextlevel = 0
  /\ path = NoPath /\ bucket = 0 /\ posk = 0
  /\ data_out = Unset
  /\ stash_oc_before = [l \in Levels |-> 0]
  /\ dropped = {}

-----------------------------------------------------------------------------
Optimized == req.op = "z"
Holds(k, b) == stash[level][k].id = b
LastHolder(k, b) == Holds(k, b) /\ \A j \in StashSlots : j > k => ~Holds(j, b)
Occupancy(l) == Cardinality({k \in StashSlots : ~isBlockDummy(stash[l][k])})

(* Access_temp: the call that starts a request at the top of the recursion. *)
Access_temp(op, id, val) ==
  /\ phase = "idle"
  /\ phase' = "descend"
  /\ req' = [op |-> op, id |-> id, val |-> val]
  /\ level' = recursion_levels
  /\ ids' = [ids EXCEPT ![recursion_levels] = id]
  /\ data_out' = Unset
  /\ UNCHANGED <<store, locals, stash_oc_before, dropped>>

(* access calls itself for the block that holds the label. *)
Descend ==
  /\ phase = "descend" /\ level > 1
  /\ level' = level - 1
  /\ ids' = [ids EXCEPT ![level - 1] = ids[level] \div x]
  /\ UNCHANGED <<store, phase, req, locals, data_out, stash_oc_before, dropped>>

(* access at level 0: look up the label and, unless the request is a 'z',  *)
(* replace it with a fresh one (oarray_search).                            *)
LookupPosmap ==
  /\ phase = "descend" /\ level = 1
  /\ phase' = "read"
  /\ leaf' = posmap[ids[1]]
  /\ IF Optimized THEN UNCHANGED <<posmap, newleaf>>
     ELSE \E f \in Leaves(1) : /\ newleaf' = f
                               /\ posmap' = [posmap EXCEPT ![ids[1]] = f]
  /\ UNCHANGED <<tree, stash, discard_block, req, ids, level, nextLeaf,
                 newleaf_nextlevel, path, bucket, posk, data_out,
                 stash_oc_before, dropped>>

(* The path of the tree from the leaf up. *)
FetchedPath_noRoot ==
  [i \in Depths(level) |-> IF i = D_level[level]
                           THEN [s \in BucketSlots |-> Dummy]
                           ELSE tree[level][Node(level, leaf, i)]]
FetchedPath == [i \in Depths(level) |-> tree[level][Node(level, leaf, i)]]

(* ReadBucketsFromPath, and the occupancy a 'z' request notes. *)
ReadBucketsFromPath ==
  /\ phase = "read"
  /\ phase' = "push"
  /\ path' = FetchedPath
  /\ stash_oc_before' = IF Optimized
       THEN [stash_oc_before EXCEPT ![level] = Occupancy(level)]
       ELSE stash_oc_before
  /\ UNCHANGED <<store, req, ids, level, leaf, newleaf, nextLeaf,
                 newleaf_nextlevel, bucket, posk, data_out, dropped>>

(* The blocks of the path go to the stash from the leaf up; in a bucket,   *)
(* slot by slot.                                                           *)
FirstOnPath(i, s) ==
  /\ ~isBlockDummy(path[i][s])
  /\ \A j \in Depths(level), t \in BucketSlots :
       ~isBlockDummy(path[j][t]) => i < j \/ (i = j /\ s <= t)

PathEmpty ==
  \A i \in Depths(level), s \in BucketSlots : isBlockDummy(path[i][s])

FirstFree(k) ==
  /\ isBlockDummy(stash[level][k])
  /\ \A j \in StashSlots : isBlockDummy(stash[level][j]) => k <= j

StashFull_offByOne ==
  \A k \in 1 .. STASH_SIZE - 1 : ~isBlockDummy(stash[level][k])
StashFull == \A k \in StashSlots : ~isBlockDummy(stash[level][k])

(* The flags after a block went to slot k. *)
Flagged_never(k) == discard_block
Flagged(k) ==
  IF Optimized THEN [discard_block EXCEPT ![level][k] = TRUE] ELSE discard_block

(* Stash::pass_insert finds a dummy slot; in a 'z' request the slot is     *)
(* flagged.  The block on the path becomes a dummy.                        *)
pass_insert(i, s, k) ==
  /\ phase = "push" /\ FirstOnPath(i, s) /\ FirstFree(k)
  /\ stash' = [stash EXCEPT ![level][k] = path[i][s]]
  /\ discard_block' = Flagged(k)
  /\ path' = [path EXCEPT ![i][s] = Dummy]
  /\ UNCHANGED <<posmap, tree, phase, req, ids, level, leaf, newleaf, nextLeaf,
                 newleaf_nextlevel, bucket, posk, data_out, stash_oc_before,
                 dropped>>

(* pass_insert with no dummy slot: the block on the path becomes a dummy   *)
(* all the same.                                                           *)
pass_insert_full(i, s) ==
  /\ phase = "push" /\ FirstOnPath(i, s) /\ StashFull
  /\ path' = [path EXCEPT ![i][s] = Dummy]
  /\ dropped' = IF Optimized \/ path[i][s].id > gN THEN dropped
                ELSE dropped \cup {<<level, path[i][s].id>>}
  /\ UNCHANGED <<store, phase, req, ids, level, leaf, newleaf, nextLeaf,
                 newleaf_nextlevel, bucket, posk, data_out, stash_oc_before>>

(* Block b with its new label, and f as the label of the block its entry p *)
(* is about.                                                               *)
Relabelled_entryKept(b, p, f) == [b EXCEPT !.label = newleaf]
Relabelled(b, p, f) == [b EXCEPT !.label = newleaf, !.data[p] = f]

(* nextLeaf after the scan of the stash: entry p of the requested block. *)
EntryRead(p) ==
  IF \E k \in StashSlots : LastHolder(k, ids[level])
  THEN stash[level][CHOOSE k \in StashSlots : LastHolder(k, ids[level])].data[p]
  ELSE 0

(* OAssignNewLabelToBlock: the block gets newleaf, and its entry for the   *)
(* block of the next level is read and replaced with the label drawn for   *)
(* that block.  access drew it before reading the path; it is used here.   *)
OAssignNewLabelToBlock ==
  /\ phase = "push" /\ PathEmpty /\ ~Optimized /\ level < recursion_levels
  /\ phase' = "rebuild"
  /\ LET p == ids[level + 1] % x
     IN \E f \in Leaves(level + 1) :
          /\ newleaf_nextlevel' = f
          /\ stash' = [stash EXCEPT ![level] = [k \in StashSlots |->
               IF Holds(k, ids[level]) THEN Relabelled(@[k], p, f) ELSE @[k]]]
          /\ nextLeaf' = EntryRead(p)
  /\ bucket' = 0 /\ posk' = 0
  /\ UNCHANGED <<posmap, tree, discard_block, req, ids, level, leaf, newleaf,
                 path, data_out, stash_oc_before, dropped>>

(* OAssignNewLabelToBlockOptimized: only the entry is read.  There is no   *)
(* write-back: the access goes on at the next level.                       *)
OAssignNewLabelToBlockOptimized ==
  /\ phase = "push" /\ PathEmpty /\ Optimized /\ level < recursion_levels
  /\ phase' = "read"
  /\ level' = level + 1
  /\ leaf' = EntryRead(ids[level + 1] % x)
  /\ path' = NoPath
  /\ UNCHANGED <<store, req, ids, newleaf, nextLeaf, newleaf_nextlevel, bucket,
                 posk, data_out, stash_oc_before, dropped>>

ReadOut_anyReal ==
  IF \E k \in StashSlots : ~isBlockDummy(stash[level][k])
  THEN stash[level][CHOOSE k \in StashSlots : ~isBlockDummy(stash[level][k])].data
  ELSE data_out

(* data_out after the scan of the stash for a read. *)
ReadOut ==
  IF \E k \in StashSlots : LastHolder(k, req.id)
  THEN stash[level][CHOOSE k \in StashSlots : LastHolder(k, req.id)].data
  ELSE data_out

(* Block b after the access. *)
Accessed_notWritten(b) == [b EXCEPT !.label = newleaf]
Accessed(b) ==
  [b EXCEPT !.label = newleaf, !.data = IF req.op = "w" THEN req.val ELSE @]

(* Stash::PerformAccessOperation: relabel, then write or read. *)
PerformAccessOperation ==
  /\ phase = "push" /\ PathEmpty /\ ~Optimized /\ level = recursion_levels
  /\ phase' = "rebuild"
  /\ stash' = [stash EXCEPT ![level] = [k \in StashSlots |->
       IF Holds(k, req.id) THEN Accessed(@[k]) ELSE @[k]]]
  /\ data_out' = IF req.op = "w" THEN data_out ELSE ReadOut
  /\ bucket' = 0 /\ posk' = 0
  /\ UNCHANGED <<posmap, tree, discard_block, req, ids, level, leaf, newleaf,
                 nextLeaf, newleaf_nextlevel, path, stash_oc_before, dropped>>

(* Stash::PerformOptimizedAccessOperation: read, and change nothing. *)
PerformOptimizedAccessOperation ==
  /\ phase = "push" /\ PathEmpty /\ Optimized /\ level = recursion_levels
  /\ phase' = "clear"
  /\ data_out' = ReadOut
  /\ path' = NoPath
  /\ UNCHANGED <<store, req, ids, level, leaf, newleaf, nextLeaf,
                 newleaf_nextlevel, bucket, posk, stash_oc_before, dropped>>

(* A stash block that PathORAM_RebuildPath can put in the current bucket:  *)
(* it is real and its path goes through the bucket.                        *)
Fits_anyReal(k) == ~isBlockDummy(stash[level][k])
Fits(k) ==
  /\ ~isBlockDummy(stash[level][k])
  /\ Node(level, stash[level][k].label, bucket) = Node(level, leaf, bucket)

(* The scan of the stash moves the first Z blocks that fit, in list order. *)
MoveToBucket(k) ==
  /\ phase = "rebuild" /\ posk < Z
  /\ Fits(k) /\ \A j \in StashSlots : Fits(j) => k <= j
  /\ path' = [path EXCEPT ![bucket][posk + 1] = stash[level][k]]
  /\ stash' = [stash EXCEPT ![level][k] = Dummy]
  /\ posk' = posk + 1
  /\ UNCHANGED <<posmap, tree, discard_block, phase, req, ids, level, leaf,
                 newleaf, nextLeaf, newleaf_nextlevel, bucket, data_out,
                 stash_oc_before, dropped>>

BucketsLeft_pastRoot == bucket <= D_level[level]
BucketsLeft == bucket < D_level[level]

(* The bucket is full, or no block in the stash fits: on to the next one,  *)
(* up to the root.                                                         *)
NextBucket ==
  /\ phase = "rebuild"
  /\ posk = Z \/ \A k \in StashSlots : ~Fits(k)
  /\ IF BucketsLeft
     THEN bucket' = bucket + 1 /\ UNCHANGED phase
     ELSE phase' = "upload" /\ UNCHANGED bucket
  /\ posk' = 0
  /\ UNCHANGED <<store, req, ids, level, leaf, newleaf, nextLeaf,
                 newleaf_nextlevel, path, data_out, stash_oc_before, dropped>>

(* Bucket n of the tree with the path written back. *)
Uploaded_noRoot(n) ==
  IF \E i \in Depths(level) \ {D_level[level]} : n = Node(level, leaf, i)
  THEN path[CHOOSE i \in Depths(level) : n = Node(level, leaf, i)]
  ELSE tree[level][n]
Uploaded(n) ==
  IF \E i \in Depths(level) : n = Node(level, leaf, i)
  THEN path[CHOOSE i \in Depths(level) : n = Node(level, leaf, i)]
  ELSE tree[level][n]

(* The rebuilt path replaces the buckets it was read from; access returns  *)
(* nextLeaf to the next level, or to the caller at the last one.           *)
uploadPath ==
  /\ phase = "upload"
  /\ tree' = [tree EXCEPT ![level] = [n \in Nodes(level) |-> Uploaded(n)]]
  /\ path' = NoPath /\ bucket' = 0
  /\ IF level = recursion_levels
     THEN /\ phase' = "idle"
          /\ leaf' = 0 /\ newleaf' = 0 /\ nextLeaf' = 0 /\ newleaf_nextlevel' = 0
          /\ UNCHANGED level
     ELSE /\ phase' = "read"
          /\ level' = level + 1
          /\ leaf' = nextLeaf /\ newleaf' = newleaf_nextlevel
          /\ UNCHANGED <<nextLeaf, newleaf_nextlevel>>
  /\ UNCHANGED <<posmap, stash, discard_block, req, ids, posk, data_out,
                 stash_oc_before, dropped>>

ClearedFlags_kept == discard_block
ClearedFlags == [l \in Levels |-> [k \in StashSlots |-> FALSE]]

(* Stash::clear on every level: the flagged slots become dummies. *)
clear ==
  /\ phase = "clear"
  /\ phase' = "assert"
  /\ stash' = [l \in Levels |-> [k \in StashSlots |->
       IF discard_block[l][k] THEN Dummy ELSE stash[l][k]]]
  /\ discard_block' = ClearedFlags
  /\ UNCHANGED <<posmap, tree, req, ids, level, locals, data_out,
                 stash_oc_before, dropped>>

(* The assert on the occupancies ends a 'z' request. *)
ReturnOptimized ==
  /\ phase = "assert"
  /\ phase' = "idle"
  /\ leaf' = 0
  /\ stash_oc_before' = [l \in Levels |-> 0]
  /\ UNCHANGED <<store, req, ids, level, newleaf, nextLeaf, newleaf_nextlevel,
                 path, bucket, posk, data_out, dropped>>

Push ==
  \E i \in Depths(level), s \in BucketSlots :
     \/ \E k \in StashSlots : pass_insert(i, s, k)
     \/ pass_insert_full(i, s)

Serve ==
  \/ OAssignNewLabelToBlock
  \/ OAssignNewLabelToBlockOptimized
  \/ PerformAccessOperation
  \/ PerformOptimizedAccessOperation

Rebuild ==
  \/ \E k \in StashSlots : MoveToBucket(k)
  \/ NextBucket

(* A step of the request in progress. *)
Step ==
  \/ Descend \/ LookupPosmap \/ ReadBucketsFromPath \/ Push \/ Serve
  \/ Rebuild \/ uploadPath \/ clear \/ ReturnOptimized

Request ==
  \E id \in ClientIds :
     \/ \E op \in {"r", "z"} : Access_temp(op, id, Unset)
     \/ \E val \in Values : Access_temp("w", id, val)

Next == Request \/ Step

(* The enclave runs a request to its end: its loops are bounded, and the   *)
(* calls out of the enclave return.  Requests need not come.               *)
Fairness == WF_vars(Step)

Spec == Init /\ [][Next]_vars /\ Fairness

-----------------------------------------------------------------------------
(* Where the blocks of level l are stored.  While a path is being rebuilt  *)
(* its buckets in the tree are out of date, and the path and the stash     *)
(* hold their blocks; a 'z' request only copies, and its copies in the     *)
(* stash are flagged.                                                      *)
Rebuilding(l) ==
  l = level /\ ~Optimized /\ phase \in {"push", "rebuild", "upload"}

OutOfDate(l, n) == Rebuilding(l) /\ \E i \in Depths(l) : n = Node(l, leaf, i)

Places(l) ==
  { <<"tree", n, s>> : n \in Nodes(l), s \in BucketSlots }
    \cup { <<"path", i, s>> : i \in Depths(l), s \in BucketSlots }
    \cup { <<"stash", k, 0>> : k \in StashSlots }

SlotAt(l, p) ==
  CASE p[1] = "tree" -> IF OutOfDate(l, p[2]) THEN Dummy ELSE tree[l][p[2]][p[3]]
    [] p[1] = "path" -> IF Rebuilding(l) THEN path[p[2]][p[3]] ELSE Dummy
    [] p[1] = "stash" -> IF discard_block[l][p[2]] THEN Dummy ELSE stash[l][p[2]]

PlacesOf(l, b) == {p \in Places(l) : SlotAt(l, p).id = b}
BlockOf(l, b) == SlotAt(l, CHOOSE p \in PlacesOf(l, b) : TRUE)

(* The data block has been read or written. *)
Served ==
  level = recursion_levels /\ phase \in {"rebuild", "upload", "clear", "assert"}

(* The stash without what a 'z' request copied there. *)
Kept == [l \in Levels |-> [k \in StashSlots |->
           IF discard_block[l][k] THEN Dummy ELSE stash[l][k]]]

(* The label that the level below records for block b. *)
RecordedLabel(l, b) ==
  IF l = 1 THEN posmap[b] ELSE BlockOf(l - 1, b \div x).data[b % x]

(* The blocks an access goes through to find block b of level l. *)
LeadsTo(l, b) == { <<m, b \div x ^ (l - m)>> : m \in 1 .. l }

(* One of them is gone, so that b is looked for on some other path. *)
Lost(l, b) == LeadsTo(l, b) \cap dropped # {}

(* The requested block of level l has a new label on record and still      *)
(* carries the old one.                                                    *)
Awaiting(l, b) ==
  /\ ~Optimized /\ b = ids[l]
  /\ \/ l = level /\ phase \in {"read", "push"}
     \/ l = level + 1 /\ phase \in {"rebuild", "upload"}

-----------------------------------------------------------------------------
(* The position map, the trees, the stashes and the flags. *)
StoreTypeOK ==
  /\ posmap \in [Ids(1) -> Leaves(1)]
  /\ DOMAIN tree = Levels /\ DOMAIN stash = Levels
  /\ \A l \in Levels : /\ tree[l] \in [Nodes(l) -> [BucketSlots -> Slot(l)]]
                       /\ stash[l] \in [StashSlots -> Slot(l)]
  /\ discard_block \in [Levels -> [StashSlots -> BOOLEAN]]

(* The request, and what is kept of it between the levels. *)
RequestTypeOK ==
  /\ phase \in {"idle", "descend", "read", "push", "rebuild", "upload",
                "clear", "assert"}
  /\ req \in [op : {"r", "z"}, id : Ids(recursion_levels), val : {Unset}]
              \cup [op : {"w"}, id : Ids(recursion_levels), val : Values]
  /\ level \in Levels
  /\ DOMAIN ids = Levels /\ \A l \in Levels : ids[l] \in Ids(l)
  /\ data_out \in Values \cup {Unset}
  /\ stash_oc_before \in [Levels -> Nat]
  /\ dropped \subseteq { d \in Levels \X Nat : d[2] \in Ids(d[1]) }

(* The access at the current level: the labels are leaves of the tree they *)
(* are used for.                                                           *)
AccessTypeOK ==
  /\ phase \in {"read", "push", "rebuild", "upload"} =>
       leaf \in Leaves(level) /\ (~Optimized => newleaf \in Leaves(level))
  /\ phase \in {"rebuild", "upload"} /\ level < recursion_levels =>
       nextLeaf \in Leaves(level + 1) /\ newleaf_nextlevel \in Leaves(level + 1)
  /\ phase \in {"push", "rebuild", "upload"} =>
       path \in [Depths(level) -> [BucketSlots -> Slot(level)]]
  /\ phase = "rebuild" => bucket \in Depths(level) /\ posk \in 0 .. Z
  /\ phase \in {"rebuild", "upload"} => ~Optimized

(* Labels are leaves, slots hold blocks of their own level, and only a     *)
(* request with write-back rebuilds a path.                                *)
TypeOK == StoreTypeOK /\ RequestTypeOK /\ AccessTypeOK

(* A block in a tree lies on the path to the leaf of its label, where an   *)
(* access will look for it, at every moment (PathORAM_RebuildPath).        *)
OnPath ==
  \A l \in Levels : \A n \in Nodes(l), s \in BucketSlots :
    tree[l][n][s].id \in Ids(l) =>
      \E i \in Depths(l) : n = Node(l, tree[l][n][s].label, i)

(* Pushing a path to the stash, rebuilding it and writing it back neither  *)
(* loses nor duplicates a block: each is stored in one place, unless a     *)
(* full stash dropped it, and then nowhere.                                *)
OneCopy ==
  \A l \in Levels : \A b \in Ids(l) :
    IF <<l, b>> \in dropped THEN PlacesOf(l, b) = {}
                            ELSE \E p \in PlacesOf(l, b) : PlacesOf(l, b) = {p}

(* Every block carries the label recorded for it one level down, where     *)
(* access reads it; the requested one carries the label access read, and   *)
(* the recorded one is the label it is about to get.  Once a block is      *)
(* dropped, what is found through it is recorded nowhere.                  *)
LabelsMatch ==
  \A l \in Levels : \A b \in Ids(l) :
    ~Lost(l, b) =>
      IF Awaiting(l, b)
      THEN /\ BlockOf(l, b).label = IF l = level THEN leaf ELSE nextLeaf
           /\ RecordedLabel(l, b) = IF l = level THEN newleaf ELSE newleaf_nextlevel
      ELSE BlockOf(l, b).label = RecordedLabel(l, b)

(* When the stash is scanned for the requested block, it is there, unless  *)
(* it or a block that leads to it has been dropped.                        *)
RequestedBlockInStash ==
  phase = "push" /\ PathEmpty /\ ~Optimized =>
    \/ \E k \in StashSlots : Holds(k, ids[level])
    \/ Lost(level, ids[level])

(* No flagged slot survives a request: a flag left behind would discard    *)
(* whatever block a later write leaves in the slot (Stash::clear).         *)
FlagsCleared ==
  phase = "idle" => \A l \in Levels, k \in StashSlots : ~discard_block[l][k]

(* PathORAM_Access_Read asserts that a 'z' request leaves as many blocks   *)
(* in every stash as it found there.                                       *)
StashOccupancyRestored ==
  phase = "assert" => \A l \in Levels : stash_oc_before[l] = Occupancy(l)

(* A 'z' request writes neither the position map nor a tree, and takes     *)
(* from the stash nothing but what it put there (access_optimized).        *)
ReadOnly ==
  [][Optimized /\ phase # "idle" =>
       posmap' = posmap /\ tree' = tree /\ Kept' = Kept]_vars

(* No block is ever dropped by a full stash. *)
NothingDropped == dropped = {}

(* A read that has been served copied the block to the caller's buffer.    *)
ReadAnswered ==
  Served /\ req.op # "w" => data_out # Unset

(* Reads answer the last write: the controller implements the block store. *)
(* A block holds what its one copy holds.                                  *)
Store == INSTANCE BlockStore WITH
  BlockIds <- Ids(recursion_levels), Contents <- Values,
  Initially <- InitValue, NoContent <- Unset,
  mem <- [b \in Ids(recursion_levels) |-> BlockOf(recursion_levels, b).data],
  status <- CASE phase = "idle" -> "idle"
              [] Served -> "served"
              [] OTHER -> "pending",
  request <- req, out <- data_out

ImplementsBlockStore == Store!AbsSpec

(* When a stash overflows, a read may miss but answers no wrong content,   *)
(* and a write changes its own block or nothing: the controller implements *)
(* the store that forgets.  What holds no copy of a block that was dropped *)
(* is empty, and a block may be missed once it or one that leads to it has *)
(* been dropped (Stash::pass_insert, PerformAccessOperation).              *)
LossyStore == INSTANCE LossyBlockStore WITH
  BlockIds <- Ids(recursion_levels), Contents <- Values,
  Initially <- InitValue, NoContent <- Unset,
  mem <- [b \in Ids(recursion_levels) |->
            IF <<recursion_levels, b>> \in dropped THEN Unset
            ELSE BlockOf(recursion_levels, b).data],
  status <- CASE phase = "idle" -> "idle"
              [] Served -> "served"
              [] OTHER -> "pending",
  request <- req, out <- data_out,
  lost <- {b \in Ids(recursion_levels) : Lost(recursion_levels, b)}

NeverAnswersWrong == LossyStore!LossySpec
=============================================================================
