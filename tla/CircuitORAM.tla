---------------------------- MODULE CircuitORAM ----------------------------
(***************************************************************************)
(* The recursive Circuit ORAM controller of the enclave                    *)
(* (ZT_Enclave/CircuitORAM_Enclave.cpp), in the oblivious configuration.   *)
(*                                                                         *)
(* A request goes through the recursion as in PathORAM.  At each level the *)
(* requested block is taken out of one path, or out of the stash, and put  *)
(* in the stash; only a 'w' writes the path back and then evicts blocks    *)
(* from the stash along two other paths, planned by prepare_deepest and    *)
(* prepare_target and carried out by EvictOnceFast.  'r' and 'z' requests  *)
(* write nothing back, yet the position map and the entry in the fetched   *)
(* copy get new labels all the same.                                       *)
(*                                                                         *)
(* Bucket i of a path is i levels above the leaf, as the serialized path   *)
(* has them.  The eviction counts positions from the stash (0) over the    *)
(* root (1) to the leaf (D + 1).  Encryption and the hash tree are not     *)
(* modelled here.                                                          *)
(***************************************************************************)
EXTENDS ORAMTree, FiniteSetsExt

CONSTANT MaxRequests \* bound on the requests of a behaviour

(* nlevel / 2 is a modulus in EvictionRoutine.  The contents of data       *)
(* blocks are told from labels.                                            *)
ASSUME EvictionAssumption ==
  /\ MaxRequests \in Nat
  /\ \A l \in Levels : D_level[l] > 0
  /\ (Values \cup {Unset}) \cap [Positions -> Int] = {}

VARIABLES
  posmap, tree, stash, discard_block, \* as in PathORAM
  serialized_result_block, \* kept from one access to the next
  phase, req, ids, level,
  leaf,            \* the label read for ids[level]
  newleaf,         \* *prev_sampled_leaf: the label ids[level] is to get
  return_value,    \* the label read for ids[level + 1]
  newleaf_nextlevel,
  data_out,
  side,            \* which of its two paths EvictionRoutine is at
  evicted,         \* leaf_left or leaf_right
  eviction_path,
  deepest, deepest_position, \* set by prepare_deepest
  target, target_position,   \* set by prepare_target
  requests,        \* how many were made
  written          \* history: what a read of each data block should give

vars == <<posmap, tree, stash, discard_block, serialized_result_block, phase,
          req, ids, level, leaf, newleaf, return_value, newleaf_nextlevel,
          data_out, side, evicted, eviction_path, deepest, deepest_position,
          target, target_position, requests, written>>
labels == <<leaf, newleaf, return_value, newleaf_nextlevel>>
plan == <<deepest, deepest_position, target, target_position>>
eviction == <<side, evicted, eviction_path, plan>>

None == -1
NoPlan == [i \in {} |-> None]

Init ==
  /\ posmap = [b \in Ids(1) |-> BuildLabel(1, b)]
  /\ tree = [l \in Levels |-> BuildTree(l)]
  /\ stash = [l \in Levels |-> [k \in StashSlots |-> Dummy]]
  /\ discard_block \in [Levels -> [StashSlots -> InitDiscard]]
  /\ serialized_result_block = Dummy
  /\ phase = "idle"
  /\ req = [op |-> "r", id |-> 0, val |-> Unset]
  /\ ids = [l \in Levels |-> 0]
  /\ level = recursion_levels
  /\ leaf = 0 /\ newleaf = 0 /\ return_value = 0 /\ newleaf_nextlevel = 0
  /\ data_out = Unset
  /\ side = "left" /\ evicted = 0 /\ eviction_path = <<>>
  /\ deepest = NoPlan /\ deepest_position = NoPlan
  /\ target = NoPlan /\ target_position = NoPlan
  /\ requests = 0
  /\ written = InitValue

-----------------------------------------------------------------------------
(* Access_temp: the call that starts a request at the top of the recursion. *)
Access_temp(op, id, val) ==
  /\ phase = "idle" /\ requests < MaxRequests
  /\ phase' = "descend"
  /\ req' = [op |-> op, id |-> id, val |-> val]
  /\ level' = recursion_levels
  /\ ids' = [ids EXCEPT ![recursion_levels] = id]
  /\ data_out' = Unset
  /\ requests' = requests + 1
  /\ written' = IF op = "w" THEN [written EXCEPT ![id] = val] ELSE written
  /\ UNCHANGED <<posmap, tree, stash, discard_block, serialized_result_block,
                 labels, eviction>>

(* access calls itself for the block that holds the label. *)
Descend ==
  /\ phase = "descend" /\ level > 1
  /\ level' = level - 1
  /\ ids' = [ids EXCEPT ![level - 1] = ids[level] \div x]
  /\ UNCHANGED <<posmap, tree, stash, discard_block, serialized_result_block,
                 phase, req, labels, data_out, eviction, requests, written>>

(* access at level 0: oarray_search2 reads the label and replaces it,      *)
(* whatever the request is.                                                *)
LookupPosmap ==
  /\ phase = "descend" /\ level = 1
  /\ phase' = "fetch"
  /\ leaf' = posmap[ids[1]]
  /\ \E f \in Leaves(1) : /\ newleaf' = f
                          /\ posmap' = [posmap EXCEPT ![ids[1]] = f]
  /\ UNCHANGED <<tree, stash, discard_block, serialized_result_block, req, ids,
                 level, return_value, newleaf_nextlevel, data_out, eviction,
                 requests, written>>

(* ReadBucketsFromPath and uploadPath. *)
ReadPath(f) == [i \in Depths(level) |-> tree[level][Node(level, f, i)]]

WritePath(f, p) ==
  [tree EXCEPT ![level] =
     [n \in Nodes(level) |->
        IF \E i \in Depths(level) : n = Node(level, f, i)
        THEN p[CHOOSE i \in Depths(level) : n = Node(level, f, i)]
        ELSE tree[level][n]]]

(* The slots of a bucket or of a stash that hold block b. *)
SlotsOf(b, slots) == { k \in DOMAIN slots : slots[k].id = b }

(* The block fetched from path p.  A copy in the stash wins over one on    *)
(* the path, the last one over the others; when there is none, the result  *)
(* is still the block of an earlier fetch.                                 *)
Fetched(p) ==
  LET b == ids[level]
      found == { i \in Depths(level) : SlotsOf(b, p[i]) # {} }
      last(slots) == slots[Max(SlotsOf(b, slots))]
  IN  CASE SlotsOf(b, stash[level]) # {} -> last(stash[level])
        [] SlotsOf(b, stash[level]) = {} /\ found # {} -> last(p[Max(found)])
        [] OTHER -> serialized_result_block

(* The path without the fetched block. *)
Removed(p) ==
  [i \in Depths(level) |-> [s \in BucketSlots |->
     IF p[i][s].id = ids[level] THEN Dummy ELSE p[i][s]]]

(* The labels in content c.  The content of a data block, which a fetch    *)
(* that finds nothing may leave in the result, holds bytes in their place. *)
Maps == [Positions -> Int]
Entries(c) == IF c \in Maps THEN c ELSE [p \in Positions |-> None]

(* The labels that entry p of content c may be read as: bytes that are no  *)
(* label of the next tree may still be in its range.                       *)
EntryRead(c, p) ==
  IF Entries(c)[p] \in Leaves(level + 1) THEN {Entries(c)[p]}
                                         ELSE Leaves(level + 1) \cup {None}

(* The first dummy slot gets the block; a dummy is not inserted, and a     *)
(* full stash leaves the block out.                                        *)
pass_insert(b, slots) ==
  LET free == { k \in StashSlots : isBlockDummy(slots[k]) }
  IN  IF isBlockDummy(b) \/ free = {} THEN slots
                                      ELSE [slots EXCEPT ![Min(free)] = b]

(* A 'w' gives the fetched block its new label; other requests leave the   *)
(* old one.                                                                *)
Labelled(b) == IF req.op = "w" THEN [b EXCEPT !.label = newleaf] ELSE b

(* What the rest of an access is after the fetch. *)
AfterFetch ==
  CASE req.op = "w" -> "plan" [] req.op = "z" -> "clear" [] OTHER -> "return"

(* CircuitORAM_FetchBlock at a level of the position map.  The entry for   *)
(* the block of the next level is read, and replaced by the label access   *)
(* drew for it.                                                            *)
FetchEntry ==
  /\ phase = "fetch" /\ level < recursion_levels
  /\ LET p == ReadPath(leaf)
         e == ids[level + 1] % x
         b == Fetched(p)
     IN \E f \in Leaves(level + 1) :
          LET r == Labelled([b EXCEPT !.data = [Entries(@) EXCEPT ![e] = f]])
          IN  /\ newleaf_nextlevel' = f
              /\ return_value' \in EntryRead(b.data, e)
              /\ serialized_result_block' = r
              /\ tree' = IF req.op = "w" THEN WritePath(leaf, Removed(p)) ELSE tree
              /\ stash' = [stash EXCEPT ![level] = pass_insert(r, @)]
  /\ phase' = AfterFetch
  /\ UNCHANGED <<posmap, discard_block, req, ids, level, leaf, newleaf,
                 data_out, eviction, requests, written>>

(* Stash::PerformAccessOperation on every slot that holds the block. *)
Accessed(slots) ==
  [k \in StashSlots |->
     IF slots[k].id # req.id THEN slots[k]
     ELSE [slots[k] EXCEPT !.label = newleaf,
                           !.data = IF req.op = "w" THEN req.val ELSE @]]

(* CircuitORAM_FetchBlock at the last level, with the access itself. *)
FetchData ==
  /\ phase = "fetch" /\ level = recursion_levels
  /\ LET p == ReadPath(leaf)
         r == Labelled(Fetched(p))
         s == pass_insert(r, stash[level])
     IN  /\ serialized_result_block' = r
         /\ tree' = IF req.op = "w" THEN WritePath(leaf, Removed(p)) ELSE tree
         /\ stash' = [stash EXCEPT ![level] = Accessed(s)]
         /\ data_out' = IF req.op # "w" /\ SlotsOf(req.id, s) # {}
                        THEN s[Max(SlotsOf(req.id, s))].data ELSE data_out
  /\ phase' = AfterFetch
  /\ UNCHANGED <<posmap, discard_block, req, ids, level, labels, eviction,
                 requests, written>>

(* CircuitORAM_Access_Read clears the stash of the level after the fetch;  *)
(* pass_insert flagged nothing, as optimized_reading is 0 here.            *)
clear ==
  /\ phase = "clear"
  /\ phase' = "return"
  /\ stash' = [stash EXCEPT ![level] = [k \in StashSlots |->
       IF discard_block[level][k] THEN Dummy ELSE @[k]]]
  /\ discard_block' = [discard_block EXCEPT ![level] = [k \in StashSlots |-> FALSE]]
  /\ UNCHANGED <<posmap, tree, serialized_result_block, req, ids, level,
                 labels, data_out, eviction, requests, written>>

-----------------------------------------------------------------------------
PathPositions == 0 .. D_level[level] + 1

(* What is at position i of path p. *)
SlotsAt(p, i) == IF i = 0 THEN stash[level] ELSE p[D_level[level] + 1 - i]

(* The positions below i that lie on the path to f and on the path of b. *)
CommonBelow_parent(f, i, b) ==
  { j \in i + 1 .. D_level[level] + 1 :
      LET up == D_level[level] + 2 - j
      IN  ~isBlockDummy(b) /\ Node(level, b.label, up) = Node(level, f, up) }
CommonBelow(f, i, b) ==
  { j \in i + 1 .. D_level[level] + 1 :
      LET up == D_level[level] + 1 - j
      IN  ~isBlockDummy(b) /\ Node(level, b.label, up) = Node(level, f, up) }

(* How far down block b can go from position i, 0 if it cannot. *)
Reach(f, i, b) == Max({0} \cup CommonBelow(f, i, b))

(* The scan of the slots at position i: a block that can go deeper than    *)
(* all before it becomes the one to move.  A bucket is scanned from its    *)
(* last slot.                                                              *)
ScanSlots(p, f, i, a) ==
  LET slots == SlotsAt(p, i)
      deepest_slot == Max({0} \cup { Reach(f, i, slots[k]) : k \in DOMAIN slots })
      best == { k \in DOMAIN slots : Reach(f, i, slots[k]) = deepest_slot }
      first == IF i = 0 THEN Min(best) ELSE Max(best)
      better == deepest_slot > a.local_deepest
  IN  [local_deepest |-> IF better THEN deepest_slot ELSE a.local_deepest,
       src |-> IF better THEN i ELSE a.src,
       goal |-> IF better THEN deepest_slot ELSE a.goal,
       deepest |-> a.deepest,
       deepest_position |-> IF better THEN first ELSE None]

(* Before that, deepest[i] is the source of the block that is to go to i   *)
(* or beyond; at its goal the block is done.                               *)
SetDeepest(i, a) ==
  [local_deepest |-> a.local_deepest,
   src |-> IF a.goal = i THEN None ELSE a.src,
   goal |-> IF a.goal = i THEN None ELSE a.goal,
   deepest |-> IF a.goal >= i THEN a.src ELSE None,
   deepest_position |-> a.deepest_position]

ScanPosition_late(p, f, i, a) == SetDeepest(i, ScanSlots(p, f, i, a))
ScanPosition(p, f, i, a) == ScanSlots(p, f, i, SetDeepest(i, a))

NoScan == [local_deepest |-> 0, src |-> None, goal |-> None,
           deepest |-> None, deepest_position |-> None]

(* prepare_deepest, from the stash down to the leaf of the path to f: the  *)
(* locals after each position, with the entries for it.                    *)
DeepestScan(p, f) ==
  LET s[i \in PathPositions] ==
        ScanPosition(p, f, i, IF i = 0 THEN NoScan ELSE s[i - 1])
  IN  s

(* The leaves of the left and the right eviction path are half the tree    *)
(* apart.                                                                  *)
EvictionLeaves ==
  IF side = "left" THEN { f \in Leaves(level) : f < N_level[level] \div 2 }
                   ELSE { evicted + N_level[level] \div 2 }

prepare_deepest ==
  /\ phase = "plan"
  /\ phase' = "target"
  /\ \E f \in EvictionLeaves :
       LET p == ReadPath(f)
           a == DeepestScan(p, f)
       IN  /\ evicted' = f
           /\ eviction_path' = p
           /\ deepest' = [i \in PathPositions |-> a[i].deepest]
           /\ deepest_position' = [i \in PathPositions |-> a[i].deepest_position]
  /\ UNCHANGED <<posmap, tree, stash, discard_block, serialized_result_block,
                 req, ids, level, labels, data_out, side, target,
                 target_position, requests, written>>

EmptySlots(i) ==
  { k \in BucketSlots : isBlockDummy(SlotsAt(eviction_path, i)[k]) }

(* Position i of prepare_target: a block that starts here has its target,  *)
(* and a bucket with room asks for the deepest block that can come to it,  *)
(* unless one is already on its way further down.                          *)
Wanted_full(i, dest) == dest = None /\ deepest[i] # None
Wanted(i, dest) == dest = None /\ EmptySlots(i) # {} /\ deepest[i] # None

SetTarget(i, a) ==
  LET arrived == i = a.src
      dest == IF arrived THEN None ELSE a.dest
      wanted == i > 0 /\ Wanted(i, dest)
  IN  [src |-> IF wanted THEN deepest[i] ELSE IF arrived THEN None ELSE a.src,
       dest |-> IF wanted THEN i ELSE dest,
       target |-> IF arrived THEN a.dest ELSE None,
       target_position |-> IF i > 0 /\ EmptySlots(i) # {} THEN Min(EmptySlots(i))
                                                        ELSE None]

NoTarget == [src |-> None, dest |-> None, target |-> None, target_position |-> None]

(* The scan of prepare_target, from the leaf up to the stash. *)
TargetScan ==
  LET s[i \in PathPositions] ==
        SetTarget(i, IF i = D_level[level] + 1 THEN NoTarget ELSE s[i + 1])
  IN  s

prepare_target ==
  /\ phase = "target"
  /\ phase' = "evict"
  /\ target' = [i \in PathPositions |-> TargetScan[i].target]
  /\ target_position' = [i \in PathPositions |-> TargetScan[i].target_position]
  /\ UNCHANGED <<posmap, tree, stash, discard_block, serialized_result_block,
                 req, ids, level, labels, data_out, side, evicted,
                 eviction_path, deepest, deepest_position, requests, written>>

(* EvictOnceFast at position i, in order: the block it holds is put down   *)
(* at its destination, a block that has a target is picked up, and what    *)
(* was put down is written to the slot set aside for it.                   *)
Arrive(i, e) == [e EXCEPT !.slots = SlotsAt(eviction_path, i)]

PutDown_held(i, e) ==
  IF e.hold # None /\ i = e.dest
  THEN [e EXCEPT !.block_write = <<e.block_hold>>] ELSE e
PutDown(i, e) ==
  IF e.hold # None /\ i = e.dest
  THEN [e EXCEPT !.block_write = <<e.block_hold>>, !.hold = None, !.dest = None]
  ELSE e

PickUp(i, e) ==
  LET k == deepest_position[i]
      b == e.slots[k]
  IN  IF target[i] = None THEN e
      ELSE IF k # None /\ (IF i = 0 THEN ~isBlockDummy(b) ELSE e.hold = None)
      THEN [e EXCEPT !.block_hold = b, !.hold = target[i], !.dest = target[i],
                     !.slots = [@ EXCEPT ![k] = Dummy]]
      ELSE [e EXCEPT !.dest = target[i]]

WriteSlot(i, e) ==
  IF i > 0 /\ e.block_write # <<>> /\ target_position[i] # None
  THEN [e EXCEPT !.slots = [@ EXCEPT ![target_position[i]] = e.block_write[1]],
                 !.block_write = <<>>]
  ELSE e

NothingHeld == [hold |-> None, dest |-> None, block_hold |-> Dummy,
                block_write |-> <<>>, slots |-> <<>>]

(* The locals after each position, with the slots it is left with. *)
Eviction ==
  LET e[i \in PathPositions] ==
        WriteSlot(i, PickUp(i, PutDown(i,
          Arrive(i, IF i = 0 THEN NothingHeld ELSE e[i - 1]))))
  IN  e

(* EvictOnceFast, and the upload of the path after it. *)
EvictOnceFast ==
  /\ phase = "evict"
  /\ stash' = [stash EXCEPT ![level] = Eviction[0].slots]
  /\ tree' = WritePath(evicted, [i \in Depths(level) |->
                                  Eviction[D_level[level] + 1 - i].slots])
  /\ eviction_path' = <<>>
  /\ deepest' = NoPlan /\ deepest_position' = NoPlan
  /\ target' = NoPlan /\ target_position' = NoPlan
  /\ IF side = "left" THEN side' = "right" /\ phase' = "plan" /\ UNCHANGED evicted
                      ELSE side' = "left" /\ phase' = "return" /\ evicted' = 0
  /\ UNCHANGED <<posmap, discard_block, serialized_result_block, req, ids,
                 level, labels, data_out, requests, written>>

-----------------------------------------------------------------------------
(* The access at the next level starts with the label that was read; if    *)
(* that is no leaf, it asks for buckets outside the tree.                  *)
NextLevel ==
  /\ phase = "return" /\ level < recursion_levels
  /\ IF return_value = None THEN phase' = "crashed" /\ UNCHANGED level
                            ELSE phase' = "fetch" /\ level' = level + 1
  /\ leaf' = return_value /\ newleaf' = newleaf_nextlevel
  /\ return_value' = 0 /\ newleaf_nextlevel' = 0
  /\ UNCHANGED <<posmap, tree, stash, discard_block, serialized_result_block,
                 req, ids, data_out, eviction, requests, written>>

Return ==
  /\ phase = "return" /\ level = recursion_levels
  /\ phase' = "idle"
  /\ leaf' = 0 /\ newleaf' = 0
  /\ UNCHANGED <<posmap, tree, stash, discard_block, serialized_result_block,
                 req, ids, level, return_value, newleaf_nextlevel, data_out,
                 eviction, requests, written>>

Step ==
  \/ Descend \/ LookupPosmap \/ FetchEntry \/ FetchData \/ clear
  \/ prepare_deepest \/ prepare_target \/ EvictOnceFast \/ NextLevel \/ Return

Request ==
  \E id \in ClientIds :
     \/ \E op \in {"r", "z"} : Access_temp(op, id, Unset)
     \/ \E val \in Values : Access_temp("w", id, val)

Next == Request \/ Step

Spec == Init /\ [][Next]_vars

-----------------------------------------------------------------------------
(* The contents a slot can come to hold: those of a data block, labels,    *)
(* and labels written over the bytes of a data block.                      *)
Contents ==
  Values \cup {Unset} \cup
  [Positions -> {None} \cup UNION { Leaves(l) : l \in Levels \ {1} }]

AnySlot ==
  [id : 0 .. gN + 1, label : UNION { 0 .. N_level[l] : l \in Levels },
   data : Contents]

(* Slots hold blocks, if need be of another level; labels in use are       *)
(* leaves of the tree they are used for.                                   *)
TypeOK ==
  /\ posmap \in [Ids(1) -> Leaves(1)]
  /\ \A l \in Levels : /\ tree[l] \in [Nodes(l) -> [BucketSlots -> AnySlot]]
                       /\ stash[l] \in [StashSlots -> AnySlot]
  /\ discard_block \in [Levels -> [StashSlots -> BOOLEAN]]
  /\ serialized_result_block \in AnySlot
  /\ phase \in {"idle", "descend", "fetch", "clear", "plan", "target", "evict",
                "return", "crashed"}
  /\ \A l \in Levels : ids[l] \in Ids(l)
  /\ phase = "fetch" => leaf \in Leaves(level) /\ newleaf \in Leaves(level)
  /\ data_out \in Contents
  /\ phase = "evict" => \A i \in PathPositions :
       /\ target[i] \in {None} \cup (i + 1 .. D_level[level] + 1)
       /\ target[i] # None => /\ deepest_position[i] # None
                              /\ target_position[target[i]] # None

(* EvictOnceFast puts a block in a bucket only if the path to its leaf     *)
(* goes through it, and fetches leave the others where they are: a block   *)
(* in a tree is on the path of its label, even after the labels of some    *)
(* copies and of the position map have gone different ways.                *)
OnPath ==
  \A l \in Levels : \A n \in Nodes(l), s \in BucketSlots :
    isBlockDummy(tree[l][n][s])
      \/ \E i \in Depths(l) : n = Node(l, tree[l][n][s].label, i)

(* The deepest position at which block b may be on the eviction path, 0 if *)
(* there is none.                                                          *)
DeepestPosition(b) ==
  LET D == D_level[level]
  IN  Max({0} \cup { j \in 1 .. D + 1 :
                       /\ ~isBlockDummy(b)
                       /\ \E i \in Depths(level) :
                            /\ Node(level, b.label, i) = Node(level, evicted, i)
                            /\ j = D + 1 - i })

ScannedBefore(i) ==
  UNION { { <<s, SlotsAt(eviction_path, s)[k]>> :
              k \in IF s = 0 THEN StashSlots ELSE BucketSlots } : s \in 0 .. i - 1 }

(* What the comment above prepare_deepest says of its one pass over the    *)
(* path: deepest[i] stores the source level of the deepest block in        *)
(* path[0..i-1] that can reside in path[i].                                *)
DeepestRight ==
  phase \in {"target", "evict"} =>
    \A i \in 1 .. D_level[level] + 1 :
      LET able == { c \in ScannedBefore(i) : DeepestPosition(c[2]) >= i }
      IN  IF able = {} THEN deepest[i] = None
          ELSE \E c \in able :
                 /\ deepest[i] = c[1]
                 /\ \A d \in able : DeepestPosition(d[2]) <= DeepestPosition(c[2])

(* How many copies of each block level l holds, in the tree and the stash. *)
Held(l) ==
  LET slots == { <<n, s>> : n \in Nodes(l), s \in BucketSlots }
      blocks == { tree[l][p[1]][p[2]] : p \in slots }
                  \cup { stash[l][k] : k \in StashSlots }
  IN  [b \in { b \in blocks : ~isBlockDummy(b) } |->
         Cardinality({ p \in slots : tree[l][p[1]][p[2]] = b })
           + Cardinality({ k \in StashSlots : stash[l][k] = b })]

(* An eviction only moves blocks: whatever the plan, EvictOnceFast neither *)
(* overwrites a block in a bucket, nor leaves one in its hands, nor puts   *)
(* one down twice.                                                         *)
EvictionKeeps ==
  [][phase = "evict" => \A l \in Levels : Held(l)' = Held(l)]_vars

(* A read gives what the last write left, as test_oram_IO.cpp demands of   *)
(* either ORAM.                                                            *)
ReadsConsistent ==
  phase = "idle" /\ requests > 0 /\ req.op # "w" => data_out = written[req.id]
=============================================================================
