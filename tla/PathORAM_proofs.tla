--------------------------- MODULE PathORAM_proofs ---------------------------
(* Theorems about PathORAM, for every value of its constants. *)
EXTENDS PathORAM, ORAMTree_proofs, FiniteSetTheorems

-----------------------------------------------------------------------------
(* Type correctness. *)
LEMMA InitTypeOK == Init => TypeOK
<1> SUFFICES ASSUME Init PROVE TypeOK
  OBVIOUS
<1>1. StoreTypeOK
  <2>1. posmap \in [Ids(1) -> Leaves(1)]
    BY Ranges, BuiltInOneLeaf DEF Init
  <2>2. \A l \in Levels : tree[l] \in [Nodes(l) -> [BucketSlots -> Slot(l)]]
    BY BuildTreeType DEF Init
  <2>3. \A l \in Levels : stash[l] \in [StashSlots -> Slot(l)]
    BY SlotById DEF Init
  <2>4. discard_block \in [Levels -> [StashSlots -> BOOLEAN]]
    BY DataAssumption DEF Init
  <2> QED
    BY <2>1, <2>2, <2>3, <2>4 DEF Init, StoreTypeOK
<1>2. RequestTypeOK
  BY Ranges, DataAssumption DEF Init, RequestTypeOK
<1>3. AccessTypeOK
  BY DEF Init, AccessTypeOK
<1> QED
  BY <1>1, <1>2, <1>3 DEF TypeOK

(* What is read from a block of labels is a leaf of the next tree. *)
LEMMA EntryReadType ==
  ASSUME TypeOK, level + 1 \in Levels, NEW p \in Positions
  PROVE  EntryRead(p) \in Leaves(level + 1)
<1>1. level \in Levels /\ level # recursion_levels /\ ids[level] \in Ids(level)
  BY LevelsAssumption DEF TypeOK, RequestTypeOK, Levels
<1>2. CASE \E k \in StashSlots : LastHolder(k, ids[level])
  <2> DEFINE h == CHOOSE k \in StashSlots : LastHolder(k, ids[level])
  <2>1. h \in StashSlots /\ Holds(h, ids[level])
    BY <1>2 DEF LastHolder
  <2>2. stash[level][h] \in Block(level)
    BY <1>1, <2>1, SlotById DEF Holds, TypeOK, StoreTypeOK
  <2> QED
    BY <1>1, <1>2, <2>2 DEF EntryRead, Block, Data
<1>3. CASE ~ \E k \in StashSlots : LastHolder(k, ids[level])
  BY <1>3, Ranges DEF EntryRead
<1> QED
  BY <1>2, <1>3

(* Every step preserves it. *)
LEMMA NextTypeOK == TypeOK /\ [Next]_vars => TypeOK'
<1> SUFFICES ASSUME TypeOK, [Next]_vars PROVE TypeOK'
  OBVIOUS
<1> USE DEF TypeOK
<1>1. ASSUME NEW op, NEW id \in ClientIds, NEW val, Access_temp(op, id, val),
             \/ op \in {"r", "z"} /\ val = Unset
             \/ op = "w" /\ val \in Values
      PROVE  TypeOK'
  BY <1>1, Ranges, DataAssumption
     DEF Access_temp, StoreTypeOK, RequestTypeOK, AccessTypeOK, store
<1>2. CASE Descend
  <2>1. ids[level] \div x \in Ids(level - 1)
    <3>1. level \in Levels /\ level > 1 /\ ids[level] \in Ids(level)
      BY <1>2 DEF Descend, RequestTypeOK
    <3> QED
      BY <3>1, EntryHolder
  <2>2. level - 1 \in Levels
    BY <1>2, Ranges DEF Descend, RequestTypeOK
  <2> QED
    BY <1>2, <2>1, <2>2
       DEF Descend, StoreTypeOK, RequestTypeOK, AccessTypeOK, store
<1>3. CASE LookupPosmap
  BY <1>3, Ranges
     DEF LookupPosmap, StoreTypeOK, RequestTypeOK, AccessTypeOK, Optimized
<1>4. CASE ReadBucketsFromPath
  <2>1. FetchedPath \in [Depths(level) -> [BucketSlots -> Slot(level)]]
    BY <1>4, NodeOnPath
       DEF ReadBucketsFromPath, FetchedPath, StoreTypeOK, RequestTypeOK, AccessTypeOK
  <2>2. \A l \in Levels : Occupancy(l) \in Nat
    <3>1. IsFiniteSet(StashSlots)
      BY FS_Interval, LevelsAssumption DEF StashSlots
    <3> QED
      BY <3>1, FS_Subset, FS_CardinalityType DEF Occupancy
  <2> QED
    BY <1>4, <2>1, <2>2
       DEF ReadBucketsFromPath, StoreTypeOK, RequestTypeOK, AccessTypeOK, store, Optimized
<1>5. ASSUME NEW i \in Depths(level), NEW s \in BucketSlots, NEW k \in StashSlots,
             pass_insert(i, s, k)
      PROVE  TypeOK'
  <2>1. path[i][s] \in Slot(level) /\ Dummy \in Slot(level)
    BY <1>5, SlotById DEF pass_insert, RequestTypeOK, AccessTypeOK
  <2>2. StoreTypeOK'
    BY <1>5, <2>1 DEF pass_insert, StoreTypeOK, RequestTypeOK, Flagged
  <2>3. AccessTypeOK'
    BY <1>5, <2>1 DEF pass_insert, AccessTypeOK, Optimized
  <2>4. RequestTypeOK'
    BY <1>5 DEF pass_insert, RequestTypeOK
  <2> QED
    BY <2>2, <2>3, <2>4
<1>6. ASSUME NEW i \in Depths(level), NEW s \in BucketSlots, pass_insert_full(i, s)
      PROVE  TypeOK'
  <2>1. path[i][s] \in Slot(level) /\ Dummy \in Slot(level)
    BY <1>6, SlotById DEF pass_insert_full, RequestTypeOK, AccessTypeOK
  <2>2. ~isBlockDummy(path[i][s])
    BY <1>6 DEF pass_insert_full, FirstOnPath
  <2>3. dropped' \subseteq { d \in Levels \X Nat : d[2] \in Ids(d[1]) }
    BY <1>6, <2>1, <2>2, SlotById, Ranges DEF pass_insert_full, RequestTypeOK
  <2>4. RequestTypeOK'
    BY <1>6, <2>3 DEF pass_insert_full, RequestTypeOK
  <2>5. AccessTypeOK' /\ StoreTypeOK'
    BY <1>6, <2>1 DEF pass_insert_full, AccessTypeOK, StoreTypeOK, store, Optimized
  <2> QED
    BY <2>4, <2>5
<1>7. CASE OAssignNewLabelToBlock
  <2> DEFINE p == ids[level + 1] % x
  <2>1. level + 1 \in Levels /\ level # recursion_levels /\ ids[level] \in Ids(level)
    BY <1>7, Ranges DEF OAssignNewLabelToBlock, RequestTypeOK
  <2>2. p \in Positions
    BY <2>1, EntryPosition DEF RequestTypeOK
  <2>3. \A k \in StashSlots : Holds(k, ids[level]) => stash[level][k] \in Block(level)
    BY <2>1, SlotById DEF Holds, StoreTypeOK, RequestTypeOK
  <2>4. ASSUME NEW f \in Leaves(level + 1), NEW b \in Block(level)
        PROVE  Relabelled(b, p, f) \in Block(level)
    BY <1>7, <2>1, <2>2, <2>4
       DEF OAssignNewLabelToBlock, AccessTypeOK, Relabelled, Block, Data
  <2>5. StoreTypeOK'
    BY <1>7, <2>3, <2>4 DEF OAssignNewLabelToBlock, StoreTypeOK, RequestTypeOK, Slot
  <2>6. nextLeaf' \in Leaves(level + 1)
    BY <1>7, <2>1, <2>2, EntryReadType DEF OAssignNewLabelToBlock
  <2>7. AccessTypeOK'
    BY <1>7, <2>1, <2>6, Ranges, LevelsAssumption
       DEF OAssignNewLabelToBlock, AccessTypeOK, RequestTypeOK, Optimized
  <2>8. RequestTypeOK'
    BY <1>7 DEF OAssignNewLabelToBlock, RequestTypeOK
  <2> QED
    BY <2>5, <2>7, <2>8
<1>8. CASE OAssignNewLabelToBlockOptimized
  <2> DEFINE p == ids[level + 1] % x
  <2>1. level + 1 \in Levels /\ level # recursion_levels /\ ids[level] \in Ids(level)
    BY <1>8, Ranges DEF OAssignNewLabelToBlockOptimized, RequestTypeOK
  <2>2. p \in Positions
    BY <2>1, EntryPosition DEF RequestTypeOK
  <2>3. leaf' \in Leaves(level + 1)
    BY <1>8, <2>1, <2>2, EntryReadType DEF OAssignNewLabelToBlockOptimized
  <2> QED
    BY <1>8, <2>1, <2>3
       DEF OAssignNewLabelToBlockOptimized, StoreTypeOK, AccessTypeOK,
           RequestTypeOK, Optimized, store
<1>9. recursion_levels \in Levels /\ req.id \in Ids(recursion_levels)
  BY Ranges DEF RequestTypeOK
<1>10. \A k \in StashSlots :
         level = recursion_levels /\ Holds(k, req.id) => stash[level][k] \in Block(level)
  BY <1>9, SlotById DEF Holds, StoreTypeOK
<1>11. level = recursion_levels => ReadOut \in Values \cup {Unset}
  <2>1. CASE \E k \in StashSlots : LastHolder(k, req.id)
    <3> DEFINE h == CHOOSE k \in StashSlots : LastHolder(k, req.id)
    <3>1. h \in StashSlots /\ Holds(h, req.id)
      BY <2>1 DEF LastHolder
    <3> QED
      BY <2>1, <3>1, <1>10 DEF ReadOut, Block, Data
  <2>2. CASE ~ \E k \in StashSlots : LastHolder(k, req.id)
    BY <2>2 DEF ReadOut, RequestTypeOK
  <2> QED
    BY <2>1, <2>2
<1>12. CASE PerformAccessOperation
  <2>1. \A b \in Block(level) : Accessed(b) \in Block(level)
    BY <1>12 DEF PerformAccessOperation, Accessed, Block, Data, RequestTypeOK, AccessTypeOK
  <2>2. StoreTypeOK'
    BY <1>12, <1>10, <2>1 DEF PerformAccessOperation, StoreTypeOK, RequestTypeOK, Slot
  <2>3. AccessTypeOK'
    BY <1>12, <1>9, Ranges, LevelsAssumption
       DEF PerformAccessOperation, AccessTypeOK, RequestTypeOK, Optimized
  <2>4. RequestTypeOK'
    BY <1>12, <1>11 DEF PerformAccessOperation, RequestTypeOK
  <2> QED
    BY <2>2, <2>3, <2>4
<1>13. CASE PerformOptimizedAccessOperation
  BY <1>13, <1>11
     DEF PerformOptimizedAccessOperation, StoreTypeOK, AccessTypeOK, RequestTypeOK, store
<1>14. ASSUME NEW k \in StashSlots, MoveToBucket(k)
       PROVE  TypeOK'
  <2>1. stash[level][k] \in Slot(level) /\ Dummy \in Slot(level)
    BY SlotById DEF StoreTypeOK, RequestTypeOK
  <2>2. posk + 1 \in BucketSlots /\ posk + 1 \in 0 .. Z
    BY <1>14, LevelsAssumption DEF MoveToBucket, AccessTypeOK, BucketSlots
  <2>3. StoreTypeOK'
    BY <1>14, <2>1 DEF MoveToBucket, StoreTypeOK, RequestTypeOK
  <2>4. AccessTypeOK'
    BY <1>14, <2>1, <2>2 DEF MoveToBucket, AccessTypeOK, Optimized
  <2>5. RequestTypeOK'
    BY <1>14 DEF MoveToBucket, RequestTypeOK
  <2> QED
    BY <2>3, <2>4, <2>5
<1>15. CASE NextBucket
  <2>1. D_level[level] \in Nat /\ Z \in Nat
    BY LevelsAssumption DEF RequestTypeOK
  <2>2. BucketsLeft => bucket + 1 \in Depths(level)
    BY <1>15, <2>1 DEF NextBucket, BucketsLeft, AccessTypeOK, Depths
  <2> QED
    BY <1>15, <2>1, <2>2
       DEF NextBucket, StoreTypeOK, AccessTypeOK, RequestTypeOK, Optimized, store
<1>16. CASE uploadPath
  <2>1. \A n \in Nodes(level) : Uploaded(n) \in [BucketSlots -> Slot(level)]
    BY <1>16 DEF uploadPath, Uploaded, StoreTypeOK, RequestTypeOK, AccessTypeOK
  <2>2. StoreTypeOK'
    BY <1>16, <2>1 DEF uploadPath, StoreTypeOK, RequestTypeOK
  <2>3. level # recursion_levels => level < recursion_levels /\ level + 1 \in Levels
    BY LevelsAssumption DEF RequestTypeOK, Levels
  <2>4. AccessTypeOK' /\ RequestTypeOK'
    BY <1>16, <2>3 DEF uploadPath, AccessTypeOK, RequestTypeOK, Optimized
  <2> QED
    BY <2>2, <2>4
<1>17. CASE clear
  BY <1>17, SlotById
     DEF clear, ClearedFlags, StoreTypeOK, AccessTypeOK, RequestTypeOK, locals
<1>18. CASE ReturnOptimized
  BY <1>18 DEF ReturnOptimized, StoreTypeOK, AccessTypeOK, RequestTypeOK, store
<1>19. CASE UNCHANGED vars
  BY <1>19 DEF vars, StoreTypeOK, AccessTypeOK, RequestTypeOK, Optimized
<1>20. CASE Request
  <2>1. PICK id \in ClientIds : \/ \E op \in {"r", "z"} : Access_temp(op, id, Unset)
                               \/ \E val \in Values : Access_temp("w", id, val)
    BY <1>20 DEF Request
  <2>2. ASSUME NEW op \in {"r", "z"}, Access_temp(op, id, Unset) PROVE TypeOK'
    BY <1>1, <2>2
  <2>3. ASSUME NEW val \in Values, Access_temp("w", id, val) PROVE TypeOK'
    BY <1>1, <2>3
  <2> QED
    BY <2>1, <2>2, <2>3
<1>21. CASE Push
  BY <1>5, <1>6, <1>21 DEF Push
<1> QED
  BY <1>2, <1>3, <1>4, <1>7, <1>8, <1>12, <1>13, <1>14, <1>15, <1>16, <1>17,
     <1>18, <1>19, <1>20, <1>21 DEF Next, Step, Serve, Rebuild

(* Labels are leaves of the tree they are used for, and slots hold blocks  *)
(* of their own level, at every moment (PathORAM_Enclave.cpp, Stash.cpp).  *)
THEOREM TypeCorrect == Spec => []TypeOK
BY InitTypeOK, NextTypeOK, PTL DEF Spec

-----------------------------------------------------------------------------
(* Blocks stay on the path of their label.  OnPath is not inductive: it    *)
(* needs that the blocks already put in the path under reconstruction      *)
(* pass through their bucket, which is what Fits tests.                    *)
PathFits ==
  phase \in {"rebuild", "upload"} =>
    \A i \in Depths(level), s \in BucketSlots :
      path[i][s].id \in Ids(level) =>
        Node(level, path[i][s].label, i) = Node(level, leaf, i)

OnPathInv == TypeOK /\ PathFits /\ OnPath

(* The build puts every block into the leaf of its label, and no path is   *)
(* under reconstruction.                                                   *)
LEMMA InitOnPath == Init => OnPathInv
<1> SUFFICES ASSUME Init PROVE PathFits /\ OnPath
  BY InitTypeOK DEF OnPathInv
<1>1. PathFits
  BY DEF Init, PathFits
<1>2. ASSUME NEW l \in Levels, NEW n \in Nodes(l), NEW s \in BucketSlots,
             tree[l][n][s].id \in Ids(l)
      PROVE  \E i \in Depths(l) : n = Node(l, tree[l][n][s].label, i)
  <2>1. tree[l] = BuildTree(l)
    BY DEF Init
  <2>2. CASE \E f \in Leaves(l) : n = Node(l, f, 0)
    <3> DEFINE g == CHOOSE f \in Leaves(l) : n = Node(l, f, 0)
    <3>1. g \in Leaves(l) /\ n = Node(l, g, 0)
      BY <2>2
    <3>2. tree[l][n][s] = BuildBucket(l, g)[s]
      BY <2>1, <2>2 DEF BuildTree
    <3>3. tree[l][n][s].label = g
      BY <1>2, <3>2, SlotById DEF BuildBucket
    <3> QED
      BY <3>1, <3>3, Ranges, Zenon
  <2>3. CASE ~ \E f \in Leaves(l) : n = Node(l, f, 0)
    BY <1>2, <2>1, <2>3, SlotById DEF BuildTree, UpperBucket
  <2> QED
    BY <2>2, <2>3
<1> QED
  BY <1>1, <1>2 DEF OnPath

(* Every step keeps it; the upload of the path needs PathFits. *)
LEMMA NextOnPath == OnPathInv /\ [Next]_vars => OnPathInv'
<1> SUFFICES ASSUME OnPathInv, [Next]_vars PROVE PathFits' /\ OnPath'
  BY NextTypeOK DEF OnPathInv
<1> USE DEF OnPathInv
<1>1. ASSUME NEW op, NEW id, NEW val, Access_temp(op, id, val)
      PROVE  PathFits' /\ OnPath'
  BY <1>1 DEF Access_temp, PathFits, OnPath, store
<1>2. CASE Descend \/ LookupPosmap \/ ReadBucketsFromPath \/ ReturnOptimized \/ clear
  BY <1>2 DEF Descend, LookupPosmap, ReadBucketsFromPath, ReturnOptimized, clear,
              PathFits, OnPath, store
<1>3. CASE Push
  BY <1>3 DEF Push, pass_insert, pass_insert_full, PathFits, OnPath, store
<1>4. CASE OAssignNewLabelToBlock \/ PerformAccessOperation
  <2>1. \A i \in Depths(level), s \in BucketSlots : path[i][s].id \notin Ids(level)
    BY <1>4, Ranges
       DEF OAssignNewLabelToBlock, PerformAccessOperation, PathEmpty, isBlockDummy,
           TypeOK, RequestTypeOK
  <2>2. UNCHANGED <<path, level, leaf, tree>>
    BY <1>4 DEF OAssignNewLabelToBlock, PerformAccessOperation
  <2> QED
    BY <2>1, <2>2 DEF PathFits, OnPath
<1>5. CASE OAssignNewLabelToBlockOptimized \/ PerformOptimizedAccessOperation
  BY <1>5 DEF OAssignNewLabelToBlockOptimized, PerformOptimizedAccessOperation,
              PathFits, OnPath, store
<1>6. ASSUME NEW k \in StashSlots, MoveToBucket(k)
      PROVE  PathFits' /\ OnPath'
  <2>1. /\ path \in [Depths(level) -> [BucketSlots -> Slot(level)]]
        /\ bucket \in Depths(level) /\ posk + 1 \in BucketSlots
    BY <1>6, LevelsAssumption
       DEF MoveToBucket, TypeOK, AccessTypeOK, BucketSlots
  <2>2. PathFits'
    BY <1>6, <2>1 DEF MoveToBucket, Fits, PathFits
  <2> QED
    BY <1>6, <2>2 DEF MoveToBucket, OnPath
<1>7. CASE NextBucket
  BY <1>7 DEF NextBucket, PathFits, OnPath, store
<1>8. CASE uploadPath
  <2>1. PathFits'
    BY <1>8 DEF uploadPath, PathFits
  <2>2. ASSUME NEW l \in Levels, NEW n \in Nodes(l), NEW s \in BucketSlots,
               tree'[l][n][s].id \in Ids(l)
        PROVE  \E i \in Depths(l) : n = Node(l, tree'[l][n][s].label, i)
    <3>1. CASE l = level /\ \E i \in Depths(level) : n = Node(level, leaf, i)
      <4> DEFINE j == CHOOSE i \in Depths(level) : n = Node(level, leaf, i)
      <4>1. j \in Depths(level) /\ n = Node(level, leaf, j)
        BY <3>1
      <4>2. tree'[l][n] = path[j]
        BY <1>8, <3>1 DEF uploadPath, Uploaded, TypeOK, StoreTypeOK
      <4>3. Node(level, path[j][s].label, j) = Node(level, leaf, j)
        BY <1>8, <2>2, <3>1, <4>1, <4>2 DEF uploadPath, PathFits
      <4> QED
        BY <3>1, <4>1, <4>2, <4>3
    <3>2. CASE ~(l = level /\ \E i \in Depths(level) : n = Node(level, leaf, i))
      <4>1. tree'[l][n] = tree[l][n]
        BY <1>8, <3>2 DEF uploadPath, Uploaded, TypeOK, StoreTypeOK
      <4> QED
        BY <2>2, <4>1 DEF OnPath
    <3> QED
      BY <3>1, <3>2
  <2> QED
    BY <2>1, <2>2 DEF OnPath
<1>9. CASE UNCHANGED vars
  BY <1>9 DEF vars, PathFits, OnPath
<1> QED
  BY <1>1, <1>2, <1>3, <1>4, <1>5, <1>6, <1>7, <1>8, <1>9
     DEF Next, Request, Step, Serve, Rebuild

(* A block in the tree of any level always lies on the path of its label,  *)
(* where the access that looks for it will read it: PathORAM_RebuildPath   *)
(* and uploadPath misplace nothing.                                        *)
THEOREM BlocksOnPath == Spec => []OnPath
<1>1. OnPathInv => OnPath
  BY DEF OnPathInv
<1> QED
  BY InitOnPath, NextOnPath, <1>1, PTL DEF Spec

-----------------------------------------------------------------------------
(* Flags exist only while a 'z' request is under way.                      *)
FlagsInv ==
  TypeOK /\ (~Optimized \/ phase \in {"idle", "assert"} =>
               \A l \in Levels, k \in StashSlots : ~discard_block[l][k])

(* Flags that are false at first make the invariant hold. *)
LEMMA InitFlags ==
  ASSUME InitDiscard = {FALSE}
  PROVE  Init => FlagsInv
<1> SUFFICES ASSUME Init PROVE FlagsInv
  OBVIOUS
<1>1. \A l \in Levels, k \in StashSlots : discard_block[l][k] = FALSE
  BY DEF Init
<1> QED
  BY <1>1, InitTypeOK DEF FlagsInv

(* Only a 'z' request sets flags, and it clears every level it set them    *)
(* at.                                                                     *)
LEMMA NextFlags == FlagsInv /\ [Next]_vars => FlagsInv'
<1> SUFFICES ASSUME FlagsInv, [Next]_vars PROVE FlagsInv'
  OBVIOUS
<1>1. TypeOK'
  BY NextTypeOK DEF FlagsInv
<1> USE DEF FlagsInv, Optimized
<1>2. ASSUME NEW op, NEW id, NEW val, Access_temp(op, id, val)
      PROVE  FlagsInv'
  BY <1>1, <1>2 DEF Access_temp, store
<1>3. CASE Descend \/ LookupPosmap \/ ReadBucketsFromPath
  BY <1>1, <1>3 DEF Descend, LookupPosmap, ReadBucketsFromPath, store
<1>4. CASE Push
  BY <1>1, <1>4 DEF Push, pass_insert, pass_insert_full, Flagged, store
<1>5. CASE Serve
  BY <1>1, <1>5
     DEF Serve, OAssignNewLabelToBlock, OAssignNewLabelToBlockOptimized,
         PerformAccessOperation, PerformOptimizedAccessOperation, store
<1>6. CASE Rebuild \/ uploadPath
  BY <1>1, <1>6
     DEF Rebuild, MoveToBucket, NextBucket, uploadPath, store, TypeOK, AccessTypeOK
<1>7. CASE clear
  BY <1>1, <1>7 DEF clear, ClearedFlags
<1>8. CASE ReturnOptimized
  BY <1>1, <1>8 DEF ReturnOptimized, store
<1>9. CASE UNCHANGED vars
  BY <1>1, <1>9 DEF vars
<1> QED
  BY <1>2, <1>3, <1>4, <1>5, <1>6, <1>7, <1>8, <1>9 DEF Next, Request, Step

(* With the flags false at first, no flag survives a request: Stash::clear *)
(* resets every flag a 'z' request set, so that none discards a block of a *)
(* later one.                                                              *)
THEOREM FlagsAreCleared ==
  ASSUME InitDiscard = {FALSE}
  PROVE  Spec => []FlagsCleared
<1>1. FlagsInv => FlagsCleared
  BY DEF FlagsInv, FlagsCleared
<1> QED
  BY InitFlags, NextFlags, <1>1, PTL DEF Spec

-----------------------------------------------------------------------------
(* One step of a 'z' request changes nothing that lasts. *)
LEMMA StepReadOnly ==
  ASSUME TypeOK, Next, Optimized, phase # "idle"
  PROVE  posmap' = posmap /\ tree' = tree /\ Kept' = Kept
<1>1. Step
  BY DEF Next, Request, Access_temp
<1>2. CASE Descend \/ LookupPosmap \/ ReadBucketsFromPath \/ ReturnOptimized
  BY <1>2 DEF Descend, LookupPosmap, ReadBucketsFromPath, ReturnOptimized, store, Kept
<1>3. CASE Push
  <2>1. PICK i \in Depths(level), s \in BucketSlots :
           pass_insert_full(i, s) \/ \E k \in StashSlots : pass_insert(i, s, k)
    BY <1>3 DEF Push
  <2>2. CASE pass_insert_full(i, s)
    BY <2>2 DEF pass_insert_full, store, Kept
  <2>3. ASSUME NEW k \in StashSlots, pass_insert(i, s, k)
        PROVE  posmap' = posmap /\ tree' = tree /\ Kept' = Kept
    <3>1. stash[level][k] = Dummy
      BY <2>3, SlotById DEF pass_insert, FirstFree, TypeOK, StoreTypeOK, RequestTypeOK
    <3>2. /\ stash' = [stash EXCEPT ![level][k] = path[i][s]]
          /\ discard_block' = [discard_block EXCEPT ![level][k] = TRUE]
      BY <2>3 DEF pass_insert, Flagged
    <3>3. Kept' = Kept
      BY <3>1, <3>2 DEF Kept, TypeOK, StoreTypeOK, RequestTypeOK
    <3> QED
      BY <2>3, <3>3 DEF pass_insert
  <2> QED
    BY <2>1, <2>2, <2>3
<1>4. CASE Serve
  BY <1>4 DEF Serve, OAssignNewLabelToBlock, OAssignNewLabelToBlockOptimized,
              PerformAccessOperation, PerformOptimizedAccessOperation, store, Kept
<1>5. CASE Rebuild \/ uploadPath
  BY <1>5 DEF Rebuild, MoveToBucket, NextBucket, uploadPath, TypeOK, AccessTypeOK
<1>6. CASE clear
  BY <1>6 DEF clear, ClearedFlags, Kept
<1> QED
  BY <1>1, <1>2, <1>3, <1>4, <1>5, <1>6 DEF Step

(* A 'z' request writes neither the position map nor a tree, and leaves in *)
(* the stashes what it found there (access_optimized, Stash::clear).       *)
THEOREM ReadsAreReadOnly == Spec => ReadOnly
<1>1. TypeOK /\ [Next]_vars =>
        [Optimized /\ phase # "idle" =>
           posmap' = posmap /\ tree' = tree /\ Kept' = Kept]_vars
  BY StepReadOnly
<1> QED
  BY TypeCorrect, <1>1, PTL DEF Spec, ReadOnly

-----------------------------------------------------------------------------
(* The blocks in the stash of level l, without what a 'z' request copied. *)
KeptOccupancy(l) == Cardinality({k \in StashSlots : ~isBlockDummy(Kept[l][k])})

(* The levels whose path a 'z' request has read. *)
PathRead(l) == l < level \/ (l = level /\ phase # "read")

(* A 'z' request has noted what was in the stashes of the levels it has    *)
(* read, and has flagged nothing in the others.                            *)
OccupancyNoted ==
  /\ phase \in {"clear", "assert"} => Optimized /\ level = recursion_levels
  /\ Optimized /\ phase = "descend" =>
       \A l \in Levels, k \in StashSlots : ~discard_block[l][k]
  /\ Optimized /\ phase \in {"read", "push", "clear", "assert"} =>
       \A l \in Levels : IF PathRead(l)
                         THEN stash_oc_before[l] = KeptOccupancy(l)
                         ELSE \A k \in StashSlots : ~discard_block[l][k]

OccupancyInv == FlagsInv /\ OccupancyNoted

(* Where nothing is flagged, everything in the stash stays there. *)
LEMMA UnflaggedIsKept ==
  ASSUME NEW l \in Levels, \A k \in StashSlots : ~discard_block[l][k]
  PROVE  Occupancy(l) = KeptOccupancy(l)
BY DEF Occupancy, KeptOccupancy, Kept

(* Every step keeps what was noted true of the levels already read. *)
LEMMA NextOccupancyNoted ==
  OccupancyInv /\ [Next]_vars => OccupancyNoted'
<1> SUFFICES ASSUME FlagsInv, OccupancyNoted, [Next]_vars PROVE OccupancyNoted'
  BY DEF OccupancyInv
<1>1. TypeOK /\ level \in Levels /\ Levels \subseteq Int
  BY DEF FlagsInv, TypeOK, RequestTypeOK, Levels
<1>2. ASSUME NEW op, NEW id, NEW val, Access_temp(op, id, val)
      PROVE  OccupancyNoted'
  BY <1>2 DEF Access_temp, store, OccupancyNoted, FlagsInv
<1>3. CASE UNCHANGED vars
  BY <1>3 DEF vars, OccupancyNoted, Optimized, PathRead, KeptOccupancy, Kept
<1>4. CASE Step /\ ~Optimized
  <2>1. ~Optimized' /\ phase' \notin {"clear", "assert"}
    BY <1>4 DEF OccupancyNoted, Step, Descend, LookupPosmap, ReadBucketsFromPath, Push,
       pass_insert, pass_insert_full, Serve, OAssignNewLabelToBlock,
       OAssignNewLabelToBlockOptimized, PerformAccessOperation,
       PerformOptimizedAccessOperation, Rebuild, MoveToBucket, NextBucket, uploadPath,
       clear, ReturnOptimized, Optimized
  <2> QED BY <2>1 DEF OccupancyNoted
<1>5. CASE Step /\ Optimized
  <2>1. CASE phase = "idle"
    BY <1>5, <2>1 DEF Step, Descend, LookupPosmap, ReadBucketsFromPath, Push,
       pass_insert, pass_insert_full, Serve, OAssignNewLabelToBlock,
       OAssignNewLabelToBlockOptimized, PerformAccessOperation,
       PerformOptimizedAccessOperation, Rebuild, MoveToBucket, NextBucket, uploadPath,
       clear, ReturnOptimized
  <2>2. CASE phase # "idle"
    <3>1. Kept' = Kept
      BY <1>1, <1>5, <2>2, StepReadOnly DEF Next
    <3>2. \A l \in Levels : KeptOccupancy(l)' = KeptOccupancy(l)
      BY <3>1 DEF KeptOccupancy
    <3>3. CASE Descend
      BY <3>3 DEF Descend, store, OccupancyNoted, Optimized
    <3>4. CASE LookupPosmap
      BY <1>1, <1>5, <3>4 DEF LookupPosmap, OccupancyNoted, Optimized, PathRead, Levels
    <3>5. CASE ReadBucketsFromPath
      <4>1. Occupancy(level) = KeptOccupancy(level)
        BY <1>1, <1>5, <3>5, UnflaggedIsKept
           DEF ReadBucketsFromPath, OccupancyNoted, PathRead
      <4>2. stash_oc_before' = [stash_oc_before EXCEPT ![level] = KeptOccupancy(level)]
        BY <1>5, <3>5, <4>1 DEF ReadBucketsFromPath
      <4>3. phase = "read" /\ phase' = "push" /\ UNCHANGED <<level, req, discard_block>>
        BY <3>5 DEF ReadBucketsFromPath, store
      <4>4. stash_oc_before \in [Levels -> Nat]
        BY <1>1 DEF TypeOK, RequestTypeOK
      <4> QED
        BY <1>1, <1>5, <3>2, <4>2, <4>3, <4>4 DEF OccupancyNoted, PathRead, Optimized
    <3>6. CASE Push
      <4>1. /\ phase = "push" /\ UNCHANGED <<phase, level, req, stash_oc_before>>
            /\ \A l \in Levels \ {level} : discard_block'[l] = discard_block[l]
        <5>1. discard_block \in [Levels -> [StashSlots -> BOOLEAN]]
          BY <1>1 DEF TypeOK, StoreTypeOK
        <5> QED BY <3>6, <5>1 DEF Push, pass_insert, pass_insert_full, Flagged, store
      <4> QED BY <1>1, <1>5, <3>2, <4>1 DEF OccupancyNoted, PathRead, Optimized
    <3>7. CASE Serve
      <4>1. /\ phase = "push" /\ UNCHANGED <<req, discard_block, stash_oc_before>>
            /\ \/ phase' = "read" /\ level' = level + 1
               \/ phase' = "clear" /\ level' = level /\ level = recursion_levels
        BY <1>5, <3>7 DEF Serve, OAssignNewLabelToBlock, OAssignNewLabelToBlockOptimized,
           PerformAccessOperation, PerformOptimizedAccessOperation, store
      <4> QED BY <1>1, <1>5, <3>2, <4>1 DEF OccupancyNoted, PathRead, Optimized
    <3>8. CASE clear
      <4>1. /\ phase = "clear" /\ phase' = "assert"
            /\ UNCHANGED <<level, req, stash_oc_before>>
        BY <3>8 DEF clear
      <4>2. \A l \in Levels : PathRead(l)
        BY <1>1, <4>1, LevelsAssumption
           DEF OccupancyNoted, PathRead, Levels, LevelsAssumption
      <4> QED BY <1>1, <1>5, <3>2, <4>1, <4>2 DEF OccupancyNoted, PathRead, Optimized
    <3>9. CASE ReturnOptimized
      BY <3>9 DEF ReturnOptimized, OccupancyNoted
    <3>10. ~Rebuild /\ ~uploadPath
      BY <1>1, <1>5 DEF Rebuild, MoveToBucket, NextBucket, uploadPath, TypeOK, AccessTypeOK
    <3> QED BY <1>5, <3>3, <3>4, <3>5, <3>6, <3>7, <3>8, <3>9, <3>10 DEF Step
  <2> QED BY <2>1, <2>2
<1> QED BY <1>2, <1>3, <1>4, <1>5 DEF Next, Request

(* With the flags false at first, the assertion that ends a 'z' request    *)
(* holds: every stash is as full as it was found (PathORAM_Access_Read).   *)
THEOREM OccupancyIsRestored ==
  ASSUME InitDiscard = {FALSE}
  PROVE  Spec => []StashOccupancyRestored
<1>1. Init => OccupancyInv
  BY InitFlags DEF OccupancyInv, OccupancyNoted, Init
<1>2. OccupancyInv /\ [Next]_vars => OccupancyInv'
  BY NextFlags, NextOccupancyNoted DEF OccupancyInv
<1>3. OccupancyInv => StashOccupancyRestored
  <2> SUFFICES ASSUME OccupancyInv, phase = "assert", NEW l \in Levels
               PROVE  stash_oc_before[l] = Occupancy(l)
    BY DEF StashOccupancyRestored
  <2>1. PathRead(l)
    BY LevelsAssumption
       DEF OccupancyInv, OccupancyNoted, PathRead, Levels, LevelsAssumption
  <2>2. Occupancy(l) = KeptOccupancy(l)
    BY UnflaggedIsKept DEF OccupancyInv, FlagsInv
  <2> QED BY <2>1, <2>2 DEF OccupancyInv, OccupancyNoted
<1> QED BY <1>1, <1>2, <1>3, PTL DEF Spec

-----------------------------------------------------------------------------
(* Where the blocks of the Path ORAM are: an access neither loses nor      *)
(* duplicates a block.                                                     *)

(* The slots of level l as functions of their places.  View is what the    *)
(* model counts as stored; Work also counts what a 'z' request copied.     *)
View(l) == [p \in Places(l) |-> SlotAt(l, p)]

Working(l) == l = level /\ phase \in {"push", "rebuild", "upload"}

WorkAt(l, p) ==
  CASE p[1] = "tree" -> IF Working(l) /\ \E i \in Depths(l) : p[2] = Node(l, leaf, i)
                        THEN Dummy ELSE tree[l][p[2]][p[3]]
    [] p[1] = "path" -> IF Working(l) THEN path[p[2]][p[3]] ELSE Dummy
    [] p[1] = "stash" -> stash[l][p[2]]

Work(l) == [p \in Places(l) |-> WorkAt(l, p)]

(* No id is stored twice; the slots stored. *)
Single(l, f) ==
  \A p, q \in Places(l) : f[p].id \in Ids(l) /\ f[p].id = f[q].id => p = q
Stored(l, f) == {f[p] : p \in Places(l)}

-----------------------------------------------------------------------------
(* The kinds of places. *)
LEMMA PlaceKinds ==
  ASSUME NEW l
  PROVE  /\ \A n \in Nodes(l), s \in BucketSlots : <<"tree", n, s>> \in Places(l)
         /\ \A i \in Depths(l), s \in BucketSlots : <<"path", i, s>> \in Places(l)
         /\ \A k \in StashSlots : <<"stash", k, 0>> \in Places(l)
         /\ \A p \in Places(l) :
              \/ \E n \in Nodes(l), s \in BucketSlots : p = <<"tree", n, s>>
              \/ \E i \in Depths(l), s \in BucketSlots : p = <<"path", i, s>>
              \/ \E k \in StashSlots : p = <<"stash", k, 0>>
BY DEF Places

(* What the views show at each kind of place. *)
LEMMA WorkSlots ==
  ASSUME NEW l
  PROVE  /\ \A n \in Nodes(l), s \in BucketSlots :
              Work(l)[<<"tree", n, s>>] =
                IF Working(l) /\ \E i \in Depths(l) : n = Node(l, leaf, i)
                THEN Dummy ELSE tree[l][n][s]
         /\ \A i \in Depths(l), s \in BucketSlots :
              Work(l)[<<"path", i, s>>] = IF Working(l) THEN path[i][s] ELSE Dummy
         /\ \A k \in StashSlots : Work(l)[<<"stash", k, 0>>] = stash[l][k]
BY PlaceKinds DEF Work, WorkAt

(* The view place by place. *)
LEMMA ViewSlots ==
  ASSUME NEW l
  PROVE  /\ \A n \in Nodes(l), s \in BucketSlots :
              View(l)[<<"tree", n, s>>] =
                IF Rebuilding(l) /\ \E i \in Depths(l) : n = Node(l, leaf, i)
                THEN Dummy ELSE tree[l][n][s]
         /\ \A i \in Depths(l), s \in BucketSlots :
              View(l)[<<"path", i, s>>] = IF Rebuilding(l) THEN path[i][s] ELSE Dummy
         /\ \A k \in StashSlots :
              View(l)[<<"stash", k, 0>>] = IF discard_block[l][k] THEN Dummy ELSE stash[l][k]
BY PlaceKinds DEF View, SlotAt, OutOfDate

(* Without flags, and outside a 'z' request, the views agree. *)
LEMMA WorkIsView ==
  ASSUME FlagsInv, ~Optimized, NEW l \in Levels
  PROVE  Work(l) = View(l)
<1>1. Working(l) <=> Rebuilding(l)
  BY DEF Working, Rebuilding
<1>2. \A k \in StashSlots : ~discard_block[l][k]
  BY DEF FlagsInv
<1>3. \A p \in Places(l) : WorkAt(l, p) = SlotAt(l, p)
  BY <1>1, <1>2, PlaceKinds DEF WorkAt, SlotAt, OutOfDate
<1> QED BY <1>3 DEF Work, View

(* Moving the slots around: h says where each one comes from. *)
LEMMA Rearranged ==
  ASSUME NEW l, NEW f, NEW g, NEW h \in [Places(l) -> Places(l)],
         \A p \in Places(l) : h[h[p]] = p,
         \A p \in Places(l) : g[p] = f[h[p]]
  PROVE  Stored(l, g) = Stored(l, f) /\ (Single(l, f) => Single(l, g))
BY DEF Stored, Single

(* Exchanging two of them. *)
Exchange(l, f, g, a, b) ==
  /\ g[a] = f[b] /\ g[b] = f[a]
  /\ \A p \in Places(l) : p # a /\ p # b => g[p] = f[p]

(* An exchange of two places keeps the contents, and each block single. *)
LEMMA Exchanged ==
  ASSUME NEW l, NEW f, NEW g, NEW a \in Places(l), NEW b \in Places(l),
         Exchange(l, f, g, a, b)
  PROVE  Stored(l, g) = Stored(l, f) /\ (Single(l, f) => Single(l, g))
<1> DEFINE h == [p \in Places(l) |-> IF p = a THEN b ELSE IF p = b THEN a ELSE p]
<1>1. h \in [Places(l) -> Places(l)]
  OBVIOUS
<1>2. \A p \in Places(l) : h[h[p]] = p /\ g[p] = f[h[p]]
  BY DEF Exchange
<1> HIDE DEF h
<1> QED BY <1>1, <1>2, Rearranged

-----------------------------------------------------------------------------
(* The exchange of the slots of a path in the tree with those of the path  *)
(* in the enclave.                                                         *)
PathSwap(l) ==
  [p \in Places(l) |->
     IF \E i \in Depths(l), s \in BucketSlots : p = <<"path", i, s>>
     THEN <<"tree", Node(l, leaf, p[2]), p[3]>>
     ELSE IF \E i \in Depths(l), s \in BucketSlots : p = <<"tree", Node(l, leaf, i), s>>
     THEN <<"path", CHOOSE i \in Depths(l) : p[2] = Node(l, leaf, i), p[3]>>
     ELSE p]

(* The swap of the path with its nodes is its own inverse, for the nodes   *)
(* of a path are distinct.                                                 *)
LEMMA PathSwapped ==
  ASSUME NEW l \in Levels, leaf \in Leaves(l)
  PROVE  /\ PathSwap(l) \in [Places(l) -> Places(l)]
         /\ \A p \in Places(l) : PathSwap(l)[PathSwap(l)[p]] = p
         /\ \A i \in Depths(l), s \in BucketSlots :
              /\ PathSwap(l)[<<"path", i, s>>] = <<"tree", Node(l, leaf, i), s>>
              /\ PathSwap(l)[<<"tree", Node(l, leaf, i), s>>] = <<"path", i, s>>
         /\ \A n \in Nodes(l), s \in BucketSlots :
              (\A i \in Depths(l) : n # Node(l, leaf, i)) =>
                PathSwap(l)[<<"tree", n, s>>] = <<"tree", n, s>>
         /\ \A k \in StashSlots : PathSwap(l)[<<"stash", k, 0>>] = <<"stash", k, 0>>
<1> DEFINE h == PathSwap(l)
<1>1. \A i \in Depths(l) : Node(l, leaf, i) \in Nodes(l)
  BY NodeOnPath
<1>2. \A i, j \in Depths(l) : Node(l, leaf, i) = Node(l, leaf, j) => i = j
  BY PathNodesDiffer
<1>3. \A i \in Depths(l), s \in BucketSlots :
        h[<<"path", i, s>>] = <<"tree", Node(l, leaf, i), s>>
  BY PlaceKinds DEF PathSwap
<1>4. \A i \in Depths(l), s \in BucketSlots :
        h[<<"tree", Node(l, leaf, i), s>>] = <<"path", i, s>>
  <2> TAKE i \in Depths(l), s \in BucketSlots
  <2>1. (CHOOSE j \in Depths(l) : Node(l, leaf, i) = Node(l, leaf, j)) = i
    BY <1>2
  <2> QED BY <1>1, <2>1, PlaceKinds DEF PathSwap
<1>5. \A n \in Nodes(l), s \in BucketSlots :
        (\A i \in Depths(l) : n # Node(l, leaf, i)) => h[<<"tree", n, s>>] = <<"tree", n, s>>
  BY PlaceKinds DEF PathSwap
<1>6. \A k \in StashSlots : h[<<"stash", k, 0>>] = <<"stash", k, 0>>
  BY PlaceKinds DEF PathSwap
<1>7. DOMAIN h = Places(l)
  BY DEF PathSwap
<1> HIDE DEF h
<1>8. \A p \in Places(l) : h[p] \in Places(l) /\ h[h[p]] = p
  <2> TAKE p \in Places(l)
  <2>1. CASE \E i \in Depths(l), s \in BucketSlots : p = <<"path", i, s>>
    BY <1>1, <1>3, <1>4, <2>1, PlaceKinds
  <2>2. CASE \E n \in Nodes(l), s \in BucketSlots : p = <<"tree", n, s>>
    BY <1>1, <1>3, <1>4, <1>5, <2>2, PlaceKinds
  <2>3. CASE \E k \in StashSlots : p = <<"stash", k, 0>>
    BY <1>6, <2>3, PlaceKinds
  <2> QED BY <2>1, <2>2, <2>3, PlaceKinds
<1>9. h \in [Places(l) -> Places(l)]
  <2>1. h = [p \in Places(l) |-> h[p]]
    BY DEF h, PathSwap
  <2> QED BY <1>8, <2>1
<1> QED BY <1>3, <1>4, <1>5, <1>6, <1>8, <1>9 DEF h

-----------------------------------------------------------------------------
(* What the steps of an access do to the slots of its level. *)

(* Reading the path takes it out of the tree. *)
LEMMA FetchWork ==
  ASSUME TypeOK, ReadBucketsFromPath, NEW l \in Levels, l = level
  PROVE  /\ Stored(l, Work(l)') = Stored(l, Work(l))
         /\ Single(l, Work(l)) => Single(l, Work(l)')
<1> DEFINE h == PathSwap(l)
<1>1. level' = level /\ leaf \in Leaves(l) /\ leaf' = leaf
  BY DEF ReadBucketsFromPath, TypeOK, RequestTypeOK, AccessTypeOK
<1>2. ~Working(l) /\ Working(l)'
  BY DEF ReadBucketsFromPath, Working
<1>3. UNCHANGED <<tree, stash>> /\ path' = [i \in Depths(l) |-> tree[l][Node(l, leaf, i)]]
  BY DEF ReadBucketsFromPath, FetchedPath, store
<1>4. \A i \in Depths(l) : Node(l, leaf, i) \in Nodes(l)
  BY <1>1, NodeOnPath
<1> HIDE DEF h
<1>5. \A p \in Places(l) : Work(l)'[p] = Work(l)[h[p]]
  <2> TAKE p \in Places(l)
  <2>1. ASSUME NEW i \in Depths(l), NEW s \in BucketSlots, p = <<"path", i, s>>
        PROVE  Work(l)'[p] = Work(l)[h[p]]
    <3>1. h[p] = <<"tree", Node(l, leaf, i), s>>
      BY <1>1, <2>1, PathSwapped DEF h
    <3>2. Work(l)[h[p]] = tree[l][Node(l, leaf, i)][s]
      BY <1>2, <1>4, <3>1, WorkSlots
    <3>3. Work(l)'[p] = path'[i][s]
      BY <1>1, <1>2, <2>1, PlaceKinds DEF Work, WorkAt
    <3> QED BY <1>3, <3>2, <3>3
  <2>2. ASSUME NEW n \in Nodes(l), NEW s \in BucketSlots, p = <<"tree", n, s>>
        PROVE  Work(l)'[p] = Work(l)[h[p]]
    <3>1. CASE \E i \in Depths(l) : n = Node(l, leaf, i)
      <4>1. PICK i \in Depths(l) : n = Node(l, leaf, i)
        BY <3>1
      <4>2. h[p] = <<"path", i, s>>
        BY <1>1, <2>2, <4>1, PathSwapped DEF h
      <4>3. Work(l)[h[p]] = Dummy
        BY <1>2, <4>2, WorkSlots
      <4>4. Work(l)'[p] = Dummy
        BY <1>1, <1>2, <2>2, <3>1, PlaceKinds DEF Work, WorkAt
      <4> QED BY <4>3, <4>4
    <3>2. CASE ~ \E i \in Depths(l) : n = Node(l, leaf, i)
      <4>1. h[p] = p
        BY <1>1, <2>2, <3>2, PathSwapped DEF h
      <4>2. Work(l)[p] = tree[l][n][s]
        BY <1>2, <2>2, WorkSlots
      <4>3. Work(l)'[p] = tree'[l][n][s]
        BY <1>1, <2>2, <3>2, PlaceKinds DEF Work, WorkAt
      <4> QED BY <1>3, <4>1, <4>2, <4>3
    <3> QED BY <3>1, <3>2
  <2>3. ASSUME NEW k \in StashSlots, p = <<"stash", k, 0>>
        PROVE  Work(l)'[p] = Work(l)[h[p]]
    <3>1. h[p] = p
      BY <1>1, <2>3, PathSwapped DEF h
    <3> QED BY <1>3, <2>3, <3>1, PlaceKinds DEF Work, WorkAt
  <2> QED BY <2>1, <2>2, <2>3, PlaceKinds
<1>6. h \in [Places(l) -> Places(l)] /\ \A p \in Places(l) : h[h[p]] = p
  BY <1>1, PathSwapped DEF h
<1> QED BY <1>5, <1>6, Rearranged

(* Writing it back puts it there again. *)
LEMMA UploadWork ==
  ASSUME TypeOK, uploadPath, NEW l \in Levels, l = level
  PROVE  /\ Stored(l, Work(l)') = Stored(l, Work(l))
         /\ Single(l, Work(l)) => Single(l, Work(l)')
<1> DEFINE h == PathSwap(l)
<1>1. leaf \in Leaves(l)
  BY DEF uploadPath, TypeOK, RequestTypeOK, AccessTypeOK
<1>2. Working(l) /\ ~Working(l)'
  BY DEF uploadPath, Working
<1>3. UNCHANGED stash /\ tree'[l] = [n \in Nodes(l) |-> Uploaded(n)]
  BY <1>1 DEF uploadPath, TypeOK, StoreTypeOK
<1>4. \A i \in Depths(l) : Node(l, leaf, i) \in Nodes(l)
  BY <1>1, NodeOnPath
<1>5. \A i \in Depths(l) : Uploaded(Node(l, leaf, i)) = path[i]
  <2> TAKE i \in Depths(l)
  <2>1. (CHOOSE j \in Depths(l) : Node(l, leaf, i) = Node(l, leaf, j)) = i
    BY <1>1, PathNodesDiffer
  <2> QED BY <2>1 DEF Uploaded
<1>6. \A n \in Nodes(l) :
        (\A i \in Depths(l) : n # Node(l, leaf, i)) => Uploaded(n) = tree[l][n]
  BY DEF Uploaded
<1> HIDE DEF h
<1>7. \A p \in Places(l) : Work(l)'[p] = Work(l)[h[p]]
  <2> TAKE p \in Places(l)
  <2>1. ASSUME NEW i \in Depths(l), NEW s \in BucketSlots, p = <<"path", i, s>>
        PROVE  Work(l)'[p] = Work(l)[h[p]]
    <3>1. h[p] = <<"tree", Node(l, leaf, i), s>>
      BY <1>1, <2>1, PathSwapped DEF h
    <3>2. Work(l)[h[p]] = Dummy
      BY <1>2, <1>4, <3>1, WorkSlots
    <3>3. Work(l)'[p] = Dummy
      BY <1>2, <2>1, PlaceKinds DEF Work, WorkAt
    <3> QED BY <3>2, <3>3
  <2>2. ASSUME NEW n \in Nodes(l), NEW s \in BucketSlots, p = <<"tree", n, s>>
        PROVE  Work(l)'[p] = Work(l)[h[p]]
    <3>1. Work(l)'[p] = tree'[l][n][s]
      BY <1>2, <2>2, PlaceKinds DEF Work, WorkAt
    <3>2. CASE \E i \in Depths(l) : n = Node(l, leaf, i)
      <4>1. PICK i \in Depths(l) : n = Node(l, leaf, i)
        BY <3>2
      <4>2. h[p] = <<"path", i, s>>
        BY <1>1, <2>2, <4>1, PathSwapped DEF h
      <4>3. Work(l)[h[p]] = path[i][s]
        BY <1>2, <4>2, WorkSlots
      <4> QED BY <1>3, <1>5, <2>2, <3>1, <4>1, <4>3
    <3>3. CASE ~ \E i \in Depths(l) : n = Node(l, leaf, i)
      <4>1. h[p] = p
        BY <1>1, <2>2, <3>3, PathSwapped DEF h
      <4>2. Work(l)[p] = tree[l][n][s]
        BY <1>2, <2>2, <3>3, WorkSlots
      <4> QED BY <1>3, <1>6, <2>2, <3>1, <3>3, <4>1, <4>2
    <3> QED BY <3>2, <3>3
  <2>3. ASSUME NEW k \in StashSlots, p = <<"stash", k, 0>>
        PROVE  Work(l)'[p] = Work(l)[h[p]]
    <3>1. h[p] = p
      BY <1>1, <2>3, PathSwapped DEF h
    <3> QED BY <1>3, <2>3, <3>1, PlaceKinds DEF Work, WorkAt
  <2> QED BY <2>1, <2>2, <2>3, PlaceKinds
<1>8. h \in [Places(l) -> Places(l)] /\ \A p \in Places(l) : h[h[p]] = p
  BY <1>1, PathSwapped DEF h
<1> QED BY <1>7, <1>8, Rearranged

(* A block that goes from the path to the stash. *)
LEMMA PushWork ==
  ASSUME TypeOK, NEW l \in Levels, l = level,
         NEW i \in Depths(l), NEW s \in BucketSlots, NEW k \in StashSlots,
         pass_insert(i, s, k)
  PROVE  /\ Stored(l, Work(l)') = Stored(l, Work(l))
         /\ Single(l, Work(l)) => Single(l, Work(l)')
<1> DEFINE a == <<"path", i, s>>
           b == <<"stash", k, 0>>
<1>1. /\ path \in [Depths(l) -> [BucketSlots -> Slot(l)]]
      /\ stash[l] \in [StashSlots -> Slot(l)] /\ l \in DOMAIN stash
  BY DEF pass_insert, TypeOK, StoreTypeOK, AccessTypeOK
<1>2. stash[l][k] = Dummy
  BY <1>1, SlotById DEF pass_insert, FirstFree
<1>3. /\ stash'[l] = [stash[l] EXCEPT ![k] = path[i][s]]
      /\ path' = [path EXCEPT ![i][s] = Dummy]
      /\ UNCHANGED <<tree, leaf, level, phase>> /\ Working(l)
  BY <1>1 DEF pass_insert, Working
<1>4. a \in Places(l) /\ b \in Places(l)
  BY PlaceKinds
<1>5. Work(l)'[a] = Work(l)[b]
  BY <1>1, <1>2, <1>3, <1>4, PlaceKinds DEF Work, WorkAt, Working
<1>6. Work(l)'[b] = Work(l)[a]
  BY <1>1, <1>3, <1>4, PlaceKinds DEF Work, WorkAt, Working
<1>7. ASSUME NEW p \in Places(l), p # a, p # b PROVE Work(l)'[p] = Work(l)[p]
  BY <1>1, <1>3, <1>7, PlaceKinds DEF Work, WorkAt, Working
<1>8. \A p \in Places(l) : p # a /\ p # b => Work(l)'[p] = Work(l)[p]
  BY <1>7
<1>9. Exchange(l, Work(l), Work(l)', a, b)
  BY <1>5, <1>6, <1>8 DEF Exchange
<1> HIDE DEF a, b
<1> QED BY <1>4, <1>9, Exchanged

(* Slots of the path under reconstruction that are still to be filled. *)
RebuildClean ==
  phase = "rebuild" =>
    \A i \in Depths(level), s \in BucketSlots :
      i > bucket \/ (i = bucket /\ s > posk) => path[i][s] = Dummy

(* A block that goes from the stash to the path. *)
LEMMA MoveWork ==
  ASSUME TypeOK, RebuildClean, NEW l \in Levels, l = level,
         NEW k \in StashSlots, MoveToBucket(k)
  PROVE  /\ Stored(l, Work(l)') = Stored(l, Work(l))
         /\ Single(l, Work(l)) => Single(l, Work(l)')
<1> DEFINE a == <<"path", bucket, posk + 1>>
           b == <<"stash", k, 0>>
<1>1. /\ path \in [Depths(l) -> [BucketSlots -> Slot(l)]]
      /\ stash[l] \in [StashSlots -> Slot(l)] /\ l \in DOMAIN stash
      /\ bucket \in Depths(l) /\ posk + 1 \in BucketSlots /\ posk \in Nat
  BY LevelsAssumption DEF MoveToBucket, TypeOK, StoreTypeOK, AccessTypeOK, BucketSlots
<1>2. path[bucket][posk + 1] = Dummy
  BY <1>1 DEF MoveToBucket, RebuildClean
<1>3. /\ stash'[l] = [stash[l] EXCEPT ![k] = Dummy]
      /\ path' = [path EXCEPT ![bucket][posk + 1] = stash[l][k]]
      /\ UNCHANGED <<tree, leaf, level, phase>> /\ Working(l)
  BY <1>1 DEF MoveToBucket, Working
<1>4. a \in Places(l) /\ b \in Places(l)
  BY <1>1, PlaceKinds
<1>5. Work(l)'[a] = Work(l)[b]
  BY <1>1, <1>3, <1>4, PlaceKinds DEF Work, WorkAt, Working
<1>6. Work(l)'[b] = Work(l)[a]
  BY <1>1, <1>2, <1>3, <1>4, PlaceKinds DEF Work, WorkAt, Working
<1>7. ASSUME NEW p \in Places(l), p # a, p # b PROVE Work(l)'[p] = Work(l)[p]
  BY <1>1, <1>3, <1>7, PlaceKinds DEF Work, WorkAt, Working
<1>8. \A p \in Places(l) : p # a /\ p # b => Work(l)'[p] = Work(l)[p]
  BY <1>7
<1>9. Exchange(l, Work(l), Work(l)', a, b)
  BY <1>5, <1>6, <1>8 DEF Exchange
<1> HIDE DEF a, b
<1> QED BY <1>4, <1>9, Exchanged

(* A block that finds no room in the stash. *)
LEMMA DropWork ==
  ASSUME TypeOK, NEW l \in Levels, l = level,
         NEW i \in Depths(l), NEW s \in BucketSlots, pass_insert_full(i, s)
  PROVE  /\ <<"path", i, s>> \in Places(l) /\ Work(l)[<<"path", i, s>>] = path[i][s]
         /\ Work(l)' = [Work(l) EXCEPT ![<<"path", i, s>>] = Dummy]
<1> DEFINE a == <<"path", i, s>>
<1>1. path \in [Depths(l) -> [BucketSlots -> Slot(l)]]
  BY DEF pass_insert_full, TypeOK, AccessTypeOK
<1>2. /\ path' = [path EXCEPT ![i][s] = Dummy]
      /\ UNCHANGED <<tree, leaf, level, phase, stash>> /\ Working(l)
  BY DEF pass_insert_full, Working, store
<1>3. a \in Places(l)
  BY PlaceKinds
<1>4. Work(l)[a] = path[i][s] /\ Work(l)'[a] = Dummy
  BY <1>1, <1>2, <1>3, PlaceKinds DEF Work, WorkAt, Working
<1>5. ASSUME NEW p \in Places(l), p # a PROVE Work(l)'[p] = Work(l)[p]
  BY <1>1, <1>2, <1>5, PlaceKinds DEF Work, WorkAt, Working
<1>6. Work(l)' = [p \in Places(l) |-> Work(l)'[p]]
  BY DEF Work
<1>7. DOMAIN Work(l) = Places(l)
  BY DEF Work
<1> QED BY <1>3, <1>4, <1>5, <1>6, <1>7

(* What the scan of the stash does to block v of the level. *)
Scanned(v) ==
  IF level = recursion_levels THEN Accessed(v)
  ELSE Relabelled(v, ids[level + 1] % x, newleaf_nextlevel')

(* The scan changes the requested block, where the stash holds it, and     *)
(* nothing else.                                                           *)
LEMMA ScanWork ==
  ASSUME TypeOK, NEW l \in Levels, l = level, ids[recursion_levels] = req.id,
         OAssignNewLabelToBlock \/ PerformAccessOperation
  PROVE  /\ \A p \in Places(l) :
              Work(l)'[p] = IF p[1] = "stash" /\ Work(l)[p].id = ids[l]
                            THEN Scanned(Work(l)[p]) ELSE Work(l)[p]
         /\ \A v \in Block(l) : Scanned(v).id = v.id
<1>1. stash[l] \in [StashSlots -> Slot(l)] /\ l \in DOMAIN stash
  BY DEF TypeOK, StoreTypeOK
<1>2. /\ stash'[l] = [k \in StashSlots |-> IF stash[l][k].id = ids[l]
                                           THEN Scanned(stash[l][k]) ELSE stash[l][k]]
      /\ UNCHANGED <<tree, leaf, level, path>> /\ Working(l) /\ Working(l)'
  <2>1. CASE OAssignNewLabelToBlock
    <3>1. level # recursion_levels
      BY <2>1, LevelsAssumption DEF OAssignNewLabelToBlock, Levels
    <3> QED BY <1>1, <2>1, <3>1 DEF OAssignNewLabelToBlock, Scanned, Working, Holds
  <2>2. CASE PerformAccessOperation
    BY <1>1, <2>2 DEF PerformAccessOperation, Scanned, Working, Holds
  <2> QED BY <2>1, <2>2
<1>3. \A v \in Block(l) : Scanned(v).id = v.id
  BY DEF Scanned, Accessed, Relabelled, Block
<1>4. ASSUME NEW p \in Places(l)
      PROVE  Work(l)'[p] = IF p[1] = "stash" /\ Work(l)[p].id = ids[l]
                           THEN Scanned(Work(l)[p]) ELSE Work(l)[p]
  <2>1. CASE \E k \in StashSlots : p = <<"stash", k, 0>>
    <3>1. PICK k \in StashSlots : p = <<"stash", k, 0>>
      BY <2>1
    <3>2. Work(l)[p] = stash[l][k] /\ Work(l)'[p] = stash'[l][k] /\ p[1] = "stash"
      BY <3>1, PlaceKinds DEF Work, WorkAt
    <3> QED BY <1>2, <3>2
  <2>2. CASE \E n \in Nodes(l), s \in BucketSlots : p = <<"tree", n, s>>
    <3>1. p[1] = "tree"
      BY <2>2
    <3>2. Work(l)'[p] = Work(l)[p]
      BY <1>2, <3>1 DEF Work, WorkAt
    <3> QED BY <3>1, <3>2
  <2>3. CASE \E i \in Depths(l), s \in BucketSlots : p = <<"path", i, s>>
    <3>1. p[1] = "path"
      BY <2>3
    <3>2. Work(l)'[p] = Work(l)[p]
      BY <1>2, <3>1 DEF Work, WorkAt
    <3> QED BY <3>1, <3>2
  <2> QED BY <2>1, <2>2, <2>3, PlaceKinds
<1> QED BY <1>3, <1>4

-----------------------------------------------------------------------------
(* The slots still to be filled stay empty, and ids holds the blocks whose *)
(* entries lead to the requested one. *)
LEMMA NextRebuildClean == TypeOK /\ RebuildClean /\ [Next]_vars => RebuildClean'
<1> SUFFICES ASSUME TypeOK, RebuildClean, [Next]_vars, phase' = "rebuild"
             PROVE  RebuildClean'
  BY DEF RebuildClean
<1>0. BucketSlots \subseteq Nat
  BY LevelsAssumption DEF BucketSlots
<1>1. CASE OAssignNewLabelToBlock \/ PerformAccessOperation
  <2>1. \A i \in Depths(level), s \in BucketSlots : path[i][s] = Dummy
    <3>1. path \in [Depths(level) -> [BucketSlots -> Slot(level)]]
      BY <1>1 DEF OAssignNewLabelToBlock, PerformAccessOperation, TypeOK, AccessTypeOK
    <3>2. PathEmpty /\ level \in Levels
      BY <1>1 DEF OAssignNewLabelToBlock, PerformAccessOperation, TypeOK, RequestTypeOK
    <3> QED BY <3>1, <3>2, SlotById DEF PathEmpty
  <2>2. UNCHANGED <<level, path>>
    BY <1>1 DEF OAssignNewLabelToBlock, PerformAccessOperation
  <2> QED BY <2>1, <2>2 DEF RebuildClean
<1>2. ASSUME NEW k \in StashSlots, MoveToBucket(k)
      PROVE  RebuildClean'
  <2>1. /\ path \in [Depths(level) -> [BucketSlots -> Slot(level)]]
        /\ posk \in 0 .. Z /\ posk < Z /\ bucket \in Depths(level) /\ level \in Levels
    BY <1>2 DEF MoveToBucket, TypeOK, RequestTypeOK, AccessTypeOK
  <2>2. BucketSlots \subseteq Nat /\ Depths(level) \subseteq Nat
    BY <2>1, <1>0, Ranges
  <2>3. posk \in Nat /\ posk + 1 \in BucketSlots /\ bucket \in Nat
    BY <2>1, <2>2, LevelsAssumption DEF BucketSlots
  <2>4. path' = [path EXCEPT ![bucket][posk + 1] = stash[level][k]]
        /\ posk' = posk + 1 /\ UNCHANGED <<level, bucket>> /\ phase = "rebuild"
    BY <1>2 DEF MoveToBucket
  <2>5. ASSUME NEW i \in Depths(level), NEW s \in BucketSlots,
               i > bucket \/ (i = bucket /\ s > posk + 1)
        PROVE  path'[i][s] = Dummy
    <3>1. i \in Nat /\ s \in Nat
      BY <2>2
    <3>2. path[i][s] = Dummy /\ ~(i = bucket /\ s = posk + 1)
      BY <2>3, <2>4, <2>5, <3>1 DEF RebuildClean
    <3> QED BY <2>1, <2>4, <3>2
  <2> QED BY <2>4, <2>5 DEF RebuildClean
<1>3. CASE NextBucket
  <2>1. bucket \in Nat /\ BucketSlots \subseteq Nat /\ Depths(level) \subseteq Nat
    <3>1. bucket \in Depths(level) /\ level \in Levels
      BY <1>3 DEF NextBucket, TypeOK, RequestTypeOK, AccessTypeOK
    <3> QED BY <1>0, <3>1, Ranges
  <2>2. bucket' = bucket + 1 /\ posk' = 0 /\ UNCHANGED <<level, path>> /\ phase = "rebuild"
    BY <1>3 DEF NextBucket
  <2>3. ASSUME NEW i \in Depths(level), NEW s \in BucketSlots,
               i > bucket + 1 \/ (i = bucket + 1 /\ s > 0)
        PROVE  path[i][s] = Dummy
    <3>1. i > bucket
      BY <2>1, <2>3
    <3> QED BY <2>2, <3>1 DEF RebuildClean
  <2> QED BY <2>2, <2>3 DEF RebuildClean
<1>4. CASE UNCHANGED vars
  BY <1>4 DEF vars, RebuildClean
<1> QED
  BY <1>1, <1>2, <1>3, <1>4
     DEF Next, Request, Access_temp, Step, Descend, LookupPosmap, ReadBucketsFromPath,
         Push, pass_insert, pass_insert_full, Serve, OAssignNewLabelToBlockOptimized,
         PerformOptimizedAccessOperation, Rebuild, uploadPath, clear, ReturnOptimized

IdsChain ==
  phase # "idle" =>
    /\ ids[recursion_levels] = req.id
    /\ \A l \in Levels : l > 1 /\ (phase = "descend" => l > level) =>
         ids[l - 1] = ids[l] \div x

(* The ids of the levels below follow from the id that was asked for. *)
LEMMA NextIdsChain == TypeOK /\ IdsChain /\ [Next]_vars => IdsChain'
<1> SUFFICES ASSUME TypeOK, IdsChain, [Next]_vars PROVE IdsChain'
  OBVIOUS
<1>1. DOMAIN ids = Levels /\ level \in Levels
  BY DEF TypeOK, RequestTypeOK
<1>2. ASSUME NEW op, NEW id, NEW val, Access_temp(op, id, val)
      PROVE  IdsChain'
  <2>1. /\ ids' = [ids EXCEPT ![recursion_levels] = id]
        /\ req'.id = id /\ phase' = "descend" /\ level' = recursion_levels
    BY <1>2 DEF Access_temp
  <2>2. \A l \in Levels : ~(l > recursion_levels)
    BY LevelsAssumption DEF Levels
  <2> QED BY <1>1, <2>1, <2>2, Ranges DEF IdsChain
<1>3. CASE Descend
  <2>1. /\ ids' = [ids EXCEPT ![level - 1] = ids[level] \div x] /\ level > 1
        /\ phase = "descend" /\ level' = level - 1 /\ UNCHANGED <<phase, req>>
    BY <1>3 DEF Descend
  <2>2. level - 1 # recursion_levels /\ level - 1 \in Levels
    BY <1>1, <2>1, LevelsAssumption, Ranges DEF Levels
  <2>3. ids'[recursion_levels] = req'.id
    BY <1>1, <2>1, <2>2, Ranges DEF IdsChain
  <2>4. ASSUME NEW l \in Levels, l > 1, l > level - 1
        PROVE  ids'[l - 1] = ids'[l] \div x
    <3>1. l \in Nat /\ level \in Nat /\ l - 1 \in Levels
      BY <1>1, <2>4, Ranges
    <3>2. CASE l = level
      BY <1>1, <2>1, <2>2, <3>1, <3>2
    <3>3. CASE l > level
      <4>1. ids'[l - 1] = ids[l - 1] /\ ids'[l] = ids[l]
        BY <1>1, <2>1, <2>2, <3>1, <3>3
      <4> QED BY <2>1, <2>4, <3>3, <4>1 DEF IdsChain
    <3> QED BY <2>4, <3>1, <3>2, <3>3
  <2> QED BY <2>1, <2>3, <2>4 DEF IdsChain
<1>4. CASE LookupPosmap
  <2>1. level = 1 /\ phase = "descend" /\ phase' # "descend" /\ UNCHANGED <<ids, req>>
    BY <1>4 DEF LookupPosmap
  <2> QED BY <2>1 DEF IdsChain
<1>5. CASE UNCHANGED <<ids, req>> /\ phase # "idle" /\ phase # "descend"
           /\ phase' # "descend"
  BY <1>5 DEF IdsChain
<1>6. CASE UNCHANGED vars
  BY <1>6 DEF vars, IdsChain
<1> QED
  BY <1>2, <1>3, <1>4, <1>5, <1>6
     DEF Next, Request, Step, ReadBucketsFromPath, Push, pass_insert, pass_insert_full,
         Serve, OAssignNewLabelToBlock, OAssignNewLabelToBlockOptimized,
         PerformAccessOperation, PerformOptimizedAccessOperation, Rebuild, MoveToBucket,
         NextBucket, uploadPath, clear, ReturnOptimized

-----------------------------------------------------------------------------
(* What the steps of a request do to what is stored. *)

(* When no flag is set and no request reads only, the two views agree. *)
LEMMA WorkIsViewNext ==
  ASSUME FlagsInv', ~Optimized', NEW l \in Levels
  PROVE  Work(l)' = View(l)'
<1>1. Working(l)' <=> Rebuilding(l)'
  BY DEF Working, Rebuilding
<1>2. \A k \in StashSlots : ~discard_block'[l][k]
  BY DEF FlagsInv
<1>3. ASSUME NEW p \in Places(l) PROVE WorkAt(l, p)' = SlotAt(l, p)'
  <2>1. CASE \E k \in StashSlots : p = <<"stash", k, 0>>
    BY <1>2, <2>1 DEF WorkAt, SlotAt
  <2>2. CASE \E n \in Nodes(l), s \in BucketSlots : p = <<"tree", n, s>>
    BY <1>1, <2>2 DEF WorkAt, SlotAt, OutOfDate
  <2>3. CASE \E i \in Depths(l), s \in BucketSlots : p = <<"path", i, s>>
    BY <1>1, <2>3 DEF WorkAt, SlotAt
  <2> QED BY <2>1, <2>2, <2>3, PlaceKinds
<1> QED BY <1>3 DEF Work, View

(* Outside the rebuilding of a path the trees and the kept blocks of the   *)
(* stashes are what is stored.                                             *)
LEMMA QuietView ==
  ASSUME NEW l \in Levels, ~Rebuilding(l), ~Rebuilding(l)',
         tree'[l] = tree[l], Kept'[l] = Kept[l]
  PROVE  View(l)' = View(l)
<1>1. \A k \in StashSlots : Kept[l][k] = IF discard_block[l][k] THEN Dummy ELSE stash[l][k]
  BY DEF Kept
<1>2. \A k \in StashSlots :
        Kept'[l][k] = IF discard_block'[l][k] THEN Dummy ELSE stash'[l][k]
  BY DEF Kept
<1>3. ASSUME NEW p \in Places(l) PROVE SlotAt(l, p)' = SlotAt(l, p)
  <2>1. CASE \E k \in StashSlots : p = <<"stash", k, 0>>
    BY <1>1, <1>2, <2>1 DEF SlotAt
  <2>2. CASE \E n \in Nodes(l), s \in BucketSlots : p = <<"tree", n, s>>
    BY <2>2 DEF SlotAt, OutOfDate
  <2>3. CASE \E i \in Depths(l), s \in BucketSlots : p = <<"path", i, s>>
    BY <2>3 DEF SlotAt
  <2> QED BY <2>1, <2>2, <2>3, PlaceKinds
<1> QED BY <1>3 DEF View

(* A step of a 'z' request stores nothing. *)
LEMMA OptimizedView ==
  ASSUME TypeOK, Next, Optimized, phase # "idle", NEW l \in Levels
  PROVE  View(l)' = View(l)
<1>1. tree' = tree /\ Kept' = Kept
  BY StepReadOnly
<1>2. Optimized'
  BY DEF Optimized, Next, Request, Access_temp, Step, Descend, LookupPosmap,
         ReadBucketsFromPath, Push, pass_insert, pass_insert_full, Serve,
         OAssignNewLabelToBlock, OAssignNewLabelToBlockOptimized,
         PerformAccessOperation, PerformOptimizedAccessOperation, Rebuild, MoveToBucket,
         NextBucket, uploadPath, clear, ReturnOptimized
<1> QED BY <1>1, <1>2, QuietView DEF Rebuilding

(* Nor does the beginning of a request. *)
LEMMA EarlyView ==
  ASSUME TypeOK, NEW l \in Levels,
         \/ \E op, id, val : Access_temp(op, id, val)
         \/ Descend \/ LookupPosmap
  PROVE  View(l)' = View(l) /\ dropped' = dropped
<1>1. UNCHANGED <<tree, stash, discard_block, dropped>>
      /\ phase \in {"idle", "descend"} /\ phase' \in {"descend", "read"}
  BY DEF Access_temp, Descend, LookupPosmap, store
<1> QED BY <1>1, QuietView DEF Rebuilding, Kept

(* An access with write-back stores nothing in the other levels. *)
LEMMA OtherViews ==
  ASSUME TypeOK, Step, ~Optimized, NEW l \in Levels, l # level
  PROVE  View(l)' = View(l)
<1>1. CASE phase = "descend"
  BY <1>1, EarlyView
     DEF Step, Descend, LookupPosmap, ReadBucketsFromPath, Push, pass_insert,
         pass_insert_full, Serve, OAssignNewLabelToBlock, OAssignNewLabelToBlockOptimized,
         PerformAccessOperation, PerformOptimizedAccessOperation, Rebuild, MoveToBucket,
         NextBucket, uploadPath, clear, ReturnOptimized
<1>2. CASE phase \in {"clear", "assert"}
  <2>1. clear \/ ReturnOptimized
    BY <1>2
       DEF Step, Descend, LookupPosmap, ReadBucketsFromPath, Push, pass_insert,
         pass_insert_full, Serve, OAssignNewLabelToBlock, OAssignNewLabelToBlockOptimized,
         PerformAccessOperation, PerformOptimizedAccessOperation, Rebuild, MoveToBucket,
         NextBucket, uploadPath
  <2>2. tree' = tree /\ phase' \in {"assert", "idle"} /\ Kept' = Kept
    BY <2>1 DEF clear, ClearedFlags, ReturnOptimized, Kept, store
  <2> QED BY <1>2, <2>2, QuietView DEF Rebuilding
<1>3. CASE phase \notin {"descend", "clear", "assert"}
  <2>1. /\ stash'[l] = stash[l] /\ discard_block'[l] = discard_block[l]
        /\ tree'[l] = tree[l]
    BY <1>3 DEF TypeOK, StoreTypeOK, RequestTypeOK,
         Step, Descend, LookupPosmap, ReadBucketsFromPath, Push, pass_insert, Flagged,
         pass_insert_full, Serve, OAssignNewLabelToBlock, OAssignNewLabelToBlockOptimized,
         PerformAccessOperation, PerformOptimizedAccessOperation, Rebuild, MoveToBucket,
         NextBucket, uploadPath, clear, ReturnOptimized, store
  <2>2. ~Rebuilding(l) /\ ~Rebuilding(l)'
    BY <1>3 DEF Rebuilding,
         Step, Descend, LookupPosmap, ReadBucketsFromPath, Push, pass_insert,
         pass_insert_full, Serve, OAssignNewLabelToBlock, OAssignNewLabelToBlockOptimized,
         PerformAccessOperation, PerformOptimizedAccessOperation, Rebuild, MoveToBucket,
         NextBucket, uploadPath, clear, ReturnOptimized
  <2> QED BY <2>1, <2>2, QuietView DEF Kept
<1> QED BY <1>1, <1>2, <1>3

-----------------------------------------------------------------------------
(* Each block is stored once, unless it is among the blocks of D, and then *)
(* not at all.                                                             *)
Has(l, f, b) == \E p \in Places(l) : f[p].id = b
OnceOrIn(l, f, D) ==
  Single(l, f) /\ \A b \in Ids(l) : <<l, b>> \in D <=> ~Has(l, f, b)

(* A rearrangement keeps what is stored, and so what is missing. *)
LEMMA OnceRearranged ==
  ASSUME NEW l, NEW f, NEW g, NEW D, OnceOrIn(l, f, D),
         Stored(l, g) = Stored(l, f), Single(l, f) => Single(l, g)
  PROVE  OnceOrIn(l, g, D)
<1>1. ASSUME NEW b PROVE Has(l, f, b) <=> Has(l, g, b)
  <2>1. Has(l, f, b) <=> \E v \in Stored(l, f) : v.id = b
    BY DEF Has, Stored
  <2>2. Has(l, g, b) <=> \E v \in Stored(l, g) : v.id = b
    BY DEF Has, Stored
  <2> QED BY <2>1, <2>2
<1> QED BY <1>1 DEF OnceOrIn

(* So does a change of contents that keeps the ids. *)
LEMMA OnceRewritten ==
  ASSUME NEW l, NEW f, NEW g, NEW D, OnceOrIn(l, f, D),
         \A p \in Places(l) : g[p].id = f[p].id
  PROVE  OnceOrIn(l, g, D)
BY DEF OnceOrIn, Single, Has

(* Replacing a block by a dummy, and noting it as dropped, keeps the       *)
(* balance.                                                                *)
LEMMA OnceDropped ==
  ASSUME NEW l \in Levels, NEW f, NEW g, NEW D, OnceOrIn(l, f, D), NEW a \in Places(l),
         g = [f EXCEPT ![a] = Dummy], DOMAIN f = Places(l), f[a] \in Slot(l),
         ~isBlockDummy(f[a])
  PROVE  OnceOrIn(l, g, IF f[a].id > gN THEN D ELSE D \cup {<<l, f[a].id>>})
<1> DEFINE E == IF f[a].id > gN THEN D ELSE D \cup {<<l, f[a].id>>}
<1>1. g[a] = Dummy /\ \A p \in Places(l) : p # a => g[p] = f[p]
  OBVIOUS
<1>2. Dummy.id \notin Ids(l)
  BY SlotById
<1>3. f[a].id > gN => f[a].id \notin Ids(l)
  <2>1. gN \in Nat /\ \A b \in Ids(l) : b \in Nat /\ b < gN
    BY LevelsAssumption DEF Ids
  <2> QED BY <2>1
<1>4. ~(f[a].id > gN) => f[a].id \in Ids(l)
  BY SlotById
<1>5. Single(l, g)
  BY <1>1, <1>2 DEF OnceOrIn, Single
<1>6. ASSUME NEW b \in Ids(l), b # f[a].id PROVE Has(l, g, b) <=> Has(l, f, b)
  BY <1>1, <1>2, <1>6 DEF Has
<1>7. ASSUME f[a].id \in Ids(l) PROVE ~Has(l, g, f[a].id)
  BY <1>1, <1>2, <1>7 DEF OnceOrIn, Single, Has
<1>8. ASSUME NEW b \in Ids(l) PROVE <<l, b>> \in E <=> ~Has(l, g, b)
  <2>1. CASE b = f[a].id
    BY <1>3, <1>4, <1>7, <2>1
  <2>2. CASE b # f[a].id
    BY <1>6, <2>2 DEF OnceOrIn
  <2> QED BY <2>1, <2>2
<1> QED BY <1>5, <1>8 DEF OnceOrIn

(* What the work views hold. *)
LEMMA WorkType ==
  ASSUME TypeOK, NEW l \in Levels
  PROVE  \A p \in Places(l) : Work(l)[p] \in Slot(l)
<1>1. /\ stash[l] \in [StashSlots -> Slot(l)]
      /\ tree[l] \in [Nodes(l) -> [BucketSlots -> Slot(l)]]
      /\ Dummy \in Slot(l)
  BY SlotById DEF TypeOK, StoreTypeOK
<1>2. Working(l) => path \in [Depths(l) -> [BucketSlots -> Slot(l)]]
  BY DEF TypeOK, AccessTypeOK, Working
<1> QED BY <1>1, <1>2, PlaceKinds, WorkSlots

(* Where nothing changes, the views stay. *)
LEMMA SameView ==
  ASSUME NEW l, UNCHANGED vars
  PROVE  View(l)' = View(l)
BY DEF vars, View, SlotAt, OutOfDate, Rebuilding, Optimized

(* What a step must leave alone so that the working view stays. *)
LEMMA SameWork ==
  ASSUME NEW l, tree' = tree, stash'[l] = stash[l], Working(l)' <=> Working(l),
         Working(l) => path' = path /\ leaf' = leaf
  PROVE  Work(l)' = Work(l)
<1>1. ASSUME NEW p \in Places(l) PROVE WorkAt(l, p)' = WorkAt(l, p)
  <2>1. CASE \E k \in StashSlots : p = <<"stash", k, 0>>
    BY <2>1 DEF WorkAt
  <2>2. CASE \E n \in Nodes(l), s \in BucketSlots : p = <<"tree", n, s>>
    BY <2>2 DEF WorkAt
  <2>3. CASE \E i \in Depths(l), s \in BucketSlots : p = <<"path", i, s>>
    BY <2>3 DEF WorkAt
  <2> QED BY <2>1, <2>2, <2>3, PlaceKinds
<1> QED BY <1>1 DEF Work

(* Each block is stored once in its level, unless it has been dropped.     *)
Copies(l) == OnceOrIn(l, View(l), dropped)

CopyInv ==
  /\ FlagsInv /\ RebuildClean /\ IdsChain
  /\ \A l \in Levels : Copies(l)

(* What a step does to what is stored in a level: it moves slots, or loses *)
(* one, or rewrites the requested block in the stash.                      *)
Moves(l) ==
  /\ Stored(l, View(l)') = Stored(l, View(l))
  /\ Single(l, View(l)) => Single(l, View(l)')
  /\ \A b : <<l, b>> \in dropped' <=> <<l, b>> \in dropped

Loses(l) ==
  \E a \in Places(l) :
    /\ View(l)' = [View(l) EXCEPT ![a] = Dummy]
    /\ View(l)[a] \in Slot(l) /\ ~isBlockDummy(View(l)[a])
    /\ dropped' = IF View(l)[a].id > gN THEN dropped
                  ELSE dropped \cup {<<l, View(l)[a].id>>}

Rewrites(l) ==
  /\ l = level
  /\ OAssignNewLabelToBlock \/ PerformAccessOperation
  /\ \A p \in Places(l) :
       View(l)'[p] = IF p[1] = "stash" /\ View(l)[p].id = ids[l]
                     THEN Scanned(View(l)[p]) ELSE View(l)[p]
  /\ dropped' = dropped

(* The scan of the stash for the requested block. *)
LEMMA RewriteView ==
  ASSUME CopyInv, NEW l \in Levels, l = level,
         OAssignNewLabelToBlock \/ PerformAccessOperation
  PROVE  Rewrites(l)
<1>1. TypeOK /\ FlagsInv /\ IdsChain
  BY DEF CopyInv, FlagsInv
<1>2. /\ ~Optimized /\ req' = req /\ phase # "idle" /\ dropped' = dropped
      /\ [Next]_vars
  BY DEF OAssignNewLabelToBlock, PerformAccessOperation, Next, Step, Serve
<1>3. FlagsInv' /\ ~Optimized'
  BY <1>1, <1>2, NextFlags DEF Optimized
<1>4. Work(l) = View(l) /\ Work(l)' = View(l)'
  BY <1>1, <1>2, <1>3, WorkIsView, WorkIsViewNext
<1>5. ids[recursion_levels] = req.id
  BY <1>1, <1>2 DEF IdsChain
<1>6. \A p \in Places(l) :
        Work(l)'[p] = IF p[1] = "stash" /\ Work(l)[p].id = ids[l]
                      THEN Scanned(Work(l)[p]) ELSE Work(l)[p]
  BY <1>1, <1>5, ScanWork
<1> QED BY <1>2, <1>4, <1>6 DEF Rewrites

(* Every step does one of the three. *)
LEMMA StepView ==
  ASSUME CopyInv, [Next]_vars, NEW l \in Levels
  PROVE  Moves(l) \/ Loses(l) \/ Rewrites(l)
<1>1. TypeOK /\ FlagsInv /\ Copies(l) /\ RebuildClean /\ IdsChain
  BY DEF CopyInv, FlagsInv
<1>2. FlagsInv'
  BY NextFlags DEF CopyInv
<1>3. ASSUME View(l)' = View(l), dropped' = dropped PROVE Moves(l)
  BY <1>3 DEF Moves
<1>4. CASE UNCHANGED vars
  <2>1. View(l)' = View(l)
    BY <1>4, SameView
  <2> QED BY <1>3, <1>4, <2>1 DEF vars
<1>5. CASE Request
  BY <1>1, <1>3, <1>5, EarlyView DEF Request
<1>6. CASE Step /\ Optimized
  <2>1. phase # "idle"
    BY <1>6 DEF Step, Descend, LookupPosmap, ReadBucketsFromPath, Push, pass_insert,
       pass_insert_full, Serve, OAssignNewLabelToBlock, OAssignNewLabelToBlockOptimized,
       PerformAccessOperation, PerformOptimizedAccessOperation, Rebuild, MoveToBucket,
       NextBucket, uploadPath, clear, ReturnOptimized
  <2>2. dropped' = dropped
    BY <1>6 DEF Step, Descend, LookupPosmap, ReadBucketsFromPath, Push, pass_insert,
       pass_insert_full, Serve, OAssignNewLabelToBlock, OAssignNewLabelToBlockOptimized,
       PerformAccessOperation, PerformOptimizedAccessOperation, Rebuild, MoveToBucket,
       NextBucket, uploadPath, clear, ReturnOptimized
  <2> QED BY <1>1, <1>3, <1>6, <2>1, <2>2, OptimizedView DEF Next
<1>7. CASE Step /\ ~Optimized /\ l # level
  <2>1. View(l)' = View(l)
    BY <1>1, <1>7, OtherViews
  <2>2. CASE dropped' = dropped
    BY <1>3, <2>1, <2>2
  <2>3. CASE dropped' # dropped
    <3>1. \E c : dropped' = dropped \cup {<<level, c>>}
      BY <1>7, <2>3 DEF Step, Descend, LookupPosmap, ReadBucketsFromPath, Push, pass_insert,
         pass_insert_full, Serve, OAssignNewLabelToBlock, OAssignNewLabelToBlockOptimized,
         PerformAccessOperation, PerformOptimizedAccessOperation, Rebuild, MoveToBucket,
         NextBucket, uploadPath, clear, ReturnOptimized
    <3>2. \A b : <<l, b>> \in dropped' <=> <<l, b>> \in dropped
      BY <1>7, <3>1
    <3> QED BY <2>1, <3>2 DEF Moves
  <2> QED BY <2>2, <2>3
<1>8. CASE Step /\ ~Optimized /\ l = level
  <2>1. ~Optimized' /\ Work(l) = View(l) /\ Work(l)' = View(l)'
    <3>1. ~Optimized'
      BY <1>8 DEF Optimized, Step, Descend, LookupPosmap, ReadBucketsFromPath, Push, pass_insert,
         pass_insert_full, Serve, OAssignNewLabelToBlock, OAssignNewLabelToBlockOptimized,
         PerformAccessOperation, PerformOptimizedAccessOperation, Rebuild, MoveToBucket,
         NextBucket, uploadPath, clear, ReturnOptimized
    <3> QED BY <1>1, <1>2, <1>8, <3>1, WorkIsView, WorkIsViewNext
  <2>4. ASSUME Stored(l, Work(l)') = Stored(l, Work(l)) /\ dropped' = dropped,
               Single(l, Work(l)) => Single(l, Work(l)')
        PROVE  Moves(l)
    BY <2>1, <2>4 DEF Moves
  <2>5. CASE Descend \/ LookupPosmap
    BY <1>1, <1>3, <2>5, EarlyView
  <2>6. CASE ReadBucketsFromPath
    BY <1>1, <1>8, <2>4, <2>6, FetchWork DEF ReadBucketsFromPath
  <2>7. ASSUME NEW i \in Depths(level), NEW s \in BucketSlots, NEW k \in StashSlots,
               pass_insert(i, s, k)
        PROVE  Moves(l) \/ Loses(l)
    BY <1>1, <1>8, <2>4, <2>7, PushWork DEF pass_insert
  <2>8. ASSUME NEW i \in Depths(level), NEW s \in BucketSlots, pass_insert_full(i, s)
        PROVE  Moves(l) \/ Loses(l)
    <3>1. /\ <<"path", i, s>> \in Places(l) /\ Work(l)[<<"path", i, s>>] = path[i][s]
          /\ Work(l)' = [Work(l) EXCEPT ![<<"path", i, s>>] = Dummy]
      BY <1>1, <1>8, <2>8, DropWork
    <3>2. /\ dropped' = IF path[i][s].id > gN THEN dropped
                        ELSE dropped \cup {<<l, path[i][s].id>>}
          /\ ~isBlockDummy(path[i][s])
      BY <1>8, <2>8 DEF pass_insert_full, FirstOnPath
    <3>3. path[i][s] \in Slot(l)
      BY <1>1, <3>1, WorkType
    <3> DEFINE a == <<"path", i, s>>
    <3>4. /\ a \in Places(l) /\ View(l)' = [View(l) EXCEPT ![a] = Dummy]
          /\ View(l)[a] = path[i][s]
      BY <2>1, <3>1
    <3> HIDE DEF a
    <3> QED BY <3>2, <3>3, <3>4 DEF Loses
  <2>9. CASE OAssignNewLabelToBlock \/ PerformAccessOperation
    BY <1>8, <2>9, RewriteView
  <2>10. ASSUME NEW k \in StashSlots, MoveToBucket(k)
         PROVE  Moves(l) \/ Loses(l)
    BY <1>1, <1>8, <2>4, <2>10, MoveWork DEF MoveToBucket
  <2>11. CASE NextBucket
    <3>1. /\ UNCHANGED <<tree, stash, path, leaf, level>>
          /\ phase = "rebuild" /\ phase' \in {"rebuild", "upload"}
      BY <2>11 DEF NextBucket, store
    <3>2. Work(l)' = Work(l)
      BY <3>1, SameWork DEF Working
    <3> QED BY <2>4, <2>11, <3>2 DEF NextBucket
  <2>12. CASE uploadPath
    BY <1>1, <1>8, <2>4, <2>12, UploadWork DEF uploadPath
  <2>13. CASE clear \/ ReturnOptimized
    <3>1. /\ UNCHANGED <<tree, dropped, level>>
          /\ phase \in {"clear", "assert"} /\ phase' \in {"assert", "idle"}
      BY <2>13 DEF clear, ReturnOptimized, store
    <3>2. stash'[l] = stash[l]
      <4>1. stash[l] \in [StashSlots -> Slot(l)]
        BY <1>1 DEF TypeOK, StoreTypeOK
      <4>2. \A k \in StashSlots : ~discard_block[l][k]
        BY <1>1, <1>8 DEF FlagsInv
      <4> QED BY <2>13, <4>1, <4>2 DEF clear, ReturnOptimized, store
    <3>3. ~Working(l) /\ ~Working(l)'
      BY <3>1 DEF Working
    <3>4. Work(l)' = Work(l)
      BY <3>1, <3>2, <3>3, SameWork
    <3> QED BY <2>4, <3>1, <3>4
  <2>14. ~OAssignNewLabelToBlockOptimized /\ ~PerformOptimizedAccessOperation
    BY <1>8 DEF OAssignNewLabelToBlockOptimized, PerformOptimizedAccessOperation
  <2> QED
    BY <1>8, <2>5, <2>6, <2>7, <2>8, <2>9, <2>10, <2>11, <2>12, <2>13, <2>14
       DEF Step, Push, Serve, Rebuild
<1> QED BY <1>4, <1>5, <1>6, <1>7, <1>8 DEF Next

(* The scan keeps the ids. *)
LEMMA ScannedId ==
  ASSUME NEW v \in Block(level)
  PROVE  Scanned(v).id = v.id
BY DEF Scanned, Accessed, Relabelled, Block

(* What is stored are slots of the level. *)
LEMMA ViewType ==
  ASSUME TypeOK, NEW l \in Levels
  PROVE  \A p \in Places(l) : View(l)[p] \in Slot(l)
<1>1. /\ stash[l] \in [StashSlots -> Slot(l)]
      /\ tree[l] \in [Nodes(l) -> [BucketSlots -> Slot(l)]]
      /\ Dummy \in Slot(l)
  BY SlotById DEF TypeOK, StoreTypeOK
<1>2. Rebuilding(l) => path \in [Depths(l) -> [BucketSlots -> Slot(l)]]
  BY DEF TypeOK, AccessTypeOK, Rebuilding
<1> QED BY <1>1, <1>2, PlaceKinds, ViewSlots

(* Every step keeps each block stored once or dropped: it moves blocks,    *)
(* loses one or rewrites one in place.                                     *)
LEMMA NextCopies ==
  ASSUME CopyInv, [Next]_vars, NEW l \in Levels
  PROVE  Copies(l)'
<1>1. OnceOrIn(l, View(l), dropped) /\ TypeOK
  BY DEF CopyInv, Copies, FlagsInv
<1>2. SUFFICES OnceOrIn(l, View(l)', dropped')
  BY DEF Copies
<1>3. CASE Moves(l)
  <2>1. OnceOrIn(l, View(l)', dropped)
    BY <1>1, <1>3, OnceRearranged DEF Moves
  <2> QED BY <1>3, <2>1 DEF Moves, OnceOrIn
<1>4. CASE Loses(l)
  <2>1. PICK a \in Places(l) :
          /\ View(l)' = [View(l) EXCEPT ![a] = Dummy]
          /\ View(l)[a] \in Slot(l) /\ ~isBlockDummy(View(l)[a])
          /\ dropped' = IF View(l)[a].id > gN THEN dropped
                        ELSE dropped \cup {<<l, View(l)[a].id>>}
    BY <1>4 DEF Loses
  <2>2. DOMAIN View(l) = Places(l)
    BY DEF View
  <2> QED BY <1>1, <2>1, <2>2, OnceDropped
<1>5. CASE Rewrites(l)
  <2>1. ids[l] \in Ids(l)
    BY <1>1 DEF TypeOK, RequestTypeOK
  <2>2. \A p \in Places(l) : View(l)'[p].id = View(l)[p].id
    <3> TAKE p \in Places(l)
    <3>1. View(l)[p] \in Slot(l) /\ l = level
      BY <1>1, <1>5, ViewType DEF Rewrites
    <3>2. View(l)[p].id = ids[l] => View(l)[p] \in Block(level)
      BY <2>1, <3>1, SlotById
    <3>3. View(l)[p].id = ids[l] => Scanned(View(l)[p]).id = View(l)[p].id
      BY <3>2, ScannedId
    <3> QED BY <1>5, <3>3 DEF Rewrites
  <2>3. OnceOrIn(l, View(l)', dropped)
    BY <1>1, <2>2, OnceRewritten
  <2> QED BY <1>5, <2>3 DEF Rewrites
<1> QED BY <1>3, <1>4, <1>5, StepView

(* The build stores each block once, in the bucket of its leaf.            *)
LEMMA BuiltView ==
  ASSUME Init, NEW l \in Levels
  PROVE  /\ \A p \in Places(l) : View(l)[p].id \in Ids(l) =>
              p = <<"tree", Node(l, BuildLabel(l, View(l)[p].id), 0), BuildSlot(l, View(l)[p].id)>>
         /\ \A b \in Ids(l) :
              LET p == <<"tree", Node(l, BuildLabel(l, b), 0), BuildSlot(l, b)>>
              IN  /\ p \in Places(l)
                  /\ View(l)[p] = [id |-> b, label |-> BuildLabel(l, b),
                                   data |-> BuildData(l, b)]
<1>1. ~Rebuilding(l) /\ tree[l] = BuildTree(l)
      /\ \A k \in StashSlots : stash[l][k] = Dummy
  BY DEF Init, Rebuilding
<1>2. \A n \in Nodes(l), s \in BucketSlots :
        View(l)[<<"tree", n, s>>] = BuildTree(l)[n][s]
  <2> TAKE n \in Nodes(l), s \in BucketSlots
  <2>1. View(l)[<<"tree", n, s>>] = tree[l][n][s]
    BY <1>1, ViewSlots
  <2> QED BY <1>1, <2>1
<1>3. \A i \in Depths(l), s \in BucketSlots : View(l)[<<"path", i, s>>] = Dummy
  BY <1>1, ViewSlots
<1>4. \A k \in StashSlots : View(l)[<<"stash", k, 0>>] = Dummy
  BY <1>1, ViewSlots
<1>5. ASSUME NEW p \in Places(l), View(l)[p].id \in Ids(l)
      PROVE  p = <<"tree", Node(l, BuildLabel(l, View(l)[p].id), 0),
                   BuildSlot(l, View(l)[p].id)>>
  <2>1. PICK n \in Nodes(l), s \in BucketSlots : p = <<"tree", n, s>>
    BY <1>3, <1>4, <1>5, PlaceKinds, SlotById
  <2>2. View(l)[p] = BuildTree(l)[n][s]
    BY <1>2, <2>1
  <2>3. BuildTree(l)[n][s].id \in Ids(l)
    BY <1>5, <2>2
  <2>4. /\ n = Node(l, BuildLabel(l, BuildTree(l)[n][s].id), 0)
        /\ s = BuildSlot(l, BuildTree(l)[n][s].id)
    BY <2>3, BuiltSlot
  <2> QED BY <2>1, <2>2, <2>4
<1>6. ASSUME NEW b \in Ids(l)
      PROVE  LET p == <<"tree", Node(l, BuildLabel(l, b), 0), BuildSlot(l, b)>>
             IN  /\ p \in Places(l)
                 /\ View(l)[p] = [id |-> b, label |-> BuildLabel(l, b),
                                  data |-> BuildData(l, b)]
  BY <1>2, BuiltBlock, PlaceKinds
<1> QED BY <1>5, <1>6

(* The build stores each block in one slot of one leaf. *)
LEMMA InitCopies ==
  ASSUME InitDiscard = {FALSE}
  PROVE  Init => CopyInv
<1> SUFFICES ASSUME Init PROVE CopyInv
  OBVIOUS
<1>1. FlagsInv
  BY InitFlags
<1>2. RebuildClean /\ IdsChain
  BY DEF Init, RebuildClean, IdsChain
<1>3. ASSUME NEW l \in Levels PROVE Copies(l)
  <2>1. Single(l, View(l))
    BY <1>3, BuiltView DEF Single
  <2>2. \A b \in Ids(l) : Has(l, View(l), b)
    <3> TAKE b \in Ids(l)
    <3> DEFINE p == <<"tree", Node(l, BuildLabel(l, b), 0), BuildSlot(l, b)>>
    <3>1. p \in Places(l) /\ View(l)[p] = [id |-> b, label |-> BuildLabel(l, b),
                                            data |-> BuildData(l, b)]
      BY BuiltView
    <3> QED BY <3>1 DEF Has
  <2>3. dropped = {}
    BY DEF Init
  <2> QED BY <2>1, <2>2, <2>3 DEF Copies, OnceOrIn
<1> QED BY <1>1, <1>2, <1>3 DEF CopyInv

(* The invariant is inductive. *)
LEMMA NextCopyInv == CopyInv /\ [Next]_vars => CopyInv'
BY NextCopies, NextFlags, NextRebuildClean, NextIdsChain DEF CopyInv, FlagsInv

(* Where a block of the level is. *)
LEMMA CopyOf ==
  ASSUME CopyInv, NEW l \in Levels, NEW b \in Ids(l)
  PROVE  /\ <<l, b>> \in dropped => PlacesOf(l, b) = {}
         /\ <<l, b>> \notin dropped => \E p \in Places(l) : PlacesOf(l, b) = {p}
<1>1. Copies(l)
  BY DEF CopyInv
<1>2. PlacesOf(l, b) = {p \in Places(l) : View(l)[p].id = b}
  BY DEF PlacesOf, View
<1> QED BY <1>1, <1>2 DEF Copies, OnceOrIn, Single, Has

(* With the flags false at first, moving a path through the stash and back *)
(* neither loses nor duplicates a block (ReadBucketsFromPath, pass_insert, *)
(* PathORAM_RebuildPath, uploadPath), whatever the stash drops.            *)
THEOREM EveryBlockOnce ==
  ASSUME InitDiscard = {FALSE}
  PROVE  Spec => []OneCopy
<1>1. CopyInv => OneCopy
  BY CopyOf DEF OneCopy
<1> QED BY InitCopies, NextCopyInv, <1>1, PTL DEF Spec
=============================================================================
