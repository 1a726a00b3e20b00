------------------------- MODULE PathORAMStore_proofs -------------------------
(* What the Path ORAM finds and answers: proofs that every block carries   *)
(* the label on record for it, and that the access finds it.               *)
EXTENDS PathORAM_proofs

-----------------------------------------------------------------------------
(* A block that is not dropped is in one place, and BlockOf is what is     *)
(* there.                                                                  *)
LEMMA BlockPlace ==
  ASSUME NEW l \in Levels, Copies(l), NEW b \in Ids(l), <<l, b>> \notin dropped
  PROVE  \E p \in Places(l) : /\ View(l)[p].id = b /\ BlockOf(l, b) = View(l)[p]
                              /\ \A q \in Places(l) : View(l)[q].id = b => q = p
<1>1. PICK p \in Places(l) : View(l)[p].id = b
  BY DEF Copies, OnceOrIn, Has
<1>2. \A q \in Places(l) : View(l)[q].id = b => q = p
  BY <1>1 DEF Copies, OnceOrIn, Single
<1>3. \A q \in Places(l) : View(l)[q] = SlotAt(l, q)
  BY DEF View
<1>4. PlacesOf(l, b) = {p}
  BY <1>1, <1>2, <1>3 DEF PlacesOf
<1>5. (CHOOSE q \in PlacesOf(l, b) : TRUE) = p
  BY <1>4
<1> QED BY <1>1, <1>2, <1>3, <1>5 DEF BlockOf

(* The same in the next state. *)
LEMMA BlockPlaceNext ==
  ASSUME NEW l \in Levels, Copies(l)', NEW b \in Ids(l), <<l, b>> \notin dropped'
  PROVE  \E p \in Places(l) : /\ View(l)'[p].id = b /\ BlockOf(l, b)' = View(l)'[p]
                              /\ \A q \in Places(l) : View(l)'[q].id = b => q = p
<1>1. PICK p \in Places(l) : View(l)'[p].id = b
  BY DEF Copies, OnceOrIn, Has
<1>2. \A q \in Places(l) : View(l)'[q].id = b => q = p
  BY <1>1 DEF Copies, OnceOrIn, Single
<1>3. \A q \in Places(l) : View(l)'[q] = SlotAt(l, q)'
  BY DEF View
<1>4. PlacesOf(l, b)' = {p}
  BY <1>1, <1>2, <1>3 DEF PlacesOf
<1>5. (CHOOSE q \in PlacesOf(l, b)' : TRUE) = p
  BY <1>4
<1>6. BlockOf(l, b)' = SlotAt(l, p)'
  BY <1>5 DEF BlockOf
<1> QED BY <1>1, <1>2, <1>3, <1>6

(* It is a block of its level. *)
LEMMA BlockType ==
  ASSUME CopyInv, NEW l \in Levels, NEW b \in Ids(l), <<l, b>> \notin dropped
  PROVE  BlockOf(l, b) \in Block(l) /\ BlockOf(l, b).id = b
<1>1. PICK p \in Places(l) : View(l)[p].id = b /\ BlockOf(l, b) = View(l)[p]
  BY BlockPlace DEF CopyInv
<1>2. View(l)[p] \in Slot(l)
  BY ViewType DEF CopyInv, FlagsInv
<1> QED BY <1>1, <1>2, SlotById

(* A step that is no scan of the stash leaves each block as it is. *)
LEMMA StepKeepsBlock ==
  ASSUME CopyInv, [Next]_vars, NEW l \in Levels, NEW b \in Ids(l),
         <<l, b>> \notin dropped', ~Rewrites(l)
  PROVE  <<l, b>> \notin dropped /\ BlockOf(l, b)' = BlockOf(l, b)
<1>1. Copies(l) /\ Copies(l)'
  BY NextCopies DEF CopyInv
<1>2. PICK q \in Places(l) : View(l)'[q].id = b /\ BlockOf(l, b)' = View(l)'[q]
  BY <1>1, BlockPlaceNext
<1>3. CASE Moves(l)
  <2>1. <<l, b>> \notin dropped
    BY <1>3 DEF Moves
  <2>2. PICK p \in Places(l) : /\ View(l)[p].id = b /\ BlockOf(l, b) = View(l)[p]
                               /\ \A r \in Places(l) : View(l)[r].id = b => r = p
    BY <1>1, <2>1, BlockPlace
  <2>3. View(l)'[q] \in Stored(l, View(l))
    BY <1>3 DEF Moves, Stored
  <2>4. View(l)'[q] = View(l)[p]
    BY <1>2, <2>2, <2>3 DEF Stored
  <2> QED BY <1>2, <2>1, <2>2, <2>4
<1>4. CASE Loses(l)
  <2>1. PICK a \in Places(l) :
          /\ View(l)' = [View(l) EXCEPT ![a] = Dummy]
          /\ dropped' = IF View(l)[a].id > gN THEN dropped
                        ELSE dropped \cup {<<l, View(l)[a].id>>}
    BY <1>4 DEF Loses
  <2>2. <<l, b>> \notin dropped
    BY <2>1
  <2>3. q # a /\ View(l)'[q] = View(l)[q]
    <3>1. DOMAIN View(l) = Places(l)
      BY DEF View
    <3>2. View(l)'[a] = Dummy
      BY <2>1, <3>1
    <3> QED BY <1>2, <2>1, <3>1, <3>2, SlotById
  <2>4. PICK p \in Places(l) : /\ View(l)[p].id = b /\ BlockOf(l, b) = View(l)[p]
                               /\ \A r \in Places(l) : View(l)[r].id = b => r = p
    BY <1>1, <2>2, BlockPlace
  <2> QED BY <1>2, <2>2, <2>3, <2>4
<1> QED BY <1>3, <1>4, StepView

(* The scan changes the requested block, if the stash holds it. *)
LEMMA ScanRewritesBlock ==
  ASSUME CopyInv, NEW l \in Levels, l = level, NEW b \in Ids(l), <<l, b>> \notin dropped',
         OAssignNewLabelToBlock \/ PerformAccessOperation
  PROVE  /\ <<l, b>> \notin dropped
         /\ BlockOf(l, b)' = IF b = ids[l] /\ \E k \in StashSlots : Holds(k, b)
                             THEN Scanned(BlockOf(l, b)) ELSE BlockOf(l, b)
<1>1. Rewrites(l) /\ [Next]_vars
  BY RewriteView DEF Next, Step, Serve
<1>2. Copies(l) /\ Copies(l)' /\ <<l, b>> \notin dropped /\ TypeOK
  BY <1>1, NextCopies DEF CopyInv, Rewrites, FlagsInv
<1>3. PICK p \in Places(l) : /\ View(l)[p].id = b /\ BlockOf(l, b) = View(l)[p]
                             /\ \A r \in Places(l) : View(l)[r].id = b => r = p
  BY <1>2, BlockPlace
<1>4. PICK q \in Places(l) : /\ View(l)'[q].id = b /\ BlockOf(l, b)' = View(l)'[q]
                             /\ \A r \in Places(l) : View(l)'[r].id = b => r = q
  BY <1>2, BlockPlaceNext
<1>5. View(l)'[p] = IF p[1] = "stash" /\ View(l)[p].id = ids[l]
                    THEN Scanned(View(l)[p]) ELSE View(l)[p]
  BY <1>1 DEF Rewrites
<1>6. View(l)'[p].id = b
  <2>1. View(l)[p] \in Block(level)
    BY <1>2, <1>3, ViewType, SlotById
  <2> QED BY <1>3, <1>5, <2>1, ScannedId
<1>7. p = q
  BY <1>4, <1>6
<1>8. p[1] = "stash" <=> \E k \in StashSlots : Holds(k, b)
  <2>1. \A k \in StashSlots : View(l)[<<"stash", k, 0>>] = stash[l][k]
    <3>1. ~Optimized /\ FlagsInv
      BY DEF OAssignNewLabelToBlock, PerformAccessOperation, CopyInv
    <3>2. \A k \in StashSlots : ~discard_block[l][k]
      BY <3>1 DEF FlagsInv
    <3> QED BY <3>2, ViewSlots
  <2>2. ASSUME NEW k \in StashSlots, Holds(k, b) PROVE p[1] = "stash"
    <3>1. <<"stash", k, 0>> \in Places(l)
      BY PlaceKinds
    <3>2. <<"stash", k, 0>> = p
      BY <1>3, <2>1, <2>2, <3>1 DEF Holds
    <3> QED BY <3>2
  <2>3. ASSUME p[1] = "stash" PROVE \E k \in StashSlots : Holds(k, b)
    <3>1. PICK k \in StashSlots : p = <<"stash", k, 0>>
      BY <2>3, PlaceKinds
    <3> QED BY <1>3, <2>1, <3>1 DEF Holds
  <2> QED BY <2>2, <2>3
<1> QED BY <1>2, <1>3, <1>4, <1>5, <1>7, <1>8

-----------------------------------------------------------------------------
(* What leads to a block: itself, and what leads to the block that holds   *)
(* its label.                                                              *)
LEMMA Leads ==
  ASSUME NEW l \in Levels, NEW b \in Ids(l)
  PROVE  /\ <<l, b>> \in LeadsTo(l, b)
         /\ l > 1 => LeadsTo(l - 1, b \div x) \subseteq LeadsTo(l, b)
<1>1. l \in Nat /\ l >= 1 /\ b \in Nat /\ x \in Nat \ {0}
  BY Ranges, LevelsAssumption DEF Levels
<1>2. b \div x ^ (l - l) = b
  <2>1. l - l = 0 /\ x ^ (l - l) = 1
    BY <1>1, PowerAssumption
  <2>2. b \div 1 = b
    BY <1>1
  <2> QED BY <2>1, <2>2
<1>3. ASSUME l > 1, NEW m \in 1 .. l - 1
      PROVE  (b \div x) \div x ^ ((l - 1) - m) = b \div x ^ (l - m)
  <2> DEFINE i == l - m
  <2>1. i \in Levels /\ (l - 1) - m = i - 1
    BY <1>1, <1>3, LevelsAssumption DEF Levels
  <2>2. x ^ (i - 1) \in Nat \ {0} /\ x ^ i = x * x ^ (i - 1)
    BY <2>1, PowerAssumption
  <2>3. (b \div x) \div x ^ (i - 1) = b \div (x * x ^ (i - 1))
    BY <1>1, <2>2, DivDiv
  <2> QED BY <2>1, <2>2, <2>3
<1>4. ASSUME l > 1, NEW d \in LeadsTo(l - 1, b \div x) PROVE d \in LeadsTo(l, b)
  <2>1. PICK m \in 1 .. l - 1 : d = <<m, (b \div x) \div x ^ ((l - 1) - m)>>
    BY <1>4 DEF LeadsTo
  <2>2. m \in 1 .. l /\ d = <<m, b \div x ^ (l - m)>>
    BY <1>1, <1>3, <1>4, <2>1
  <2> QED BY <2>2 DEF LeadsTo
<1> QED BY <1>1, <1>2, <1>4 DEF LeadsTo

(* A block that is not lost was not dropped, nor was any block that leads  *)
(* to it.                                                                  *)
LEMMA NotLost ==
  ASSUME NEW l \in Levels, NEW b \in Ids(l), ~Lost(l, b)
  PROVE  /\ <<l, b>> \notin dropped
         /\ l > 1 => /\ l - 1 \in Levels /\ b \div x \in Ids(l - 1)
                     /\ ~Lost(l - 1, b \div x) /\ <<l - 1, b \div x>> \notin dropped
<1>1. <<l, b>> \notin dropped
  BY Leads DEF Lost
<1>2. ASSUME l > 1
      PROVE  /\ l - 1 \in Levels /\ b \div x \in Ids(l - 1)
             /\ ~Lost(l - 1, b \div x) /\ <<l - 1, b \div x>> \notin dropped
  <2>1. l - 1 \in Levels /\ b \div x \in Ids(l - 1)
    BY <1>2, Ranges, EntryHolder
  <2>2. ~Lost(l - 1, b \div x)
    BY <1>2, Leads DEF Lost
  <2> QED BY <2>1, <2>2, Leads DEF Lost
<1> QED BY <1>1, <1>2

(* Nothing is found again. *)
LEMMA StillLost ==
  ASSUME [Next]_vars, NEW l, NEW b, ~Lost(l, b)'
  PROVE  ~Lost(l, b)
<1>1. dropped \subseteq dropped'
  BY DEF Next, Request, Access_temp, Step, Descend, LookupPosmap, ReadBucketsFromPath,
     Push, pass_insert, pass_insert_full, Serve, OAssignNewLabelToBlock,
     OAssignNewLabelToBlockOptimized, PerformAccessOperation,
     PerformOptimizedAccessOperation, Rebuild, MoveToBucket, NextBucket, uploadPath,
     clear, ReturnOptimized, vars
<1> QED BY <1>1 DEF Lost

-----------------------------------------------------------------------------
(* Labels match their records, and so the requested block is found.        *)
LabelInv == CopyInv /\ OnPathInv /\ LabelsMatch

(* The block that the access looks for is in the stash when it is scanned: *)
(* its label is the leaf of the path that was read.                        *)
LEMMA Found ==
  ASSUME LabelInv, phase = "push", PathEmpty, ~Optimized, ~Lost(level, ids[level])
  PROVE  \E k \in StashSlots : Holds(k, ids[level])
<1> DEFINE l == level
           b == ids[level]
<1>1. l \in Levels /\ b \in Ids(l) /\ FlagsInv
  BY DEF LabelInv, CopyInv, OnPathInv, TypeOK, RequestTypeOK
<1>2. <<l, b>> \notin dropped /\ Copies(l)
  BY <1>1, NotLost DEF LabelInv, CopyInv
<1>3. PICK p \in Places(l) : View(l)[p].id = b /\ BlockOf(l, b) = View(l)[p]
  BY <1>1, <1>2, BlockPlace
<1>4. Awaiting(l, b)
  BY DEF Awaiting
<1>5. View(l)[p].label = leaf
  BY <1>1, <1>3, <1>4 DEF LabelInv, LabelsMatch
<1>6. Rebuilding(l) /\ Dummy.id \notin Ids(l)
  BY <1>1, SlotById DEF Rebuilding
<1>7. ~ \E n \in Nodes(l), s \in BucketSlots : p = <<"tree", n, s>>
  <2> SUFFICES ASSUME NEW n \in Nodes(l), NEW s \in BucketSlots, p = <<"tree", n, s>>
               PROVE  FALSE
    OBVIOUS
  <2>1. /\ View(l)[p] = tree[l][n][s]
        /\ ~ \E i \in Depths(l) : n = Node(l, leaf, i)
    BY <1>1, <1>3, <1>6, ViewSlots
  <2>2. \E i \in Depths(l) : n = Node(l, tree[l][n][s].label, i)
    BY <1>1, <1>3, <2>1 DEF LabelInv, OnPathInv, OnPath
  <2> QED BY <1>5, <2>1, <2>2
<1>8. ~ \E i \in Depths(l), s \in BucketSlots : p = <<"path", i, s>>
  <2> SUFFICES ASSUME NEW i \in Depths(l), NEW s \in BucketSlots, p = <<"path", i, s>>
               PROVE  FALSE
    OBVIOUS
  <2>1. View(l)[p].id = gN
    BY <1>6, ViewSlots DEF PathEmpty, isBlockDummy
  <2> QED BY <1>1, <1>3, <2>1, Ranges
<1>9. PICK k \in StashSlots : p = <<"stash", k, 0>>
  BY <1>7, <1>8, PlaceKinds
<1>10. View(l)[p] = stash[l][k]
  <2>1. ~discard_block[l][k]
    BY <1>1 DEF FlagsInv
  <2> QED BY <1>9, <2>1, ViewSlots
<1> QED BY <1>3, <1>10 DEF Holds

(* What a step that is no scan of the stash keeps of the labels: all but   *)
(* the label on record that LookupPosmap replaces.                         *)
LEMMA StepKeepsLabels ==
  ASSUME LabelInv, [Next]_vars, NEW l \in Levels, NEW b \in Ids(l), ~Lost(l, b)',
         ~OAssignNewLabelToBlock, ~PerformAccessOperation
  PROVE  /\ BlockOf(l, b)' = BlockOf(l, b)
         /\ (l > 1 \/ posmap'[b] = posmap[b]) => RecordedLabel(l, b)' = RecordedLabel(l, b)
<1>1. ~Lost(l, b) /\ CopyInv
  BY StillLost DEF LabelInv
<1>2. <<l, b>> \notin dropped' /\ (l > 1 => <<l - 1, b \div x>> \notin dropped')
  <2>1. l > 1 => l - 1 \in Levels /\ b \div x \in Ids(l - 1)
    BY Ranges, EntryHolder
  <2> QED BY <2>1, Leads DEF Lost
<1>3. BlockOf(l, b)' = BlockOf(l, b)
  BY <1>1, <1>2, StepKeepsBlock DEF Rewrites
<1>4. CASE l > 1
  <2>1. l - 1 \in Levels /\ b \div x \in Ids(l - 1) /\ l # 1
    BY <1>4, Ranges, EntryHolder
  <2>2. BlockOf(l - 1, b \div x)' = BlockOf(l - 1, b \div x)
    BY <1>1, <1>2, <1>4, <2>1, StepKeepsBlock DEF Rewrites
  <2> QED BY <1>3, <2>1, <2>2 DEF RecordedLabel
<1>5. CASE ~(l > 1)
  <2>1. l = 1
    BY <1>5, Ranges DEF Levels
  <2> QED BY <1>3, <2>1 DEF RecordedLabel
<1> QED BY <1>4, <1>5

(* The scan gives the requested block the label on record for it; what it  *)
(* keeps.                                                                  *)
LEMMA ScanKeepsBlock ==
  ASSUME LabelInv, NEW l \in Levels, NEW b \in Ids(l), <<l, b>> \notin dropped',
         OAssignNewLabelToBlock \/ PerformAccessOperation,
         l # level \/ b # ids[l]
  PROVE  BlockOf(l, b)' = BlockOf(l, b)
<1>1. CopyInv /\ [Next]_vars
  BY DEF LabelInv, Next, Step, Serve
<1>2. CASE l = level
  BY <1>1, <1>2, ScanRewritesBlock
<1>3. CASE l # level
  BY <1>1, <1>3, StepKeepsBlock DEF Rewrites
<1> QED BY <1>2, <1>3

(* The scan of a stash finds the requested block and rewrites it as the    *)
(* code does.                                                              *)
LEMMA ScanRelabels ==
  ASSUME LabelInv, OAssignNewLabelToBlock \/ PerformAccessOperation,
         ~Lost(level, ids[level])'
  PROVE  /\ BlockOf(level, ids[level])' = Scanned(BlockOf(level, ids[level]))
         /\ \E k \in StashSlots : Holds(k, ids[level])
         /\ BlockOf(level, ids[level]) \in Block(level)
<1>1. CopyInv /\ [Next]_vars /\ level \in Levels /\ ids[level] \in Ids(level)
  BY DEF LabelInv, Next, Step, Serve, OnPathInv, TypeOK, RequestTypeOK
<1>2. UNCHANGED <<level, ids, dropped>> /\ phase = "push" /\ PathEmpty /\ ~Optimized
  BY DEF OAssignNewLabelToBlock, PerformAccessOperation
<1>3. ~Lost(level, ids[level]) /\ <<level, ids[level]>> \notin dropped'
  BY <1>1, <1>2, NotLost DEF Lost
<1>4. \E k \in StashSlots : Holds(k, ids[level])
  BY <1>2, <1>3, Found
<1>5. ASSUME NEW l \in Levels, l = level, NEW b \in Ids(l), b = ids[l]
      PROVE  BlockOf(l, b)' = Scanned(BlockOf(l, b)) /\ BlockOf(l, b) \in Block(l)
  BY <1>1, <1>2, <1>3, <1>4, <1>5, ScanRewritesBlock, BlockType
<1>6. PICK l \in Levels : l = level
  BY <1>1
<1>7. PICK b \in Ids(l) : b = ids[level]
  BY <1>1, <1>6
<1>8. BlockOf(level, ids[level])' = BlockOf(l, b)'
  BY <1>2, <1>6, <1>7
<1> QED BY <1>4, <1>5, <1>6, <1>7, <1>8

(* Outside a 'z' request, what the stash holds is the block itself.        *)
LEMMA HolderIs ==
  ASSUME CopyInv, ~Optimized, NEW b \in Ids(level), NEW k \in StashSlots, Holds(k, b)
  PROVE  /\ stash[level][k] = BlockOf(level, b)
         /\ \A j \in StashSlots : Holds(j, b) => j = k
         /\ LastHolder(k, b) /\ \A j \in StashSlots : LastHolder(j, b) => j = k
<1> DEFINE l == level
<1>1. l \in Levels /\ FlagsInv /\ Copies(l)
  BY DEF CopyInv, FlagsInv, TypeOK, RequestTypeOK
<1>2. \A j \in StashSlots : /\ View(l)[<<"stash", j, 0>>] = stash[l][j]
                            /\ <<"stash", j, 0>> \in Places(l)
  <2> TAKE j \in StashSlots
  <2>1. ~discard_block[l][j]
    BY <1>1 DEF FlagsInv
  <2> QED BY <2>1, ViewSlots, PlaceKinds
<1>3. <<l, b>> \notin dropped
  BY <1>1, <1>2 DEF Copies, OnceOrIn, Has, Holds
<1>4. PICK p \in Places(l) : /\ View(l)[p].id = b /\ BlockOf(l, b) = View(l)[p]
                             /\ \A q \in Places(l) : View(l)[q].id = b => q = p
  BY <1>1, <1>3, BlockPlace
<1>5. \A j \in StashSlots : Holds(j, b) => <<"stash", j, 0>> = p
  BY <1>2, <1>4 DEF Holds
<1>6. \A j \in StashSlots : Holds(j, b) => j = k
  BY <1>5
<1>7. StashSlots \subseteq Int
  BY LevelsAssumption DEF StashSlots
<1>8. LastHolder(k, b)
  BY <1>6, <1>7 DEF LastHolder
<1> QED BY <1>2, <1>4, <1>5, <1>6, <1>8 DEF LastHolder

(* Different blocks with one holder have different entries in it. *)
LEMMA EntriesDiffer ==
  ASSUME NEW l \in Levels, NEW b \in Ids(l), NEW c \in Ids(l),
         b \div x = c \div x, b % x = c % x
  PROVE  b = c
<1>1. b \in Nat /\ c \in Nat /\ x \in Nat \ {0}
  BY Ranges, LevelsAssumption
<1>2. b = x * (b \div x) + (b % x) /\ c = x * (c \div x) + (c % x)
  BY <1>1
<1> QED BY <1>2

(* The recorded labels after OAssignNewLabelToBlock. *)
LEMMA OAssignLabels ==
  ASSUME LabelInv, OAssignNewLabelToBlock, NEW l \in Levels, NEW b \in Ids(l), ~Lost(l, b)'
  PROVE  IF l = level + 1 /\ b = ids[l]
         THEN nextLeaf' = RecordedLabel(l, b) /\ RecordedLabel(l, b)' = newleaf_nextlevel'
         ELSE RecordedLabel(l, b)' = RecordedLabel(l, b)
<1>1. /\ CopyInv /\ [Next]_vars /\ TypeOK /\ level \in Levels /\ ids[level] \in Ids(level)
      /\ IdsChain
  BY DEF LabelInv, CopyInv, Next, Step, Serve, OnPathInv, TypeOK, RequestTypeOK
<1>2. /\ UNCHANGED <<level, ids, dropped, posmap>> /\ phase = "push" /\ ~Optimized
      /\ level < recursion_levels /\ nextLeaf' = EntryRead(ids[level + 1] % x)
      /\ newleaf_nextlevel' \in Leaves(level + 1)
  BY DEF OAssignNewLabelToBlock
<1>3. CASE ~(l > 1)
  <2>1. l = 1 /\ l # level + 1
    BY <1>1, <1>3, Ranges DEF Levels
  <2> QED BY <1>2, <2>1 DEF RecordedLabel
<1>4. CASE l > 1
  <2> DEFINE h == b \div x
  <2>1. /\ l - 1 \in Levels /\ h \in Ids(l - 1) /\ ~Lost(l - 1, h)' /\ l # 1
        /\ <<l - 1, h>> \notin dropped'
    <3>1. ~Lost(l, b)
      BY <1>1, StillLost
    <3>2. /\ l - 1 \in Levels /\ h \in Ids(l - 1) /\ ~Lost(l - 1, h)
          /\ <<l - 1, h>> \notin dropped
      BY <1>4, <3>1, NotLost
    <3>3. ~Lost(l - 1, h)'
      BY <1>2, <3>2 DEF Lost
    <3> QED BY <1>2, <1>4, <3>2, <3>3
  <2>2. /\ RecordedLabel(l, b) = BlockOf(l - 1, h).data[b % x]
        /\ RecordedLabel(l, b)' = BlockOf(l - 1, h)'.data[b % x]
    BY <2>1 DEF RecordedLabel
  <2>3. CASE l - 1 # level \/ h # ids[l - 1]
    <3>1. BlockOf(l - 1, h)' = BlockOf(l - 1, h)
      BY <2>1, <2>3, ScanKeepsBlock
    <3>2. ~(l = level + 1 /\ b = ids[l])
      <4> SUFFICES ASSUME l = level + 1, b = ids[l] PROVE FALSE
        OBVIOUS
      <4>1. l - 1 = level
        BY <1>1, Ranges
      <4>2. ids[l - 1] = ids[l] \div x
        BY <1>1, <1>2, <1>4 DEF IdsChain
      <4> QED BY <2>3, <4>1, <4>2
    <3> QED BY <2>2, <3>1, <3>2
  <2>4. CASE l - 1 = level /\ h = ids[l - 1]
    <3> DEFINE v == BlockOf(level, ids[level])
               p == ids[level + 1] % x
    <3>1. l = level + 1 /\ level # recursion_levels
      BY <1>1, <1>2, <2>4, Ranges
    <3>2. /\ BlockOf(level, ids[level])' = Scanned(v) /\ v \in Block(level)
          /\ \E k \in StashSlots : Holds(k, ids[level])
      <4>1. ~Lost(level, ids[level])'
        BY <1>2, <2>1, <2>4 DEF Lost
      <4> QED BY <4>1, ScanRelabels
    <3>3. BlockOf(l - 1, h) = v /\ BlockOf(l - 1, h)' = Scanned(v)
      <4>1. BlockOf(l - 1, h)' = BlockOf(level, ids[level])'
        BY <1>2, <2>4
      <4> QED BY <2>4, <3>2, <4>1
    <3>4. Scanned(v) = [v EXCEPT !.label = newleaf, !.data[p] = newleaf_nextlevel']
      BY <3>1 DEF Scanned, Relabelled
    <3>5. v.data \in [Positions -> Leaves(level + 1)] /\ b % x \in Positions /\ p \in Positions
      BY <1>1, <3>1, <3>2, EntryPosition DEF Block, Data, TypeOK, RequestTypeOK
    <3>6. Scanned(v).data = [v.data EXCEPT ![p] = newleaf_nextlevel']
      BY <3>2, <3>4 DEF Block
    <3>7. CASE b = ids[l]
      <4>1. b % x = p
        BY <3>1, <3>7
      <4>2. RecordedLabel(l, b)' = newleaf_nextlevel'
        BY <2>2, <3>3, <3>5, <3>6, <4>1
      <4>3. EntryRead(p) = v.data[p]
        <5>1. PICK k \in StashSlots : Holds(k, ids[level])
          BY <3>2
        <5>2. /\ stash[level][k] = v /\ LastHolder(k, ids[level])
              /\ \A j \in StashSlots : LastHolder(j, ids[level]) => j = k
          BY <1>1, <1>2, <5>1, HolderIs
        <5>3. (CHOOSE j \in StashSlots : LastHolder(j, ids[level])) = k
          BY <5>2
        <5> QED BY <5>2, <5>3 DEF EntryRead
      <4> QED BY <1>2, <2>2, <3>1, <3>3, <3>7, <4>1, <4>2, <4>3
    <3>8. CASE b # ids[l]
      <4>1. b % x # p
        <5>1. ids[l] \in Ids(l) /\ ids[l] \div x = h
          <6>1. ids[l - 1] = ids[l] \div x
            BY <1>1, <1>2, <1>4 DEF IdsChain
          <6> QED BY <1>1, <2>4, <6>1 DEF TypeOK, RequestTypeOK
        <5> QED BY <3>1, <3>8, <5>1, EntriesDiffer
      <4> QED BY <2>2, <3>3, <3>5, <3>6, <3>8, <4>1
    <3> QED BY <3>7, <3>8
  <2> QED BY <2>3, <2>4
<1> QED BY <1>3, <1>4

(* Every step keeps the labels matched. *)
LEMMA NextLabels == LabelInv /\ [Next]_vars => LabelsMatch'
<1> SUFFICES ASSUME LabelInv, [Next]_vars, NEW l \in Levels, NEW b \in Ids(l), ~Lost(l, b)'
             PROVE  (IF Awaiting(l, b)
                     THEN /\ BlockOf(l, b).label = IF l = level THEN leaf ELSE nextLeaf
                          /\ RecordedLabel(l, b) = IF l = level THEN newleaf
                                                               ELSE newleaf_nextlevel
                     ELSE BlockOf(l, b).label = RecordedLabel(l, b))'
  BY DEF LabelsMatch
<1>1. IF Awaiting(l, b)
      THEN /\ BlockOf(l, b).label = IF l = level THEN leaf ELSE nextLeaf
           /\ RecordedLabel(l, b) = IF l = level THEN newleaf ELSE newleaf_nextlevel
      ELSE BlockOf(l, b).label = RecordedLabel(l, b)
  BY StillLost DEF LabelInv, LabelsMatch
<1>2. /\ TypeOK /\ level \in Levels /\ Levels \subseteq Nat
      /\ DOMAIN ids = Levels /\ ids[level] \in Ids(level)
  BY Ranges DEF LabelInv, OnPathInv, TypeOK, RequestTypeOK
<1>3. ~OAssignNewLabelToBlock /\ ~PerformAccessOperation =>
        /\ BlockOf(l, b)' = BlockOf(l, b)
        /\ (l > 1 \/ posmap'[b] = posmap[b]) => RecordedLabel(l, b)' = RecordedLabel(l, b)
  BY StepKeepsLabels
<1>4. ASSUME ~OAssignNewLabelToBlock, ~PerformAccessOperation, posmap' = posmap,
             ~Awaiting(l, b), ~Awaiting(l, b)'
      PROVE  (BlockOf(l, b).label = RecordedLabel(l, b))'
  BY <1>1, <1>3, <1>4
<1>5. ASSUME NEW op, NEW id, NEW val, Access_temp(op, id, val)
      PROVE  /\ ~OAssignNewLabelToBlock /\ ~PerformAccessOperation /\ posmap' = posmap
             /\ ~Awaiting(l, b) /\ ~Awaiting(l, b)'
  BY <1>5 DEF Access_temp, OAssignNewLabelToBlock, PerformAccessOperation, store, Awaiting
<1>6. CASE Descend \/ clear \/ ReturnOptimized \/ OAssignNewLabelToBlockOptimized
           \/ PerformOptimizedAccessOperation
  <2>1. /\ ~OAssignNewLabelToBlock /\ ~PerformAccessOperation /\ posmap' = posmap
        /\ ~Awaiting(l, b) /\ ~Awaiting(l, b)'
    BY <1>6 DEF Descend, clear, ReturnOptimized, OAssignNewLabelToBlockOptimized,
       PerformOptimizedAccessOperation, OAssignNewLabelToBlock, PerformAccessOperation,
       store, Awaiting, Optimized
  <2> QED BY <1>4, <2>1
<1>7. CASE LookupPosmap
  <2>1. /\ ~OAssignNewLabelToBlock /\ ~PerformAccessOperation /\ ~Awaiting(l, b)
        /\ level = 1 /\ UNCHANGED <<level, ids, req>> /\ leaf' = posmap[ids[1]]
        /\ phase' = "read"
    BY <1>7 DEF LookupPosmap, OAssignNewLabelToBlock, PerformAccessOperation, Awaiting
  <2>2. CASE Optimized
    <3>1. posmap' = posmap /\ ~Awaiting(l, b)'
      BY <1>7, <2>1, <2>2 DEF LookupPosmap, Awaiting, Optimized
    <3> QED BY <1>4, <2>1, <3>1
  <2>3. CASE ~Optimized /\ l = 1 /\ b = ids[1]
    <3>1. Awaiting(l, b)'
      BY <2>1, <2>3 DEF Awaiting, Optimized
    <3>2. posmap'[b] = newleaf'
      <4>1. posmap' = [posmap EXCEPT ![ids[1]] = newleaf']
        BY <1>7, <2>3 DEF LookupPosmap
      <4>2. DOMAIN posmap = Ids(1) /\ b \in Ids(1)
        BY <1>2, <2>3 DEF TypeOK, StoreTypeOK
      <4> QED BY <2>3, <4>1, <4>2
    <3>3. RecordedLabel(l, b) = posmap[b] /\ RecordedLabel(l, b)' = posmap'[b]
      BY <2>3 DEF RecordedLabel
    <3> QED BY <1>1, <1>3, <2>1, <2>3, <3>1, <3>2, <3>3
  <2>4. CASE ~Optimized /\ ~(l = 1 /\ b = ids[1])
    <3>1. ~Awaiting(l, b)'
      BY <2>1, <2>4 DEF Awaiting
    <3>2. l > 1 \/ posmap'[b] = posmap[b]
      <4>1. l = 1 \/ l > 1
        BY DEF Levels
      <4>2. l = 1 => posmap'[b] = posmap[b]
        <5> SUFFICES ASSUME l = 1 PROVE posmap'[b] = posmap[b]
          OBVIOUS
        <5>1. posmap' = [posmap EXCEPT ![ids[1]] = newleaf']
          BY <1>7, <2>4 DEF LookupPosmap
        <5>2. DOMAIN posmap = Ids(1) /\ b \in Ids(1) /\ b # ids[1]
          BY <1>2, <2>4 DEF TypeOK, StoreTypeOK
        <5>3. posmap \in [Ids(1) -> Leaves(1)]
          BY <1>2 DEF TypeOK, StoreTypeOK
        <5> QED BY <5>1, <5>2, <5>3
      <4> QED BY <4>1, <4>2
    <3> QED BY <1>1, <1>3, <2>1, <3>1, <3>2
  <2> QED BY <2>2, <2>3, <2>4
<1>8. CASE ReadBucketsFromPath \/ Push \/ Rebuild \/ UNCHANGED vars
  <2>1. /\ ~OAssignNewLabelToBlock /\ ~PerformAccessOperation /\ posmap' = posmap
        /\ (Awaiting(l, b)' <=> Awaiting(l, b))
        /\ UNCHANGED <<level, leaf, nextLeaf, newleaf, newleaf_nextlevel>>
    <3>1. CASE ReadBucketsFromPath
      BY <3>1 DEF ReadBucketsFromPath, OAssignNewLabelToBlock, PerformAccessOperation,
         store, Awaiting, Optimized
    <3>2. CASE Push
      BY <3>2 DEF Push, pass_insert, pass_insert_full, OAssignNewLabelToBlock,
         PerformAccessOperation, store, Awaiting, Optimized
    <3>3. CASE Rebuild
      BY <3>3 DEF Rebuild, MoveToBucket, NextBucket, OAssignNewLabelToBlock,
         PerformAccessOperation, store, Awaiting, Optimized
    <3>4. CASE UNCHANGED vars
      BY <3>4 DEF vars, OAssignNewLabelToBlock, PerformAccessOperation, Awaiting, Optimized
    <3> QED BY <1>8, <3>1, <3>2, <3>3, <3>4
  <2> QED BY <1>1, <1>3, <2>1
<1>9. CASE uploadPath
  <2>1. /\ ~OAssignNewLabelToBlock /\ ~PerformAccessOperation /\ posmap' = posmap
        /\ phase = "upload" /\ UNCHANGED <<ids, req>> /\ ~Optimized
    BY <1>2, <1>9 DEF uploadPath, OAssignNewLabelToBlock, PerformAccessOperation,
       TypeOK, AccessTypeOK
  <2>2. CASE level = recursion_levels
    <3>1. ~Awaiting(l, b)'
      BY <1>9, <2>2 DEF uploadPath, Awaiting
    <3>2. ~Awaiting(l, b)
      BY <2>1, <2>2, LevelsAssumption DEF Awaiting, Levels
    <3> QED BY <1>4, <2>1, <3>1, <3>2
  <2>3. CASE level # recursion_levels
    <3>1. /\ phase' = "read" /\ level' = level + 1
          /\ leaf' = nextLeaf /\ newleaf' = newleaf_nextlevel
      BY <1>9, <2>3 DEF uploadPath
    <3>2. (Awaiting(l, b) => l = level + 1) /\ (Awaiting(l, b)' <=> Awaiting(l, b))
      BY <2>1, <3>1 DEF Awaiting, Optimized
    <3>3. level + 1 # level
      BY <1>2
    <3> QED BY <1>1, <1>3, <2>1, <3>1, <3>2, <3>3
  <2> QED BY <2>2, <2>3
<1>10. ASSUME OAssignNewLabelToBlock \/ PerformAccessOperation,
              RecordedLabel(l, b)' = RecordedLabel(l, b), ~Awaiting(l, b)'
       PROVE  (BlockOf(l, b).label = RecordedLabel(l, b))'
  <2>1. /\ UNCHANGED <<level, ids, dropped>> /\ phase = "push" /\ ~Optimized
    BY <1>10 DEF OAssignNewLabelToBlock, PerformAccessOperation
  <2>2. CASE l = level /\ b = ids[l]
    <3>1. Awaiting(l, b)
      BY <2>1, <2>2 DEF Awaiting
    <3>2. RecordedLabel(l, b) = newleaf
      BY <1>1, <2>2, <3>1
    <3>3. ~Lost(level, ids[level])'
      BY <2>1, <2>2
    <3>4. /\ BlockOf(level, ids[level])' = Scanned(BlockOf(level, ids[level]))
          /\ BlockOf(level, ids[level]) \in Block(level)
      BY <1>10, <3>3, ScanRelabels
    <3>5. Scanned(BlockOf(level, ids[level])).label = newleaf
      BY <3>4 DEF Scanned, Accessed, Relabelled, Block
    <3>6. BlockOf(l, b)' = BlockOf(level, ids[level])'
      BY <2>1, <2>2
    <3> QED BY <1>10, <3>2, <3>4, <3>5, <3>6
  <2>3. CASE l # level \/ b # ids[l]
    <3>1. <<l, b>> \notin dropped'
      BY Leads DEF Lost
    <3>2. BlockOf(l, b)' = BlockOf(l, b)
      BY <1>10, <2>3, <3>1, ScanKeepsBlock
    <3>3. ~Awaiting(l, b)
      BY <2>1, <2>3 DEF Awaiting
    <3> QED BY <1>1, <1>10, <3>2, <3>3
  <2> QED BY <2>2, <2>3
<1>11. CASE PerformAccessOperation
  <2>1. /\ UNCHANGED <<level, ids, posmap, dropped>> /\ phase' = "rebuild"
        /\ level = recursion_levels
    BY <1>11 DEF PerformAccessOperation
  <2>2. ~Awaiting(l, b)'
    BY <2>1, LevelsAssumption DEF Awaiting, Levels
  <2>3. RecordedLabel(l, b)' = RecordedLabel(l, b)
    <3>1. CASE l = 1
      BY <2>1, <3>1 DEF RecordedLabel
    <3>2. CASE l # 1
      <4>1. l > 1 /\ l - 1 # level
        BY <2>1, <3>2, LevelsAssumption DEF Levels
      <4>2. /\ l - 1 \in Levels /\ b \div x \in Ids(l - 1)
            /\ <<l - 1, b \div x>> \notin dropped'
        BY <2>1, <4>1, StillLost, NotLost
      <4>3. BlockOf(l - 1, b \div x)' = BlockOf(l - 1, b \div x)
        BY <1>11, <4>1, <4>2, ScanKeepsBlock
      <4> QED BY <3>2, <4>3 DEF RecordedLabel
    <3> QED BY <3>1, <3>2
  <2> QED BY <1>10, <1>11, <2>2, <2>3
<1>12. CASE OAssignNewLabelToBlock
  <2>1. /\ UNCHANGED <<level, ids>> /\ phase = "push" /\ phase' = "rebuild"
        /\ ~Optimized /\ ~Optimized'
    BY <1>12 DEF OAssignNewLabelToBlock, Optimized
  <2>2. Awaiting(l, b)' <=> l = level + 1 /\ b = ids[l]
    BY <2>1 DEF Awaiting
  <2>3. CASE l = level + 1 /\ b = ids[l]
    <3>1. nextLeaf' = RecordedLabel(l, b) /\ RecordedLabel(l, b)' = newleaf_nextlevel'
      BY <1>12, <2>3, OAssignLabels
    <3>2. l # level
      BY <1>2, <2>3
    <3>3. <<l, b>> \notin dropped'
      BY Leads DEF Lost
    <3>4. BlockOf(l, b)' = BlockOf(l, b)
      BY <1>12, <3>2, <3>3, ScanKeepsBlock
    <3>5. ~Awaiting(l, b)
      BY <2>1, <3>2 DEF Awaiting
    <3> QED BY <1>1, <2>1, <2>2, <2>3, <3>1, <3>2, <3>4, <3>5
  <2>4. CASE ~(l = level + 1 /\ b = ids[l])
    <3>1. RecordedLabel(l, b)' = RecordedLabel(l, b)
      BY <1>12, <2>4, OAssignLabels
    <3> QED BY <1>10, <1>12, <2>2, <2>4, <3>1
  <2> QED BY <2>3, <2>4
<1>13. CASE Request
  BY <1>4, <1>5, <1>13 DEF Request
<1> QED
  BY <1>6, <1>7, <1>8, <1>9, <1>11, <1>12, <1>13 DEF Next, Step, Serve

(* The build stores every block with its label and its contents. *)
LEMMA BuiltBlockOf ==
  ASSUME Init, CopyInv, NEW l \in Levels, NEW b \in Ids(l)
  PROVE  BlockOf(l, b) = [id |-> b, label |-> BuildLabel(l, b), data |-> BuildData(l, b)]
<1> DEFINE p == <<"tree", Node(l, BuildLabel(l, b), 0), BuildSlot(l, b)>>
<1>1. p \in Places(l) /\ View(l)[p] = [id |-> b, label |-> BuildLabel(l, b),
                                        data |-> BuildData(l, b)]
  BY BuiltView
<1>2. <<l, b>> \notin dropped /\ Copies(l)
  BY DEF Init, CopyInv
<1>3. PICK q \in Places(l) : /\ View(l)[q].id = b /\ BlockOf(l, b) = View(l)[q]
                             /\ \A r \in Places(l) : View(l)[r].id = b => r = q
  BY <1>2, BlockPlace
<1>4. View(l)[p].id = b
  BY <1>1
<1> HIDE DEF p
<1>5. p = q
  BY <1>1, <1>3, <1>4
<1> QED BY <1>1, <1>3, <1>5 DEF p

(* The build records the label of every block where it puts it. *)
LEMMA InitLabels ==
  ASSUME InitDiscard = {FALSE}
  PROVE  Init => LabelInv
<1> SUFFICES ASSUME Init PROVE LabelsMatch
  BY InitCopies, InitOnPath DEF LabelInv
<1>1. CopyInv /\ dropped = {} /\ phase = "idle"
  BY InitCopies DEF Init
<1>2. ASSUME NEW l \in Levels, NEW b \in Ids(l)
      PROVE  BlockOf(l, b) = [id |-> b, label |-> BuildLabel(l, b), data |-> BuildData(l, b)]
  BY <1>1, BuiltBlockOf
<1>3. ASSUME NEW l \in Levels, NEW b \in Ids(l)
      PROVE  RecordedLabel(l, b) = BuildLabel(l, b)
  <2>1. CASE l = 1
    BY <2>1 DEF Init, RecordedLabel
  <2>2. CASE l # 1
    <3>1. l > 1 /\ l - 1 \in Levels /\ b \div x \in Ids(l - 1) /\ b % x \in Positions
      <4>1. l > 1
        BY <2>2 DEF Levels
      <4> QED BY <4>1, Ranges, EntryHolder, EntryPosition
    <3>2. l - 1 # recursion_levels /\ (l - 1) + 1 = l
      BY <3>1, LevelsAssumption DEF Levels
    <3>3. (b \div x) * x + (b % x) = b
      <4>1. b \in Nat /\ x \in Nat \ {0}
        BY Ranges, LevelsAssumption
      <4> QED BY <4>1
    <3>4. BuildData(l - 1, b \div x)[b % x] = BuildLabel(l, b)
      BY <3>1, <3>2, <3>3 DEF BuildData
    <3> QED BY <1>2, <2>2, <3>1, <3>4 DEF RecordedLabel
  <2> QED BY <2>1, <2>2
<1> QED BY <1>1, <1>2, <1>3 DEF LabelsMatch, Awaiting

(* The invariant is inductive. *)
LEMMA NextLabelInv == LabelInv /\ [Next]_vars => LabelInv'
BY NextCopyInv, NextOnPath, NextLabels DEF LabelInv

(* With the flags false at first, every block carries the label recorded   *)
(* for it one level down, and in between two accesses the one it is about  *)
(* to get is on record (LookupPosmap, OAssignNewLabelToBlock,              *)
(* PerformAccessOperation); what a full stash drops spoils only what is    *)
(* found through it.                                                       *)
THEOREM RecordsMatch ==
  ASSUME InitDiscard = {FALSE}
  PROVE  Spec => []LabelsMatch
<1>1. LabelInv => LabelsMatch
  BY DEF LabelInv
<1> QED BY InitLabels, NextLabelInv, <1>1, PTL DEF Spec

(* And the access always finds the block it is for: when the stash is      *)
(* scanned, the requested block is in it, unless a full stash has dropped  *)
(* it or a block that leads to it.                                         *)
THEOREM RequestedBlockFound ==
  ASSUME InitDiscard = {FALSE}
  PROVE  Spec => []RequestedBlockInStash
<1>1. LabelInv => RequestedBlockInStash
  BY Found DEF RequestedBlockInStash
<1> QED BY InitLabels, NextLabelInv, <1>1, PTL DEF Spec

-----------------------------------------------------------------------------
(* As long as the stash has room, the requests are answered as by an array *)
(* of blocks.                                                              *)

(* pass_insert finds a dummy slot for every block of the path. *)
RoomInStash == phase = "push" /\ ~PathEmpty => ~StashFull

(* What the access works on while it pushes a path to the stash is what is *)
(* stored, and the path is that of the block it looks for.  For a 'z'      *)
(* request Work counts its copies instead of the path they were copied     *)
(* from.                                                                   *)
PathIsRight ==
  /\ phase = "push" => /\ Single(level, Work(level))
                       /\ Stored(level, Work(level)) = Stored(level, View(level))
  /\ phase \in {"read", "push"} => leaf = BlockOf(level, ids[level]).label

ServeInv == LabelInv /\ OccupancyInv /\ dropped = {} /\ PathIsRight

(* With room in the stash nothing is dropped. *)
LEMMA RoomKeeps ==
  ASSUME RoomInStash, dropped = {}, [Next]_vars
  PROVE  dropped' = {} /\ \A i \in Depths(level), s \in BucketSlots : ~pass_insert_full(i, s)
<1>1. ASSUME NEW i \in Depths(level), NEW s \in BucketSlots PROVE ~pass_insert_full(i, s)
  BY DEF pass_insert_full, FirstOnPath, PathEmpty, RoomInStash
<1>2. dropped' = {}
  BY <1>1
     DEF Next, Request, Access_temp, Step, Descend, LookupPosmap, ReadBucketsFromPath,
     Push, pass_insert, Serve, OAssignNewLabelToBlock,
     OAssignNewLabelToBlockOptimized, PerformAccessOperation,
     PerformOptimizedAccessOperation, Rebuild, MoveToBucket, NextBucket, uploadPath,
     clear, ReturnOptimized, vars
<1> QED BY <1>1, <1>2

(* Then every block stays what it is, but for the scans of the stash. *)
LEMMA BlockStays ==
  ASSUME CopyInv, [Next]_vars, dropped' = {}, NEW l \in Levels, NEW b \in Ids(l),
         ~OAssignNewLabelToBlock, ~PerformAccessOperation
  PROVE  BlockOf(l, b)' = BlockOf(l, b)
BY StepKeepsBlock DEF Rewrites

(* The block that is looked for is in the stash, once, when it is scanned. *)
LEMMA Holder ==
  ASSUME ServeInv, phase = "push", PathEmpty
  PROVE  \E k \in StashSlots : /\ LastHolder(k, ids[level])
                               /\ stash[level][k] = BlockOf(level, ids[level])
                               /\ \A j \in StashSlots : LastHolder(j, ids[level]) => j = k
<1> DEFINE l == level
           b == ids[level]
<1>1. l \in Levels /\ b \in Ids(l) /\ Copies(l) /\ <<l, b>> \notin dropped
  BY DEF ServeInv, LabelInv, CopyInv, OnPathInv, TypeOK, RequestTypeOK
<1>2. PICK p \in Places(l) : /\ View(l)[p].id = b /\ BlockOf(l, b) = View(l)[p]
                             /\ \A q \in Places(l) : View(l)[q].id = b => q = p
  BY <1>1, BlockPlace
<1>3. PICK q \in Places(l) : Work(l)[q] = BlockOf(l, b)
  BY <1>2 DEF ServeInv, PathIsRight, Stored
<1>4. \A r \in Places(l) : Work(l)[r].id = b => r = q
  BY <1>1, <1>2, <1>3 DEF ServeInv, PathIsRight, Single
<1>5. Working(l) /\ Dummy.id \notin Ids(l) /\ Work(l)[q].label = leaf /\ Work(l)[q].id = b
  BY <1>1, <1>2, <1>3, SlotById DEF Working, ServeInv, PathIsRight
<1>6. ~ \E n \in Nodes(l), s \in BucketSlots : q = <<"tree", n, s>>
  <2> SUFFICES ASSUME NEW n \in Nodes(l), NEW s \in BucketSlots, q = <<"tree", n, s>>
               PROVE  FALSE
    OBVIOUS
  <2>1. /\ Work(l)[q] = tree[l][n][s]
        /\ ~ \E i \in Depths(l) : n = Node(l, leaf, i)
    BY <1>1, <1>5, WorkSlots
  <2>2. \E i \in Depths(l) : n = Node(l, tree[l][n][s].label, i)
    BY <1>1, <1>5, <2>1 DEF ServeInv, LabelInv, OnPathInv, OnPath
  <2> QED BY <1>5, <2>1, <2>2
<1>7. ~ \E i \in Depths(l), s \in BucketSlots : q = <<"path", i, s>>
  <2> SUFFICES ASSUME NEW i \in Depths(l), NEW s \in BucketSlots, q = <<"path", i, s>>
               PROVE  FALSE
    OBVIOUS
  <2>1. Work(l)[q].id = gN
    BY <1>5, WorkSlots DEF PathEmpty, isBlockDummy
  <2> QED BY <1>1, <1>5, <2>1, Ranges
<1>8. PICK k \in StashSlots : q = <<"stash", k, 0>>
  BY <1>6, <1>7, PlaceKinds
<1>9. \A j \in StashSlots : /\ Work(l)[<<"stash", j, 0>>] = stash[l][j]
                            /\ <<"stash", j, 0>> \in Places(l)
  BY WorkSlots, PlaceKinds
<1>10. stash[l][k] = BlockOf(l, b) /\ Holds(k, b)
  BY <1>3, <1>5, <1>8, <1>9 DEF Holds
<1>11. \A j \in StashSlots : Holds(j, b) => j = k
  <2> SUFFICES ASSUME NEW j \in StashSlots, Holds(j, b) PROVE j = k
    OBVIOUS
  <2>1. <<"stash", j, 0>> = q
    BY <1>4, <1>9 DEF Holds
  <2> QED BY <1>8, <2>1
<1>12. StashSlots \subseteq Int
  BY LevelsAssumption DEF StashSlots
<1>13. LastHolder(k, b)
  BY <1>10, <1>11, <1>12 DEF LastHolder
<1> QED BY <1>10, <1>11, <1>13 DEF LastHolder

(* Before it reads a path, an access works on what is stored. *)
LEMMA WorkBeforeRead ==
  ASSUME CopyInv, OccupancyInv, phase = "read", NEW l \in Levels, l = level
  PROVE  Work(l) = View(l)
<1>1. \A k \in StashSlots : ~discard_block[l][k]
  BY DEF OccupancyInv, FlagsInv, OccupancyNoted, PathRead, TypeOK, RequestTypeOK, Levels
<1>2. ~Working(l) /\ ~Rebuilding(l)
  BY DEF Working, Rebuilding
<1>3. \A p \in Places(l) : WorkAt(l, p) = SlotAt(l, p)
  BY <1>1, <1>2, PlaceKinds DEF WorkAt, SlotAt, OutOfDate
<1> QED BY <1>3 DEF Work, View

(* While the path is pushed to the stash, the working view holds the       *)
(* blocks of the stored view, each once.                                   *)
LEMMA NextPushWork ==
  ASSUME ServeInv, RoomInStash, [Next]_vars, phase' = "push", NEW l \in Levels, l = level,
         level' = level
  PROVE  Single(l, Work(l)') /\ Stored(l, Work(l)') = Stored(l, View(l)')
<1>1. /\ CopyInv /\ FlagsInv /\ TypeOK /\ Copies(l) /\ Single(l, View(l))
      /\ CopyInv' /\ FlagsInv' /\ Copies(l)'
  BY NextCopyInv, NextFlags DEF ServeInv, LabelInv, CopyInv, FlagsInv, Copies, OnceOrIn
<1>2. Single(l, View(l)')
  BY <1>1 DEF Copies, OnceOrIn
<1>3. CASE ~Optimized'
  BY <1>1, <1>2, <1>3, WorkIsViewNext
<1>4. CASE UNCHANGED vars
  <2>1. UNCHANGED <<tree, stash, path, leaf, level, phase>>
    BY <1>4 DEF vars
  <2>2. Work(l)' = Work(l)
    BY <2>1, SameWork DEF Working
  <2>3. View(l)' = View(l)
    BY <1>4, SameView
  <2> QED BY <2>1, <2>2, <2>3 DEF ServeInv, PathIsRight
<1>5. CASE Next /\ Optimized'
  <2>1. \/ ReadBucketsFromPath
        \/ \E i \in Depths(level), s \in BucketSlots, k \in StashSlots : pass_insert(i, s, k)
    BY <1>5, RoomKeeps
       DEF ServeInv, Next, Request, Access_temp, Step, Descend, LookupPosmap,
       Push, Serve, OAssignNewLabelToBlock,
       OAssignNewLabelToBlockOptimized, PerformAccessOperation,
       PerformOptimizedAccessOperation, Rebuild, MoveToBucket, NextBucket, uploadPath,
       clear, ReturnOptimized
  <2>2. Optimized /\ phase # "idle"
    BY <1>5, <2>1 DEF ReadBucketsFromPath, pass_insert, Optimized
  <2>3. View(l)' = View(l)
    BY <1>1, <1>5, <2>2, OptimizedView
  <2>4. CASE ReadBucketsFromPath
    <3>1. Work(l) = View(l)
      BY <1>1, <2>4, WorkBeforeRead DEF ReadBucketsFromPath, ServeInv
    <3> QED BY <1>1, <2>3, <2>4, <3>1, FetchWork
  <2>5. ASSUME NEW i \in Depths(level), NEW s \in BucketSlots, NEW k \in StashSlots,
               pass_insert(i, s, k)
        PROVE  Single(l, Work(l)') /\ Stored(l, Work(l)') = Stored(l, View(l)')
    <3>1. Single(l, Work(l)) /\ Stored(l, Work(l)) = Stored(l, View(l))
      BY <2>5 DEF pass_insert, ServeInv, PathIsRight
    <3>2. i \in Depths(l)
      OBVIOUS
    <3> QED BY <1>1, <2>3, <2>5, <3>1, <3>2, PushWork
  <2> QED BY <2>1, <2>4, <2>5
<1> QED BY <1>3, <1>4, <1>5

(* Without dropped blocks, every label matches. *)
LEMMA Matched ==
  ASSUME ServeInv, NEW l \in Levels, NEW b \in Ids(l)
  PROVE  IF Awaiting(l, b)
         THEN /\ BlockOf(l, b).label = IF l = level THEN leaf ELSE nextLeaf
              /\ RecordedLabel(l, b) = IF l = level THEN newleaf ELSE newleaf_nextlevel
         ELSE BlockOf(l, b).label = RecordedLabel(l, b)
<1>1. ~Lost(l, b)
  BY DEF ServeInv, Lost
<1> QED BY <1>1 DEF ServeInv, LabelInv, LabelsMatch

(* A level is read along the path of the label that its requested block    *)
(* carries.                                                                *)
LEMMA NextRightLeaf ==
  ASSUME ServeInv, RoomInStash, [Next]_vars, phase' \in {"read", "push"}
  PROVE  leaf' = (BlockOf(level, ids[level]).label)'
<1>1. /\ CopyInv /\ TypeOK /\ level \in Levels /\ ids[level] \in Ids(level)
      /\ IdsChain /\ dropped' = {} /\ Levels \subseteq Nat
  BY RoomKeeps, Ranges
     DEF ServeInv, LabelInv, CopyInv, FlagsInv, TypeOK, RequestTypeOK
<1>2. ~OAssignNewLabelToBlock /\ ~PerformAccessOperation
  BY DEF OAssignNewLabelToBlock, PerformAccessOperation
<1>3. \A l \in Levels : \A b \in Ids(l) : BlockOf(l, b)' = BlockOf(l, b)
  BY <1>1, <1>2, BlockStays
<1>4. CASE LookupPosmap
  <2>1. /\ level = 1 /\ UNCHANGED <<level, ids>> /\ leaf' = posmap[ids[1]]
        /\ phase = "descend"
    BY <1>4 DEF LookupPosmap
  <2>2. ~Awaiting(level, ids[level])
    BY <2>1 DEF Awaiting
  <2>3. BlockOf(level, ids[level]).label = posmap[ids[1]]
    BY <1>1, <2>1, <2>2, Matched DEF RecordedLabel
  <2>4. BlockOf(level, ids[level])' = BlockOf(level, ids[level])
    BY <1>1, <1>3, <2>1
  <2> QED BY <2>1, <2>3, <2>4
<1>5. CASE UNCHANGED <<leaf, level, ids>> /\ phase \in {"read", "push"}
  <2>1. BlockOf(level, ids[level])' = BlockOf(level, ids[level])
    BY <1>1, <1>3, <1>5
  <2> QED BY <1>5, <2>1 DEF ServeInv, PathIsRight
<1>6. CASE OAssignNewLabelToBlockOptimized
  <2> DEFINE l == level + 1
             b == ids[level + 1]
             p == b % x
  <2>1. /\ level' = level + 1 /\ leaf' = EntryRead(p) /\ UNCHANGED ids /\ Optimized
        /\ phase = "push" /\ PathEmpty /\ level < recursion_levels
    BY <1>6 DEF OAssignNewLabelToBlockOptimized
  <2>2. l \in Levels /\ b \in Ids(l) /\ l # 1 /\ l - 1 = level /\ l > 1
    BY <1>1, <2>1, Ranges DEF TypeOK, RequestTypeOK, Levels
  <2>3. b \div x = ids[level]
    BY <2>1, <2>2, <1>1 DEF IdsChain
  <2>4. BlockOf(l, b).label = BlockOf(level, ids[level]).data[p]
    <3>1. ~Awaiting(l, b)
      BY <2>1 DEF Awaiting
    <3>2. BlockOf(l, b).label = RecordedLabel(l, b)
      BY <2>2, <3>1, Matched
    <3> QED BY <2>2, <2>3, <3>2 DEF RecordedLabel
  <2>5. EntryRead(p) = BlockOf(level, ids[level]).data[p]
    <3>1. PICK k \in StashSlots : /\ LastHolder(k, ids[level])
                                  /\ stash[level][k] = BlockOf(level, ids[level])
                                  /\ \A j \in StashSlots : LastHolder(j, ids[level]) => j = k
      BY <2>1, Holder
    <3>2. (CHOOSE j \in StashSlots : LastHolder(j, ids[level])) = k
      BY <3>1
    <3> QED BY <3>1, <3>2 DEF EntryRead
  <2>6. ASSUME NEW m \in Levels, NEW c \in Ids(m), m = level', c = ids'[m]
        PROVE  BlockOf(level, ids[level])' = BlockOf(level + 1, ids[level + 1])
    <3>1. BlockOf(m, c)' = BlockOf(m, c)
      BY <1>3
    <3>2. BlockOf(level, ids[level])' = BlockOf(m, c)'
      BY <2>6
    <3>3. BlockOf(m, c) = BlockOf(level + 1, ids[level + 1])
      BY <2>1, <2>6
    <3> QED BY <3>1, <3>2, <3>3
  <2>7. BlockOf(level, ids[level])' = BlockOf(level + 1, ids[level + 1])
    BY <2>1, <2>2, <2>6
  <2> QED BY <2>1, <2>4, <2>5, <2>7
<1>7. CASE uploadPath
  <2>1. level # recursion_levels
    BY <1>7 DEF uploadPath
  <2>2. /\ level' = level + 1 /\ leaf' = nextLeaf /\ UNCHANGED ids /\ ~Optimized
        /\ phase = "upload" /\ level + 1 \in Levels /\ level + 1 # level
    BY <1>1, <1>7, <2>1, LevelsAssumption DEF uploadPath, TypeOK, AccessTypeOK, Levels
  <2>3. ids[level + 1] \in Ids(level + 1) /\ Awaiting(level + 1, ids[level + 1])
    BY <1>1, <2>2 DEF Awaiting, TypeOK, RequestTypeOK
  <2>4. BlockOf(level + 1, ids[level + 1]).label = nextLeaf
    BY <2>2, <2>3, Matched
  <2>5. ASSUME NEW m \in Levels, NEW c \in Ids(m), m = level', c = ids'[m]
        PROVE  BlockOf(level, ids[level])' = BlockOf(level + 1, ids[level + 1])
    <3>1. BlockOf(m, c)' = BlockOf(m, c)
      BY <1>3
    <3>2. BlockOf(level, ids[level])' = BlockOf(m, c)'
      BY <2>5
    <3>3. BlockOf(m, c) = BlockOf(level + 1, ids[level + 1])
      BY <2>2, <2>5
    <3> QED BY <3>1, <3>2, <3>3
  <2>6. BlockOf(level, ids[level])' = BlockOf(level + 1, ids[level + 1])
    BY <2>2, <2>3, <2>5
  <2> QED BY <2>2, <2>4, <2>6
<1> QED
  BY <1>2, <1>4, <1>5, <1>6, <1>7
     DEF Next, Request, Access_temp, Step, Descend, ReadBucketsFromPath, Push,
     pass_insert, pass_insert_full, Serve, PerformOptimizedAccessOperation, Rebuild,
     MoveToBucket, NextBucket, clear, ReturnOptimized, vars

(* As long as the stash has room, the invariant is inductive. *)
LEMMA NextServe == ServeInv /\ RoomInStash /\ [Next]_vars => ServeInv'
<1> SUFFICES ASSUME ServeInv, RoomInStash, [Next]_vars PROVE ServeInv'
  OBVIOUS
<1>1. LabelInv' /\ OccupancyInv' /\ dropped' = {}
  BY NextLabelInv, NextFlags, NextOccupancyNoted, RoomKeeps DEF ServeInv, OccupancyInv
<1>2. phase' \in {"read", "push"} => leaf' = (BlockOf(level, ids[level]).label)'
  BY NextRightLeaf
<1>3. ASSUME phase' = "push"
      PROVE  /\ Single(level, Work(level))'
             /\ (Stored(level, Work(level)) = Stored(level, View(level)))'
  <2>1. level' = level
    BY <1>3 DEF Next, Request, Access_temp, Step, Descend, LookupPosmap,
       ReadBucketsFromPath, Push, pass_insert, pass_insert_full, Serve,
       OAssignNewLabelToBlock, OAssignNewLabelToBlockOptimized, PerformAccessOperation,
       PerformOptimizedAccessOperation, Rebuild, MoveToBucket, NextBucket, uploadPath,
       clear, ReturnOptimized, vars
  <2>2. level \in Levels
    BY DEF ServeInv, LabelInv, OnPathInv, TypeOK, RequestTypeOK
  <2>3. ASSUME NEW l \in Levels, l = level
        PROVE  Single(l, Work(l)') /\ Stored(l, Work(l)') = Stored(l, View(l)')
    BY <1>3, <2>1, <2>3, NextPushWork
  <2>4. PICK l \in Levels : l = level
    BY <2>2
  <2>5. /\ Single(level, Work(level))' <=> Single(l, Work(l)')
        /\ (Stored(level, Work(level)) = Stored(level, View(level)))'
             <=> Stored(l, Work(l)') = Stored(l, View(l)')
    BY <2>1, <2>4
  <2> QED BY <2>3, <2>4, <2>5
<1> QED BY <1>1, <1>2, <1>3 DEF ServeInv, PathIsRight

(* It holds of the trees as they are built. *)
LEMMA InitServe ==
  ASSUME InitDiscard = {FALSE}
  PROVE  Init => ServeInv
<1> SUFFICES ASSUME Init PROVE ServeInv
  OBVIOUS
<1>1. LabelInv /\ FlagsInv
  BY InitLabels, InitFlags
<1>2. phase = "idle" /\ dropped = {} /\ ~Optimized
  BY DEF Init, Optimized
<1> QED BY <1>1, <1>2 DEF ServeInv, OccupancyInv, OccupancyNoted, PathIsRight

-----------------------------------------------------------------------------
(* The array of blocks that the controller implements. *)
Mem == [b \in Ids(recursion_levels) |-> BlockOf(recursion_levels, b).data]
Status == CASE phase = "idle" -> "idle"
            [] Served -> "served"
            [] OTHER -> "pending"

(* Only PerformAccessOperation changes it. *)
LEMMA MemStays ==
  ASSUME ServeInv, RoomInStash, [Next]_vars, ~PerformAccessOperation
  PROVE  Mem' = Mem
<1>1. CopyInv /\ LabelInv /\ dropped' = {} /\ recursion_levels \in Levels
  BY RoomKeeps, Ranges DEF ServeInv, LabelInv
<1>2. ASSUME NEW b \in Ids(recursion_levels)
      PROVE  BlockOf(recursion_levels, b)' = BlockOf(recursion_levels, b)
  <2>1. CASE OAssignNewLabelToBlock
    <3>1. recursion_levels # level
      BY <2>1, LevelsAssumption DEF OAssignNewLabelToBlock
    <3> QED BY <1>1, <2>1, <3>1, ScanKeepsBlock
  <2>2. CASE ~OAssignNewLabelToBlock
    BY <1>1, <2>2, BlockStays
  <2> QED BY <2>1, <2>2
<1> QED BY <1>2 DEF Mem

(* The scan of the last level writes the array as the request says. *)
LEMMA MemWritten ==
  ASSUME ServeInv, PerformAccessOperation
  PROVE  Mem' = IF req.op = "w" THEN [Mem EXCEPT ![req.id] = req.val] ELSE Mem
<1>1. /\ LabelInv /\ dropped' = {} /\ recursion_levels \in Levels
      /\ level = recursion_levels /\ level' = level /\ ids' = ids
      /\ ids[recursion_levels] = req.id /\ req.id \in Ids(recursion_levels)
  BY Ranges DEF ServeInv, LabelInv, PerformAccessOperation, CopyInv, IdsChain, OnPathInv,
     TypeOK, RequestTypeOK
<1>2. /\ BlockOf(level, ids[level])' = Scanned(BlockOf(level, ids[level]))
      /\ BlockOf(level, ids[level]) \in Block(level)
  BY <1>1, ScanRelabels DEF Lost
<1> DEFINE v == BlockOf(recursion_levels, req.id)
<1>3. /\ BlockOf(recursion_levels, req.id)' = Accessed(v) /\ v \in Block(level)
  <2>1. BlockOf(level, ids[level])' = BlockOf(recursion_levels, req.id)'
    <3>1. req' = req
      BY DEF PerformAccessOperation
    <3> QED BY <1>1, <3>1
  <2> QED BY <1>1, <1>2, <2>1 DEF Scanned
<1>4. Accessed(v).data = IF req.op = "w" THEN req.val ELSE v.data
  BY <1>3 DEF Accessed, Block
<1>5. ASSUME NEW b \in Ids(recursion_levels), b # req.id
      PROVE  BlockOf(recursion_levels, b)' = BlockOf(recursion_levels, b)
  BY <1>1, <1>5, ScanKeepsBlock
<1>6. ASSUME NEW b \in Ids(recursion_levels)
      PROVE  BlockOf(recursion_levels, b)'.data =
               IF b = req.id /\ req.op = "w" THEN req.val
               ELSE BlockOf(recursion_levels, b).data
  <2>1. CASE b = req.id
    <3>1. BlockOf(recursion_levels, b)' = BlockOf(recursion_levels, req.id)'
      <4>1. req' = req
        BY DEF PerformAccessOperation
      <4> QED BY <2>1, <4>1
    <3> QED BY <1>3, <1>4, <2>1, <3>1
  <2>2. CASE b # req.id
    BY <1>5, <2>2
  <2> QED BY <2>1, <2>2
<1> QED BY <1>1, <1>6 DEF Mem

(* What a read copies to the caller. *)
LEMMA ReadsMem ==
  ASSUME ServeInv, phase = "push", PathEmpty, level = recursion_levels
  PROVE  ReadOut = Mem[req.id]
<1>1. ids[level] = req.id /\ req.id \in Ids(recursion_levels)
  BY DEF ServeInv, LabelInv, CopyInv, IdsChain, OnPathInv, TypeOK, RequestTypeOK
<1>2. PICK k \in StashSlots : /\ LastHolder(k, req.id)
                              /\ stash[level][k] = BlockOf(level, req.id)
                              /\ \A j \in StashSlots : LastHolder(j, req.id) => j = k
  BY <1>1, Holder
<1>3. (CHOOSE j \in StashSlots : LastHolder(j, req.id)) = k
  BY <1>2
<1> QED BY <1>1, <1>2, <1>3 DEF ReadOut, Mem

(* Every step is a step of the array, or none.  The other steps leave the  *)
(* array, the request and its answer alone.                                *)
LEMMA Silent ==
  ASSUME Mem' = Mem, Status' = Status, req' = req, data_out' = data_out
  PROVE  UNCHANGED Store!absVars
BY DEF Store!absVars, Mem, Status

(* What a step does to the request: it accepts one, serves it at the scan  *)
(* of the last level's stash, returns the answer, or none of these.        *)
Accepts ==
  \E op, id, val :
    /\ \/ op \in {"r", "z"} /\ val = Unset
       \/ op = "w" /\ val \in Values
    /\ id \in Ids(recursion_levels) /\ Status = "idle" /\ Status' = "pending"
    /\ req' = [op |-> op, id |-> id, val |-> val] /\ data_out' = Unset
Serves ==
  /\ PerformAccessOperation \/ PerformOptimizedAccessOperation
  /\ phase = "push" /\ PathEmpty /\ level = recursion_levels /\ req' = req
  /\ Status = "pending" /\ Status' = "served"
  /\ data_out' = IF req.op = "w" THEN data_out ELSE ReadOut
Returns == Status = "served" /\ Status' = "idle" /\ UNCHANGED <<req, data_out>>
Continues == Status' = Status /\ UNCHANGED <<req, data_out>>

(* What a step is to the callers: it accepts, serves or returns a request, *)
(* or they see nothing of it.                                              *)
LEMMA StepKinds ==
  ASSUME TypeOK, OccupancyNoted, [Next]_vars
  PROVE  /\ Accepts \/ Serves \/ Returns \/ Continues
         /\ PerformAccessOperation => Serves
         /\ Push => Continues /\ Status = "pending"
<1>1. /\ level \in Levels /\ recursion_levels \in Nat
      /\ level \in Nat /\ level <= recursion_levels
  BY LevelsAssumption DEF TypeOK, RequestTypeOK, Levels
<1>2. ASSUME NEW op, NEW id \in ClientIds, NEW val, Access_temp(op, id, val),
             \/ op \in {"r", "z"} /\ val = Unset
             \/ op = "w" /\ val \in Values
      PROVE  Accepts /\ phase = "idle"
  <2>1. /\ phase = "idle" /\ phase' = "descend"
        /\ req' = [op |-> op, id |-> id, val |-> val] /\ data_out' = Unset
    BY <1>2 DEF Access_temp
  <2>2. Status = "idle" /\ Status' = "pending"
    BY <2>1 DEF Status, Served
  <2>3. id \in Ids(recursion_levels)
    BY DataAssumption
  <2> QED BY <1>2, <2>1, <2>2, <2>3 DEF Accepts
<1>3. CASE Descend \/ LookupPosmap \/ ReadBucketsFromPath \/ Push
           \/ OAssignNewLabelToBlock \/ OAssignNewLabelToBlockOptimized
  <2>1. /\ phase \in {"descend", "read", "push"} /\ UNCHANGED <<req, data_out>>
        /\ \/ phase' \in {"descend", "read", "push"}
           \/ phase' = "rebuild" /\ level' # recursion_levels
    BY <1>1, <1>3 DEF Descend, LookupPosmap, ReadBucketsFromPath, Push, pass_insert,
       pass_insert_full, OAssignNewLabelToBlock, OAssignNewLabelToBlockOptimized
  <2>2. Status = "pending" /\ Status' = "pending"
    BY <2>1 DEF Status, Served
  <2>3. ~PerformAccessOperation
    BY <1>1, <1>3 DEF Descend, LookupPosmap, ReadBucketsFromPath, Push, pass_insert,
       pass_insert_full, OAssignNewLabelToBlock, OAssignNewLabelToBlockOptimized,
       PerformAccessOperation, FirstOnPath, PathEmpty
  <2> QED BY <2>1, <2>2, <2>3 DEF Continues
<1>4. CASE PerformAccessOperation
  <2>1. /\ phase = "push" /\ phase' = "rebuild" /\ level = recursion_levels
        /\ level' = recursion_levels /\ PathEmpty /\ req' = req
        /\ data_out' = IF req.op = "w" THEN data_out ELSE ReadOut
    BY <1>4 DEF PerformAccessOperation
  <2>2. Status = "pending" /\ Status' = "served"
    BY <2>1 DEF Status, Served
  <2>3. ~Push
    BY <2>1 DEF Push, pass_insert, pass_insert_full, FirstOnPath, PathEmpty
  <2> QED BY <1>4, <2>1, <2>2, <2>3 DEF Serves
<1>5. CASE PerformOptimizedAccessOperation
  <2>1. /\ phase = "push" /\ phase' = "clear" /\ level = recursion_levels
        /\ level' = recursion_levels /\ PathEmpty /\ req' = req /\ req.op = "z"
        /\ data_out' = ReadOut
    BY <1>5 DEF PerformOptimizedAccessOperation, Optimized
  <2>2. Status = "pending" /\ Status' = "served"
    BY <2>1 DEF Status, Served
  <2>3. ~Push /\ Serves
    BY <1>5, <2>1, <2>2
       DEF Push, pass_insert, pass_insert_full, FirstOnPath, PathEmpty, Serves
  <2> QED BY <2>3
<1>6. CASE phase # "push" /\ (Rebuild \/ uploadPath \/ clear \/ ReturnOptimized)
  <2>1. ~Push /\ ~PerformAccessOperation
    BY <1>6 DEF Push, pass_insert, pass_insert_full, PerformAccessOperation
  <2>2. CASE Rebuild
    <3>1. /\ phase = "rebuild" /\ phase' \in {"rebuild", "upload"}
          /\ UNCHANGED <<level, req, data_out>>
      BY <2>2 DEF Rebuild, MoveToBucket, NextBucket
    <3> QED BY <2>1, <3>1 DEF Status, Served, Continues
  <2>3. CASE uploadPath
    <3>1. phase = "upload" /\ UNCHANGED <<req, data_out>>
          /\ IF level = recursion_levels THEN phase' = "idle" ELSE phase' = "read"
      BY <2>3 DEF uploadPath
    <3> QED BY <2>1, <3>1 DEF Status, Served, Continues, Returns
  <2>4. CASE clear
    <3>1. phase = "clear" /\ phase' = "assert" /\ UNCHANGED <<level, req, data_out>>
      BY <2>4 DEF clear
    <3> QED BY <2>1, <3>1 DEF Status, Served, Continues
  <2>5. CASE ReturnOptimized
    <3>1. /\ phase = "assert" /\ phase' = "idle" /\ UNCHANGED <<req, data_out>>
          /\ level = recursion_levels
      BY <2>5 DEF ReturnOptimized, OccupancyNoted
    <3> QED BY <2>1, <3>1 DEF Status, Served, Returns
  <2> QED BY <1>6, <2>2, <2>3, <2>4, <2>5
<1>7. CASE UNCHANGED vars
  <2>1. UNCHANGED <<phase, level, req, data_out, path>>
    BY <1>7 DEF vars
  <2>2. Status' = Status
    BY <2>1 DEF Status, Served
  <2>3. ~PerformAccessOperation
    BY <2>1 DEF PerformAccessOperation
  <2>4. Push => Status = "pending"
    BY DEF Push, pass_insert, pass_insert_full, Status, Served
  <2> QED BY <2>1, <2>2, <2>3, <2>4 DEF Continues
<1>8. CASE Request
  <2>1. Accepts /\ phase = "idle"
    BY <1>2, <1>8 DEF Request
  <2> QED BY <2>1 DEF PerformAccessOperation, Push, pass_insert, pass_insert_full
<1>9. Rebuild \/ uploadPath \/ clear \/ ReturnOptimized => phase # "push"
  BY DEF Rebuild, MoveToBucket, NextBucket, uploadPath, clear, ReturnOptimized
<1> QED
  BY <1>3, <1>4, <1>5, <1>6, <1>7, <1>8, <1>9 DEF Next, Step, Serve

(* Every step is a step of the array, or none.                             *)
LEMMA StepImplements ==
  ASSUME ServeInv, RoomInStash, [Next]_vars
  PROVE  [Store!AbsNext]_(Store!absVars)
<1>1. TypeOK /\ OccupancyNoted
  BY DEF ServeInv, LabelInv, OnPathInv, OccupancyInv
<1>2. ~PerformAccessOperation => Mem' = Mem
  BY MemStays
<1>3. CASE Accepts
  <2>1. PICK op, id, val :
          /\ \/ op \in {"r", "z"} /\ val = Unset
             \/ op = "w" /\ val \in Values
          /\ id \in Ids(recursion_levels) /\ Status = "idle" /\ Status' = "pending"
          /\ req' = [op |-> op, id |-> id, val |-> val] /\ data_out' = Unset
    BY <1>3 DEF Accepts
  <2>2. Mem' = Mem
    BY <1>1, <1>2, <2>1, StepKinds DEF Serves
  <2>3. Store!Invoke(op, id, val)
    BY <2>1, <2>2 DEF Store!Invoke, Mem, Status
  <2> QED BY <2>1, <2>3 DEF Store!AbsNext, Store!InvokeAny
<1>4. CASE Serves
  <2>1. CASE req.op = "w"
    <3>1. ~PerformOptimizedAccessOperation
      BY <2>1 DEF PerformOptimizedAccessOperation, Optimized
    <3>2. Mem' = [Mem EXCEPT ![req.id] = req.val]
      BY <1>4, <2>1, <3>1, MemWritten DEF Serves
    <3>3. Store!Write
      BY <1>4, <2>1, <3>2 DEF Serves, Store!Write, Mem, Status
    <3> QED BY <3>3 DEF Store!AbsNext
  <2>2. CASE req.op # "w"
    <3>1. Mem' = Mem
      BY <1>2, <2>2, MemWritten
    <3>2. data_out' = Mem[req.id]
      BY <1>4, <2>2, ReadsMem DEF Serves
    <3>3. req.op \in {"r", "z"}
      BY <1>1, <2>2 DEF TypeOK, RequestTypeOK
    <3>4. Store!Read
      BY <1>4, <3>1, <3>2, <3>3 DEF Serves, Store!Read, Mem, Status
    <3> QED BY <3>4 DEF Store!AbsNext
  <2> QED BY <2>1, <2>2
<1>5. CASE Returns
  <2>1. Mem' = Mem
    BY <1>1, <1>2, <1>5, StepKinds DEF Serves, Returns
  <2>2. Store!Return
    BY <1>5, <2>1 DEF Returns, Store!Return, Mem, Status
  <2> QED BY <2>2 DEF Store!AbsNext
<1>6. CASE Continues
  <2>1. Mem' = Mem
    BY <1>1, <1>2, <1>6, StepKinds DEF Serves, Continues
  <2> QED BY <1>6, <2>1, Silent DEF Continues
<1> QED BY <1>1, <1>3, <1>4, <1>5, <1>6, StepKinds

(* The build leaves the initial contents. *)
LEMMA InitImplements ==
  ASSUME InitDiscard = {FALSE}
  PROVE  Init => Store!AbsInit
<1> SUFFICES ASSUME Init PROVE Store!AbsInit
  OBVIOUS
<1>1. CopyInv /\ recursion_levels \in Levels
  BY InitCopies, Ranges
<1>2. Status = "idle" /\ req = [op |-> "r", id |-> 0, val |-> Unset] /\ data_out = Unset
  BY DEF Init, Status, Served
<1>3. ASSUME NEW b \in Ids(recursion_levels)
      PROVE  BlockOf(recursion_levels, b).data = InitValue[b]
  <2>1. BlockOf(recursion_levels, b) =
          [id |-> b, label |-> BuildLabel(recursion_levels, b),
           data |-> BuildData(recursion_levels, b)]
    BY <1>1, BuiltBlockOf
  <2> QED BY <2>1 DEF BuildData
<1>4. Mem = InitValue
  BY <1>3, DataAssumption DEF Mem
<1> QED BY <1>2, <1>4 DEF Store!AbsInit, Mem, Status

(* With the flags false at first, and as long as the stash has room, the   *)
(* controller is an array of blocks: a request reads what was last written *)
(* to its block, or changes that block and no other.                       *)
THEOREM AnswersLikeAnArray ==
  ASSUME InitDiscard = {FALSE}
  PROVE  Spec /\ []RoomInStash => Store!AbsInit /\ [][Store!AbsNext]_(Store!absVars)
<1>1. Init => ServeInv /\ Store!AbsInit
  BY InitServe, InitImplements
<1>2. ServeInv /\ RoomInStash /\ [Next]_vars => ServeInv' /\ [Store!AbsNext]_(Store!absVars)
  BY NextServe, StepImplements
<1> QED BY <1>1, <1>2, PTL DEF Spec

-----------------------------------------------------------------------------
(* When the stash overflows: what a request finds is still right.          *)

(* What is in a stash, or on the path while it is pushed there, is what is *)
(* stored of the block, also where a 'z' request only copied it.           *)
StoredIn(l, v) == v.id \in Ids(l) => v \in Stored(l, View(l))
ReadsCopies ==
  /\ \A l \in Levels : \A k \in StashSlots : StoredIn(l, stash[l][k])
  /\ phase = "push" =>
       \A i \in Depths(level), s \in BucketSlots : StoredIn(level, path[i][s])

LossyInv == LabelInv /\ OccupancyInv /\ ReadsCopies

(* A slot of the stash that is not flagged counts as stored, and so does   *)
(* the path of a request with write-back.                                  *)
LEMMA KeptIsStored ==
  ASSUME NEW l \in Levels
  PROVE  /\ \A k \in StashSlots : ~discard_block[l][k] => StoredIn(l, stash[l][k])
         /\ l = level /\ phase = "push" /\ ~Optimized =>
              \A i \in Depths(l), s \in BucketSlots : StoredIn(l, path[i][s])
<1>1. ASSUME NEW k \in StashSlots, ~discard_block[l][k] PROVE StoredIn(l, stash[l][k])
  <2>1. /\ <<"stash", k, 0>> \in Places(l)
        /\ View(l)[<<"stash", k, 0>>] = stash[l][k]
    BY <1>1, PlaceKinds, ViewSlots
  <2> QED BY <2>1 DEF StoredIn, Stored
<1>2. ASSUME l = level, phase = "push", ~Optimized, NEW i \in Depths(l), NEW s \in BucketSlots
      PROVE  StoredIn(l, path[i][s])
  <2>1. Rebuilding(l)
    BY <1>2 DEF Rebuilding
  <2>2. /\ <<"path", i, s>> \in Places(l)
        /\ View(l)[<<"path", i, s>>] = path[i][s]
    BY <2>1, PlaceKinds, ViewSlots
  <2> QED BY <2>2 DEF StoredIn, Stored
<1> QED BY <1>1, <1>2

(* Where nothing is flagged, all that is read is stored. *)
LEMMA NothingCopied ==
  /\ TypeOK /\ (phase = "push" => ~Optimized)
  /\ \A l \in Levels, k \in StashSlots : ~discard_block[l][k]
  => ReadsCopies
<1> SUFFICES ASSUME TypeOK, phase = "push" => ~Optimized,
                    \A l \in Levels, k \in StashSlots : ~discard_block[l][k]
             PROVE  ReadsCopies
  OBVIOUS
<1>1. level \in Levels
  BY DEF TypeOK, RequestTypeOK
<1> QED BY <1>1, KeptIsStored DEF ReadsCopies

(* Every step keeps it. *)
LEMMA NextReadsCopies == LossyInv /\ [Next]_vars => ReadsCopies'
<1>1. (/\ TypeOK /\ (phase = "push" => ~Optimized)
       /\ \A l \in Levels, k \in StashSlots : ~discard_block[l][k]
       => ReadsCopies)'
  BY NothingCopied, PTL
<1> SUFFICES ASSUME LossyInv, [Next]_vars PROVE ReadsCopies'
  OBVIOUS
<1>2. /\ TypeOK /\ FlagsInv /\ OccupancyNoted /\ level \in Levels
      /\ TypeOK' /\ FlagsInv' /\ OccupancyNoted'
  BY NextFlags, NextOccupancyNoted DEF LossyInv, OccupancyInv, FlagsInv, TypeOK, RequestTypeOK
<1>3. CASE ~Optimized' \/ phase' \in {"idle", "descend", "assert"}
  <2>1. \A l \in Levels, k \in StashSlots : ~discard_block'[l][k]
    BY <1>2, <1>3 DEF FlagsInv, OccupancyNoted
  <2> QED BY <1>1, <1>2, <1>3, <2>1
<1>4. CASE UNCHANGED vars
  <2>1. UNCHANGED <<stash, path, phase, level>>
    BY <1>4 DEF vars
  <2>2. \A l \in Levels : View(l)' = View(l)
    BY <1>4, SameView
  <2> QED BY <1>2, <2>1, <2>2 DEF LossyInv, ReadsCopies, StoredIn
<1>5. CASE Next /\ Optimized' /\ phase' \notin {"idle", "descend", "assert"}
  <2>1. Optimized /\ phase # "idle"
    BY <1>5 DEF Next, Request, Access_temp, Step, Descend, LookupPosmap,
       ReadBucketsFromPath, Push, pass_insert, pass_insert_full, Serve,
       OAssignNewLabelToBlock, OAssignNewLabelToBlockOptimized, PerformAccessOperation,
       PerformOptimizedAccessOperation, Rebuild, MoveToBucket, NextBucket, uploadPath,
       clear, ReturnOptimized, Optimized
  <2>2. \A l \in Levels : Stored(l, View(l)') = Stored(l, View(l))
    <3>1. \A l \in Levels : View(l)' = View(l)
      BY <1>2, <1>5, <2>1, OptimizedView
    <3> QED BY <3>1
  <2>3. \A l \in Levels : \A k \in StashSlots : StoredIn(l, stash[l][k])
    BY DEF LossyInv, ReadsCopies
  <2>4. ASSUME stash' = stash, phase' # "push" PROVE ReadsCopies'
    BY <2>2, <2>3, <2>4 DEF ReadsCopies, StoredIn
  <2>5. CASE ReadBucketsFromPath
    <3>1. /\ stash' = stash /\ level' = level /\ path' = FetchedPath
          /\ leaf \in Leaves(level)
      BY <1>2, <2>5 DEF ReadBucketsFromPath, store, TypeOK, AccessTypeOK
    <3>2. ASSUME NEW i \in Depths(level), NEW s \in BucketSlots
          PROVE  path'[i][s] \in Stored(level, View(level))
      <4> DEFINE n == Node(level, leaf, i)
      <4>1. n \in Nodes(level) /\ path'[i][s] = tree[level][n][s]
        BY <1>2, <3>1, NodeOnPath DEF FetchedPath
      <4>2. /\ <<"tree", n, s>> \in Places(level)
            /\ View(level)[<<"tree", n, s>>] = tree[level][n][s]
        BY <2>1, <4>1, PlaceKinds, ViewSlots DEF Rebuilding
      <4> QED BY <4>1, <4>2 DEF Stored
    <3> QED BY <1>2, <2>2, <2>3, <3>1, <3>2 DEF ReadsCopies, StoredIn
  <2>6. ASSUME NEW i \in Depths(level), NEW s \in BucketSlots,
               pass_insert_full(i, s) \/ \E k \in StashSlots : pass_insert(i, s, k)
        PROVE  ReadsCopies'
    <3>1. /\ path' = [path EXCEPT ![i][s] = Dummy] /\ level' = level /\ phase = "push"
          /\ \/ stash' = stash
             \/ \E k \in StashSlots : stash' = [stash EXCEPT ![level][k] = path[i][s]]
      BY <2>6 DEF pass_insert, pass_insert_full, store
    <3>2. \A j \in Depths(level), t \in BucketSlots : StoredIn(level, path[j][t])
      BY <3>1 DEF LossyInv, ReadsCopies
    <3>3. ASSUME NEW l \in Levels, NEW j \in StashSlots
          PROVE  stash'[l][j] = stash[l][j] \/ (l = level /\ stash'[l][j] = path[i][s])
      BY <1>2, <3>1 DEF TypeOK, StoreTypeOK
    <3>4. ASSUME NEW j \in Depths(level), NEW t \in BucketSlots
          PROVE  path'[j][t] = path[j][t] \/ path'[j][t] = Dummy
      BY <1>2, <3>1 DEF TypeOK, AccessTypeOK
    <3>5. Dummy.id \notin Ids(level)
      BY <1>2, SlotById
    <3> QED BY <1>2, <2>2, <2>3, <3>1, <3>2, <3>3, <3>4, <3>5 DEF ReadsCopies, StoredIn
  <2>7. CASE LookupPosmap \/ OAssignNewLabelToBlockOptimized
             \/ PerformOptimizedAccessOperation
    BY <2>4, <2>7 DEF LookupPosmap, OAssignNewLabelToBlockOptimized,
       PerformOptimizedAccessOperation, store
  <2>8. \/ ReadBucketsFromPath \/ Push \/ LookupPosmap
        \/ OAssignNewLabelToBlockOptimized \/ PerformOptimizedAccessOperation
    <3>1. phase # "rebuild" /\ phase # "upload"
      BY <1>2, <2>1 DEF TypeOK, AccessTypeOK
    <3> QED BY <1>5, <2>1, <3>1
       DEF Next, Request, Access_temp, Step, Descend, Serve,
       OAssignNewLabelToBlock, PerformAccessOperation, Rebuild, MoveToBucket,
       NextBucket, uploadPath, clear, ReturnOptimized
  <2> QED BY <2>5, <2>6, <2>7, <2>8 DEF Push
<1> QED BY <1>3, <1>4, <1>5

(* Every step keeps LossyInv. *)
LEMMA NextLossyInv == LossyInv /\ [Next]_vars => LossyInv'
BY NextLabelInv, NextFlags, NextOccupancyNoted, NextReadsCopies
   DEF LossyInv, OccupancyInv

(* LossyInv holds initially if no flag is set then. *)
LEMMA InitLossyInv ==
  ASSUME InitDiscard = {FALSE}
  PROVE  Init => LossyInv
<1> SUFFICES ASSUME Init PROVE LossyInv
  OBVIOUS
<1>1. LabelInv /\ FlagsInv /\ phase = "idle" /\ ~Optimized
  BY InitLabels, InitFlags DEF Init, Optimized
<1>2. ReadsCopies
  BY <1>1, NothingCopied DEF FlagsInv
<1> QED BY <1>1, <1>2 DEF LossyInv, OccupancyInv, OccupancyNoted

(* Whatever the scan of a stash finds is the block itself, and a dropped   *)
(* block is not found.                                                     *)
LEMMA FoundIs ==
  ASSUME LossyInv, NEW l \in Levels, l = level, NEW b \in Ids(l), NEW k \in StashSlots,
         Holds(k, b)
  PROVE  <<l, b>> \notin dropped /\ stash[l][k] = BlockOf(l, b)
<1>1. PICK p \in Places(l) : View(l)[p] = stash[l][k]
  BY DEF LossyInv, ReadsCopies, StoredIn, Stored, Holds
<1>2. View(l)[p].id = b /\ Copies(l)
  BY <1>1 DEF Holds, LossyInv, LabelInv, CopyInv
<1>3. <<l, b>> \notin dropped
  BY <1>2 DEF Copies, OnceOrIn, Has
<1>4. BlockOf(l, b) = View(l)[p]
  BY <1>2, <1>3, BlockPlace
<1> QED BY <1>1, <1>3, <1>4

-----------------------------------------------------------------------------
(* The array of blocks of which some are lost. *)
LossyMem == [b \in Ids(recursion_levels) |->
               IF <<recursion_levels, b>> \in dropped THEN Unset
               ELSE BlockOf(recursion_levels, b).data]
LostBlocks == {b \in Ids(recursion_levels) : Lost(recursion_levels, b)}

(* What a read copies to the caller: the block, or nothing, and this only  *)
(* if it is a 'z' request or the block is lost.                            *)
LEMMA ReadsLossyMem ==
  ASSUME LossyInv, phase = "push", PathEmpty, level = recursion_levels
  PROVE  /\ ReadOut = data_out \/ ReadOut = LossyMem[req.id]
         /\ ~Optimized /\ req.id \notin LostBlocks => ReadOut = LossyMem[req.id]
<1>1. /\ ids[level] = req.id /\ req.id \in Ids(recursion_levels)
      /\ level \in Levels /\ StashSlots \subseteq Int /\ CopyInv
  BY LevelsAssumption
     DEF LossyInv, LabelInv, CopyInv, IdsChain, OnPathInv, TypeOK, RequestTypeOK, StashSlots
<1>2. ASSUME NEW k \in StashSlots, Holds(k, req.id)
      PROVE  stash[level][k].data = LossyMem[req.id]
  <2>1. /\ <<level, req.id>> \notin dropped
        /\ stash[level][k] = BlockOf(level, req.id)
    BY <1>1, <1>2, FoundIs
  <2> QED BY <1>1, <2>1 DEF LossyMem
<1>3. ReadOut = data_out \/ ReadOut = LossyMem[req.id]
  <2>1. CASE \E k \in StashSlots : LastHolder(k, req.id)
    <3> DEFINE k == CHOOSE k \in StashSlots : LastHolder(k, req.id)
    <3>1. k \in StashSlots /\ LastHolder(k, req.id)
      BY <2>1
    <3>2. stash[level][k].data = LossyMem[req.id]
      BY <1>2, <3>1 DEF LastHolder
    <3> QED BY <2>1, <3>2 DEF ReadOut
  <2>2. CASE ~ \E k \in StashSlots : LastHolder(k, req.id)
    BY <2>2 DEF ReadOut
  <2> QED BY <2>1, <2>2
<1>4. ASSUME ~Optimized, req.id \notin LostBlocks
      PROVE  ReadOut = LossyMem[req.id]
  <2>1. PICK k \in StashSlots : Holds(k, req.id)
    BY <1>1, <1>4, Found DEF LossyInv, LostBlocks
  <2>2. LastHolder(k, req.id) /\ \A j \in StashSlots : LastHolder(j, req.id) => j = k
    BY <1>1, <1>4, <2>1, HolderIs
  <2>3. (CHOOSE j \in StashSlots : LastHolder(j, req.id)) = k
    BY <2>2
  <2>4. stash[level][k].data = LossyMem[req.id]
    BY <1>2, <2>1
  <2> QED BY <2>2, <2>3, <2>4 DEF ReadOut
<1> QED BY <1>3, <1>4

(* A block that is not dropped holds a content. *)
LEMMA LossyMemType ==
  ASSUME LossyInv, NEW b \in Ids(recursion_levels)
  PROVE  <<recursion_levels, b>> \notin dropped => LossyMem[b] \in Values
<1> SUFFICES ASSUME <<recursion_levels, b>> \notin dropped PROVE LossyMem[b] \in Values
  OBVIOUS
<1>1. recursion_levels \in Levels /\ CopyInv
  BY Ranges DEF LossyInv, LabelInv
<1>2. BlockOf(recursion_levels, b) \in Block(recursion_levels)
  BY <1>1, BlockType
<1>3. BlockOf(recursion_levels, b).data \in Values
  BY <1>2 DEF Block, Data
<1> QED BY <1>3 DEF LossyMem

(* The scan of the last level writes the block as the request says, or     *)
(* nothing if it does not find it, and then the block is lost.             *)
LEMMA LossyMemWritten ==
  ASSUME LossyInv, PerformAccessOperation
  PROVE  /\ LostBlocks' = LostBlocks
         /\ \/ LossyMem' = LossyMem /\ (req.op = "w" => req.id \in LostBlocks)
            \/ /\ req.op = "w" /\ LossyMem[req.id] # Unset
               /\ LossyMem' = [LossyMem EXCEPT ![req.id] = req.val]
<1> DEFINE R == recursion_levels
           v == BlockOf(R, req.id)
<1>1. /\ LabelInv /\ CopyInv /\ R \in Levels /\ level = R /\ ids[level] = req.id
      /\ req.id \in Ids(R) /\ phase = "push" /\ PathEmpty /\ ~Optimized
      /\ UNCHANGED <<dropped, req>>
  BY Ranges DEF LossyInv, LabelInv, PerformAccessOperation, CopyInv, IdsChain, OnPathInv,
     TypeOK, RequestTypeOK
<1>2. LostBlocks' = LostBlocks
  BY <1>1 DEF LostBlocks, Lost
<1>3. ASSUME NEW b \in Ids(R), b # req.id, <<R, b>> \notin dropped
      PROVE  BlockOf(R, b)' = BlockOf(R, b)
  BY <1>1, <1>3, ScanKeepsBlock
<1>4. ASSUME <<R, req.id>> \notin dropped
      PROVE  BlockOf(R, req.id)' = IF \E k \in StashSlots : Holds(k, req.id)
                                   THEN Accessed(v) ELSE v
  <2>1. ASSUME NEW b \in Ids(R), b = req.id
        PROVE  BlockOf(R, b)' = IF \E k \in StashSlots : Holds(k, b)
                                THEN Scanned(BlockOf(R, b)) ELSE BlockOf(R, b)
    BY <1>1, <1>4, <2>1, ScanRewritesBlock
  <2>2. PICK b \in Ids(R) : b = req.id
    BY <1>1
  <2>3. BlockOf(R, b)' = BlockOf(R, req.id)'
    BY <1>1, <2>2
  <2> QED BY <1>1, <2>1, <2>2, <2>3 DEF Scanned
<1>5. CASE <<R, req.id>> \notin dropped /\ (\E k \in StashSlots : Holds(k, req.id))
           /\ req.op = "w"
  <2>1. v \in Block(R)
    BY <1>1, <1>5, BlockType
  <2>2. BlockOf(R, req.id)'.data = req.val
    BY <1>4, <1>5, <2>1 DEF Accessed, Block
  <2>3. ASSUME NEW b \in Ids(R)
        PROVE  LossyMem'[b] = IF b = req.id THEN req.val ELSE LossyMem[b]
    <3>1. b = req.id => BlockOf(R, b)' = BlockOf(R, req.id)'
      BY <1>1
    <3> QED BY <1>1, <1>3, <1>5, <2>2, <3>1 DEF LossyMem
  <2>4. LossyMem' = [LossyMem EXCEPT ![req.id] = req.val]
    BY <1>1, <2>3 DEF LossyMem
  <2>5. LossyMem[req.id] # Unset
    BY <1>1, <1>5, LossyMemType, DataAssumption
  <2> QED BY <1>2, <1>5, <2>4, <2>5
<1>6. CASE ~(<<R, req.id>> \notin dropped /\ (\E k \in StashSlots : Holds(k, req.id))
             /\ req.op = "w")
  <2>1. req.op = "w" => req.id \in LostBlocks
    <3> SUFFICES ASSUME req.op = "w", ~Lost(R, req.id) PROVE FALSE
      BY <1>1 DEF LostBlocks
    <3>1. \E k \in StashSlots : Holds(k, req.id)
      BY <1>1, Found
    <3>2. <<R, req.id>> \notin dropped
      BY <1>1, NotLost
    <3> QED BY <1>6, <3>1, <3>2
  <2>2. ASSUME <<R, req.id>> \notin dropped PROVE BlockOf(R, req.id)'.data = v.data
    <3>1. v \in Block(R)
      BY <1>1, <2>2, BlockType
    <3> QED BY <1>4, <1>6, <2>2, <3>1 DEF Accessed, Block
  <2>3. ASSUME NEW b \in Ids(R) PROVE LossyMem'[b] = LossyMem[b]
    <3>1. b = req.id => BlockOf(R, b)' = BlockOf(R, req.id)'
      BY <1>1
    <3> QED BY <1>1, <1>3, <2>2, <3>1 DEF LossyMem
  <2>4. LossyMem' = LossyMem
    BY <1>1, <2>3 DEF LossyMem
  <2> QED BY <1>2, <2>1, <2>4
<1> QED BY <1>5, <1>6

(* Every other step leaves the array alone, or drops a block of the last   *)
(* level, or one that leads there.                                         *)
LEMMA LossyMemKept ==
  ASSUME LossyInv, [Next]_vars, ~PerformAccessOperation
  PROVE  \/ LossyMem' = LossyMem /\ LostBlocks' = LostBlocks
         \/ /\ Push /\ req.op # "z" /\ LostBlocks \subseteq LostBlocks'
            /\ \/ LossyMem' = LossyMem
               \/ \E b \in LostBlocks' : LossyMem' = [LossyMem EXCEPT ![b] = Unset]
<1> DEFINE R == recursion_levels
<1>1. LabelInv /\ CopyInv /\ R \in Levels
  BY Ranges DEF LossyInv, LabelInv
<1>2. ASSUME NEW b \in Ids(R), <<R, b>> \notin dropped'
      PROVE  <<R, b>> \notin dropped /\ BlockOf(R, b)' = BlockOf(R, b)
  <2>1. CASE OAssignNewLabelToBlock
    <3>1. R # level /\ dropped' = dropped
      BY <2>1, LevelsAssumption DEF OAssignNewLabelToBlock
    <3> QED BY <1>1, <1>2, <2>1, <3>1, ScanKeepsBlock
  <2>2. CASE ~OAssignNewLabelToBlock
    BY <1>1, <1>2, <2>2, StepKeepsBlock DEF Rewrites
  <2> QED BY <2>1, <2>2
<1>3. CASE dropped' = dropped
  <2>1. LostBlocks' = LostBlocks
    BY <1>3 DEF LostBlocks, Lost
  <2>2. LossyMem' = LossyMem
    BY <1>2, <1>3 DEF LossyMem
  <2> QED BY <2>1, <2>2
<1>4. CASE dropped' # dropped
  <2>1. PICK i \in Depths(level), s \in BucketSlots : pass_insert_full(i, s)
    BY <1>4
       DEF Next, Request, Access_temp, Step, Descend, LookupPosmap, ReadBucketsFromPath,
       Push, pass_insert, Serve, OAssignNewLabelToBlock,
       OAssignNewLabelToBlockOptimized, PerformAccessOperation,
       PerformOptimizedAccessOperation, Rebuild, MoveToBucket, NextBucket, uploadPath,
       clear, ReturnOptimized, vars
  <2> DEFINE c == path[i][s].id
  <2>2. Push /\ req.op # "z" /\ dropped' = dropped \cup {<<level, c>>}
    BY <1>4, <2>1 DEF Push, pass_insert_full, Optimized
  <2>3. LostBlocks \subseteq LostBlocks'
    BY <2>2 DEF LostBlocks, Lost
  <2>4. ASSUME NEW b \in Ids(R), level # R \/ b # c
        PROVE  LossyMem'[b] = LossyMem[b]
    BY <1>2, <2>2, <2>4 DEF LossyMem
  <2>5. CASE level = R /\ c \in Ids(R)
    <3>1. c \in LostBlocks'
      BY <1>1, <2>2, <2>5, Leads DEF LostBlocks, Lost
    <3>2. LossyMem'[c] = Unset
      BY <2>2, <2>5 DEF LossyMem
    <3>3. LossyMem' = [LossyMem EXCEPT ![c] = Unset]
      BY <2>4, <2>5, <3>2 DEF LossyMem
    <3> QED BY <2>2, <2>3, <3>1, <3>3
  <2>6. CASE ~(level = R /\ c \in Ids(R))
    <3>1. \A b \in Ids(R) : LossyMem'[b] = LossyMem[b]
      BY <2>4, <2>6
    <3>2. LossyMem' = LossyMem
      BY <3>1 DEF LossyMem
    <3> QED BY <2>2, <2>3, <3>2
  <2> QED BY <2>5, <2>6
<1> QED BY <1>3, <1>4

(* Every step is a step of the store that forgets, or none. *)
LEMMA StepImplementsLossy ==
  ASSUME LossyInv, [Next]_vars
  PROVE  [LossyStore!LossyNext]_(LossyStore!lossyVars)
<1>1. TypeOK /\ OccupancyNoted
  BY DEF LossyInv, LabelInv, OnPathInv, OccupancyInv
<1>2. ASSUME ~Push, ~PerformAccessOperation
      PROVE  LossyMem' = LossyMem /\ LostBlocks' = LostBlocks
  BY <1>2, LossyMemKept
<1>3. CASE Accepts
  <2>1. PICK op, id, val :
          /\ \/ op \in {"r", "z"} /\ val = Unset
             \/ op = "w" /\ val \in Values
          /\ id \in Ids(recursion_levels) /\ Status = "idle" /\ Status' = "pending"
          /\ req' = [op |-> op, id |-> id, val |-> val] /\ data_out' = Unset
    BY <1>3 DEF Accepts
  <2>2. LossyMem' = LossyMem /\ LostBlocks' = LostBlocks
    BY <1>1, <1>2, <2>1, StepKinds DEF Serves
  <2>3. LossyStore!Invoke(op, id, val) /\ UNCHANGED LostBlocks
    BY <2>1, <2>2 DEF LossyStore!Invoke, LossyMem, Status
  <2> QED BY <2>1, <2>3
     DEF LossyStore!LossyNext, LossyStore!InvokeAny, LostBlocks
<1>4. CASE Serves
  <2>1. ~Push
    BY <1>4 DEF Serves, Push, pass_insert, pass_insert_full, FirstOnPath, PathEmpty
  <2>2. /\ LostBlocks' = LostBlocks
        /\ \/ LossyMem' = LossyMem /\ (req.op = "w" => req.id \in LostBlocks)
           \/ /\ req.op = "w" /\ LossyMem[req.id] # Unset
              /\ LossyMem' = [LossyMem EXCEPT ![req.id] = req.val]
    <3>1. CASE PerformAccessOperation
      BY <3>1, LossyMemWritten
    <3>2. CASE ~PerformAccessOperation
      <4>1. req.op # "w"
        BY <1>4, <3>2 DEF Serves, PerformOptimizedAccessOperation, Optimized
      <4> QED BY <1>2, <2>1, <3>2, <4>1
    <3> QED BY <3>1, <3>2
  <2>3. CASE /\ req.op = "w" /\ LossyMem[req.id] # Unset
             /\ LossyMem' = [LossyMem EXCEPT ![req.id] = req.val]
    <3>1. LossyStore!WriteFinds
      BY <1>4, <2>3 DEF Serves, LossyStore!WriteFinds, LossyStore!Write, LossyMem, Status
    <3> QED BY <2>2, <3>1 DEF LossyStore!LossyNext, LostBlocks
  <2>4. CASE /\ LossyMem' = LossyMem /\ data_out' = data_out
             /\ req.op = "z" \/ req.id \in LostBlocks
    <3>1. LossyStore!Miss
      BY <1>4, <2>2, <2>4 DEF Serves, LossyStore!Miss, LossyMem, LostBlocks, Status
    <3> QED BY <3>1 DEF LossyStore!LossyNext
  <2>5. CASE /\ LossyMem' = LossyMem /\ data_out' = LossyMem[req.id] /\ req.op # "w"
    <3>1. req.op \in {"r", "z"}
      BY <1>1, <2>5 DEF TypeOK, RequestTypeOK
    <3>2. LossyStore!Read
      BY <1>4, <2>5, <3>1 DEF Serves, LossyStore!Read, LossyMem, Status
    <3> QED BY <2>2, <3>2 DEF LossyStore!LossyNext, LostBlocks
  <2>6. /\ ReadOut = data_out \/ ReadOut = LossyMem[req.id]
        /\ ~Optimized /\ req.id \notin LostBlocks => ReadOut = LossyMem[req.id]
    BY <1>4, ReadsLossyMem DEF Serves
  <2> QED BY <1>4, <2>2, <2>3, <2>4, <2>5, <2>6 DEF Serves, Optimized
<1>5. CASE Returns
  <2>1. LossyMem' = LossyMem /\ LostBlocks' = LostBlocks
    BY <1>1, <1>2, <1>5, StepKinds DEF Serves, Returns
  <2>2. LossyStore!Return
    BY <1>5, <2>1 DEF Returns, LossyStore!Return, LossyMem, Status
  <2> QED BY <2>1, <2>2 DEF LossyStore!LossyNext, LostBlocks
<1>6. CASE Continues
  <2>1. ~PerformAccessOperation
    BY <1>1, <1>6, StepKinds DEF Serves, Continues
  <2>2. CASE LossyMem' = LossyMem /\ LostBlocks' = LostBlocks
    BY <1>6, <2>2 DEF Continues, LossyStore!lossyVars, LossyStore!absVars, LossyMem,
       LostBlocks, Status
  <2>3. CASE /\ Push /\ req.op # "z" /\ LostBlocks \subseteq LostBlocks'
             /\ \/ LossyMem' = LossyMem
                \/ \E b \in LostBlocks' : LossyMem' = [LossyMem EXCEPT ![b] = Unset]
    <3>1. Status = "pending"
      BY <1>1, <2>3, StepKinds
    <3>2. LostBlocks' \subseteq Ids(recursion_levels)
      BY DEF LostBlocks
    <3>3. LossyStore!Lose
      BY <1>6, <2>3, <3>1, <3>2
         DEF Continues, LossyStore!Lose, LossyMem, LostBlocks, Status
    <3> QED BY <3>3 DEF LossyStore!LossyNext
  <2> QED BY <2>1, <2>2, <2>3, LossyMemKept
<1> QED BY <1>1, <1>3, <1>4, <1>5, <1>6, StepKinds

(* The build leaves the initial contents, and nothing is lost. *)
LEMMA InitImplementsLossy ==
  ASSUME InitDiscard = {FALSE}
  PROVE  Init => LossyStore!LossyInit
<1> SUFFICES ASSUME Init PROVE LossyStore!LossyInit
  OBVIOUS
<1>1. Store!AbsInit /\ dropped = {}
  BY InitImplements DEF Init
<1>2. LossyMem = Mem /\ LostBlocks = {}
  BY <1>1 DEF LossyMem, Mem, LostBlocks, Lost
<1> QED BY <1>1, <1>2
   DEF Store!AbsInit, LossyStore!LossyInit, LossyStore!AbsInit, LossyMem, Mem, LostBlocks

(* With the flags false at first, and however small the stash is: blocks   *)
(* that find no room are lost, but what a request answers is what was last *)
(* written to its block, or nothing, and nothing only to a 'z' request or  *)
(* for a block that is lost; and a write changes no other block.           *)
THEOREM OverflowLosesButNeverLies ==
  ASSUME InitDiscard = {FALSE}
  PROVE  Spec => NeverAnswersWrong
<1>1. Init => LossyInv /\ LossyStore!LossyInit
  BY InitLossyInv, InitImplementsLossy
<1>2. LossyInv /\ [Next]_vars => LossyInv' /\ [LossyStore!LossyNext]_(LossyStore!lossyVars)
  BY NextLossyInv, StepImplementsLossy
<1> QED BY <1>1, <1>2, PTL DEF Spec, NeverAnswersWrong, LossyStore!LossySpec
=============================================================================
