---------------------------- MODULE UtxoSet_proofs ----------------------------
(* Proofs about UtxoSet, for any hash of keys and any contents of the      *)
(* blocks: that stored outputs are kept, and which outputs are stored.     *)
EXTENDS UtxoSet, FiniteSetTheorems, SequenceTheorems, WellFoundedInduction, TLAPS

(* A stored output is in the block of its key. *)
AtHome == \A b \in Blocks, s \in Slots : mem[b][s] \in Outputs => Id(mem[b][s]) = b

(* The inputs still to remove are spent. *)
InputsSpent == \A i \in 1 .. Len(vin) : vin[i] \in spent

(* The block in the enclave is the stored one, edited, until the ORAM has *)
(* written it: nothing else writes in between.                            *)
Editing ==
  /\ phase \in {"idle", "next", "write"} => status = "idle"
  /\ phase \in {"edit", "write", "wrote"} => vout # <<>> \/ vin # <<>>
  /\ phase = "edit" => /\ request.op = "z" /\ request.id = Id(Item)
                       /\ status = "served" => out = mem[Id(Item)]
  /\ phase = "write" => block = Edited(mem[Id(Item)])
  /\ phase = "wrote" =>
       /\ request.op = "w" /\ request.id = Id(Item)
       /\ status = "pending" => request.val = Edited(mem[Id(Item)])
  /\ phase = "lookup" => request.op = "z"

IInv == TypeOK /\ AtHome /\ InputsSpent /\ Editing

(* The orders a set can be listed in are sequences of its elements. *)
LEMMA OrdersAreSequences ==
  ASSUME NEW S, IsFiniteSet(S), NEW q \in SetToSeqs(S)
  PROVE  q \in Seq(S)
<1>1. Cardinality(S) \in Nat BY FS_CardinalityType
<1>2. q \in [1 .. Cardinality(S) -> S] BY DEF SetToSeqs
<1> QED BY <1>1, <1>2, SeqDef

(* The item at hand is an output, and its key hashes to a block. *)
LEMMA ItemIsOutput ==
  ASSUME TypeOK, vout # <<>> \/ vin # <<>>
  PROVE  Item \in Outputs /\ Id(Item) \in Blocks
<1>1. Item \in Outputs
  BY DEF TypeOK, Item, Adding
<1> QED BY <1>1, UtxoAssumption DEF UtxoAssumption, Id, Keys, SlotContents

(* An edit leaves a block of slots. *)
LEMMA EditedType ==
  ASSUME TypeOK, vout # <<>> \/ vin # <<>>, NEW d \in BlockContents
  PROVE  Edited(d) \in BlockContents
<1>1. Item \in SlotContents /\ Zeros \in SlotContents
  BY ItemIsOutput DEF SlotContents
<1>2. WithOutput(d, Item) \in BlockContents
  BY <1>1 DEF WithOutput, BlockContents
<1>3. WithoutOutput(d, Item) \in BlockContents
  BY <1>1 DEF WithoutOutput, BlockContents
<1> QED BY <1>2, <1>3 DEF Edited

(* An edit keeps the outputs of the block at home, and removes none but    *)
(* the one an input spends.                                                *)
LEMMA EditKeeps ==
  ASSUME TypeOK, vout # <<>> \/ vin # <<>>, NEW d \in BlockContents,
         NEW s \in Slots,
         \A t \in Slots : d[t] \in Outputs => Id(d[t]) = Id(Item)
  PROVE  /\ Edited(d)[s] \in Outputs => Id(Edited(d)[s]) = Id(Item)
         /\ d[s] \in Outputs =>
              Edited(d)[s] = d[s] \/ (~Adding /\ d[s] = Item)
<1>1. Zeros \notin Outputs
  BY UtxoAssumption DEF UtxoAssumption
<1>2. CASE Adding
  <2>1. Edited(d)[s] = IF s \in Takes(d, Item) /\ \A t \in Takes(d, Item) : s <= t
                       THEN Item ELSE d[s]
    BY <1>2 DEF Edited, WithOutput
  <2>2. d[s] \in Outputs => s \notin Takes(d, Item)
    BY DEF Takes, Empty
  <2> QED BY <2>1, <2>2
<1>3. CASE ~Adding
  <2>1. Edited(d)[s] = IF d[s] = Item /\ \A t \in 1 .. s - 1 : d[t] # Item
                       THEN Zeros ELSE d[s]
    BY <1>3 DEF Edited, WithoutOutput
  <2> QED BY <2>1, <1>1, <1>3
<1> QED BY <1>2, <1>3

(* At first no list is in hand and the blocks hold no output. *)
LEMMA InitIInv == Init => IInv
<1> SUFFICES ASSUME Init PROVE IInv OBVIOUS
<1>1. 0 \in Blocks
  BY UtxoAssumption DEF UtxoAssumption, Blocks
<1>2. mem = InitialContents /\ status = "idle" /\ out = NoBlock
      /\ request = [op |-> "r", id |-> 0, val |-> NoBlock]
  BY DEF Init, ORAM!AbsInit
<1>3. TypeOK
  BY <1>1, <1>2, UtxoAssumption
  DEF Init, TypeOK, UtxoAssumption, BlockContents, SlotContents
<1>4. AtHome
  BY <1>2, UtxoAssumption DEF AtHome, UtxoAssumption
<1>5. InputsSpent
  BY DEF Init, InputsSpent
<1>6. Editing
  BY <1>2 DEF Init, Editing
<1> QED BY <1>3, <1>4, <1>5, <1>6 DEF IInv

(* While an item is being processed, Item and the edit are the same.      *)
LEMMA ItemKept ==
  ASSUME UNCHANGED <<vout, vin>>
  PROVE  Item' = Item /\ Adding' = Adding /\ \A d : Edited(d)' = Edited(d)
BY DEF Item, Adding, Edited, WithOutput, WithoutOutput, Takes, Empty, Counted

(* A new list starts when the enclave is idle, and its inputs are spent. *)
LEMMA NextListKeeps == ASSUME IInv, NextList PROVE IInv'
<1>1. PICK new \in SUBSET (Outputs \ created) :
        \E old \in SUBSET ((created \cup new) \ spent) : sendRawTxList(new, old)
  BY DEF NextList
<1>2. PICK old \in SUBSET ((created \cup new) \ spent) : sendRawTxList(new, old)
  BY <1>1
<1>3. new \subseteq Outputs /\ old \subseteq Outputs
  BY DEF IInv, TypeOK
<1>4. IsFiniteSet(new \ Coinbase) /\ IsFiniteSet(old)
  BY <1>3, UtxoAssumption, FS_Subset DEF UtxoAssumption
<1>5. vout' \in Seq(new \ Coinbase) /\ vin' \in Seq(old)
  BY <1>2, <1>4, OrdersAreSequences DEF sendRawTxList, Reduced
<1>6. vout' \in Seq(Outputs \ Coinbase) /\ vin' \in Seq(Outputs)
  <2>1. \A i \in 1 .. Len(vout') : vout'[i] \in Outputs \ Coinbase
    BY <1>3, <1>5
  <2>2. \A i \in 1 .. Len(vin') : vin'[i] \in Outputs
    BY <1>3, <1>5
  <2> QED BY <1>5, <2>1, <2>2, SeqDef
<1>7. TypeOK'
  BY <1>2, <1>3, <1>6 DEF IInv, TypeOK, sendRawTxList, oram
<1>8. AtHome'
  BY <1>2 DEF IInv, AtHome, Id, sendRawTxList, oram
<1>9. InputsSpent'
  BY <1>2, <1>5 DEF InputsSpent, sendRawTxList
<1>10. Editing'
  BY <1>2 DEF IInv, Editing, sendRawTxList, oram
<1> QED BY <1>7, <1>8, <1>9, <1>10 DEF IInv

(* The request asks for the block of the item at hand. *)
LEMMA ReadBlockKeeps == ASSUME IInv, ReadBlock PROVE IInv'
<1>1. vout # <<>> \/ vin # <<>>
  BY DEF ReadBlock, IInv, TypeOK
<1>2. Item \in Outputs /\ Id(Item) \in Blocks
  BY <1>1, ItemIsOutput DEF IInv
<1>3. /\ status' = "pending" /\ out' = NoBlock /\ UNCHANGED mem
      /\ request' = [op |-> "z", id |-> Id(Item), val |-> NoBlock]
  BY DEF ReadBlock, ORAM!Invoke
<1>4. phase' = "edit" /\ UNCHANGED <<vout, vin, block, created, spent, skipped>>
  BY DEF ReadBlock, chain
<1>5. TypeOK'
  BY <1>2, <1>3, <1>4 DEF IInv, TypeOK
<1>6. AtHome' /\ InputsSpent'
  BY <1>3, <1>4 DEF IInv, AtHome, Id, InputsSpent
<1>7. Editing'
  <2>1. Item' = Item BY <1>4, ItemKept
  <2> QED BY <1>1, <1>3, <1>4, <2>1 DEF Editing, Id
<1> QED BY <1>5, <1>6, <1>7 DEF IInv

(* What was read is still what the ORAM holds when it is edited. *)
LEMMA EditBlockKeeps == ASSUME IInv, EditBlock PROVE IInv'
<1>1. phase = "edit" /\ phase' = "write" /\ status = "served" /\ status' = "idle"
      /\ UNCHANGED <<mem, request, out, vout, vin, created, spent>>
  BY DEF EditBlock, ORAM!Return, chain
<1>2. (vout # <<>> \/ vin # <<>>) /\ out = mem[Id(Item)]
  BY <1>1 DEF IInv, Editing
<1>3. Item \in Outputs /\ Id(Item) \in Blocks
  BY <1>2, ItemIsOutput DEF IInv
<1>4. block' = Edited(mem[Id(Item)])
  BY <1>2 DEF EditBlock
<1>5. block' \in BlockContents
  BY <1>2, <1>3, <1>4, EditedType DEF IInv, TypeOK
<1>6. skipped' \subseteq Outputs
  BY <1>3 DEF EditBlock, IInv, TypeOK
<1>7. TypeOK'
  BY <1>1, <1>5, <1>6 DEF IInv, TypeOK
<1>8. AtHome' /\ InputsSpent'
  BY <1>1 DEF IInv, AtHome, Id, InputsSpent
<1>9. Editing'
  <2>1. Item' = Item /\ \A d : Edited(d)' = Edited(d) BY <1>1, ItemKept
  <2> QED BY <1>1, <1>2, <1>4, <2>1 DEF Editing, Id
<1> QED BY <1>7, <1>8, <1>9 DEF IInv

(* The request writes back the block that was edited. *)
LEMMA WriteBlockKeeps == ASSUME IInv, WriteBlock PROVE IInv'
<1>1. /\ phase = "write" /\ phase' = "wrote" /\ status' = "pending" /\ out' = NoBlock
      /\ request' = [op |-> "w", id |-> Id(Item), val |-> block]
      /\ UNCHANGED <<mem, vout, vin, block, created, spent, skipped>>
  BY DEF WriteBlock, ORAM!Invoke, chain
<1>2. (vout # <<>> \/ vin # <<>>) /\ block = Edited(mem[Id(Item)])
  BY <1>1 DEF IInv, Editing
<1>3. Item \in Outputs /\ Id(Item) \in Blocks
  BY <1>2, ItemIsOutput DEF IInv
<1>4. block \in BlockContents
  BY <1>2, <1>3, EditedType DEF IInv, TypeOK
<1>5. TypeOK'
  BY <1>1, <1>3, <1>4 DEF IInv, TypeOK
<1>6. AtHome' /\ InputsSpent'
  BY <1>1 DEF IInv, AtHome, Id, InputsSpent
<1>7. Editing'
  <2>1. Item' = Item /\ \A d : Edited(d)' = Edited(d) BY <1>1, ItemKept
  <2> QED BY <1>1, <1>2, <2>1 DEF Editing, Id
<1> QED BY <1>5, <1>6, <1>7 DEF IInv

(* The next item is one of the same list. *)
LEMMA ItemDoneKeeps == ASSUME IInv, ItemDone PROVE IInv'
<1>1. /\ phase = "wrote" /\ phase' = "next" /\ status' = "idle" /\ block' = NoBlock
      /\ UNCHANGED <<mem, request, out, created, spent, skipped>>
      /\ IF Adding THEN vout' = Tail(vout) /\ UNCHANGED vin
                   ELSE vin' = Tail(vin) /\ UNCHANGED vout
  BY DEF ItemDone, ORAM!Return, chain
<1>2. vout # <<>> \/ vin # <<>>
  BY <1>1 DEF IInv, Editing
<1>3. /\ vout' \in Seq(Outputs \ Coinbase) /\ vin' \in Seq(Outputs)
      /\ \A i \in 1 .. Len(vin') : vin'[i] \in spent
  <2>1. CASE Adding
    <3>1. vout' = Tail(vout) /\ vin' = vin /\ vout # <<>>
      BY <1>1, <2>1 DEF Adding
    <3>2. vout \in Seq(Outputs \ Coinbase) /\ vin \in Seq(Outputs)
          /\ \A i \in 1 .. Len(vin) : vin[i] \in spent
      BY DEF IInv, TypeOK, InputsSpent
    <3>3. Tail(vout) \in Seq(Outputs \ Coinbase)
      BY <3>1, <3>2, HeadTailProperties
    <3> QED BY <3>1, <3>2, <3>3
  <2>2. CASE ~Adding
    <3>1. vin # <<>> /\ vin \in Seq(Outputs)
      BY <1>2, <2>2 DEF IInv, TypeOK, Adding
    <3>2. /\ Tail(vin) \in Seq(Outputs) /\ Len(Tail(vin)) = Len(vin) - 1
          /\ Len(vin) \in Nat \ {0}
          /\ \A i \in 1 .. Len(Tail(vin)) : Tail(vin)[i] = vin[i + 1]
      BY <3>1
    <3>3. \A i \in 1 .. Len(Tail(vin)) : Tail(vin)[i] \in spent
      BY <3>2 DEF IInv, InputsSpent
    <3> QED BY <1>1, <2>2, <3>2, <3>3 DEF IInv, TypeOK
  <2> QED BY <2>1, <2>2
<1>4. TypeOK'
  BY <1>1, <1>3 DEF IInv, TypeOK
<1>5. AtHome' /\ InputsSpent'
  BY <1>1, <1>3 DEF IInv, AtHome, Id, InputsSpent
<1>6. Editing'
  BY <1>1 DEF Editing
<1> QED BY <1>4, <1>5, <1>6 DEF IInv

(* The end of a list leaves the blocks alone. *)
LEMMA ListDoneKeeps == ASSUME IInv, ListDone PROVE IInv'
<1>1. phase = "next" /\ phase' = "idle"
      /\ UNCHANGED <<mem, status, request, out, vout, vin, block, created, spent, skipped>>
  BY DEF ListDone, oram, chain
<1>2. TypeOK' /\ AtHome' /\ InputsSpent'
  BY <1>1 DEF IInv, TypeOK, AtHome, Id, InputsSpent
<1>3. Editing'
  BY <1>1 DEF IInv, Editing
<1> QED BY <1>2, <1>3 DEF IInv

(* A lookup is a read. *)
LEMMA accessInterfaceKeeps ==
  ASSUME IInv, NEW u \in Outputs, accessInterface(pkh[u])
  PROVE  IInv'
<1>1. Id(u) \in Blocks
  BY UtxoAssumption DEF UtxoAssumption, Id, Keys, SlotContents
<1>2. /\ phase = "idle" /\ phase' = "lookup" /\ status' = "pending" /\ out' = NoBlock
      /\ request' = [op |-> "z", id |-> Id(u), val |-> NoBlock]
      /\ UNCHANGED <<mem, vout, vin, block, created, spent, skipped>>
  BY DEF accessInterface, ORAM!Invoke, chain, Id
<1>3. TypeOK'
  BY <1>1, <1>2 DEF IInv, TypeOK
<1>4. AtHome' /\ InputsSpent'
  BY <1>2 DEF IInv, AtHome, Id, InputsSpent
<1>5. Editing'
  BY <1>2 DEF Editing
<1> QED BY <1>3, <1>4, <1>5 DEF IInv

(* And changes nothing when it is answered. *)
LEMMA RespondKeeps == ASSUME IInv, Respond PROVE IInv'
<1>1. /\ phase = "lookup" /\ phase' = "idle" /\ status' = "idle"
      /\ UNCHANGED <<mem, request, out, vout, vin, block, created, spent, skipped>>
  BY DEF Respond, ORAM!Return, chain
<1>2. TypeOK' /\ AtHome' /\ InputsSpent'
  BY <1>1 DEF IInv, TypeOK, AtHome, Id, InputsSpent
<1>3. Editing'
  BY <1>1 DEF Editing
<1> QED BY <1>2, <1>3 DEF IInv

(* What a write does to the ORAM: the block of the item is edited.         *)
LEMMA WriteEdits ==
  ASSUME IInv, ORAM!Write
  PROVE  /\ phase = "wrote" /\ (vout # <<>> \/ vin # <<>>) /\ Id(Item) \in Blocks
         /\ mem' = [mem EXCEPT ![Id(Item)] = Edited(mem[Id(Item)])]
<1>1. status = "pending" /\ request.op = "w"
      /\ mem' = [mem EXCEPT ![request.id] = request.val]
  BY DEF ORAM!Write
<1>2. phase = "wrote"
  BY <1>1 DEF IInv, TypeOK, Editing
<1> QED BY <1>1, <1>2, ItemIsOutput DEF IInv, Editing

(* A request that the ORAM serves keeps every output in the block of its   *)
(* key.                                                                    *)
LEMMA ServeKeeps == ASSUME IInv, Serve PROVE IInv'
<1>1. UNCHANGED <<phase, vout, vin, block, created, spent, skipped>>
  BY DEF Serve, chain
<1>2. Item' = Item /\ \A d : Edited(d)' = Edited(d)
  BY <1>1, ItemKept
<1>3. CASE ORAM!Read
  <2>1. status = "pending" /\ status' = "served" /\ request.op \in {"r", "z"}
        /\ out' = mem[request.id] /\ UNCHANGED <<mem, request>>
    BY <1>3 DEF ORAM!Read
  <2>2. TypeOK'
    BY <1>1, <2>1 DEF IInv, TypeOK
  <2>3. AtHome' /\ InputsSpent'
    BY <1>1, <2>1 DEF IInv, AtHome, Id, InputsSpent
  <2>4. Editing'
    BY <1>1, <1>2, <2>1 DEF IInv, Editing, Id
  <2> QED BY <2>2, <2>3, <2>4 DEF IInv
<1>4. CASE ORAM!Write
  <2>1. status' = "served" /\ UNCHANGED <<request, out>>
    BY <1>4 DEF ORAM!Write
  <2>2. /\ phase = "wrote" /\ (vout # <<>> \/ vin # <<>>) /\ Id(Item) \in Blocks
        /\ mem' = [mem EXCEPT ![Id(Item)] = Edited(mem[Id(Item)])]
    BY <1>4, WriteEdits
  <2>3. mem[Id(Item)] \in BlockContents /\ Edited(mem[Id(Item)]) \in BlockContents
    BY <2>2, EditedType DEF IInv, TypeOK
  <2>4. TypeOK'
    BY <1>1, <2>1, <2>2, <2>3 DEF IInv, TypeOK
  <2>5. AtHome'
    <3> SUFFICES ASSUME NEW b \in Blocks, NEW s \in Slots, mem'[b][s] \in Outputs
                 PROVE  Id(mem'[b][s]) = b
      BY DEF AtHome, Id
    <3>1. CASE b # Id(Item)
      BY <2>2, <3>1 DEF IInv, TypeOK, AtHome
    <3>2. CASE b = Id(Item)
      <4>1. mem'[b][s] = Edited(mem[b])[s]
        BY <2>2, <3>2 DEF IInv, TypeOK
      <4>2. \A t \in Slots : mem[b][t] \in Outputs => Id(mem[b][t]) = Id(Item)
        BY <3>2 DEF IInv, AtHome
      <4> QED BY <2>2, <2>3, <3>2, <4>1, <4>2, EditKeeps DEF IInv
    <3> QED BY <3>1, <3>2
  <2>6. InputsSpent'
    BY <1>1 DEF IInv, InputsSpent
  <2>7. Editing'
    BY <1>1, <1>2, <2>1, <2>2 DEF IInv, Editing, Id
  <2> QED BY <2>4, <2>5, <2>6, <2>7 DEF IInv
<1> QED BY <1>3, <1>4 DEF Serve

(* Every step keeps the invariant. *)
LEMMA NextIInv == IInv /\ [Next]_vars => IInv'
<1> SUFFICES ASSUME IInv, [Next]_vars PROVE IInv' OBVIOUS
<1>1. CASE UNCHANGED vars
  <2>1. Item' = Item /\ \A d : Edited(d)' = Edited(d)
    BY <1>1, ItemKept DEF vars
  <2>2. TypeOK' /\ AtHome' /\ InputsSpent'
    BY <1>1 DEF vars, oram, chain, IInv, TypeOK, AtHome, Id, InputsSpent
  <2>3. Editing'
    BY <1>1, <2>1 DEF vars, oram, chain, IInv, Editing, Id
  <2> QED BY <2>2, <2>3 DEF IInv
<1>2. ASSUME NEW key \in { pkh[u] : u \in Outputs }, accessInterface(key) PROVE IInv'
  BY <1>2, accessInterfaceKeeps
<1> QED
  BY <1>1, <1>2, NextListKeeps, ReadBlockKeeps, EditBlockKeeps, WriteBlockKeeps,
     ItemDoneKeeps, ListDoneKeeps, RespondKeeps, ServeKeeps DEF Next

(* The ORAM holds blocks, the lists hold outputs and every answer is a     *)
(* block, whatever the keys hash to (vectorToORAM, sendRawTxList).         *)
THEOREM UtxoTypeCorrect == Spec => []TypeOK
<1>1. IInv => TypeOK BY DEF IInv
<1> QED BY InitIInv, NextIInv, <1>1, PTL DEF Spec

(* No stored output is lost before the chain spends it, whatever the keys  *)
(* hash to and whatever the build leaves in the blocks (vectorToORAM).     *)
THEOREM OutputsAreKept == Spec => KeptUntilSpent
<1>1. IInv /\ [Next]_vars => [Stored \ Stored' \subseteq spent]_vars
  <2> SUFFICES ASSUME IInv, Next, NEW u \in Stored, u \notin Stored'
               PROVE  u \in spent
    OBVIOUS
  <2>1. PICK b \in Blocks, s \in Slots : mem[b][s] = u
    BY DEF Stored, In
  <2>2. u \in Outputs /\ mem'[b][s] # u
    BY DEF Stored, In
  <2>3. ORAM!Write
    BY <2>1, <2>2 DEF Next, NextList, sendRawTxList, ReadBlock, EditBlock, WriteBlock,
         ItemDone, ListDone, accessInterface, Respond, Serve, oram,
         ORAM!Invoke, ORAM!Return, ORAM!Read
  <2>4. /\ vout # <<>> \/ vin # <<>>
        /\ mem' = [mem EXCEPT ![Id(Item)] = Edited(mem[Id(Item)])]
    BY <2>3, WriteEdits
  <2>5. b = Id(Item) /\ mem[b] \in BlockContents /\ mem'[b][s] = Edited(mem[b])[s]
    BY <2>1, <2>2, <2>4 DEF IInv, TypeOK
  <2>6. \A t \in Slots : mem[b][t] \in Outputs => Id(mem[b][t]) = Id(Item)
    BY <2>5 DEF IInv, AtHome
  <2>7. ~Adding /\ u = Item
    BY <2>1, <2>2, <2>4, <2>5, <2>6, EditKeeps DEF IInv
  <2> QED BY <2>4, <2>7 DEF Adding, Item, IInv, InputsSpent, TypeOK
<1> QED BY InitIInv, NextIInv, <1>1, PTL DEF Spec, KeptUntilSpent

-----------------------------------------------------------------------------
(* The ORAM has carried out the item at hand, which is still in its list. *)
Applied == phase = "wrote" /\ status = "served"
ToAdd == IF Applied /\ Adding THEN ToSet(Tail(vout)) ELSE ToSet(vout)
ToRemove == IF Applied /\ ~Adding THEN ToSet(Tail(vin)) ELSE ToSet(vin)

(* The stored outputs are those of the chain without the coinbase's, the   *)
(* skipped ones, those of the list still to be added, and the spent ones   *)
(* that are not still to be removed.                                       *)
Exact ==
  Stored = created \ (Coinbase \cup skipped \cup ToAdd \cup (spent \ ToRemove))

(* An output has one slot, or an input would leave a copy of it. *)
OneSlot ==
  \A b \in Blocks : \A s, t \in Slots :
    mem[b][s] \in Outputs /\ mem[b][s] = mem[b][t] => s = t

Distinct(q) == \A i, j \in 1 .. Len(q) : q[i] = q[j] => i = j

(* What the lists hold: an output at most once, on the chain, and if it is *)
(* spent before it is added then by an input of the same list.             *)
Lists ==
  /\ phase \in {"idle", "lookup"} => vout = <<>> /\ vin = <<>>
  /\ Distinct(vout) /\ Distinct(vin)
  /\ ToSet(vout) \subseteq created /\ skipped \subseteq created
  /\ ToSet(vout) \cap spent \subseteq ToSet(vin)
  /\ \A u \in ToSet(vout) \cap skipped : phase \in {"write", "wrote"} /\ u = Item

(* The item at hand is counted as skipped just if the edit leaves it out. *)
SkipDecided ==
  phase \in {"write", "wrote"} /\ status # "served" /\ Adding =>
    (Item \in skipped <=> Takes(mem[Id(Item)], Item) = {})

Answered == phase = "lookup" /\ status = "served" => out = mem[request.id]

AInv ==
  IInv /\ Exact /\ OneSlot /\ Lists /\ SkipDecided /\ Answered

-----------------------------------------------------------------------------
(* Taking the first element from a list without repetitions. *)
LEMMA TailTakesHead ==
  ASSUME NEW S, NEW q \in Seq(S), q # <<>>, Distinct(q)
  PROVE  /\ Head(q) \in ToSet(q) /\ Tail(q) \in Seq(S) /\ Distinct(Tail(q))
         /\ ToSet(Tail(q)) = ToSet(q) \ {Head(q)}
<1>1. /\ Len(q) \in Nat \ {0} /\ DOMAIN q = 1 .. Len(q) /\ Head(q) = q[1]
      /\ Tail(q) \in Seq(S) /\ Len(Tail(q)) = Len(q) - 1
      /\ DOMAIN Tail(q) = 1 .. Len(q) - 1
      /\ \A i \in 1 .. Len(q) - 1 : Tail(q)[i] = q[i + 1]
  OBVIOUS
<1>2. Distinct(Tail(q))
  BY <1>1 DEF Distinct
<1>3. ToSet(Tail(q)) \subseteq ToSet(q) \ {Head(q)}
  BY <1>1 DEF ToSet, Distinct
<1>4. ASSUME NEW e \in ToSet(q), e # Head(q) PROVE e \in ToSet(Tail(q))
  <2>1. PICK i \in 1 .. Len(q) : q[i] = e
    BY <1>1 DEF ToSet
  <2>2. i # 1 /\ i - 1 \in 1 .. Len(q) - 1
    BY <1>1, <1>4, <2>1
  <2>3. Tail(q)[i - 1] = e
    BY <1>1, <2>1, <2>2
  <2> QED BY <1>1, <2>2, <2>3 DEF ToSet
<1>5. Head(q) \in ToSet(q)
  BY <1>1 DEF ToSet
<1> QED BY <1>1, <1>2, <1>3, <1>4, <1>5

(* The first of a set of numbers. *)
LEMMA LeastElement ==
  ASSUME NEW T \in SUBSET Nat, T # {}
  PROVE  \E m \in T : \A t \in T : m <= t
<1>1. PICK m \in T : \A t \in T : <<t, m>> \notin OpToRel(<, Nat)
  BY NatLessThanWellFounded, WFMin
<1>2. \A t \in T : ~(t < m)
  BY <1>1 DEF OpToRel
<1> QED BY <1>2

(* An order of a set has each of its elements, once. *)
LEMMA OrdersAreExact ==
  ASSUME NEW S, IsFiniteSet(S), NEW q \in SetToSeqs(S)
  PROVE  Distinct(q) /\ ToSet(q) = S
<1>1. Cardinality(S) \in Nat BY FS_CardinalityType
<1>2. q \in [1 .. Cardinality(S) -> S]
      /\ \A i, j \in 1 .. Cardinality(S) : i # j => q[i] # q[j]
  BY DEF SetToSeqs
<1>3. Len(q) = Cardinality(S) /\ DOMAIN q = 1 .. Cardinality(S)
  BY <1>1, <1>2, OrdersAreSequences
<1>4. q \in Injection(1 .. Cardinality(S), S)
  BY <1>2 DEF Injection, IsInjective
<1>5. Cardinality(1 .. Cardinality(S)) = Cardinality(S)
  BY <1>1, FS_Interval
<1>6. q \in Surjection(1 .. Cardinality(S), S)
  BY <1>4, <1>5, FS_Injection
<1> QED BY <1>2, <1>3, <1>6 DEF Distinct, ToSet, Surjection

-----------------------------------------------------------------------------
(* Storing an output that is nowhere stored: it gets one slot, unless the  *)
(* scan takes none.                                                        *)
LEMMA AddStores ==
  ASSUME IInv, OneSlot, Adding, Item \notin Stored, Id(Item) \in Blocks,
         mem' = [mem EXCEPT ![Id(Item)] = Edited(mem[Id(Item)])]
  PROVE  /\ OneSlot'
         /\ Stored' = IF Takes(mem[Id(Item)], Item) = {} THEN Stored
                      ELSE Stored \cup {Item}
<1> DEFINE b == Id(Item)
           T == Takes(mem[b], Item)
<1>1. Item \in Outputs
  BY ItemIsOutput DEF IInv, Adding
<1>2. \A c \in Blocks \ {b} : mem'[c] = mem[c]
  BY DEF IInv, TypeOK
<1>3. \A s \in Slots : mem'[b][s] = IF s \in T /\ \A t \in T : s <= t
                                    THEN Item ELSE mem[b][s]
  BY DEF IInv, TypeOK, Edited, WithOutput
<1>4. \A s \in T : s \in Slots /\ mem[b][s] \notin Outputs
  BY DEF Takes, Empty, IInv, AtHome
<1>5. \A c \in Blocks, s \in Slots : mem[c][s] # Item
  BY <1>1 DEF Stored, In
<1>6. CASE T = {}
  <2>1. \A c \in Blocks, s \in Slots : mem'[c][s] = mem[c][s]
    BY <1>2, <1>3, <1>6
  <2> QED BY <2>1, <1>6 DEF OneSlot, Stored, In
<1>7. CASE T # {}
  <2>1. PICK m \in T : \A t \in T : m <= t
    BY <1>4, <1>7, LeastElement DEF Slots
  <2>2. m \in Slots /\ T \subseteq Nat
    BY <1>4, <2>1 DEF Slots
  <2>3. \A s \in Slots : mem'[b][s] = IF s = m THEN Item ELSE mem[b][s]
    BY <1>3, <2>1, <2>2 DEF Slots
  <2>4. OneSlot'
    BY <1>2, <1>5, <2>3 DEF OneSlot
  <2>5. Stored' = Stored \cup {Item}
    <3>1. Stored' \subseteq Stored \cup {Item}
      BY <1>2, <2>3 DEF Stored, In
    <3>2. Item \in Stored'
      BY <1>1, <2>2, <2>3 DEF Stored, In
    <3>3. ASSUME NEW u \in Stored PROVE u \in Stored'
      <4>1. PICK c \in Blocks, s \in Slots : mem[c][s] = u
        BY DEF Stored, In
      <4>2. mem'[c][s] = u
        BY <1>2, <1>4, <2>1, <2>3, <4>1 DEF Stored
      <4> QED BY <4>1, <4>2 DEF Stored, In
    <3> QED BY <3>1, <3>2, <3>3
  <2> QED BY <1>7, <2>4, <2>5
<1> QED BY <1>6, <1>7

(* Removing a spent output removes it and nothing else. *)
LEMMA RemoveRemoves ==
  ASSUME IInv, OneSlot, ~Adding, Item \in Outputs, Id(Item) \in Blocks,
         mem' = [mem EXCEPT ![Id(Item)] = Edited(mem[Id(Item)])]
  PROVE  OneSlot' /\ Stored' = Stored \ {Item}
<1> DEFINE b == Id(Item)
<1>1. Zeros \notin Outputs
  BY UtxoAssumption DEF UtxoAssumption
<1>2. \A c \in Blocks \ {b} : mem'[c] = mem[c]
  BY DEF IInv, TypeOK
<1>3. \A s \in Slots : mem'[b][s] = IF mem[b][s] = Item THEN Zeros ELSE mem[b][s]
  <2> SUFFICES ASSUME NEW s \in Slots
               PROVE  mem'[b][s] = IF mem[b][s] = Item THEN Zeros ELSE mem[b][s]
    OBVIOUS
  <2>1. mem'[b][s] = IF mem[b][s] = Item /\ \A t \in 1 .. s - 1 : mem[b][t] # Item
                     THEN Zeros ELSE mem[b][s]
    BY DEF IInv, TypeOK, Edited, WithoutOutput
  <2>2. ASSUME mem[b][s] = Item, NEW t \in 1 .. s - 1 PROVE mem[b][t] # Item
    <3>1. t \in Slots /\ t # s
      BY UtxoAssumption DEF UtxoAssumption, Slots
    <3> QED BY <2>2, <3>1 DEF OneSlot
  <2> QED BY <2>1, <2>2
<1>4. \A c \in Blocks, s \in Slots :
        mem'[c][s] = IF mem[c][s] = Item THEN Zeros ELSE mem[c][s]
  <2>1. \A c \in Blocks \ {b}, s \in Slots : mem[c][s] # Item
    BY DEF IInv, AtHome
  <2> QED BY <1>2, <1>3, <2>1
<1>5. OneSlot'
  BY <1>1, <1>4 DEF OneSlot
<1>6. Stored' \subseteq Stored \ {Item}
  BY <1>1, <1>4 DEF Stored, In
<1>7. Stored \ {Item} \subseteq Stored'
  BY <1>4 DEF Stored, In
<1> QED BY <1>5, <1>6, <1>7

-----------------------------------------------------------------------------
(* An empty list holds nothing. *)
LEMMA EmptySet == ToSet(<<>>) = {}
BY DEF ToSet

(* What is stored depends on the memory alone. *)
LEMMA MemoryKept ==
  ASSUME AInv, UNCHANGED mem
  PROVE  Stored' = Stored /\ OneSlot'
BY DEF AInv, OneSlot, Stored, In

(* A step that neither changes lists nor memory, before and after which no *)
(* item is half done.                                                      *)
LEMMA ListsKept ==
  ASSUME AInv, UNCHANGED <<mem, vout, vin, created, spent, skipped>>,
         ~Applied, ~Applied'
  PROVE  Exact' /\ OneSlot' /\ Item' = Item /\ Adding' = Adding
<1>1. Item' = Item /\ Adding' = Adding
  BY ItemKept
<1>2. ToAdd' = ToAdd /\ ToRemove' = ToRemove
  BY DEF ToAdd, ToRemove
<1> QED BY <1>1, <1>2, MemoryKept DEF AInv, Exact

(* At first nothing is on the chain, and nothing in the ORAM. *)
LEMMA InitAInv == Init => AInv
<1> SUFFICES ASSUME Init PROVE AInv OBVIOUS
<1>1. mem = InitialContents /\ status = "idle" /\ phase = "idle"
      /\ vout = <<>> /\ vin = <<>> /\ created = {} /\ spent = {} /\ skipped = {}
  BY DEF Init, ORAM!AbsInit
<1>2. \A b \in Blocks, s \in Slots : mem[b][s] \notin Outputs
  BY <1>1, UtxoAssumption DEF UtxoAssumption
<1>3. Exact /\ OneSlot
  BY <1>1, <1>2 DEF Exact, OneSlot, Stored, In
<1>4. Lists
  BY <1>1, EmptySet DEF Lists, Distinct
<1>5. SkipDecided /\ Answered
  BY <1>1 DEF SkipDecided, Answered
<1> QED BY <1>3, <1>4, <1>5, InitIInv DEF AInv

(* A new list is what is still to be added and removed. *)
LEMMA NextListAnswers == ASSUME AInv, NextList PROVE AInv'
<1>1. PICK new \in SUBSET (Outputs \ created) :
        \E old \in SUBSET ((created \cup new) \ spent) : sendRawTxList(new, old)
  BY DEF NextList
<1>2. PICK old \in SUBSET ((created \cup new) \ spent) : sendRawTxList(new, old)
  BY <1>1
<1>3. IsFiniteSet(new \ Coinbase) /\ IsFiniteSet(old)
  <2>1. old \subseteq Outputs BY DEF AInv, IInv, TypeOK
  <2> QED BY <2>1, UtxoAssumption, FS_Subset DEF UtxoAssumption
<1>4. /\ phase = "idle" /\ phase' = "next"
      /\ created' = created \cup new /\ spent' = spent \cup old
      /\ UNCHANGED <<mem, skipped>>
  BY <1>2 DEF sendRawTxList, oram
<1>5. /\ Distinct(vout') /\ ToSet(vout') = new \ Coinbase
      /\ Distinct(vin') /\ ToSet(vin') = old
  BY <1>2, <1>3, OrdersAreExact DEF sendRawTxList, Reduced
<1>6. ToAdd = {} /\ ToRemove = {}
  BY <1>4, EmptySet DEF AInv, Lists, ToAdd, ToRemove, Applied
<1>7. ToAdd' = new \ Coinbase /\ ToRemove' = old
  BY <1>4, <1>5 DEF ToAdd, ToRemove, Applied
<1>8. spent \subseteq created /\ skipped \subseteq created /\ new \cap created = {}
      /\ old \cap spent = {}
  BY DEF AInv, IInv, TypeOK, Lists
<1>9. Exact'
  <2>1. Stored' = Stored BY <1>4, MemoryKept
  <2>2. Stored = created \ (Coinbase \cup skipped \cup spent)
    BY <1>6 DEF AInv, Exact
  <2>3. Exact' <=>
          Stored' = (created \cup new) \
            (Coinbase \cup skipped \cup (new \ Coinbase) \cup ((spent \cup old) \ old))
    BY <1>4, <1>7 DEF Exact
  <2> QED BY <2>1, <2>2, <2>3, <1>8
<1>10. OneSlot'
  BY <1>4, MemoryKept
<1>11. Lists'
  <2>1. ToSet(vout') \subseteq created' /\ skipped' \subseteq created'
        /\ ToSet(vout') \cap spent' \subseteq ToSet(vin')
        /\ ToSet(vout') \cap skipped' = {}
    BY <1>4, <1>5, <1>8
  <2> QED BY <1>4, <1>5, <2>1 DEF Lists
<1>12. SkipDecided' /\ Answered'
  BY <1>4 DEF SkipDecided, Answered
<1> QED BY <1>9, <1>10, <1>11, <1>12, NextListKeeps DEF AInv

(* Reading a block decides nothing. *)
LEMMA ReadBlockAnswers == ASSUME AInv, ReadBlock PROVE AInv'
<1>1. /\ phase = "next" /\ phase' = "edit"
      /\ UNCHANGED <<mem, vout, vin, created, spent, skipped>>
  BY DEF ReadBlock, ORAM!Invoke, chain
<1>2. Exact' /\ OneSlot'
  BY <1>1, ListsKept DEF Applied
<1>3. Lists'
  BY <1>1 DEF AInv, Lists
<1>4. SkipDecided' /\ Answered'
  BY <1>1 DEF SkipDecided, Answered
<1> QED BY <1>2, <1>3, <1>4, ReadBlockKeeps DEF AInv

(* An edit decides whether the output is stored or skipped. *)
LEMMA EditBlockAnswers == ASSUME AInv, EditBlock PROVE AInv'
<1>1. /\ phase = "edit" /\ phase' = "write" /\ status = "served"
      /\ UNCHANGED <<mem, request, out, vout, vin, created, spent>>
      /\ skipped' = IF Adding /\ Takes(out, Item) = {} THEN skipped \cup {Item}
                    ELSE skipped
  BY DEF EditBlock, ORAM!Return, chain
<1>2. (vout # <<>> \/ vin # <<>>) /\ out = mem[Id(Item)]
  BY <1>1 DEF AInv, IInv, Editing
<1>3. Item' = Item /\ Adding' = Adding
  BY <1>1, ItemKept
<1>4. Adding => Item \in ToSet(vout)
  BY TailTakesHead DEF Adding, Item, AInv, IInv, TypeOK, Lists
<1>5. ToSet(vout) \cap skipped = {}
  BY <1>1 DEF AInv, Lists
<1>6. ToAdd = ToSet(vout) /\ ToAdd' = ToSet(vout) /\ ToRemove' = ToRemove
  BY <1>1 DEF ToAdd, ToRemove, Applied
<1>7. Exact' /\ OneSlot'
  <2>1. Stored' = Stored /\ OneSlot' BY <1>1, MemoryKept
  <2>2. skipped' \cup ToAdd' = skipped \cup ToAdd
    BY <1>1, <1>4, <1>6
  <2> QED BY <1>1, <1>6, <2>1, <2>2 DEF AInv, Exact
<1>8. Lists'
  <2>1. skipped' \subseteq created
    BY <1>1, <1>4 DEF AInv, Lists
  <2>2. \A u \in ToSet(vout) \cap skipped' : u = Item
    BY <1>1, <1>5
  <2> QED BY <1>1, <1>3, <2>1, <2>2 DEF AInv, Lists
<1>9. SkipDecided'
  <2>1. Adding => (Item \in skipped' <=> Takes(mem[Id(Item)], Item) = {})
    BY <1>1, <1>2, <1>4, <1>5
  <2> QED BY <1>1, <1>3, <2>1 DEF SkipDecided, Takes, Empty, Counted, Id
<1>10. Answered'
  BY <1>1 DEF Answered
<1> QED BY <1>7, <1>8, <1>9, <1>10, EditBlockKeeps DEF AInv

(* Sending the block off stores nothing yet. *)
LEMMA WriteBlockAnswers == ASSUME AInv, WriteBlock PROVE AInv'
<1>1. /\ phase = "write" /\ phase' = "wrote" /\ status = "idle" /\ status' = "pending"
      /\ UNCHANGED <<mem, vout, vin, created, spent, skipped>>
  BY DEF WriteBlock, ORAM!Invoke, chain
<1>2. Exact' /\ OneSlot' /\ Item' = Item /\ Adding' = Adding
  BY <1>1, ListsKept DEF Applied
<1>3. Lists'
  BY <1>1, <1>2 DEF AInv, Lists
<1>4. SkipDecided'
  BY <1>1, <1>2 DEF AInv, SkipDecided, Takes, Empty, Counted, Id
<1>5. Answered'
  BY <1>1 DEF Answered
<1> QED BY <1>2, <1>3, <1>4, <1>5, WriteBlockKeeps DEF AInv

(* When the block has been written the item leaves its list. *)
LEMMA ItemDoneAnswers == ASSUME AInv, ItemDone PROVE AInv'
<1>1. /\ phase = "wrote" /\ phase' = "next" /\ status = "served"
      /\ UNCHANGED <<mem, created, spent, skipped>>
      /\ IF Adding THEN vout' = Tail(vout) /\ UNCHANGED vin
                   ELSE vin' = Tail(vin) /\ UNCHANGED vout
  BY DEF ItemDone, ORAM!Return, chain
<1>2. vout # <<>> \/ vin # <<>>
  BY <1>1 DEF AInv, IInv, Editing
<1>3. ToAdd' = ToAdd /\ ToRemove' = ToRemove
  BY <1>1 DEF ToAdd, ToRemove, Applied
<1>4. Exact' /\ OneSlot'
  BY <1>1, <1>3, MemoryKept DEF AInv, Exact
<1>5. Lists'
  <2>1. CASE Adding
    <3>1. Distinct(Tail(vout)) /\ ToSet(Tail(vout)) = ToSet(vout) \ {Item}
      BY <2>1, TailTakesHead DEF Adding, Item, AInv, IInv, TypeOK, Lists
    <3> QED BY <1>1, <2>1, <3>1 DEF AInv, Lists
  <2>2. CASE ~Adding
    <3>1. vout = <<>> /\ vin # <<>>
      BY <1>2, <2>2 DEF Adding
    <3>2. Distinct(Tail(vin))
      BY <3>1, TailTakesHead DEF AInv, IInv, TypeOK, Lists
    <3> QED BY <1>1, <2>2, <3>1, <3>2, EmptySet DEF AInv, Lists
  <2> QED BY <2>1, <2>2
<1>6. SkipDecided' /\ Answered'
  BY <1>1 DEF SkipDecided, Answered
<1> QED BY <1>4, <1>5, <1>6, ItemDoneKeeps DEF AInv

(* At the end of a list nothing is left to be added or removed. *)
LEMMA ListDoneAnswers == ASSUME AInv, ListDone PROVE AInv'
<1>1. /\ phase = "next" /\ phase' = "idle" /\ vout \o vin = <<>>
      /\ UNCHANGED <<mem, vout, vin, created, spent, skipped>>
  BY DEF ListDone, oram, chain
<1>2. vout = <<>> /\ vin = <<>>
  BY <1>1 DEF AInv, IInv, TypeOK
<1>3. Exact' /\ OneSlot'
  BY <1>1, ListsKept DEF Applied
<1>4. Lists'
  BY <1>1, <1>2 DEF AInv, Lists
<1>5. SkipDecided' /\ Answered'
  BY <1>1 DEF SkipDecided, Answered
<1> QED BY <1>3, <1>4, <1>5, ListDoneKeeps DEF AInv

(* A lookup starts without an answer. *)
LEMMA accessInterfaceAnswers ==
  ASSUME AInv, NEW u \in Outputs, accessInterface(pkh[u])
  PROVE  AInv'
<1>1. /\ phase = "idle" /\ phase' = "lookup" /\ status' = "pending"
      /\ UNCHANGED <<mem, vout, vin, created, spent, skipped>>
  BY DEF accessInterface, ORAM!Invoke, chain
<1>2. Exact' /\ OneSlot'
  BY <1>1, ListsKept DEF Applied
<1>3. Lists'
  BY <1>1 DEF AInv, Lists
<1>4. SkipDecided' /\ Answered'
  BY <1>1 DEF SkipDecided, Answered
<1> QED BY <1>2, <1>3, <1>4, accessInterfaceKeeps DEF AInv

(* And ends with the ORAM as it was. *)
LEMMA RespondAnswers == ASSUME AInv, Respond PROVE AInv'
<1>1. /\ phase = "lookup" /\ phase' = "idle"
      /\ UNCHANGED <<mem, vout, vin, created, spent, skipped>>
  BY DEF Respond, ORAM!Return, chain
<1>2. Exact' /\ OneSlot'
  BY <1>1, ListsKept DEF Applied
<1>3. Lists'
  BY <1>1 DEF AInv, Lists
<1>4. SkipDecided' /\ Answered'
  BY <1>1 DEF SkipDecided, Answered
<1> QED BY <1>2, <1>3, <1>4, RespondKeeps DEF AInv

(* A read gets the block that the ORAM holds. *)
LEMMA ReadAnswers == ASSUME AInv, Serve, ORAM!Read PROVE AInv'
<1>1. /\ status = "pending" /\ status' = "served" /\ request.op \in {"r", "z"}
      /\ out' = mem[request.id]
      /\ UNCHANGED <<mem, request, phase, vout, vin, created, spent, skipped>>
  BY DEF Serve, ORAM!Read, chain
<1>2. phase \in {"edit", "lookup"}
  BY <1>1 DEF AInv, IInv, TypeOK, Editing
<1>3. Exact' /\ OneSlot'
  BY <1>1, <1>2, ListsKept DEF Applied
<1>4. Lists'
  BY <1>1, <1>2 DEF AInv, Lists
<1>5. SkipDecided' /\ Answered'
  BY <1>1, <1>2 DEF SkipDecided, Answered
<1> QED BY <1>3, <1>4, <1>5, ServeKeeps DEF AInv

(* The step at which the ORAM changes: the item moves from what is to be   *)
(* done to what is done.                                                   *)
LEMMA WriteAnswers == ASSUME AInv, Serve, ORAM!Write PROVE AInv'
<1>1. /\ status = "pending" /\ status' = "served"
      /\ UNCHANGED <<phase, vout, vin, created, spent, skipped>>
  BY DEF Serve, ORAM!Write, chain
<1>2. /\ phase = "wrote" /\ (vout # <<>> \/ vin # <<>>) /\ Id(Item) \in Blocks
      /\ mem' = [mem EXCEPT ![Id(Item)] = Edited(mem[Id(Item)])]
  BY WriteEdits DEF AInv
<1>3. Item' = Item /\ Adding' = Adding
  BY <1>1, ItemKept
<1>4. ToAdd = ToSet(vout) /\ ToRemove = ToSet(vin)
  BY <1>1 DEF ToAdd, ToRemove, Applied
<1>5. Exact' /\ OneSlot'
  <2>1. CASE Adding
    <3>1. Item \in ToSet(vout) /\ ToSet(Tail(vout)) = ToSet(vout) \ {Item}
          /\ Item \in Outputs \ Coinbase
      BY <2>1, TailTakesHead DEF Adding, Item, AInv, IInv, TypeOK, Lists
    <3>2. ToAdd' = ToSet(vout) \ {Item} /\ ToRemove' = ToSet(vin)
      BY <1>1, <1>2, <1>3, <2>1, <3>1 DEF ToAdd, ToRemove, Applied
    <3>3. Item \notin Stored
      BY <1>4, <3>1 DEF AInv, Exact
    <3>4. /\ OneSlot'
          /\ Stored' = IF Takes(mem[Id(Item)], Item) = {} THEN Stored
                       ELSE Stored \cup {Item}
      BY <1>2, <2>1, <3>3, AddStores DEF AInv
    <3>5. Item \in skipped <=> Takes(mem[Id(Item)], Item) = {}
      BY <1>1, <1>2, <2>1 DEF AInv, SkipDecided
    <3>6. Item \in created /\ (Item \in spent => Item \in ToSet(vin))
      BY <3>1 DEF AInv, Lists
    <3>7. Stored = created \ (Coinbase \cup skipped \cup ToSet(vout)
                              \cup (spent \ ToSet(vin)))
      BY <1>4 DEF AInv, Exact
    <3>8. Stored' = created \ (Coinbase \cup skipped \cup (ToSet(vout) \ {Item})
                               \cup (spent \ ToSet(vin)))
      <4>1. CASE Item \in skipped
        BY <3>4, <3>5, <3>7, <4>1
      <4>2. CASE Item \notin skipped
        BY <3>1, <3>4, <3>5, <3>6, <3>7, <4>2
      <4> QED BY <4>1, <4>2
    <3> QED BY <1>1, <3>2, <3>4, <3>8 DEF Exact
  <2>2. CASE ~Adding
    <3>1. vout = <<>> /\ vin # <<>>
      BY <1>2, <2>2 DEF Adding
    <3>2. Item \in ToSet(vin) /\ ToSet(Tail(vin)) = ToSet(vin) \ {Item}
      BY <2>2, <3>1, TailTakesHead DEF Item, AInv, IInv, TypeOK, Lists
    <3>3. ToAdd' = ToSet(vout) /\ ToRemove' = ToSet(vin) \ {Item}
      BY <1>1, <1>2, <1>3, <2>2, <3>2 DEF ToAdd, ToRemove, Applied
    <3>4. Item \in Outputs
      BY <1>2, ItemIsOutput DEF AInv, IInv
    <3>5. OneSlot' /\ Stored' = Stored \ {Item}
      BY <1>2, <2>2, <3>4, RemoveRemoves DEF AInv
    <3>6. Item \in spent
      BY <2>2, <3>1 DEF Item, AInv, IInv, InputsSpent, TypeOK
    <3> QED BY <1>1, <1>4, <3>2, <3>3, <3>5, <3>6 DEF AInv, Exact
  <2> QED BY <2>1, <2>2
<1>6. Lists'
  BY <1>1, <1>2, <1>3 DEF AInv, Lists
<1>7. SkipDecided' /\ Answered'
  BY <1>1, <1>2 DEF SkipDecided, Answered
<1> QED BY <1>5, <1>6, <1>7, ServeKeeps DEF AInv

(* Every step keeps the account of what is stored. *)
LEMMA NextAInv == AInv /\ [Next]_vars => AInv'
<1> SUFFICES ASSUME AInv, [Next]_vars PROVE AInv' OBVIOUS
<1>1. CASE UNCHANGED vars
  <2>1. UNCHANGED <<mem, status, request, out, phase, vout, vin, created, spent, skipped>>
    BY <1>1 DEF vars, oram, chain
  <2>2. Item' = Item /\ Adding' = Adding /\ ToAdd' = ToAdd /\ ToRemove' = ToRemove
    BY <2>1, ItemKept DEF ToAdd, ToRemove, Applied
  <2>3. Exact' /\ OneSlot'
    BY <2>1, <2>2, MemoryKept DEF AInv, Exact
  <2>4. Lists'
    BY <2>1, <2>2 DEF AInv, Lists
  <2>5. SkipDecided' /\ Answered'
    BY <2>1, <2>2 DEF AInv, SkipDecided, Answered, Takes, Empty, Counted, Id
  <2>6. IInv'
    BY NextIInv DEF AInv
  <2> QED BY <2>3, <2>4, <2>5, <2>6 DEF AInv
<1>2. ASSUME NEW key \in { pkh[u] : u \in Outputs }, accessInterface(key) PROVE AInv'
  BY <1>2, accessInterfaceAnswers
<1>3. CASE Serve
  BY <1>3, ReadAnswers, WriteAnswers DEF Serve
<1> QED
  BY <1>1, <1>2, <1>3, NextListAnswers, ReadBlockAnswers, EditBlockAnswers,
     WriteBlockAnswers, ItemDoneAnswers, ListDoneAnswers, RespondAnswers DEF Next

(* When a list has been processed no spent output is left in the ORAM,     *)
(* whatever the keys hash to (sendRawTxList, vectorToORAM).                *)
THEOREM SpentOutputsAreRemoved == Spec => []SpentRemoved
<1>1. AInv => SpentRemoved
  <2> SUFFICES ASSUME AInv, phase = "idle" PROVE Stored \cap spent = {}
    BY DEF SpentRemoved
  <2>1. ToRemove = {}
    BY EmptySet DEF AInv, Lists, ToRemove, Applied
  <2> QED BY <2>1 DEF AInv, Exact
<1> QED BY InitAInv, NextAInv, <1>1, PTL DEF Spec

(* A client that looks a key up is shown, of the keys of its block, the    *)
(* unspent outputs that were stored, and no others (accessInterface).      *)
THEOREM LookupsAreAnswered == Spec => []LookupAnswer
<1>1. AInv => LookupAnswer
  <2> SUFFICES ASSUME AInv, phase = "lookup", status = "served"
               PROVE  Outputs \cap In(out) =
                        OfBlock(created \ (spent \cup skipped \cup Coinbase), request.id)
    BY DEF LookupAnswer
  <2>1. out = mem[request.id] /\ request.id \in Blocks
    BY DEF AInv, Answered, IInv, TypeOK
  <2>2. ToAdd = {} /\ ToRemove = {}
    BY EmptySet DEF AInv, Lists, ToAdd, ToRemove, Applied
  <2>3. Stored = created \ (spent \cup skipped \cup Coinbase)
    BY <2>2 DEF AInv, Exact
  <2>4. Outputs \cap In(mem[request.id]) \subseteq OfBlock(Stored, request.id)
    BY <2>1 DEF Stored, In, OfBlock, AInv, IInv, AtHome
  <2>5. OfBlock(Stored, request.id) \subseteq Outputs \cap In(mem[request.id])
    BY <2>1 DEF Stored, In, OfBlock, AInv, IInv, AtHome
  <2> QED BY <2>1, <2>3, <2>4, <2>5
<1> QED BY InitAInv, NextAInv, <1>1, PTL DEF Spec

(* An output is left out only when two of its key are stored or every slot *)
(* of its block is taken (vectorToORAM), provided that nothing the build   *)
(* leaves in a slot, and not zeros, has the key of an output.              *)
THEOREM SkipsAreJustified ==
  ASSUME \A u \in Outputs, c \in Junk \cup {Zeros} : pkh[c] # pkh[u]
  PROVE  Spec => SkippedJustified
<1> DEFINE OfKey(u) == {w \in Stored : pkh[w] = pkh[u]}
           Justified == \A u \in skipped' \ skipped :
                          \/ Cardinality(OfKey(u)) >= 2
                          \/ \A s \in Slots : Id(mem[Id(u)][s]) = Id(u)
<1>1. AInv /\ [Next]_vars => [Justified]_vars
  <2> SUFFICES ASSUME AInv, Next, NEW u \in skipped' \ skipped,
                      NEW s \in Slots, Id(mem[Id(u)][s]) # Id(u)
               PROVE  Cardinality(OfKey(u)) >= 2
    OBVIOUS
  <2> DEFINE d == mem[Id(u)]
             C == Counted(d, u, s)
             W == OfKey(u)
  <2>1. EditBlock
    BY DEF Next, NextList, sendRawTxList, ReadBlock, WriteBlock, ItemDone, ListDone,
         accessInterface, Respond, Serve, chain
  <2>2. Adding /\ u = Item /\ Takes(out, u) = {} /\ phase = "edit" /\ status = "served"
    BY <2>1 DEF EditBlock, ORAM!Return
  <2>3. u \in Outputs /\ Id(u) \in Blocks
    BY <2>2, ItemIsOutput DEF AInv, IInv, Adding
  <2>4. out = d /\ d \in BlockContents
    BY <2>2, <2>3 DEF AInv, IInv, Editing, TypeOK
  <2>5. ~(Cardinality(C) < 2)
    BY <2>2, <2>4 DEF Takes, Empty
  <2>6. \A t \in C : t \in Slots /\ d[t] \in W
    <3>1. \A t \in C : t \in Slots /\ pkh[d[t]] = pkh[u]
      BY UtxoAssumption DEF UtxoAssumption, Counted, Slots
    <3>2. \A t \in C : d[t] \in Outputs
      BY <2>3, <2>4, <3>1 DEF BlockContents, SlotContents
    <3> QED BY <2>3, <3>1, <3>2 DEF Stored, In
  <2>7. \A t, r \in C : d[t] = d[r] => t = r
    BY <2>3, <2>6 DEF AInv, OneSlot, Stored
  <2>8. [t \in C |-> d[t]] \in Injection(C, W)
    BY <2>6, <2>7 DEF Injection, IsInjective
  <2>9. IsFiniteSet(W)
    BY UtxoAssumption, FS_Subset DEF UtxoAssumption, Stored
  <2>10. IsFiniteSet(C) /\ Cardinality(C) <= Cardinality(W)
    BY <2>8, <2>9, FS_Injection
  <2> QED BY <2>5, <2>9, <2>10, FS_CardinalityType
<1> QED BY InitAInv, NextAInv, <1>1, PTL DEF Spec, SkippedJustified
=============================================================================
