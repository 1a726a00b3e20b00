------------------------------- MODULE UtxoSet -------------------------------
(***************************************************************************)
(* The set of unspent outputs the enclave keeps in the ORAM                *)
(* (ZT_Enclave/ZT_Enclave.cpp: sendRawTxList, vectorToORAM,                *)
(* accessInterface).                                                       *)
(*                                                                         *)
(* A key belongs to one ORAM block, given by a hash.  The block has a      *)
(* fixed number of slots, which the keys that hash to it share.  For each  *)
(* output or input of a list of transactions the enclave reads a block,    *)
(* edits it and writes it back.  The ORAM is BlockStore, which the         *)
(* controllers implement.                                                  *)
(*                                                                         *)
(* The chain (created, spent) is the environment: the lists come one after *)
(* the other, create an output once and spend it once.                     *)
(***************************************************************************)
EXTENDS Integers, Sequences, FiniteSets, SequencesExt

CONSTANTS
  max_blocks,        \* blocks of the ORAM
  UTXOsPerORAMblock, \* 68-byte slots in a block
  Outputs,           \* P2PKH outputs of the chain
  Coinbase,          \* those of the first transaction of a block
  Zeros,             \* a slot of zeros
  Junk,              \* what the build may leave in a slot
  pkh,               \* the bytes a slot holds where a key would be
  getIdFromPkh,      \* the block of each key
  InitialContents,   \* what the build leaves in each block
  NoBlock,           \* data_out before an access is served
  MaxItems           \* bound: outputs and inputs in one list

Blocks == 0 .. max_blocks - 1
Slots == 1 .. UTXOsPerORAMblock
SlotContents == Outputs \cup Junk \cup {Zeros}
BlockContents == [Slots -> SlotContents]
Keys == { pkh[c] : c \in SlotContents }

ASSUME UtxoAssumption ==
  /\ max_blocks \in Nat \ {0} /\ UTXOsPerORAMblock \in Nat
  /\ IsFiniteSet(Outputs) /\ Coinbase \subseteq Outputs
  /\ Outputs \cap (Junk \cup {Zeros}) = {} /\ NoBlock \notin BlockContents
  /\ DOMAIN pkh = SlotContents
  /\ getIdFromPkh \in [Keys -> Blocks]
  /\ InitialContents \in [Blocks -> [Slots -> Junk \cup {Zeros}]]

VARIABLES
  mem,     \* the ORAM: see BlockStore
  status,
  request,
  out,
  phase,   \* what the enclave does next
  vout,    \* outputs still to add
  vin,     \* inputs still to remove
  block,   \* data_out of vectorToORAM: the block being edited
  created, \* history: outputs on the chain
  spent,   \* history: outputs the chain has spent
  skipped  \* history: outputs the enclave did not store

oram == <<mem, status, request, out>>
chain == <<created, spent>>
vars == <<oram, phase, vout, vin, block, chain, skipped>>

ORAM == INSTANCE BlockStore WITH
  BlockIds <- Blocks, Contents <- BlockContents,
  Initially <- InitialContents, NoContent <- NoBlock

Init ==
  /\ ORAM!AbsInit
  /\ phase = "idle"
  /\ vout = <<>> /\ vin = <<>>
  /\ block = NoBlock
  /\ created = {} /\ spent = {} /\ skipped = {}

-----------------------------------------------------------------------------
Id(c) == getIdFromPkh[pkh[c]]

(* The reducer starts at the second transaction. *)
Reduced_fromFirst(new) == new
Reduced(new) == new \ Coinbase

(* The enclave is given the transactions of the next block of the chain.   *)
(* They spend outputs of earlier blocks or of this one.                    *)
sendRawTxList(new, old) ==
  /\ phase = "idle" /\ phase' = "next"
  /\ created' = created \cup new /\ spent' = spent \cup old
  /\ vout' \in SetToSeqs(Reduced(new))
  /\ vin' \in SetToSeqs(old)
  /\ UNCHANGED <<oram, block, skipped>>

(* Two passes of vectorToORAM: first the outputs, then the inputs. *)
Adding_inputsFirst == vin = <<>>
Adding == vout # <<>>

Item == IF Adding THEN Head(vout) ELSE Head(vin)

(* Read the block of the item. *)
ReadBlock ==
  /\ phase = "next" /\ vout \o vin # <<>>
  /\ phase' = "edit"
  /\ ORAM!Invoke("z", Id(Item), NoBlock)
  /\ UNCHANGED <<vout, vin, block, chain, skipped>>

(* Slots of block d, before slot s, that hold an output of the key of u. *)
Counted_wholeBlock(d, u, s) == {t \in 1 .. s - 1 : Id(d[t]) = Id(u)}
Counted(d, u, s) == {t \in 1 .. s - 1 : pkh[d[t]] = pkh[u]}

(* A slot is empty when its key hashes to another block. *)
Empty_otherKey(d, u, s) == pkh[d[s]] # pkh[u]
Empty(d, u, s) == Id(d[s]) # Id(u)

(* The slots the scan would store u in; it takes the first.  It stores no  *)
(* output after two of the same key.                                       *)
Takes(d, u) == {s \in Slots : Empty(d, u, s) /\ Cardinality(Counted(d, u, s)) < 2}

WithOutput(d, u) ==
  [s \in Slots |-> IF s \in Takes(d, u) /\ \A t \in Takes(d, u) : s <= t
                   THEN u ELSE d[s]]

(* The first slot that holds the output an input spends becomes zeros. *)
WithoutOutput_firstOfKey(d, u) ==
  [s \in Slots |-> IF pkh[d[s]] = pkh[u] /\ Counted(d, u, s) = {} THEN Zeros ELSE d[s]]
WithoutOutput(d, u) ==
  [s \in Slots |-> IF d[s] = u /\ \A t \in 1 .. s - 1 : d[t] # u
                   THEN Zeros ELSE d[s]]

Edited(d) == IF Adding THEN WithOutput(d, Item) ELSE WithoutOutput(d, Item)

EditBlock ==
  /\ phase = "edit" /\ ORAM!Return
  /\ phase' = "write"
  /\ block' = Edited(out)
  /\ skipped' = IF Adding /\ Takes(out, Item) = {} THEN skipped \cup {Item} ELSE skipped
  /\ UNCHANGED <<vout, vin, chain>>

WriteBlock ==
  /\ phase = "write" /\ ORAM!Invoke("w", Id(Item), block)
  /\ phase' = "wrote"
  /\ UNCHANGED <<vout, vin, block, chain, skipped>>

ItemDone ==
  /\ phase = "wrote" /\ ORAM!Return
  /\ phase' = "next"
  /\ IF Adding THEN vout' = Tail(vout) /\ UNCHANGED vin
               ELSE vin' = Tail(vin) /\ UNCHANGED vout
  /\ block' = NoBlock
  /\ UNCHANGED <<chain, skipped>>

ListDone ==
  /\ phase = "next" /\ vout \o vin = <<>>
  /\ phase' = "idle"
  /\ UNCHANGED <<oram, vout, vin, block, chain, skipped>>

(* A client asks for the block of a key; the enclave answers with all of   *)
(* it.                                                                     *)
accessInterface(key) ==
  /\ phase = "idle" /\ ORAM!Invoke("z", getIdFromPkh[key], NoBlock)
  /\ phase' = "lookup"
  /\ UNCHANGED <<vout, vin, block, chain, skipped>>

Respond ==
  /\ phase = "lookup" /\ ORAM!Return
  /\ phase' = "idle"
  /\ UNCHANGED <<vout, vin, block, chain, skipped>>

(* The ORAM serves the request it has. *)
Serve ==
  /\ ORAM!Read \/ ORAM!Write
  /\ UNCHANGED <<phase, vout, vin, block, chain, skipped>>

NextList ==
  \E new \in SUBSET (Outputs \ created) :
    \E old \in SUBSET ((created \cup new) \ spent) :
      /\ Cardinality(new) + Cardinality(old) \in 1 .. MaxItems
      /\ sendRawTxList(new, old)

Next ==
  \/ NextList \/ ReadBlock \/ EditBlock \/ WriteBlock \/ ItemDone \/ ListDone
  \/ (\E key \in { pkh[u] : u \in Outputs } : accessInterface(key))
  \/ Respond \/ Serve

Spec == Init /\ [][Next]_vars

-----------------------------------------------------------------------------
In(d) == { d[s] : s \in Slots }
Stored == Outputs \cap UNION { In(mem[b]) : b \in Blocks }
OfBlock(S, b) == {u \in S : Id(u) = b}

TypeOK ==
  /\ mem \in [Blocks -> BlockContents]
  /\ status \in {"idle", "pending", "served"}
  /\ request \in [op : {"r", "z"}, id : Blocks, val : {NoBlock}]
                  \cup [op : {"w"}, id : Blocks, val : BlockContents]
  /\ out \in BlockContents \cup {NoBlock}
  /\ phase \in {"idle", "next", "edit", "write", "wrote", "lookup"}
  /\ vout \in Seq(Outputs \ Coinbase) /\ vin \in Seq(Outputs)
  /\ block \in BlockContents \cup {NoBlock}
  /\ created \subseteq Outputs /\ spent \subseteq created
  /\ skipped \subseteq Outputs

(* The answer to a lookup shows, of the keys of the block, exactly the     *)
(* unspent outputs that were not skipped: none is missing, none was spent  *)
(* and none was never on the chain (vectorToORAM).                         *)
LookupAnswer ==
  phase = "lookup" /\ status = "served" =>
    Outputs \cap In(out) =
      OfBlock(created \ (spent \cup skipped \cup Coinbase), request.id)

(* When a list has been processed no spent output is left, even one that   *)
(* the same list created (sendRawTxList adds before it removes).           *)
SpentRemoved == phase = "idle" => Stored \cap spent = {}

(* A stored output stays until the chain spends it: no other output is     *)
(* written over it, and no write-back undoes an earlier edit.              *)
KeptUntilSpent == [][Stored \ Stored' \subseteq spent]_vars

(* An output is skipped only when two of its key are stored or every slot  *)
(* of its block is taken; outputs of other keys in the block do not count  *)
(* against it.                                                             *)
SkippedJustified ==
  [][\A u \in skipped' \ skipped :
       \/ Cardinality({w \in Stored : pkh[w] = pkh[u]}) >= 2
       \/ \A s \in Slots : Id(mem[Id(u)][s]) = Id(u)]_vars

(* Every slot of zeros is an empty slot: an output is skipped only when    *)
(* two of its key are stored or its block has no slot of zeros.            *)
ZerosUsed ==
  [][\A u \in skipped' \ skipped :
       \/ Cardinality({w \in Stored : pkh[w] = pkh[u]}) >= 2
       \/ \A s \in Slots : mem[Id(u)][s] # Zeros]_vars
=============================================================================
