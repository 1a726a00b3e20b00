------------------------------ MODULE Reducer ------------------------------
(***************************************************************************)
(* How a Bitcoin block becomes lists of inputs and outputs: the client      *)
(* lays the transactions out in one buffer (btc_Untrusted/Main.cpp), the    *)
(* enclave splits it, hashes the transactions and works out the Merkle      *)
(* root (ZT_Enclave.cpp), and the reducer walks over the bytes of every     *)
(* transaction but the coinbase with an offset (reducer/reducer.cpp).       *)
(*                                                                          *)
(* A block is a sequence of transactions given by their fields, and its     *)
(* bytes are Bitcoin's serialization of these.  SHA-256 is collision free:  *)
(* the 32 bytes of a transaction's id are 32 times a number of its own, the *)
(* double hash of two hashes is the pair of them, and RIPEMD160(SHA256(k))  *)
(* is tagged k.                                                             *)
(***************************************************************************)
EXTENDS Integers, Sequences, SequencesExt

CONSTANTS
  Blocks,   \* the blocks a client may send
  Overread  \* the bytes that may lie behind the buffers

VARIABLES
  block,           \* the transactions that were sent
  beyond,          \* what a read outside a buffer finds
  phase,
  listTxs,         \* the transactions, as split: [hex, txhash]
  txHashes, len,   \* the buffer of verifyMerkleRoot, and how many hashes are left
  i,               \* the transaction the reducer is at
  offset,
  j, count,        \* index and bound of the loop it is in
  isSegWit, tx_vin_size,
  temp_segWitVin,  \* inputs that wait for their witness, a global
  vin, vout,       \* what was found
  before           \* history: the lengths of vin and vout before transaction i

vars == <<block, beyond, phase, listTxs, txHashes, len, i, offset, j, count,
          isSegWit, tx_vin_size, temp_segWitVin, vin, vout, before>>
received == <<block, beyond, listTxs>>
found == <<temp_segWitVin, vin, vout>>

-----------------------------------------------------------------------------
(* Bitcoin's serialization of a transaction. *)
Rep(byte, n) == [k \in 1 .. n |-> byte]
LE(n, width) ==
  LET q[k \in 1 .. width] == IF k = 1 THEN n ELSE q[k - 1] \div 256
  IN  [k \in 1 .. width |-> q[k] % 256]
CompactSize(n) ==
  IF n < 253 THEN <<n>> ELSE IF n < 65536 THEN <<253>> \o LE(n, 2) ELSE <<254>> \o LE(n, 4)
WithSize(bytes) == CompactSize(Len(bytes)) \o bytes
Each(s, F(_)) == FlattenSeq([k \in DOMAIN s |-> F(s[k])])

InputBytes(in) ==
  Rep(in.prev, 32) \o LE(in.pos, 4) \o WithSize(in.script) \o Rep(255, 4)
OutputBytes(out) == LE(out.amount, 8) \o WithSize(out.script)
WitnessBytes(in) == CompactSize(Len(in.witness)) \o Each(in.witness, WithSize)

Serialized(t) ==
  LE(2, 4) \o (IF t.segwit THEN <<0, 1>> ELSE <<>>)
    \o CompactSize(Len(t.ins)) \o Each(t.ins, InputBytes)
    \o CompactSize(Len(t.outs)) \o Each(t.outs, OutputBytes)
    \o (IF t.segwit THEN Each(t.ins, WitnessBytes) ELSE <<>>)
    \o LE(0, 4)

(* Blocks have the form of Bitcoin's, and their sizes fit in an int (a      *)
(* block has at most 4 MB).  The kind of an input or output is what it      *)
(* says, and another kind does not have the looks of it.                   *)
Byte == 0 .. 255
MaxSize == 2147483647

Ins == [prev : Nat, pos : Nat, kind : {"p2pkh", "p2wpkh", "other"}, key : Seq(Byte),
        script : Seq(Byte), witness : Seq(Seq(Byte))]
Outs == [amount : Nat, kind : {"p2pkh", "other"}, hash : Seq(Byte), script : Seq(Byte)]
Transactions ==
  [txid : Nat, wtxid : Nat, segwit : BOOLEAN, ins : Seq(Ins), outs : Seq(Outs)]

(* A push of a signature, and one of a key. *)
IsKey(key) == Len(key) \in {33, 65}
SignatureAndKey(script, key) ==
  /\ IsKey(key) /\ script # <<>>
  /\ Len(script) = script[1] + 2 + Len(key)
  /\ \A k \in 1 .. Len(key) : script[script[1] + 2 + k] = key[k]
IsP2PKH(in) == in.script # <<>> /\ Len(in.script) - in.script[1] \in {35, 67}
IsP2WPKH(in) == in.script = <<>> /\ Len(in.witness) = 2 /\ Len(in.witness[2]) = 33
PaysToHash(script) == Len(script) = 25 /\ script[1] = 118

InputKind(in) ==
  CASE in.kind = "p2pkh" -> SignatureAndKey(in.script, in.key)
    [] in.kind = "p2wpkh" -> /\ in.script = <<>> /\ Len(in.witness) = 2
                             /\ in.witness[2] = in.key /\ IsKey(in.key)
                             /\ Len(in.witness[1]) < 253
    [] OTHER -> ~IsP2PKH(in) /\ ~IsP2WPKH(in)
OutputKind(out) ==
  IF out.kind = "p2pkh"
  THEN /\ PaysToHash(out.script) /\ Len(out.hash) = 20
       /\ \A k \in 1 .. 20 : out.script[3 + k] = out.hash[k]
  ELSE ~PaysToHash(out.script)

WellFormed(t) ==
  /\ t.ins # <<>>
  /\ \A k \in DOMAIN t.ins :
       /\ InputKind(t.ins[k]) /\ Len(t.ins[k].script) <= MaxSize
       /\ ~t.segwit => t.ins[k].witness = <<>>
  /\ \A k \in DOMAIN t.outs : OutputKind(t.outs[k])
  /\ Len(t.ins) <= MaxSize /\ Len(t.outs) <= MaxSize

ASSUME BlocksAssumption ==
  /\ Overread \subseteq Byte
  /\ Blocks \subseteq Seq(Transactions) \ {<<>>}
  /\ \A b \in Blocks : \A k \in DOMAIN b :
       /\ Len(Serialized(b[k])) <= MaxSize
       /\ k > 1 => WellFormed(b[k])

(* The id of a transaction is the hash of its bytes without the witness;   *)
(* the hash of the whole is that id only if there is no witness.           *)
doubleSHA256(bytes) ==
  LET of == { k \in DOMAIN block : Serialized(block[k]) = bytes }
      t == block[CHOOSE k \in of : TRUE]
  IN  IF of = {} THEN 0 ELSE IF t.segwit THEN t.wtxid ELSE t.txid

hash160(key) == [of |-> "key", bytes |-> key]
zeros == [of |-> "zeros", bytes |-> <<>>]
ones == [of |-> "ones", bytes |-> <<>>]
raw(bytes) == [of |-> "hash", bytes |-> bytes]

-----------------------------------------------------------------------------
(* The client's buffer: each transaction with its length in front of it. *)
BigEndian(n) == Reverse(LE(n, 4))
getTxList == Each(block, LAMBDA t : BigEndian(Len(Serialized(t))) \o Serialized(t))

Init ==
  /\ block \in Blocks /\ beyond \in Overread
  /\ phase = "split"
  /\ listTxs = <<>> /\ txHashes = <<>> /\ len = 0
  /\ i = 1 /\ offset = 0 /\ j = 0 /\ count = 0
  /\ isSegWit = FALSE /\ tx_vin_size = 0
  /\ temp_segWitVin = <<>> /\ vin = <<>> /\ vout = <<>>
  /\ before = [vin |-> 0, vout |-> 0]

(* sendRawTxList: the bytes of one transaction, and their hash. *)
txlen_byte(o) == getTxList[o + 4]
txlen(o) ==
  ((256 * getTxList[o + 1] + getTxList[o + 2]) * 256 + getTxList[o + 3]) * 256
    + getTxList[o + 4]

sendRawTxList ==
  /\ phase = "split" /\ Len(listTxs) < Len(block)
  /\ LET n == txlen(offset)
         hex == SubSeq(getTxList, offset + 5, offset + 4 + n)
     IN  /\ listTxs' = Append(listTxs, [hex |-> hex, txhash |-> doubleSHA256(hex)])
         /\ offset' = offset + 4 + n
  /\ UNCHANGED <<block, beyond, phase, txHashes, len, i, j, count, isSegWit,
                 tx_vin_size, found, before>>

(* verifyBlock copies the hashes out before it checks the Merkle root. *)
verifyBlock ==
  /\ phase = "split" /\ Len(listTxs) = Len(block)
  /\ phase' = "merkle"
  /\ txHashes' = [k \in DOMAIN listTxs |-> listTxs[k].txhash]
  /\ len' = Len(listTxs)
  /\ UNCHANGED <<received, i, offset, j, count, isSegWit, tx_vin_size, found,
                 before>>

(* One level of verifyMerkleRoot, in place.  With an odd number the loop   *)
(* pairs the last hash with whatever is behind it; that is overwritten     *)
(* with the hash of the last one twice.                                    *)
HashAt(k) == IF k \in DOMAIN txHashes THEN txHashes[k] ELSE beyond
Pairs == (len + 1) \div 2

Level_unpaired ==
  [k \in DOMAIN txHashes |->
     IF k > Pairs THEN txHashes[k] ELSE <<txHashes[2 * k - 1], HashAt(2 * k)>>]
Level ==
  [k \in DOMAIN txHashes |->
     IF k > Pairs THEN txHashes[k]
     ELSE IF len % 2 = 1 /\ k = Pairs THEN <<txHashes[len], txHashes[len]>>
     ELSE <<txHashes[2 * k - 1], HashAt(2 * k)>>]

verifyMerkleRoot ==
  /\ phase = "merkle" /\ len > 1
  /\ txHashes' = Level
  /\ len' = Pairs
  /\ UNCHANGED <<received, phase, i, offset, j, count, isSegWit, tx_vin_size,
                 found, before>>

(* Whether the root is that of the header decides what is printed; nothing *)
(* else depends on it.                                                     *)
BlockVerified ==
  /\ phase = "merkle" /\ len = 1
  /\ phase' = "tx"
  /\ i' = 2
  /\ UNCHANGED <<received, txHashes, len, offset, j, count, isSegWit, tx_vin_size,
                 found, before>>

-----------------------------------------------------------------------------
(* The bytes of the transaction the reducer is at. *)
At(o) == IF o < Len(listTxs[i].hex) THEN listTxs[i].hex[o + 1] ELSE beyond
Take(o, n) == [k \in 1 .. n |-> At(o + k - 1)]

FromLE(bytes) ==
  LET value[k \in 0 .. Len(bytes)] ==
        IF k = 0 THEN 0 ELSE bytes[Len(bytes) + 1 - k] + 256 * value[k - 1]
  IN  value[Len(bytes)]

(* The number in compact size format at o, and the offset behind it. *)
getRealSizeFromCompactSize_noPrefix(o) == [size |-> At(o), next |-> o + 1]
getRealSizeFromCompactSize(o) ==
  LET width == CASE At(o) = 253 -> 2 [] At(o) = 254 -> 4 [] At(o) = 255 -> 8
                 [] OTHER -> 0
  IN  IF width = 0 THEN [size |-> At(o), next |-> o + 1]
      ELSE [size |-> FromLE(Take(o + 1, width)), next |-> o + 1 + width]

(* Does a script of n bytes at o look like a signature and a key, by the   *)
(* length of its first push?                                               *)
KeySize(o, n) ==
  CASE n = At(o) + 35 -> 33
    [] n = At(o) + 67 -> 65
    [] OTHER -> 0

(* Behind the signature, its length, and the length of the key. *)
KeyOffset_lengthIn(o) == o + 1 + At(o)
KeyOffset(o) == o + 2 + At(o)

(* The txInOut68_t of the input at o, and the offset of the next one. *)
Input(o) ==
  LET script == getRealSizeFromCompactSize(o + 36)
      size == KeySize(script.next, script.size)
  IN  [empty |-> script.size = 0,
       key |-> size > 0,
       next |-> script.next + script.size + 4,
       tin |-> [txhash |-> Take(o, 32), position |-> Take(o + 32, 4),
                pkh |-> hash160(Take(KeyOffset(script.next), size))]]

(* The head of the loop of reducer: version, marker, number of inputs. *)
reducer ==
  /\ phase = "tx" /\ i <= Len(listTxs)
  /\ phase' = "vin"
  /\ isSegWit' = (At(4) = 0 /\ At(5) # 0)
  /\ LET vin_size == getRealSizeFromCompactSize(IF isSegWit' THEN 6 ELSE 4)
     IN  /\ offset' = vin_size.next
         /\ count' = vin_size.size
         /\ tx_vin_size' = vin_size.size
  /\ j' = 0
  /\ before' = [vin |-> Len(vin), vout |-> Len(vout)]
  /\ UNCHANGED <<received, txHashes, len, i, found>>

getTxInputs ==
  /\ phase = "vin" /\ j < count /\ ~isSegWit
  /\ j' = j + 1
  /\ LET in == Input(offset)
     IN  /\ vin' = IF in.key THEN Append(vin, in.tin) ELSE vin
         /\ offset' = in.next
  /\ UNCHANGED <<received, phase, txHashes, len, i, count, isSegWit, tx_vin_size,
                 temp_segWitVin, vout, before>>

(* An input with an empty script gets its key from the witness: its pkh is *)
(* zero till then, and all ones if the input is of no interest.            *)
getSegWitTxInputs ==
  /\ phase = "vin" /\ j < count /\ isSegWit
  /\ j' = j + 1
  /\ LET in == Input(offset)
         tin == IF in.empty THEN [in.tin EXCEPT !.pkh = zeros]
                ELSE IF in.key THEN in.tin
                ELSE [in.tin EXCEPT !.pkh = ones]
     IN  /\ vin' = IF in.key /\ ~in.empty THEN Append(vin, tin) ELSE vin
         /\ temp_segWitVin' = Append(temp_segWitVin, tin)
         /\ offset' = in.next
  /\ UNCHANGED <<received, phase, txHashes, len, i, count, isSegWit, tx_vin_size,
                 vout, before>>

InputsDone ==
  /\ phase = "vin" /\ j = count
  /\ phase' = "vout"
  /\ LET vout_size == getRealSizeFromCompactSize(offset)
     IN  offset' = vout_size.next /\ count' = vout_size.size
  /\ j' = 0
  /\ UNCHANGED <<received, txHashes, len, i, isSegWit, tx_vin_size, found, before>>

(* The output at o.  Its script is known by its length and first byte. *)
Output_late(o) ==
  [txhash |-> listTxs[i].txhash, position |-> j,
   amount |-> Take(o, 8), pkh |-> raw(Take(o + 13, 20))]
Output(o) ==
  [txhash |-> listTxs[i].txhash, position |-> j,
   amount |-> Take(o, 8), pkh |-> raw(Take(o + 12, 20))]

(* The length of the script is taken to be the byte in front of it. *)
getTxOutputs ==
  /\ phase = "vout" /\ j < count
  /\ j' = j + 1
  /\ LET script == offset + 8
     IN  /\ vout' = IF At(script) = 25 /\ At(script + 1) = 118
                    THEN Append(vout, Output(offset)) ELSE vout
         /\ offset' = script + 1 + At(script)
  /\ UNCHANGED <<received, phase, txHashes, len, i, count, isSegWit, tx_vin_size,
                 temp_segWitVin, vin, before>>

OutputsDone ==
  /\ phase = "vout" /\ j = count
  /\ phase' = IF isSegWit THEN "witness" ELSE "end"
  /\ j' = 0 /\ count' = Len(temp_segWitVin)
  /\ UNCHANGED <<received, txHashes, len, i, offset, isSegWit, tx_vin_size, found,
                 before>>

(* Where `for(size_t s; s<stack_items; s++) offset += hex[offset++];' may  *)
(* get to from o: s starts with any value, and the addition may see the    *)
(* offset before or after the increment.                                   *)
Skipped(o, stack_items) ==
  LET reach[s \in 0 .. stack_items] ==
        IF s = 0 THEN {o}
        ELSE UNION { {o, p + At(p), p + 1 + At(p)} : p \in reach[s - 1] }
  IN  reach[stack_items]

(* The input of P2WPKH whose signature is at o: the key behind it, and the *)
(* offset of the next witness.  A key of 65 bytes is hashed with the byte  *)
(* of its length in front, and that byte is not counted.                   *)
Key(o) ==
  LET k == o + 1 + At(o)
  IN  CASE At(k) = 33 -> [pkh |-> hash160(Take(k + 1, 33)), next |-> k + 34]
        [] At(k) = 65 -> [pkh |-> hash160(Take(k, 65)), next |-> k + 65]
        [] OTHER -> [pkh |-> zeros, next |-> k]

getSegWitP2PKH ==
  /\ phase = "witness" /\ j < count
  /\ j' = j + 1
  /\ LET stack == getRealSizeFromCompactSize(offset)
         key == Key(stack.next)
         tin == [temp_segWitVin[j + 1] EXCEPT !.pkh = key.pkh]
     IN  \/ /\ stack.size = 0
            /\ offset' = stack.next
            /\ UNCHANGED found
         \/ /\ stack.size = 2 /\ temp_segWitVin[j + 1].pkh = zeros
            /\ offset' = key.next
            /\ temp_segWitVin' = [temp_segWitVin EXCEPT ![j + 1] = tin]
            /\ vin' = IF key.pkh = zeros THEN vin ELSE Append(vin, tin)
            /\ UNCHANGED vout
         \/ /\ stack.size > 0
            /\ ~(stack.size = 2 /\ temp_segWitVin[j + 1].pkh = zeros)
            /\ offset' \in Skipped(stack.next, stack.size)
            /\ UNCHANGED found
  /\ UNCHANGED <<received, phase, txHashes, len, i, count, isSegWit, tx_vin_size,
                 before>>

Cleared_late == IF i < Len(listTxs) THEN temp_segWitVin ELSE <<>>
Cleared == <<>>

WitnessesDone ==
  /\ phase = "witness" /\ j = count
  /\ phase' = "end"
  /\ temp_segWitVin' = Cleared
  /\ UNCHANGED <<received, txHashes, len, i, offset, j, count, isSegWit,
                 tx_vin_size, vin, vout, before>>

NextTx ==
  /\ phase = "end"
  /\ phase' = "tx"
  /\ i' = i + 1
  /\ UNCHANGED <<received, txHashes, len, offset, j, count, isSegWit, tx_vin_size,
                 found, before>>

Next ==
  \/ sendRawTxList \/ verifyBlock \/ verifyMerkleRoot \/ BlockVerified
  \/ reducer \/ getTxInputs \/ getSegWitTxInputs \/ InputsDone
  \/ getTxOutputs \/ OutputsDone \/ getSegWitP2PKH \/ WitnessesDone \/ NextTx

Spec == Init /\ [][Next]_vars

-----------------------------------------------------------------------------
TypeOK ==
  /\ block \in Blocks /\ beyond \in Overread
  /\ phase \in {"split", "merkle", "tx", "vin", "vout", "witness", "end"}
  /\ len \in 0 .. Len(block) /\ i \in 1 .. Len(block) + 1
  /\ offset \in Nat /\ j \in 0 .. count
  /\ before.vin \in 0 .. Len(vin) /\ before.vout \in 0 .. Len(vout)
  /\ phase \notin {"vin", "vout", "witness"} => temp_segWitVin = <<>>

(* The buffer the client fills and the enclave splits: every transaction   *)
(* comes out as it went in.                                                *)
SplitExact ==
  \A k \in DOMAIN listTxs : listTxs[k].hex = Serialized(block[k])

(* The Merkle tree by its definition: each row has a node for two nodes of *)
(* the row below, the last of which counts twice if their number is odd.   *)
RowAbove(row) ==
  [k \in 1 .. (Len(row) + 1) \div 2 |->
     <<row[2 * k - 1], row[IF 2 * k <= Len(row) THEN 2 * k ELSE 2 * k - 1]>>]
MerkleTree(leaves) ==
  LET row[d \in 0 .. Len(leaves)] == IF d = 0 THEN leaves ELSE RowAbove(row[d - 1])
      height == CHOOSE d \in 0 .. Len(leaves) :
                  Len(row[d]) = 1 /\ \A e \in 0 .. d - 1 : Len(row[e]) > 1
  IN  row[height][1]

(* verifyMerkleRoot works in place, and reads beyond the hashes when their *)
(* number is odd; the root it gets is that of the tree over them all the   *)
(* same, whatever it read.                                                 *)
MerkleRootExact ==
  phase = "tx" =>
    txHashes[1] = MerkleTree([k \in DOMAIN listTxs |-> listTxs[k].txhash])

(* The parse of a transaction.  It goes wrong behind a script of 253 bytes *)
(* or more in an output, and behind a witness that is neither empty nor    *)
(* that of a P2WPKH input with a key of 33 bytes.                          *)
Readable(out) == Len(out.script) < 253
Handled(in) ==
  \/ in.witness = <<>>
  \/ in.script = <<>> /\ Len(in.witness) = 2 /\ Len(in.witness[2]) = 33
UpTo(s, Good(_)) == SelectInSeq(s, LAMBDA e : ~Good(e))
Before(s, Good(_)) == IF UpTo(s, Good) = 0 THEN s ELSE SubSeq(s, 1, UpTo(s, Good) - 1)
Plain(t) == Before(t.outs, Readable) = t.outs
Tidy(t) == Plain(t) /\ (t.segwit => Before(t.ins, Handled) = t.ins)

Record(in) ==
  [txhash |-> Rep(in.prev, 32), position |-> LE(in.pos, 4), pkh |-> hash160(in.key)]
Spending(ins, kind) ==
  Each(ins, LAMBDA in : IF in.kind = kind THEN <<Record(in)>> ELSE <<>>)

(* The inputs found in a transaction are those that spend P2PKH and P2WPKH *)
(* outputs, each with the output it spends and its key, first those with   *)
(* the key in the script, then those with the key in the witness.  Behind  *)
(* what the parse can not read there may be anything; what is before it,   *)
(* and in the other transactions of the block, is as it should be.         *)
InputsExact ==
  phase = "end" =>
    LET t == block[i]
        got == SubSeq(vin, before.vin + 1, Len(vin))
        witnessed == IF Plain(t) THEN Before(t.ins, Handled) ELSE <<>>
        expected == Spending(t.ins, "p2pkh") \o Spending(witnessed, "p2wpkh")
    IN  IsPrefix(expected, got) /\ (Tidy(t) => got = expected)

(* The outputs found are the P2PKH outputs, at their positions, with their *)
(* amounts and hashes, up to the first whose script the parse misreads.    *)
OutputsExact ==
  phase = "end" =>
    LET t == block[i]
        got == SubSeq(vout, before.vout + 1, Len(vout))
        expected ==
          FlattenSeq([k \in DOMAIN Before(t.outs, Readable) |->
            IF t.outs[k].kind # "p2pkh" THEN <<>>
            ELSE << [txhash |-> listTxs[i].txhash, position |-> k - 1,
                     amount |-> LE(t.outs[k].amount, 8),
                     pkh |-> raw(t.outs[k].hash)] >>])
    IN  IsPrefix(expected, got) /\ (Plain(t) => got = expected)

(* A transaction that can be read is read to its lock time, no further.    *)
ReadToTheEnd ==
  phase = "end" /\ Tidy(block[i]) => offset = Len(listTxs[i].hex) - 4

(* vectorToORAM looks for a spent output by the transaction and position   *)
(* the input names.  An output of this block is listed under the name that *)
(* an input of this block uses for it, or it is never removed.             *)
SpentOutputsNamed ==
  phase = "tx" /\ i > Len(block) =>
    \A e \in DOMAIN vin, k \in 2 .. Len(block) : \A n \in DOMAIN block[k].outs :
      /\ vin[e].txhash = Rep(block[k].txid, 32)
      /\ vin[e].position = LE(n - 1, 4)
      /\ block[k].outs[n].kind = "p2pkh"
      => \E v \in DOMAIN vout :
           /\ Rep(vout[v].txhash, 32) = vin[e].txhash
           /\ LE(vout[v].position, 4) = vin[e].position
=============================================================================
