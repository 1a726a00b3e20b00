----------------------------- MODULE MCReducer -----------------------------
(* Blocks for TLC: a coinbase and a transaction with two inputs and two     *)
(* outputs of every kind, and a few blocks with more transactions.          *)
EXTENDS Reducer

Fill(byte, n) == [k \in 1 .. n |-> byte]
Push(bytes) == <<Len(bytes)>> \o bytes
Signature(n) == Fill(48, n)
LegacyScript(sig, key) == Push(Signature(sig) \o <<1>>) \o Push(key)

(* Inputs.  The byte of a key stands for its value. *)
Spend(prev, pos, kind, key, script, witness) ==
  [prev |-> prev, pos |-> pos, kind |-> kind, key |-> key, script |-> script,
   witness |-> witness]
P2PKH(prev, pos, sig, key) ==
  Spend(prev, pos, "p2pkh", key, LegacyScript(sig, key), <<>>)
P2WPKH(prev, pos, key) ==
  Spend(prev, pos, "p2wpkh", key, <<>>, <<Signature(71), key>>)
Nested(prev, pos, key) ==  \* P2WPKH inside P2SH
  Spend(prev, pos, "other", key, Push(Fill(20, 22)), <<Signature(71), key>>)
P2WSH(prev, pos) ==
  Spend(prev, pos, "other", <<>>, <<>>, <<<<>>, Signature(3), Fill(82, 5)>>)
Multisig(prev, pos) ==     \* a script with a length of three bytes
  Spend(prev, pos, "other", <<>>, <<0>> \o Fill(72, 299), <<>>)

LegacyInputs(k) ==
  { P2PKH(10 * k, k, 70, Fill(k, 33)), P2PKH(10 * k, k, 71, Fill(k, 65)),
    Multisig(10 * k, k) }
SegWitInputs(k) ==
  { P2PKH(10 * k, k, 70, Fill(k, 33)), P2WPKH(10 * k, 300, Fill(k, 33)),
    P2WPKH(10 * k, k, Fill(k, 65)), Nested(10 * k, k, Fill(k, 33)),
    P2WSH(10 * k, k) }

Pay(amount, kind, hash, script) ==
  [amount |-> amount, kind |-> kind, hash |-> hash, script |-> script]
PayP2PKH(amount, h) ==
  Pay(amount, "p2pkh", Fill(h, 20), <<118, 169, 20>> \o Fill(h, 20) \o <<136, 172>>)
PayP2WPKH(amount, h) == Pay(amount, "other", Fill(h, 20), <<0, 20>> \o Fill(h, 20))
PayLong == Pay(1, "other", <<>>, Fill(5, 260))

Outputs(k) == { PayP2PKH(700 + k, 30 + k), PayP2WPKH(5, 40 + k), PayLong }

Tx(id, segwit, ins, outs) ==
  [txid |-> id, wtxid |-> 100 + id, segwit |-> segwit, ins |-> ins, outs |-> outs]
Coinbase ==
  Tx(50, FALSE, << Spend(0, 0, "other", <<>>, Fill(4, 8), <<>>) >>, << PayP2PKH(9, 29) >>)

Singles ==
  { Tx(51, FALSE, <<a, b>>, <<c, d>>) :
      a \in LegacyInputs(1), b \in LegacyInputs(2), c \in Outputs(1), d \in Outputs(2) }
  \cup
  { Tx(51, TRUE, <<a, b>>, << PayP2PKH(701, 31), PayP2WPKH(5, 42) >>) :
      a \in SegWitInputs(1), b \in SegWitInputs(2) }
  \cup
  { Tx(51, TRUE, << P2WPKH(10, 300, Fill(1, 33)) >>, <<c, d>>) :
      c \in Outputs(1), d \in Outputs(2) }

(* Transactions that spend each other's outputs. *)
Chain(segwit) ==
  << Tx(51, segwit, << IF segwit THEN P2WPKH(10, 1, Fill(1, 33))
                                 ELSE P2PKH(10, 1, 70, Fill(1, 33)) >>,
        << PayP2WPKH(4, 33), PayP2PKH(3, 34) >>),
     Tx(52, FALSE, << P2PKH(51, 1, 70, Fill(2, 33)) >>, << PayP2PKH(2, 35) >>) >>
TwoWitnesses ==
  << Tx(53, TRUE, << P2WPKH(11, 0, Fill(3, 33)), Nested(12, 1, Fill(4, 33)) >>,
        << PayP2PKH(6, 36) >>),
     Tx(54, TRUE, << P2PKH(13, 1, 70, Fill(5, 33)), P2WPKH(14, 0, Fill(6, 33)) >>,
        << PayLong >>) >>
Fifth == Tx(55, FALSE, << Multisig(15, 2) >>, << PayP2PKH(8, 37) >>)

ManyBlocks ==
  { <<Coinbase>> \o b :
      b \in { <<t>> : t \in Singles }
        \cup { <<>>, Chain(FALSE), Chain(TRUE), TwoWitnesses, Chain(FALSE) \o TwoWitnesses,
               TwoWitnesses \o Chain(TRUE) \o <<Fifth>> } }
=============================================================================
