------------------------------ MODULE MCUtxoSet ------------------------------
(* A small instance of UtxoSet: two blocks of three slots, three keys.     *)
EXTENDS UtxoSet

CONSTANTS a1, a2, a3, b1, c1, c2, coin, zeros, junk0, junk1, noblock

SomeOutputs == {a1, a2, a3, b1, c1, coin}
CoinbaseOutputs == {coin}

(* Two outputs of the key that shares its block with the bytes of zeros. *)
ZerosBlockOutputs == {c1, c2}
NoCoinbase == {}

SomeJunk == {junk0, junk1}

(* Keys 1 and 2 share block 0; key 3 has block 1, to which the bytes of    *)
(* zeros hash too.  The initial bytes of a slot hash to either block.      *)
KeyOf == [c \in SlotContents |->
  CASE c \in {a1, a2, a3} -> 1 [] c \in {b1, coin} -> 2 [] c \in {c1, c2} -> 3
    [] c = zeros -> 4 [] c = junk0 -> 5 [] c = junk1 -> 6]
BlockOfKey == [k \in Keys |-> <<0, 0, 1, 1, 0, 1>>[k]]

(* Every slot of block 0 is empty at first, and one slot of block 1. *)
Fresh == [n \in Blocks |-> IF n = 0 THEN <<junk1, junk1, junk1>>
                                    ELSE <<junk1, junk0, junk1>>]
=============================================================================
