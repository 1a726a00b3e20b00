--------------------------- MODULE MCCircuitORAM ---------------------------
(* Small instances of CircuitORAM for TLC: two trees, two labels to a      *)
(* block, one slot to a bucket.                                            *)
EXTENDS CircuitORAM

CONSTANTS v1, v2, none  \* model values: two contents and the unset one

TwoValues == {v1, v2}
OneValue == {v2}
Constant == [n \in 0 .. 2 |-> v1]

(* Three data blocks; their labels in two blocks of the first tree. *)
ThreeBlocks == <<2, 3>>

Depth == <<1, 2>>
LeafCount == <<2, 4>>

(* Blocks 0 and 2 have their labels in different blocks. *)
NotSharing == {0, 2}
OneBlock == {1}

Zeroed == {FALSE}
=============================================================================
