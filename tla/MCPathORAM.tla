----------------------------- MODULE MCPathORAM -----------------------------
(* Small instances of PathORAM for TLC: two trees, two labels to a block. *)
EXTENDS PathORAM

CONSTANTS v1, v2, none  \* model values: two contents and the unset one

TwoValues == {v1, v2}
OneValue == {v1}

(* The build gives the blocks of every other leaf the same content; block  *)
(* 2 is in the second leaf of ShallowLeaves.                               *)
Alternating == [n \in 0 .. 2 |-> IF n = 2 THEN v2 ELSE v1]
Constant == [n \in 0 .. 2 |-> v1]

(* Three data blocks; their labels in two blocks of the first tree. *)
ThreeBlocks == <<2, 3>>

(* Two slots to a bucket: the first tree is one bucket, the second has two *)
(* leaves.                                                                 *)
ShallowDepth == <<0, 1>>
ShallowLeaves == <<1, 2>>

(* One slot to a bucket: two leaves in the first tree, four in the second. *)
DeepDepth == <<1, 2>>
DeepLeaves == <<2, 4>>

(* Blocks 0 and 1 share a block of labels, 0 and 2 do not. *)
Sharing == {0, 1}
NotSharing == {0, 2}
AllBlocks == 0 .. 2

Zeroed == {FALSE}
Uninitialised == BOOLEAN
=============================================================================
