-------------------------- MODULE LossyBlockStore --------------------------
(***************************************************************************)
(* What the ORAM still promises when its stashes overflow, which it does   *)
(* without a sign (Stash.cpp: pass_insert): it may forget, but it does not *)
(* answer wrongly.  A write may lose blocks, or the way to them; the rest  *)
(* of the array is as good as before, and a lost block still holds what    *)
(* was last written to it, or nothing.                                     *)
(***************************************************************************)
EXTENDS BlockStore

VARIABLE lost  \* the blocks that a request may fail to find

lossyVars == <<absVars, lost>>

LossyInit == AbsInit /\ lost = {}

(* While it serves an 'r' or a 'w', the store may lose a block and the way *)
(* to others.  A 'z' loses nothing.                                        *)
Lose ==
  /\ status = "pending" /\ request.op # "z"
  /\ UNCHANGED <<status, request, out>>
  /\ lost \subseteq lost' /\ lost' \subseteq BlockIds
  /\ \/ UNCHANGED mem
     \/ \E b \in lost' : mem' = [mem EXCEPT ![b] = NoContent]

(* The block is not found: data_out stays as it is, and nothing is        *)
(* written.  A 'z' may miss any block, since its copies are the first to   *)
(* find no room.                                                           *)
Miss ==
  /\ status = "pending" /\ (request.op = "z" \/ request.id \in lost)
  /\ status' = "served"
  /\ UNCHANGED <<mem, request, out, lost>>

(* A block that is gone is not written. *)
WriteFinds == Write /\ mem[request.id] # NoContent

LossyNext ==
  \/ Lose \/ Miss
  \/ (InvokeAny \/ Read \/ WriteFinds \/ Return) /\ UNCHANGED lost

LossySpec == LossyInit /\ [][LossyNext]_lossyVars
=============================================================================
