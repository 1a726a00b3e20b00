----------------------------- MODULE BlockStore -----------------------------
(***************************************************************************)
(* What the ORAM promises its caller (ZT_Enclave.cpp: accessORAM,          *)
(* vectorToORAM): an array of blocks, one request at a time.  A read, 'r'  *)
(* or 'z', answers the content last written to the block; a write changes  *)
(* that block and no other.                                                *)
(***************************************************************************)
CONSTANTS
  BlockIds,  \* the blocks of the array
  Contents,  \* what a block may hold
  Initially, \* what each block holds at first
  NoContent  \* data_out before the request is served

VARIABLES
  mem,       \* the content of each block
  status,    \* where the request is: "idle", "pending" or "served"
  request,   \* its operation, block and content to write
  out        \* what the caller's data_out holds

absVars == <<mem, status, request, out>>

AbsInit ==
  /\ mem = Initially
  /\ status = "idle"
  /\ request = [op |-> "r", id |-> 0, val |-> NoContent]
  /\ out = NoContent

Invoke(op, id, val) ==
  /\ status = "idle" /\ status' = "pending"
  /\ request' = [op |-> op, id |-> id, val |-> val]
  /\ out' = NoContent
  /\ UNCHANGED mem

InvokeAny ==
  \E id \in BlockIds : \/ \E op \in {"r", "z"} : Invoke(op, id, NoContent)
                       \/ \E val \in Contents : Invoke("w", id, val)

Read ==
  /\ status = "pending" /\ request.op \in {"r", "z"}
  /\ status' = "served"
  /\ out' = mem[request.id]
  /\ UNCHANGED <<mem, request>>

Write ==
  /\ status = "pending" /\ request.op = "w"
  /\ status' = "served"
  /\ mem' = [mem EXCEPT ![request.id] = request.val]
  /\ UNCHANGED <<request, out>>

Return ==
  /\ status = "served" /\ status' = "idle"
  /\ UNCHANGED <<mem, request, out>>

AbsNext == InvokeAny \/ Read \/ Write \/ Return

(* Every request is answered. *)
AbsSpec == AbsInit /\ [][AbsNext]_absVars /\ WF_absVars(Read \/ Write \/ Return)
=============================================================================
