----------------------------- MODULE CallFrames -----------------------------
(***************************************************************************)
(* What the calls of the inbox's services have in common.  A call runs one *)
(* statement at a time: it is a record whose pc names the statement it     *)
(* runs next, "idle" when none is under way, beside what it has read.      *)
(***************************************************************************)
CONSTANTS
  Calls,   \* calls in flight at a time
  None

VARIABLE calls   \* the calls in flight

At(c, pc) == calls[c].pc = pc
Goto(c, pc) == calls' = [calls EXCEPT ![c].pc = pc]
Go(c, call) == calls' = [calls EXCEPT ![c] = call]
=============================================================================
