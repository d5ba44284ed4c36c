---------------------------- MODULE QueueReports ----------------------------
(***************************************************************************)
(* What the mail operation queue promises to the rest of modest, without   *)
(* signals, idle sources or nested main loops: operations enter, they      *)
(* leave, and once the last one has left somebody is told, after the fact  *)
(* and while it is still true, that no operation is queued.  The program   *)
(* quits on that report, so neither a premature nor a missing one is       *)
(* acceptable.                                                             *)
(***************************************************************************)
CONSTANT Ops

VARIABLES
    queued, \* the operations that entered and did not leave yet
    told    \* an "empty" report was delivered since the last departure

vars == <<queued, told>>

Init == queued = {} /\ told = TRUE

Enter(op) ==
    /\ op \notin queued
    /\ queued' = queued \union {op}
    /\ UNCHANGED told

\* op may also be an operation that enters and leaves in one go.
Leave(op) ==
    /\ queued' = queued \ {op}
    /\ told' = FALSE

\* A report may be repeated; it is never delivered while an operation is in.
Report ==
    /\ queued = {}
    /\ told' = TRUE
    /\ UNCHANGED queued

Next == Report \/ \E op \in Ops : Enter(op) \/ Leave(op)

Safety == Init /\ [][Next]_vars

Spec == Safety /\ WF_vars(Report)
=============================================================================
