---------------------------- MODULE MCSendAndList ----------------------------
(* The send queue and the list of a folder in one run: each of the two is a *)
(* specification of its own with its own state, and a behaviour is one of   *)
(* either, as chosen at the start.  The other part does not move.  Of the   *)
(* messages of the folder only the oldest may have the DELETED flag.        *)
EXTENDS MCSendQueue, HeaderList

VARIABLE part   \* "send" or "list"

SendAndListInit ==
    /\ Init /\ HeaderListInit
    /\ \/ /\ part = "send"
          /\ inFolder = {} /\ deleted = {} /\ limited
       \/ /\ part = "list"
          /\ outbox = {} /\ deleted \subseteq {1}

SendAndListNext ==
    /\ UNCHANGED part
    /\ \/ part = "send" /\ Next /\ UNCHANGED headerListVars
       \/ part = "list" /\ HeaderListNext /\ UNCHANGED vars

SendAndListSpec ==
    SendAndListInit /\ [][SendAndListNext]_<<part, vars, headerListVars>>
=============================================================================
