---------------------------- MODULE MCSendQueue -----------------------------
(* Values for the constants of SendQueue: every message has an id of its   *)
(* own, the message.                                                       *)
EXTENDS SendQueue

OwnIds      == [m \in Msgs |-> m]
MsgSymmetry == Permutations(Msgs)
=============================================================================
