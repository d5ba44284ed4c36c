----------------------------- MODULE MCMessages -----------------------------
(* Messages written, operated on and read, their attachments, and the queue *)
(* of operations, in one run: each is a specification of its own with its   *)
(* own state, and a behaviour is one of any, as chosen at the start.  The   *)
(* other parts do not move.                                                 *)
EXTENDS Composer, MessageOps, Viewers, Attachments, MCMailOpQueue

VARIABLE part   \* "write", "operate", "read", "attach" or "queue"

\* Nothing is chosen at the start of a part that does not move.
MessagesInit ==
    /\ ComposerInit /\ MessageOpsInit /\ ViewersInit /\ AttachInit /\ Init
    /\ part \in {"write", "operate", "read", "attach", "queue"}
    /\ part # "write" => \A m \in Messages : where[m] = "none"
    /\ part # "operate" => \A m \in Mails : places[m] = {"inbox"}
    /\ part # "read" => drafts
    /\ part # "attach" => source = "none" /\ link = "offline" /\ fetched = {}
    /\ part # "queue" => deviceForced = FALSE

MessagesNext ==
    /\ UNCHANGED part
    /\ IF part = "write" THEN ComposerNext ELSE UNCHANGED composerVars
    /\ IF part = "operate" THEN MessageOpsNext ELSE UNCHANGED messageVars
    /\ IF part = "read" THEN ViewersNext ELSE UNCHANGED viewersVars
    /\ IF part = "attach" THEN AttachNext ELSE UNCHANGED attachVars
    /\ IF part = "queue" THEN Next ELSE UNCHANGED vars

MessagesVars ==
    <<part, composerVars, messageVars, viewersVars, attachVars, vars>>

MessagesSpec == MessagesInit /\ [][MessagesNext]_MessagesVars
=============================================================================
