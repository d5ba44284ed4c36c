------------------------------- MODULE MCLive --------------------------------
(* The queue of operations, going online, the requests of D-Bus, and the    *)
(* liveness of sending, of receiving and of the operations on messages in   *)
(* one run: each is a specification of its own with its own state, and a    *)
(* behaviour is one of any, as chosen at the start.  The other parts do not *)
(* move.                                                                    *)
EXTENDS MCUpdateAccount, Connect, DBusService

CONSTANTS
    Ops,         \* of the operation queue
    SendMsgs,    \* messages of the send queue
    MaxRequests, \* bound of the send queue
    Tasks, Mails, MaxParts, MaxErrors, \* of the operations on messages
    b1, b2, b3, b4, b5,   \* the folders of the D-Bus requests
    local, plugin, multi  \* their accounts

VARIABLES
    part,   \* "queue", "connect", "search", "unread", "send", "receive" or "operate"
    opQueue, watched, mailOp, inFlight, removing, idles, runningFinalSync,
    deviceForced, stray, told,
    status, sending, suspend, requests, mail, runOps, syncs, overUnref,
    emptyDue, quit, outbox, flagged, transport, worker, current, tried,
    stopping, again, tasks, places, owner, inSending, errors

Outcomes == {<<"SUCCESS", FALSE>>, <<"FINISHED_WITH_ERRORS", TRUE>>,
             <<"FAILED", TRUE>>, <<"CANCELED", TRUE>>}

OQ == INSTANCE MailOpQueue WITH UserTypes <- {"RECEIVE", "DELETE"}

SQ == INSTANCE SendQueue
        WITH Msgs <- SendMsgs, Ids <- SendMsgs, MsgId <- [m \in SendMsgs |-> m]

MO == INSTANCE MessageOps

(* One inbox in the account of a plug-in; in the other an inbox and a       *)
(* folder with an inbox in it.                                              *)
InEach ==
    [c \in {local, plugin, multi, b1, b2, b3, b4, b5} |->
       CASE c = local  -> {b1}
         [] c = plugin -> {b2}
         [] c = multi  -> {b3, b4}
         [] c = b4     -> {b5}
         [] OTHER      -> {}]

MCStoreAccounts == <<local, plugin, multi>>

sendVars == <<status, sending, suspend, requests, mail, runOps, syncs,
              overUnref, emptyDue, quit, outbox, flagged, transport, worker,
              current, tried, stopping, again>>

opQueueVars == <<opQueue, watched, mailOp, inFlight, removing, idles,
                 runningFinalSync, deviceForced, stray, told>>

taskVars == <<tasks, places, owner, inSending, errors>>

\* The messages operated on start in the inbox: in the outbox only what a
\* removal takes differs, and not when it ends.

\* A send queue that waits for nothing.
SendIdle ==
    /\ outbox = {} /\ flagged = {} /\ requests = <<>>
    /\ status = [m \in SendMsgs |-> "UNKNOWN"]
    /\ mail = [m \in SendMsgs |->
                 [draft |-> FALSE, add |-> "none", op |-> "none"]]
    /\ sending = FALSE /\ suspend = FALSE /\ emptyDue = FALSE /\ quit = FALSE
    /\ runOps = 0 /\ syncs = 0 /\ overUnref = 0
    /\ transport = FALSE /\ worker = "off" /\ stopping = FALSE
    /\ current = {} /\ tried = {} /\ again = {}

LiveInit ==
    /\ Init /\ MO!MessageOpsInit /\ OQ!Init /\ ConnectInit /\ DBusInit
    /\ \/ part = "send" /\ SQ!Init
       \/ /\ part \in {"receive", "operate", "queue", "connect", "search", "unread"}
          /\ SendIdle
    /\ part # "receive" => known = {}
    /\ part # "queue" => deviceForced = FALSE
    /\ part # "connect" => online = FALSE /\ connected = {}
    /\ \A m \in Mails : places[m] = {"inbox"}

LiveNext ==
    /\ UNCHANGED part
    /\ IF part = "receive" THEN Next ELSE UNCHANGED vars
    /\ IF part = "send" THEN SQ!Next ELSE UNCHANGED sendVars
    /\ IF part = "operate" THEN MO!MessageOpsNext ELSE UNCHANGED taskVars
    /\ IF part = "queue" THEN OQ!Next ELSE UNCHANGED opQueueVars
    /\ IF part = "connect" THEN ConnectNext ELSE UNCHANGED connectVars
    /\ IF part \in {"search", "unread"} THEN DBusNext ELSE UNCHANGED dbusVars
    /\ part = "search" => UNCHANGED unread
    /\ part = "unread" => UNCHANGED search

LiveVars == <<part, vars, sendVars, taskVars, opQueueVars, connectVars,
             dbusVars>>

(* Nothing is under way in the parts that do not move: their fairness asks  *)
(* for nothing.                                                             *)
LiveSpec ==
    /\ LiveInit /\ [][LiveNext]_LiveVars
    /\ \A u \in Updates : WF_vars(Answer(u))
    /\ MO!MessageOpsFairness
    /\ SQ!Fairness
    /\ OQ!Fairness
    /\ ConnectFairness
    /\ DBusFairness

SendingEnds == SQ!SendingEnds
TasksEnd    == MO!TasksEnd

ReportsWhenEmpty == OQ!ReportsWhenEmpty
=============================================================================
