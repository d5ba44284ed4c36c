------------------------------ MODULE SendQueue ------------------------------
(***************************************************************************)
(* The send queue of one transport account (modest-tny-send-queue.c) and   *)
(* the mail operations that keep the program running for it: those of new  *)
(* mail (SEND), of a running queue (RUN_QUEUE) and of a wakeup             *)
(* (QUEUE_WAKEUP, all in modest-mail-operation.c).                         *)
(*                                                                         *)
(* Handlers run in the main loop, one at a time.  Between them tinymail    *)
(* stores messages, lists the outbox and sends from a worker thread, which *)
(* reports through signals.  tinymail is external and is given every order *)
(* of events that modest's handlers are written for.                       *)
(***************************************************************************)
EXTENDS Naturals, Sequences, SequencesExt, FiniteSets

CONSTANTS
    Msgs,         \* messages: those of earlier sessions and those to compose
    Ids,          \* results of modest_tny_send_queue_get_msg_id
    MsgId,        \* the id of each message: two messages may share it
    MaxRequests   \* bound: the user acts only with fewer requests to tinymail due

ASSUME SendQueueAssumption ==
    /\ IsFiniteSet(Msgs)
    /\ MsgId \in [Msgs -> Ids]
    /\ MaxRequests \in Nat

VARIABLES
    status,    \* status of the SendInfo of each id, "UNKNOWN" without one
    sending,   \* priv->sending
    suspend,   \* priv->suspend
    requests,  \* calls of tny_folder_get_headers_async on the outbox
    mail,      \* for each message, how far sending it as new mail went
    runOps,    \* RUN_QUEUE operations, all connected to "queue-stop"
    syncs,     \* QUEUE_WAKEUP operations syncing the outbox
    overUnref, \* references given back that were never taken
    emptyDue,  \* notify_queue_empty is installed
    quit,      \* "queue-empty" was emitted with no window left
    outbox,    \* tinymail: the messages in the outbox
    flagged,   \* tinymail: messages with TNY_HEADER_FLAG_SUSPENDED
    transport, \* tinymail: the queue has its transport account
    worker,    \* tinymail: the thread is "off", "due" or "on"
    current,   \* tinymail: the messages being sent, one at most
    tried,     \* tinymail: messages that failed since the thread started
    stopping,  \* tinymail: the thread was told to stop
    again      \* tinymail: messages whose "msg-sent" may be emitted again

infoVars  == <<status, sending, suspend, requests, overUnref>>
opVars    == <<mail, runOps, syncs, emptyDue, quit>>
boxVars   == <<outbox, flagged, again>>
workVars  == <<worker, current, tried, stopping>>
vars      == <<infoVars, opVars, boxVars, workVars, transport>>

Statuses == {"UNKNOWN", "WAITING", "SUSPENDED", "SENDING", "FAILED"}
Request  == [kind : {"new", "stop", "wakeup"}, headers : SUBSET Msgs]

\* add: the callback of tny_send_queue_add_async is due from "asked" on, and
\* the message is in the outbox or was from "stored" on; op: the SEND
\* operation is in the mail operation queue while "queued" or "waiting", then
\* in a RunQueueHelper connected to "queue-start" and "error-happened".
Mail == [draft : BOOLEAN, add : {"none", "asked", "stored", "called"},
         op : {"none", "queued", "waiting", "ended"}]

TypeOK ==
    /\ status \in [Ids -> Statuses]
    /\ sending \in BOOLEAN /\ suspend \in BOOLEAN /\ transport \in BOOLEAN
    /\ requests \in Seq(Request)
    /\ mail \in [Msgs -> Mail]
    /\ runOps \in Nat /\ syncs \in Nat /\ overUnref \in Nat
    /\ emptyDue \in BOOLEAN /\ quit \in BOOLEAN
    /\ outbox \subseteq Msgs /\ flagged \subseteq Msgs /\ again \subseteq Msgs
    /\ worker \in {"off", "due", "on"}
    /\ current \subseteq Msgs /\ tried \subseteq Msgs
    /\ stopping \in BOOLEAN

-----------------------------------------------------------------------------
Waiting  == {m \in Msgs : mail[m].op = "waiting"}
SendOps  == {m \in Msgs : mail[m].op \in {"queued", "waiting"}}
Wakeups  == {i \in 1..Len(requests) : requests[i].kind = "wakeup"}

\* The mail operation queue is empty.
NoOps == SendOps = {} /\ Wakeups = {} /\ runOps = 0 /\ syncs = 0

\* Operations may leave the mail operation queue (the other primed variables say
\* which): when the last one does, notify_queue_empty is installed.
OpLeaves == emptyDue' = (emptyDue \/ (~NoOps /\ NoOps'))

\* References to the queue: the cache's, one for each listing, each wakeup that
\* syncs and each RunQueueHelper, less those given back once too often.
Refs == 1 + Len(requests) + syncs + runOps + Cardinality(Waiting)
Alive == Refs > overUnref

\* A listing gives the outbox as it was when asked for or as it is now.
Listings(r) == {r.headers, outbox}

Ask(kind) == Append(requests, [kind |-> kind, headers |-> outbox])

IdsOf(S) == {MsgId[m] : m \in S}

\* The thread to run next: one is created unless one runs.
Woken == IF worker = "off" /\ transport THEN "due" ELSE worker

\* tny_camel_send_queue_flush
Flushed == IF outbox # {} THEN Woken ELSE worker

-----------------------------------------------------------------------------
\* modest_runtime_get_send_queue creates the queue: modest_tny_send_queue_new
\* lists the outbox an earlier session left.
Init ==
    /\ outbox \in SUBSET Msgs
    /\ flagged \in SUBSET outbox
    /\ status = [id \in Ids |-> "UNKNOWN"]
    /\ sending = FALSE /\ suspend = FALSE
    /\ requests = <<[kind |-> "new", headers |-> outbox]>>
    /\ mail = [m \in Msgs |->
                 IF m \in outbox
                   THEN [draft |-> FALSE, add |-> "called", op |-> "ended"]
                   ELSE [draft |-> FALSE, add |-> "none", op |-> "none"]]
    /\ runOps = 0 /\ syncs = 0 /\ overUnref = 0
    /\ emptyDue = FALSE /\ quit = FALSE
    /\ transport = FALSE
    /\ worker = "off" /\ current = {} /\ tried = {} /\ stopping = FALSE
    /\ again = {}

-----------------------------------------------------------------------------
(* New mail.                                                               *)

\* modest_mail_operation_send_new_mail, whose message was created: the message
\* goes to tny_send_queue_add_async.  With a draft to replace, the operation
\* waits for a sync of the draft's folder instead of the queue's start.
SendNewMail(m, draft) ==
    /\ mail[m].op = "none"
    /\ mail' = [mail EXCEPT ![m] = [draft |-> draft, add |-> "asked", op |-> "queued"]]
    /\ UNCHANGED <<infoVars, runOps, syncs, emptyDue, quit, boxVars, workVars,
                   transport>>

\* tinymail puts the message in the outbox; the callback is due.
Store(m) ==
    /\ mail[m].add = "asked"
    /\ mail' = [mail EXCEPT ![m].add = "stored"]
    /\ outbox' = outbox \union {m}
    /\ UNCHANGED <<infoVars, runOps, syncs, emptyDue, quit, flagged, again,
                   workVars, transport>>

\* Mutant: send_mail_on_added_to_outbox always waits for "queue-start".
AlwaysWait(m) ==
    /\ mail' = [mail EXCEPT ![m].add = "called", ![m].op = "waiting"]
    /\ UNCHANGED runOps

\* The end of send_mail_on_added_to_outbox when it has to notify: if the queue
\* is sending, a RUN_QUEUE operation takes over from the SEND operation at
\* once (run_queue_start), otherwise the queue's start is awaited.
AwaitQueue(m) ==
    IF sending
      THEN /\ mail' = [mail EXCEPT ![m].add = "called", ![m].op = "ended"]
           /\ runOps' = runOps + 1
      ELSE /\ mail' = [mail EXCEPT ![m].add = "called", ![m].op = "waiting"]
           /\ UNCHANGED runOps

\* _on_added_to_outbox and send_mail_on_added_to_outbox, whether the message
\* was added, canceled or refused: the info waits for its turn in any case.
\* tinymail sees to it that its thread runs for a message it added.
AddedToOutbox(m) ==
    /\ mail[m].add \in {"asked", "stored"}
    /\ status' = [status EXCEPT ![MsgId[m]] = "WAITING"]
    /\ IF mail[m].draft
         THEN /\ mail' = [mail EXCEPT ![m].add = "called"]
              /\ UNCHANGED runOps
         ELSE AwaitQueue(m)
    /\ worker' = IF mail[m].add = "stored" THEN Woken ELSE worker
    /\ UNCHANGED <<sending, suspend, requests, overUnref, syncs, quit, boxVars,
                   current, tried, stopping, transport>>
    /\ OpLeaves

\* send_mail_on_sync_async_cb: the operation of a replaced draft ends.  The
\* draft may be a message of the outbox that failed and was edited again.
DraftSynced(m) ==
    /\ mail[m].draft /\ mail[m].op = "queued"
    /\ mail' = [mail EXCEPT ![m].op = "ended"]
    /\ \E old \in {{}} \union {{x} : x \in {y \in outbox \ current :
                                /\ y # m
                                /\ status[MsgId[y]] = "FAILED"}} :
          outbox' = outbox \ old
    /\ UNCHANGED <<infoVars, runOps, syncs, quit, flagged, again, workVars,
                   transport>>
    /\ OpLeaves

-----------------------------------------------------------------------------
(* Signals of the worker thread.                                           *)

\* Mutant: _on_queue_start does not add a RUN_QUEUE operation of its own.
StartsForWaiters == Cardinality(Waiting)

\* RUN_QUEUE operations that "queue-start" adds: _on_queue_start one, and
\* run_queue_start one for each SEND operation that waited.
StartsRunOps == 1 + Cardinality(Waiting)

\* "queue-start"
QueueStart ==
    /\ worker = "due"
    /\ worker' = "on" /\ tried' = {}
    /\ sending' = TRUE
    /\ runOps' = runOps + StartsRunOps
    /\ mail' = [m \in Msgs |-> IF m \in Waiting THEN [mail[m] EXCEPT !.op = "ended"]
                                                ELSE mail[m]]
    /\ UNCHANGED <<status, suspend, requests, overUnref, syncs, emptyDue, quit,
                   boxVars, current, stopping, transport>>

\* "error-happened" without a header, the thread could not be created:
\* run_queue_error_happened ends the waiting operations.
QueueCannotStart ==
    /\ worker = "due"
    /\ worker' = "off" /\ stopping' = FALSE
    /\ mail' = [m \in Msgs |-> IF m \in Waiting THEN [mail[m] EXCEPT !.op = "ended"]
                                                ELSE mail[m]]
    /\ UNCHANGED <<infoVars, runOps, syncs, quit, boxVars, current, tried, transport>>
    /\ OpLeaves

Sendable == outbox \ (flagged \union tried)

\* "msg-sending": _on_msg_start_sending
MsgSending(m) ==
    /\ worker = "on" /\ current = {} /\ ~stopping
    /\ m \in Sendable
    /\ current' = {m}
    /\ status' = [status EXCEPT ![MsgId[m]] = IF @ = "UNKNOWN" THEN @ ELSE "SENDING"]
    /\ UNCHANGED <<sending, suspend, requests, overUnref, opVars, boxVars, worker,
                   tried, stopping, transport>>

\* "msg-sent": _on_msg_has_been_sent.  Its comment tells that tinymail may emit
\* the signal twice.
MsgSent(m) ==
    /\ m \in current
    /\ current' = {}
    /\ outbox' = outbox \ {m} /\ flagged' = flagged \ {m}
    /\ again' \in {again, again \union {m}}
    /\ status' = [status EXCEPT ![MsgId[m]] = "UNKNOWN"]
    /\ UNCHANGED <<sending, suspend, requests, overUnref, opVars, worker, tried,
                   stopping, transport>>

MsgSentAgain(m) ==
    /\ m \in again
    /\ again' = again \ {m}
    /\ status' = [status EXCEPT ![MsgId[m]] = "UNKNOWN"]
    /\ UNCHANGED <<sending, suspend, requests, overUnref, opVars, outbox, flagged,
                   workVars, transport>>

\* Mutant: a cancellation leaves the info alone.
ErrorUnlessCanceled(old, canceled) == IF canceled THEN old ELSE "FAILED"

\* The status _on_msg_error_happened leaves in an info it finds.
ErrorStatus(old, canceled) == IF canceled THEN "SUSPENDED" ELSE "FAILED"

\* "error-happened" for the message being sent, perhaps because
\* tny_account_cancel interrupted it.
MsgError(m, canceled) ==
    /\ m \in current
    /\ current' = {} /\ tried' = tried \union {m}
    /\ status' = [status EXCEPT ![MsgId[m]] =
                     IF @ = "UNKNOWN" THEN @ ELSE ErrorStatus(@, canceled)]
    /\ UNCHANGED <<sending, suspend, requests, overUnref, opVars, boxVars, worker,
                   stopping, transport>>

\* run_queue_stop ends every RUN_QUEUE operation.
AllStop == 0

\* "queue-stop": _on_queue_stop, which lists the outbox after a cancellation.
QueueStop ==
    /\ worker = "on" /\ current = {}
    /\ stopping \/ Sendable = {}
    /\ worker' = "off" /\ stopping' = FALSE
    /\ sending' = FALSE
    /\ suspend' = FALSE
    /\ requests' = IF suspend THEN Ask("stop") ELSE requests
    /\ runOps' = AllStop
    /\ UNCHANGED <<status, overUnref, mail, syncs, quit, boxVars, current, tried,
                   transport>>
    /\ OpLeaves

-----------------------------------------------------------------------------
(* Listings of the outbox.                                                 *)

\* new_queue_get_headers_async_cb: messages without an info that nobody edits
\* get one, suspended ones are to be woken up, and in any case the queue gets
\* its transport account, which flushes it.
NewQueueListed(i) ==
    /\ requests[i].kind = "new"
    /\ transport' = TRUE
    /\ worker' = IF outbox # {} /\ worker = "off" THEN "due" ELSE worker
    /\ \/ /\ \E hs \in Listings(requests[i]), edited \in SUBSET Msgs :
               status' = [id \in Ids |->
                            IF status[id] = "UNKNOWN" /\ id \in IdsOf(hs \ edited)
                              THEN "WAITING" ELSE status[id]]
          /\ requests' = Append(RemoveAt(requests, i),
                                [kind |-> "wakeup", headers |-> outbox])
       \/ /\ requests' = RemoveAt(requests, i)
          /\ UNCHANGED status
    /\ UNCHANGED <<sending, suspend, overUnref, opVars, boxVars, current, tried,
                   stopping>>

\* on_queue_stop_get_headers_async_cb
StopListed(i) ==
    /\ requests[i].kind = "stop"
    /\ requests' = RemoveAt(requests, i)
    /\ \/ \E hs \in Listings(requests[i]) :
             status' = [id \in Ids |->
                          IF status[id] # "UNKNOWN" /\ id \in IdsOf(hs \intersect flagged)
                            THEN "SUSPENDED" ELSE status[id]]
       \/ UNCHANGED status
    /\ UNCHANGED <<sending, suspend, overUnref, opVars, boxVars, workVars, transport>>

\* modest_mail_operation_queue_wakeup on a new operation, from send & receive
\* and from modest_utils_flush_send_queue.
QueueWakeup ==
    /\ Len(requests) + syncs < MaxRequests
    /\ requests' = Ask("wakeup")
    /\ UNCHANGED <<status, sending, suspend, overUnref, opVars, boxVars, workVars,
                   transport>>

\* wakeup_get_headers_async_cb: suspended messages wait again; the outbox is
\* synced next.
WakeupListed(i) ==
    /\ requests[i].kind = "wakeup"
    /\ requests' = RemoveAt(requests, i)
    /\ \E hs \in Listings(requests[i]) :
          /\ flagged' = flagged \ hs
          /\ status' = [id \in Ids |->
                          IF id \in IdsOf(hs \intersect flagged)
                            THEN "WAITING" ELSE status[id]]
    /\ syncs' = syncs + 1
    /\ UNCHANGED <<sending, suspend, overUnref, mail, runOps, emptyDue, quit, outbox,
                   again, workVars, transport>>

\* wakeup_get_headers_async_cb without a listing: one reference to the queue
\* too many is given back, then queue_wakeup_callback flushes the queue and
\* ends the operation as for a success.
WakeupNotListed(i) ==
    /\ requests[i].kind = "wakeup"
    /\ requests' = RemoveAt(requests, i)
    /\ overUnref' = overUnref + 1
    /\ worker' = Flushed
    /\ UNCHANGED <<status, sending, suspend, mail, runOps, syncs, quit, boxVars,
                   current, tried, stopping, transport>>
    /\ OpLeaves

\* wakeup_sync_cb, queue_wakeup_callback: the queue is flushed and the
\* operation ends, before the thread reports that it started.
WakeupSynced ==
    /\ syncs > 0
    /\ syncs' = syncs - 1
    /\ worker' = Flushed
    /\ UNCHANGED <<infoVars, mail, runOps, quit, boxVars, current, tried, stopping,
                   transport>>
    /\ OpLeaves

-----------------------------------------------------------------------------
(* The user and the end of the program.                                    *)

\* modest_tny_send_queue_cancel to suspend, from modest_ui_actions_cancel_send
\* while sending or from modest_mail_operation_cancel of a SEND operation.
\* tinymail flags the messages, the one being sent perhaps too, or fails
\* without saying so to a caller that passed no GError.
CancelSuspend ==
    /\ Len(requests) + syncs < MaxRequests
    /\ sending \/ SendOps # {}
    /\ suspend' = TRUE
    /\ flagged' \in {outbox, outbox \ current, flagged}
    /\ stopping' = (worker # "off")
    /\ UNCHANGED <<status, sending, requests, overUnref, opVars, outbox, again, worker,
                   current, tried, transport>>

\* Mutant: notify_queue_empty does not look at the queue again.
CertainlyEmpty == TRUE

\* notify_queue_empty looks at the mail operation queue again.
StillEmpty == NoOps

\* notify_queue_empty: without a window the program quits on "queue-empty".
NotifyQueueEmpty ==
    /\ emptyDue
    /\ emptyDue' = FALSE
    /\ quit' \in (IF StillEmpty THEN BOOLEAN ELSE {FALSE})
    /\ UNCHANGED <<infoVars, mail, runOps, syncs, boxVars, workVars, transport>>

-----------------------------------------------------------------------------
Listed(i) == NewQueueListed(i) \/ StopListed(i) \/ WakeupListed(i) \/ WakeupNotListed(i)

MailNext(m) ==
    \/ \E draft \in BOOLEAN : SendNewMail(m, draft)
    \/ Store(m)
    \/ AddedToOutbox(m)
    \/ DraftSynced(m)
    \/ MsgSending(m)
    \/ MsgSent(m)
    \/ MsgSentAgain(m)
    \/ \E canceled \in BOOLEAN : MsgError(m, canceled)

\* Nothing is said of a queue that was finalized while it is cached.
Live == Alive /\ ~quit

Next ==
    /\ Live
    /\ \/ \E m \in Msgs : MailNext(m)
       \/ \E i \in 1..Len(requests) : Listed(i)
       \/ QueueStart
       \/ QueueCannotStart
       \/ QueueStop
       \/ QueueWakeup
       \/ WakeupSynced
       \/ CancelSuspend
       \/ NotifyQueueEmpty

\* tinymail answers what it was asked and its thread goes through the outbox.
Fairness ==
    /\ \A m \in Msgs : /\ WF_vars(Live /\ AddedToOutbox(m))
                       /\ WF_vars(Live /\ DraftSynced(m))
                       /\ WF_vars(Live /\ MsgSending(m))
                       /\ WF_vars(Live /\ (MsgSent(m) \/ MsgError(m, FALSE)))
    /\ WF_vars(Live /\ \E i \in 1..Len(requests) : Listed(i))
    /\ WF_vars(Live /\ (QueueStart \/ QueueCannotStart))
    /\ WF_vars(Live /\ QueueStop)
    /\ WF_vars(Live /\ WakeupSynced)

Safety == Init /\ [][Next]_vars

Spec == Safety /\ Fairness

-----------------------------------------------------------------------------
(* Properties.                                                             *)

\* A RUN_QUEUE operation is in the mail operation queue exactly while the send
\* queue is running: the program cannot quit under the thread, and no
\* RUN_QUEUE operation is left behind to keep it from quitting.
RunOpWhileSending == runOps > 0 <=> sending

\* An operation only waits for "queue-start" of a queue that is not running:
\* it would miss the "queue-stop" that follows and wait for another start.
WaitsBeforeStart == sending => Waiting = {}

\* A message shown as being sent, that may not be opened or removed, is being
\* sent, whatever cancellations, wakeups, late listings and repeated signals
\* happen to it: none of them leaves an info in state SENDING behind.
SendingIsReal ==
    \A id \in Ids : status[id] = "SENDING" => id \in IdsOf(current)

\* The program does not quit while the queue is sending or while new mail waits
\* for the queue to start, although the report of an empty mail operation
\* queue was scheduled before.
NoQuitWhileSending == quit => ~sending /\ SendOps = {}

\* The operations that sending keeps in the queue of operations end: a SEND
\* operation that waits for the queue does not wait for a start that does not
\* come, unless its message could not be added (tinymail may have no reason to
\* start the queue then), and neither does a RUN_QUEUE operation stay, whatever
\* messages fail, are added or woken up meanwhile.
SendingEnds ==
    /\ \A m \in Msgs :
         mail[m].op = "waiting" /\ m \in outbox ~> mail[m].op = "ended" \/ ~Alive
    /\ runOps > 0 ~> runOps = 0 \/ ~Alive

\* The header documents get_send_queue as returning the singleton of the
\* account, that "should NOT be unref'd": while it is cached it is alive.
CachedQueueAlive == Alive

\* A comment in notify_queue_empty explains that the queue is looked at again
\* because otherwise "we emit the queue-empty signal while a send-queue is
\* still waiting for the start-queue signal from tinymail".
QuitsAfterStart == quit => worker # "due"
=============================================================================
