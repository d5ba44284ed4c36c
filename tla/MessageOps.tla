----------------------------- MODULE MessageOps ------------------------------
(* The mail operations on messages: retrieving them with or without their   *)
(* parts, moving and copying, removing, refreshing and synchronising a      *)
(* folder (modest-mail-operation.c).  Each is a chain of requests to        *)
(* tinymail, the next sent by the callback of the last, while the user may  *)
(* cancel, other operations work on the same messages and the send queues   *)
(* send those of the outbox.                                                *)
EXTENDS Naturals, Sequences, FiniteSets

CONSTANTS
    Tasks,     \* mail operations
    Mails,     \* messages
    MaxParts,  \* bound of the parts a message is retrieved with
    MaxErrors  \* bound of the failures: a tinymail call, memory

ASSUME MessageOpsAssumption ==
    MaxParts \in Nat /\ MaxErrors \in Nat /\ IsFiniteSet(Mails)

Places == {"inbox", "archive", "local", "outbox"}

\* The account of a folder: messages move one by one between two accounts.
AccountOf(p) == IF p \in {"inbox", "archive"} THEN "remote" ELSE "device"

VARIABLES
    tasks,     \* the operations
    places,    \* per message, the folders with a copy of it
    owner,     \* per message, the send queue with an info of it
    inSending, \* messages whose info says SENDING
    errors     \* failures so far

messageVars == <<tasks, places, owner, inSending, errors>>

(* pos counts the requests of the iterators more_msgs and get_parts, count  *)
(* is their length.  History: heard are the headers the callback was given, *)
(* done the messages the requests succeeded for, spared those being sent    *)
(* when their removal was asked for and robbed those removed while sent.    *)
NoTask ==
    [kind |-> "none", list |-> <<>>, src |-> "none", dest |-> "none",
     delete |-> FALSE, single |-> FALSE, pos |-> 0, count |-> 0,
     status |-> "INVALID", stage |-> "none", cut |-> FALSE,
     heard |-> <<>>, done |-> {}, spared |-> {}, robbed |-> {}]

MessageOpsInit ==
    /\ tasks = [t \in Tasks |-> NoTask]
    /\ \/ /\ places = [m \in Mails |-> {"inbox"}]
          /\ owner = [m \in Mails |-> "none"]
       \/ /\ places = [m \in Mails |-> {"outbox"}]
          /\ owner \in [Mails -> {"q1", "q2", "none"}]
    /\ inSending = {} /\ errors = 0

Listed(s) == {s[i] : i \in 1..Len(s)}

In(p) == {m \in Mails : p \in places[m]}

\* Headers of one folder, as selected in a header view.
Selections(p) ==
    {s \in UNION {[1..n -> In(p)] : n \in 0..Cardinality(In(p))} :
        \A i, j \in DOMAIN s : s[i] = s[j] => i = j}

Goes(t) == tasks[t].stage \in {"asked", "syncing"}

Unlucky == errors < MaxErrors /\ errors' = errors + 1

Set(t, task) == tasks' = [tasks EXCEPT ![t] = task]

\* notify_end with this status.
Ended(task, status) == [task EXCEPT !.status = status, !.stage = "ended"]

Begun(kind, list, p) ==
    [NoTask EXCEPT !.kind = kind, !.list = list, !.src = p,
                   !.status = "IN_PROGRESS", !.stage = "asked"]

-----------------------------------------------------------------------------
(* get_msgs_full, and with one message get_msg and find_msg.  An empty list *)
(* asks for nothing: no callback comes and nothing ends the operation.      *)
GetMsgs(t, p) ==
    \E list \in Selections(p) :
       LET task == [Begun("get", list, p) EXCEPT !.pos = 1,
                                                 !.count = Len(list)]
       IN /\ tasks[t].kind = "none"
          /\ Set(t, IF list = <<>> THEN [task EXCEPT !.stage = "stuck"]
                    ELSE task)
          /\ UNCHANGED <<places, owner, inSending, errors>>

(* get_msg_and_parts: the first answer is the message, and it passes the    *)
(* first of the parts by.                                                   *)
GetMsgAndParts(t, p) ==
    \E m \in In(p), n \in 0..MaxParts :
       /\ tasks[t].kind = "none"
       /\ Set(t, [Begun("parts", <<m>>, p) EXCEPT !.pos = 1, !.count = n])
       /\ UNCHANGED <<places, owner, inSending, errors>>

(* Low memory: the callback is given the first header and the error.        *)
GetRefused(t, p) ==
    /\ tasks[t].kind = "none" /\ Unlucky
    /\ \E list \in Selections(p) :
          Set(t, Ended([Begun("get", list, p) EXCEPT
                          !.heard = IF list = <<>> THEN <<>>
                                    ELSE <<Head(list)>>], "FAILED"))
    /\ UNCHANGED <<places, owner, inSending>>

\* Mutants: one message too few; success forgets an earlier error.
LastButOne(task) == task.pos + 1 >= task.count
LastWins(task)   == "SUCCESS"

\* No further message or part after this answer.
Finished(task) == task.pos >= task.count

\* The status of a last answer without error.
Success(task) == IF task.status = "IN_PROGRESS" THEN "SUCCESS"
                 ELSE task.status

(* get_msg_async_cb.  The callback is called for every message, with parts  *)
(* only at the end.  An error does not stop the others, nor does CANCELED   *)
(* when tinymail could no longer cancel.                                    *)
Heard(task, last) ==
    IF last \/ task.kind = "get"
    THEN [task EXCEPT !.heard = Append(task.heard,
             task.list[IF task.kind = "get" THEN task.pos ELSE 1])]
    ELSE task

\* The message that the request under way is for.
Asked(task) == task.list[IF task.kind = "get" THEN task.pos ELSE 1]

GotMsg(t) ==
    LET task == tasks[t]
        next == [Heard(task, Finished(task)) EXCEPT
                   !.done = IF task.kind = "get" \/ task.pos >= task.count
                            THEN @ \union {Asked(task)} ELSE @]
    IN /\ task.stage = "asked" /\ task.kind \in {"get", "parts"}
       /\ task.src \in places[Asked(task)]
       /\ Set(t, IF Finished(task) THEN Ended(next, Success(task))
                 ELSE [next EXCEPT !.pos = @ + 1, !.cut = FALSE])
       /\ UNCHANGED <<places, owner, inSending, errors>>

\* The message is gone, or retrieving it fails.
GetFails(t) ==
    LET task == tasks[t]
        next == Heard(task, Finished(task))
    IN /\ task.stage = "asked" /\ task.kind \in {"get", "parts"}
       /\ IF task.src \in places[Asked(task)] THEN Unlucky
          ELSE UNCHANGED errors
       /\ Set(t, IF Finished(task) THEN Ended(next, "FINISHED_WITH_ERRORS")
                 ELSE [next EXCEPT !.status = "FINISHED_WITH_ERRORS",
                                   !.pos = @ + 1, !.cut = FALSE])
       /\ UNCHANGED <<places, owner, inSending>>

GetCanceled(t) ==
    LET task == tasks[t] IN
    /\ task.stage = "asked" /\ task.kind \in {"get", "parts"} /\ task.cut
    /\ Set(t, Ended(Heard(task, TRUE), "CANCELED"))
    /\ UNCHANGED <<places, owner, inSending, errors>>

-----------------------------------------------------------------------------
\* xfer_msgs; the folder of messages selected in a view is known.
XferMsgs(t, p, dest, delete) ==
    \E list \in Selections(p) :
       /\ tasks[t].kind = "none" /\ list # <<>>
       /\ p # dest /\ dest # "outbox"
       /\ Set(t, [Begun("xfer", list, p) EXCEPT
                    !.dest = dest, !.delete = delete, !.pos = 1,
                    !.single = AccountOf(p) # AccountOf(dest),
                    !.count = Len(list)])
       /\ UNCHANGED <<places, owner, inSending, errors>>

(* A folder that takes no messages, or the one they are in: the operation   *)
(* ends without having started.                                             *)
XferRefused(t, p, dest) ==
    \E list \in Selections(p) :
       /\ tasks[t].kind = "none" /\ list # <<>>
       /\ p = dest \/ dest = "outbox"
       /\ Set(t, Ended([Begun("xfer", list, p) EXCEPT !.dest = dest],
                       "FAILED"))
       /\ UNCHANGED <<places, owner, inSending, errors>>

\* The messages of the request under way.
Batch(task) == IF task.single THEN {task.list[task.pos]}
               ELSE Listed(task.list)

Moved(batch, gone, task) ==
    [m \in Mails |->
       (IF m \in gone THEN places[m] \ {task.src} ELSE places[m])
         \union (IF m \in batch THEN {task.dest} ELSE {})]

\* Mutant: a canceled transfer is left alone.
SyncUnlessCanceled(task) ==
    IF task.status = "CANCELED" THEN "stuck" ELSE "syncing"

\* After the last message the source folder is synchronised.
AfterLast(task) == "syncing"

\* The user has not canceled meanwhile.
NotCanceled(task) == task.status # "CANCELED"

(* transfer_msgs_cb: the next message, or the source is synchronised.       *)
Xferred(t) ==
    LET task  == tasks[t]
        batch == Batch(task)
        next  == [task EXCEPT !.done = @ \union batch]
    IN /\ task.stage = "asked" /\ task.kind = "xfer"
       /\ batch \subseteq In(task.src)
       /\ places' = Moved(batch, IF task.delete THEN batch ELSE {}, task)
       /\ Set(t, IF NotCanceled(task) /\ task.single /\ ~Finished(task)
                 THEN [next EXCEPT !.pos = @ + 1, !.cut = FALSE]
                 ELSE [next EXCEPT
                         !.stage = AfterLast(task),
                         !.status = IF NotCanceled(task) THEN "SUCCESS"
                                    ELSE "CANCELED"])
       /\ UNCHANGED <<owner, inSending, errors>>

(* Failed or canceled: some of the messages may have been moved.            *)
XferBroken(t) ==
    LET task == tasks[t] IN
    /\ task.stage = "asked" /\ task.kind = "xfer"
    /\ \/ /\ task.cut /\ UNCHANGED errors
          /\ Set(t, [task EXCEPT !.stage = "syncing", !.status = "CANCELED"])
       \/ /\ IF Batch(task) \subseteq In(task.src) THEN Unlucky
             ELSE UNCHANGED errors
          /\ Set(t, [task EXCEPT !.stage = "syncing", !.status = "FAILED"])
    /\ \E batch \in SUBSET (Batch(task) \intersect In(task.src)) :
          \E gone \in SUBSET batch :
             /\ task.delete \/ gone = {}
             /\ places' = Moved(batch, gone, task)
    /\ UNCHANGED <<owner, inSending>>

\* transfer_msgs_sync_folder_cb: how the synchronisation went is ignored.
XferSynced(t) ==
    /\ tasks[t].stage = "syncing" /\ tasks[t].kind = "xfer"
    /\ Set(t, Ended(tasks[t], tasks[t].status))
    /\ UNCHANGED <<places, owner, inSending, errors>>

-----------------------------------------------------------------------------
\* Mutant: messages being sent are removed like the others.
NoneSpared(list) == Listed(list)

(* remove_msgs: of the outbox what the queue of the first header (header,   *)
(* not hdr, in the code) does not show as being sent; the whole selection   *)
(* if that leaves nothing, or no queue knows the first header.              *)
ToRemove(list) ==
    LET queue == owner[list[1]]
        kept  == {m \in Listed(list) :
                    ~(owner[m] = queue /\ m \in inSending)}
    IN IF queue = "none" \/ kept = {} THEN Listed(list) ELSE kept

(* An empty list: neither started nor ended.                                *)
RemoveMsgs(t, p) ==
    \E list \in Selections(p) :
       LET task == Begun("remove", list, p) IN
       /\ tasks[t].kind = "none"
       /\ \/ /\ list = <<>>
             /\ Set(t, [task EXCEPT !.stage = "stuck", !.status = "INVALID"])
          \/ /\ list # <<>> /\ p # "outbox"
             /\ Set(t, [task EXCEPT !.done = Listed(list)])
          \/ /\ list # <<>> /\ p = "outbox"
             /\ Set(t, [task EXCEPT
                          !.done = ToRemove(list),
                          !.spared = Listed(list) \intersect inSending])
       /\ UNCHANGED <<places, owner, inSending, errors>>

(* remove_msgs_async_cb; done holds what was asked to be removed.           *)
Removed(t) ==
    LET task == tasks[t] IN
    /\ task.stage = "asked" /\ task.kind = "remove"
    /\ places' = [m \in Mails |-> IF m \in task.done
                                  THEN places[m] \ {task.src} ELSE places[m]]
    /\ Set(t, [task EXCEPT
                 !.stage = "syncing", !.cut = FALSE,
                 !.robbed = IF task.src = "outbox"
                            THEN task.done \intersect inSending ELSE {}])
    /\ UNCHANGED <<owner, inSending, errors>>

RemoveFails(t) ==
    /\ tasks[t].stage = "asked" /\ tasks[t].kind = "remove"
    /\ \/ /\ tasks[t].cut /\ UNCHANGED errors
          /\ Set(t, Ended(tasks[t], "CANCELED"))
       \/ /\ Unlucky
          /\ Set(t, Ended(tasks[t], "FINISHED_WITH_ERRORS"))
    /\ UNCHANGED <<places, owner, inSending>>

\* sync_folder, of its own or of a window that closes.
SyncFolder(t, p) ==
    /\ tasks[t].kind = "none"
    /\ Set(t, [Begun("sync", <<>>, p) EXCEPT !.stage = "syncing"])
    /\ UNCHANGED <<places, owner, inSending, errors>>

\* sync_folder_finish_callback.
Synced(t) ==
    LET task == tasks[t] IN
    /\ task.stage = "syncing" /\ task.kind \in {"remove", "sync"}
    /\ \/ Set(t, Ended(task, "SUCCESS")) /\ UNCHANGED errors
       \/ task.cut /\ Set(t, Ended(task, "CANCELED")) /\ UNCHANGED errors
       \/ /\ Unlucky
          /\ Set(t, Ended(task, IF task.kind = "sync" THEN "FAILED"
                                ELSE "FINISHED_WITH_ERRORS"))
    /\ UNCHANGED <<places, owner, inSending>>

\* refresh_folder, which ends at once when memory is low.
RefreshFolder(t, p) ==
    /\ tasks[t].kind = "none"
    /\ \/ Set(t, Begun("refresh", <<>>, p)) /\ UNCHANGED errors
       \/ Unlucky /\ Set(t, Ended(Begun("refresh", <<>>, p), "FAILED"))
    /\ UNCHANGED <<places, owner, inSending>>

\* on_refresh_folder: an error is looked at before a cancellation.
Refreshed(t) ==
    LET task == tasks[t] IN
    /\ task.stage = "asked" /\ task.kind = "refresh"
    /\ \/ Set(t, Ended(task, "SUCCESS")) /\ UNCHANGED errors
       \/ task.cut /\ Set(t, Ended(task, "CANCELED")) /\ UNCHANGED errors
       \/ Unlucky /\ Set(t, Ended(task, "FAILED"))
    /\ UNCHANGED <<places, owner, inSending>>

-----------------------------------------------------------------------------
(* modest_mail_operation_cancel: tinymail may cancel every request under    *)
(* way of the account, also those of other operations.                      *)
CancelTask(t) ==
    /\ Goes(t)
    /\ tasks' = [u \in Tasks |->
          IF u = t THEN [tasks[u] EXCEPT !.status = "CANCELED", !.cut = TRUE]
          ELSE IF Goes(u) /\ AccountOf(tasks[u].src) = AccountOf(tasks[t].src)
          THEN [tasks[u] EXCEPT !.cut = TRUE] ELSE tasks[u]]
    /\ UNCHANGED <<places, owner, inSending, errors>>

\* The send queues: a message is sent or goes back to waiting.
SendingOne(m) ==
    /\ owner[m] # "none"
    /\ \/ /\ m \in In("outbox")
          /\ inSending' = inSending \union {m} /\ UNCHANGED places
       \/ /\ m \in inSending /\ inSending' = inSending \ {m}
          /\ places' \in {places, [places EXCEPT ![m] = @ \ {"outbox"}]}
    /\ UNCHANGED <<tasks, owner, errors>>

\* Other programs and other operations: a message leaves a folder, or the
\* requests of an account are canceled because another operation is.
ChangedElsewhere(m, p) ==
    /\ p \in places[m]
    /\ places' = [places EXCEPT ![m] = @ \ {p}]
    /\ UNCHANGED <<tasks, owner, inSending, errors>>

CanceledElsewhere(t) ==
    /\ Goes(t)
    /\ Set(t, [tasks[t] EXCEPT !.cut = TRUE])
    /\ UNCHANGED <<places, owner, inSending, errors>>

Answers(t) ==
    \/ GotMsg(t) \/ GetFails(t) \/ GetCanceled(t)
    \/ Xferred(t) \/ XferBroken(t) \/ XferSynced(t)
    \/ Removed(t) \/ RemoveFails(t) \/ Synced(t) \/ Refreshed(t)

MessageOpsNext ==
    \/ \E t \in Tasks :
          \/ Answers(t) \/ CancelTask(t) \/ CanceledElsewhere(t)
          \/ SyncFolder(t, "inbox") \/ RefreshFolder(t, "inbox")
          \/ \E p \in {q \in Places : In(q) # {}} :
                \/ GetMsgs(t, p) \/ GetMsgAndParts(t, p) \/ GetRefused(t, p)
                \/ RemoveMsgs(t, p)
                \/ \E dest \in Places :
                      \/ XferRefused(t, p, dest)
                      \/ \E delete \in BOOLEAN : XferMsgs(t, p, dest, delete)
    \/ \E m \in Mails :
          \/ SendingOne(m)
          \/ \E p \in Places : ChangedElsewhere(m, p)

(* tinymail answers every request.                                          *)
MessageOpsFairness == \A t \in Tasks : WF_messageVars(Answers(t))

MessageOpsSpec ==
    MessageOpsInit /\ [][MessageOpsNext]_messageVars /\ MessageOpsFairness

-----------------------------------------------------------------------------
(* Types: what the variables may hold. *)
MessageOpsTypeOK ==
    /\ \A t \in Tasks :
          /\ tasks[t].stage \in {"none", "asked", "syncing", "stuck", "ended"}
          /\ Listed(tasks[t].list) \subseteq Mails
          /\ tasks[t].pos \in 0..Len(tasks[t].list) + MaxParts + 1
    /\ places \in [Mails -> SUBSET Places]
    /\ inSending \subseteq Mails
    /\ errors \in 0..MaxErrors

(* The callback of a retrieval hears of the messages in the order of the    *)
(* list, of each once, and of all of them once the operation has ended,     *)
(* whichever of them failed; of fewer only if it was canceled or memory was *)
(* low.  With parts it is called once, at the end (get_msg_async_cb).       *)
HeardInOrder ==
    \A t \in Tasks :
       LET task == tasks[t] IN
       task.kind \in {"get", "parts"} =>
          /\ Len(task.heard) <= Len(task.list)
          /\ \A i \in 1..Len(task.heard) : task.heard[i] = task.list[i]
          /\ task.kind = "parts" /\ task.stage # "ended" => task.heard = <<>>
          /\ task.stage = "ended" /\ task.status \notin {"CANCELED", "FAILED"}
             => Len(task.heard) = Len(task.list)

(* An operation that ended in SUCCESS did all it was asked to: every        *)
(* message was retrieved, moved or removed, but for those of the outbox     *)
(* that were being sent, whatever happened to the ones before the last and  *)
(* whatever other operations did to the same messages.                      *)
SuccessIsTrue ==
    \A t \in Tasks :
       LET task == tasks[t] IN
       task.stage = "ended" /\ task.status = "SUCCESS"
       => Listed(task.list) \subseteq task.done \union task.spared

(* A message is taken out of the outbox while it is being sent only if its  *)
(* sending began after the removal was asked for.  The exceptions are those *)
(* of the code: all of the selection was being sent, or it is in another    *)
(* queue than the first of the selection, or no queue knows that one.       *)
BeingSentIsSpared ==
    \A t \in Tasks :
       LET task == tasks[t] IN
       \A m \in task.robbed \intersect task.spared :
          \/ Listed(task.list) = task.spared
          \/ owner[task.list[1]] \in {"none"} \union ({"q1", "q2"} \ {owner[m]})

(* Every operation under way ends, and with it the reason for modest to     *)
(* stay alive, whatever fails or is canceled.                               *)
TasksEnd == \A t \in Tasks : Goes(t) ~> tasks[t].stage = "ended"
=============================================================================
