---------------------------- MODULE MailOpQueue -----------------------------
(***************************************************************************)
(* The mail operation queue (modest-mail-operation-queue.c) together with  *)
(* the part of a mail operation it reacts to: its type, status, error and  *)
(* its "operation-started" and "operation-finished" signals                *)
(* (modest-mail-operation.c).                                              *)
(*                                                                         *)
(* Everything runs in the GTK main loop, so a handler is one step; the one *)
(* exception is queue_remove(), whose error handler may run a dialog, that *)
(* is a nested main loop in which any other step can happen before         *)
(* queue_remove() goes on with what it read under the lock.                *)
(***************************************************************************)
EXTENDS Naturals, Sequences, SequencesExt

CONSTANTS
    Ops,       \* mail operation objects; one that nobody holds is used again
    UserTypes, \* types of the operations the user starts
    Outcomes   \* what completion callbacks leave: <<status, error set>>

VARIABLES
    opQueue,          \* priv->mailOpqueue, head first
    watched,          \* operations with on_operation_finished connected
    mailOp,           \* type, status and error of each operation
    inFlight,         \* operations with an asynchronous tinymail call running
    removing,         \* stack of queue_remove() calls inside an error handler
    idles,            \* low-priority idle sources, in the order they will run
    runningFinalSync, \* priv->running_final_sync
    deviceForced,     \* the TnyDevice is forced offline
    stray,            \* history: REMOVED was notified of an operation not queued
    told              \* history: "queue-empty" emitted since the last removal

queueVars == <<opQueue, watched, removing, idles, stray, told>>
opVars    == <<mailOp, inFlight>>
syncVars  == <<runningFinalSync, deviceForced>>
vars      == <<queueVars, opVars, syncVars>>

-----------------------------------------------------------------------------
(* RECEIVE stands for RECEIVE, OPEN and SEND_AND_RECEIVE, the types that   *)
(* closing a window cancels; DELETE for the other user types; INFO for     *)
(* no-operations.                                                          *)
Types    == {"UNKNOWN", "RECEIVE", "DELETE", "INFO", "SHUTDOWN"}
Statuses == {"INVALID", "SUCCESS", "FINISHED_WITH_ERRORS", "FAILED",
             "IN_PROGRESS", "CANCELED"}

Operation == [type : Types, status : Statuses, error : BOOLEAN]

\* modest_mail_operation_init
Blank == [type |-> "UNKNOWN", status |-> "INVALID", error |-> FALSE]

\* The statuses a completion callback of tinymail can leave, with whether it
\* sets priv->error.  An error the operation already had stays.
AllOutcomes == {<<"SUCCESS", FALSE>>, <<"FINISHED_WITH_ERRORS", TRUE>>,
                <<"FAILED", TRUE>>, <<"CANCELED", TRUE>>}

ASSUME QueueAssumption ==
    /\ UserTypes \subseteq {"RECEIVE", "DELETE"}
    /\ Outcomes \subseteq AllOutcomes

\* notify_queue_empty here, on_idle_exit_modest in module Shutdown.
IdleSources == {"empty", "exit"}

Queued == ToSet(opQueue)

\* Operations whose error handler is running.
Removing == {removing[i].op : i \in 1..Len(removing)}

\* A mail operation object nobody holds: one that may be created.
Fresh(op) == op \notin Queued \union inFlight \union Removing

\* Queued, and not started yet.
Unstarted(op) == op \in Queued /\ mailOp[op].type = "UNKNOWN"

\* queue_remove() hands the operation to its error handler.
CallsErrorHandler(o) == o.error /\ o.status \notin {"SUCCESS", "INVALID"}

-----------------------------------------------------------------------------
TypeOK ==
    /\ opQueue \in Seq(Ops)
    /\ watched \subseteq Ops
    /\ mailOp \in [Ops -> Operation]
    /\ inFlight \subseteq Ops
    /\ removing \in Seq([op : Ops, left : Nat])
    /\ idles \in Seq(IdleSources)
    /\ runningFinalSync \in BOOLEAN
    /\ deviceForced \in BOOLEAN
    /\ stray \in BOOLEAN
    /\ told \in BOOLEAN

\* modest_mail_operation_queue_init, modest_tny_account_store_new: without
\* automatic updates the device starts forced offline.
Init ==
    /\ opQueue = <<>>
    /\ watched = {}
    /\ mailOp = [op \in Ops |-> Blank]
    /\ inFlight = {}
    /\ removing = <<>>
    /\ idles = <<>>
    /\ runningFinalSync = FALSE
    /\ deviceForced \in BOOLEAN
    /\ stray = FALSE
    /\ told = TRUE

-----------------------------------------------------------------------------
(* Parts of handlers.                                                      *)

\* on_operation_started: the first operation after a final sync takes the
\* device back online; only a SHUTDOWN operation marks the final sync.
Started(type) ==
    /\ deviceForced' = (deviceForced
                          /\ ~(type # "SHUTDOWN" /\ runningFinalSync))
    /\ runningFinalSync' = (type = "SHUTDOWN")

\* Mutant: queue_remove() does not disconnect on_operation_finished.
WatchedForever(op) == watched \union {op}

\* The operations still watched once queue_remove() disconnected from op.
WatchedWithout(op) == watched \ {op}

\* Mutant: the number of operations is read before op is taken out.
ReportIfOneLeft(left, sources) ==
    idles' = IF left = 1 THEN Append(RemoveFirst(sources, "empty"), "empty")
                         ELSE sources

\* The end of queue_remove(): with no operation left (a number read before
\* the observers and the error handler ran) the idle source is reinstalled.
ReportIfLast(left, sources) ==
    idles' = IF left = 0 THEN Append(RemoveFirst(sources, "empty"), "empty")
                         ELSE sources

\* modest_mail_operation_queue_remove of op out of queue q, when the operation
\* is as in o and these idle sources are installed.  A failed operation may
\* stop in its error handler before the report is scheduled.
RemoveFrom(q, op, o, sources) ==
    LET rest == RemoveFirst(q, op)
    IN  /\ opQueue' = rest
        /\ watched' = WatchedWithout(op)
        /\ stray' = (stray \/ op \notin ToSet(q))
        /\ told' = FALSE
        /\ \/ /\ ReportIfLast(Len(rest), sources)
              /\ UNCHANGED removing
           \/ /\ CallsErrorHandler(o)
              /\ removing' = Append(removing, [op |-> op, left |-> Len(rest)])
              /\ idles' = sources

\* modest_mail_operation_notify_end of op, that has become o: only an operation
\* the queue still watches is removed, however often it says that it finished.
NotifyEnd(op, o) ==
    IF op \in watched
      THEN RemoveFrom(opQueue, op, o, idles)
      ELSE UNCHANGED queueVars

\* Nothing looks at an operation that left the queue, except the callback of
\* a call still in flight: it is finalized.
Finalized(op) == mailOp' = [mailOp EXCEPT ![op] = Blank]

\* The operation op ends as outcome c says.
EndsAs(op, c) ==
    /\ NotifyEnd(op, [mailOp[op] EXCEPT !.status = c[1], !.error = @ \/ c[2]])
    /\ Finalized(op)

-----------------------------------------------------------------------------
(* The handlers.                                                           *)

\* modest_mail_operation_queue_add of a new operation.
Add(op) ==
    /\ Fresh(op)
    /\ opQueue' = Append(opQueue, op)
    /\ watched' = watched \union {op}
    /\ UNCHANGED <<removing, idles, stray, told, opVars, syncVars>>

\* The usual asynchronous operation, as in modest_mail_operation_refresh_folder
\* or _update_account.  The status is overwritten, a cancellation included.
Start(op, type) ==
    /\ Unstarted(op)
    /\ mailOp' = [mailOp EXCEPT ![op].type = type, ![op].status = "IN_PROGRESS"]
    /\ inFlight' = inFlight \union {op}
    /\ Started(type)
    /\ UNCHANGED queueVars

\* The same functions out of memory or without the account: the operation
\* finishes without having started.
StartFails(op) ==
    /\ Unstarted(op)
    /\ EndsAs(op, <<"FAILED", TRUE>>)
    /\ UNCHANGED <<inFlight, syncVars>>

\* The completion callback, as on_refresh_folder or transfer_folder_cb.
Finish(op, c) ==
    /\ op \in inFlight
    /\ mailOp[op].type # "SHUTDOWN"
    /\ inFlight' = inFlight \ {op}
    /\ EndsAs(op, c)
    /\ UNCHANGED syncVars

\* modest_mail_operation_remove_folder when the folder may not be deleted
\* (an error), or when no trash folder or no parent is found (no error, the
\* status stays): it only says it finished.
RemoveFolderRefused(op) ==
    /\ Unstarted(op)
    /\ EndsAs(op, <<"FAILED", TRUE>>) \/ EndsAs(op, <<mailOp[op].status, FALSE>>)
    /\ UNCHANGED <<inFlight, syncVars>>

\* modest_mail_operation_remove_folder, deleting for good, or moving to a
\* trash folder that modest_mail_operation_xfer_folder refuses to use.
RemoveFolderNow(op) ==
    /\ Unstarted(op)
    /\ EndsAs(op, <<"SUCCESS", FALSE>>) \/ EndsAs(op, <<"FAILED", TRUE>>)
    /\ Started("DELETE")
    /\ UNCHANGED inFlight

\* modest_mail_operation_remove_folder, moving to the trash: the transfer is
\* asynchronous and will say that it finished, but so does remove_folder.
RemoveFolderToTrash(op) ==
    /\ Unstarted(op)
    /\ inFlight' = inFlight \union {op}
    /\ mailOp' = [mailOp EXCEPT ![op].type = "RECEIVE", ![op].status = "IN_PROGRESS"]
    /\ Started("DELETE")
    /\ NotifyEnd(op, mailOp'[op])

\* do_send_receive_performer when the connection failed: the operation was
\* queued before connecting and leaves without having been started.
RemoveUnstarted(op) ==
    /\ Unstarted(op)
    /\ RemoveFrom(opQueue, op, mailOp[op], idles)
    /\ Finalized(op)
    /\ UNCHANGED <<inFlight, syncVars>>

\* modest_mail_operation_cancel: the status only; stopping the account makes
\* the completion callback come sooner.
Cancel(ops) ==
    mailOp' = [op \in Ops |-> IF op \in ops
                               THEN [mailOp[op] EXCEPT !.status = "CANCELED"]
                               ELSE mailOp[op]]

\* modest_mail_operation_queue_cancel
CancelOne(op) ==
    /\ op \in Queued
    /\ Cancel({op})
    /\ UNCHANGED <<inFlight, queueVars, syncVars>>

\* modest_mail_operation_queue_cancel_all, over a snapshot of the queue.
CancelAll ==
    /\ Queued # {}
    /\ Cancel(Queued)
    /\ UNCHANGED <<inFlight, queueVars, syncVars>>

\* modest_mail_operation_noop on a new operation (notify_error_in_dbus_callback):
\* queued, started and finished at once.
Noop(op) ==
    /\ Fresh(op)
    /\ Started("INFO")
    /\ RemoveFrom(Append(opQueue, op), op, [Blank EXCEPT !.status = "SUCCESS"], idles)
    /\ UNCHANGED opVars

\* modest_mail_operation_shutdown on a new operation (on_idle_exit_modest),
\* leaving these idle sources; the account store forces the device offline
\* and disconnects the accounts.
Shutdown(op, sources) ==
    /\ Fresh(op)
    /\ mailOp' = [mailOp EXCEPT ![op].type = "SHUTDOWN", ![op].status = "IN_PROGRESS"]
    /\ runningFinalSync' = TRUE
    /\ deviceForced' = TRUE
    /\ opQueue' = Append(opQueue, op)
    /\ watched' = watched \union {op}
    /\ inFlight' = inFlight \union {op}
    /\ idles' = sources
    /\ UNCHANGED <<removing, stray, told>>

\* The same without an account to disconnect: shutdown_callback runs at once.
ShutdownAtOnce(op, sources) ==
    /\ Fresh(op)
    /\ runningFinalSync' = TRUE
    /\ deviceForced' = TRUE
    /\ RemoveFrom(Append(opQueue, op), op, [Blank EXCEPT !.status = "SUCCESS"],
                  sources)
    /\ UNCHANGED opVars

\* shutdown_callback: always a success, even of a canceled operation.
ShutdownDone(op) ==
    /\ op \in inFlight
    /\ mailOp[op].type = "SHUTDOWN"
    /\ inFlight' = inFlight \ {op}
    /\ EndsAs(op, <<"SUCCESS", FALSE>>)
    /\ UNCHANGED syncVars

\* The innermost error handler returns and its queue_remove() completes.
ErrorHandlerReturns ==
    /\ removing # <<>>
    /\ ReportIfLast(removing[Len(removing)].left, idles)
    /\ removing' = SubSeq(removing, 1, Len(removing) - 1)
    /\ UNCHANGED <<opQueue, watched, stray, told, opVars, syncVars>>

\* Mutant: notify_queue_empty emits the signal without looking again.
NotifyUnchecked(more) ==
    /\ idles # <<>> /\ Head(idles) = "empty"
    /\ idles' = Tail(idles) \o more
    /\ told' = TRUE
    /\ UNCHANGED <<opQueue, watched, removing, stray, opVars, syncVars>>

\* notify_queue_empty: the queue is looked at again before the signal, whose
\* handlers may install further idle sources.
NotifyQueueEmpty(more) ==
    /\ idles # <<>> /\ Head(idles) = "empty"
    /\ idles' = Tail(idles) \o more
    /\ told' = (told \/ opQueue = <<>>)
    /\ UNCHANGED <<opQueue, watched, removing, stray, opVars, syncVars>>

-----------------------------------------------------------------------------
OpNext(op) ==
    \/ Add(op)
    \/ \E type \in UserTypes : Start(op, type)
    \/ StartFails(op)
    \/ \E c \in Outcomes : Finish(op, c)
    \/ RemoveFolderRefused(op)
    \/ RemoveFolderNow(op)
    \/ RemoveFolderToTrash(op)
    \/ RemoveUnstarted(op)
    \/ CancelOne(op)
    \/ Noop(op)
    \/ Shutdown(op, idles)
    \/ ShutdownAtOnce(op, idles)
    \/ ShutdownDone(op)

Next ==
    \/ CancelAll
    \/ ErrorHandlerReturns
    \/ NotifyQueueEmpty(<<>>)
    \/ \E op \in Ops : OpNext(op)

\* The main loop dispatches its idle sources, and a dialog is answered.
Fairness == WF_vars(NotifyQueueEmpty(<<>>)) /\ WF_vars(ErrorHandlerReturns)

Safety == Init /\ [][Next]_vars

Spec == Safety /\ Fairness

-----------------------------------------------------------------------------
(* Properties.                                                             *)

\* An operation is in the queue at most once, is watched exactly while it is
\* there, and its departure is announced once, although remove_folder makes
\* some operations finish twice and the UI removes others by hand: the
\* progress observers and the queue's reference stay balanced.
LeavesOnce ==
    /\ \A i, j \in 1..Len(opQueue) : opQueue[i] = opQueue[j] => i = j
    /\ watched = Queued
    /\ ~stray

\* Whenever the queue is empty and nobody was told since the last operation
\* left, a report is on its way: the idle source is installed, or the removal
\* that emptied the queue is still inside an error handler and installs it
\* when it returns, whatever the nested main loop did meanwhile.
EmptyReportDue ==
    opQueue = <<>> /\ ~told =>
        \/ \E i \in 1..Len(idles) : idles[i] = "empty"
        \/ \E i \in 1..Len(removing) : removing[i].left = 0

\* The queue is what QueueReports promises: "queue-empty" is emitted only
\* while nothing is queued (the re-check in notify_queue_empty), and it is
\* emitted after the last departure unless something is queued again.
Reports == INSTANCE QueueReports WITH queued <- Queued

ReportsWhenEmpty == Reports!Spec

\* The header documents cancel_all as "Cancels all the unfinished
\* ModestMailOperation of the queue": none of them goes on afterwards.
CanceledStaysCanceled ==
    [][\A op \in Ops : mailOp[op].status = "CANCELED" => mailOp'[op].status # "IN_PROGRESS"]_vars
=============================================================================
