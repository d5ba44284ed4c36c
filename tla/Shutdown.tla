------------------------------ MODULE Shutdown ------------------------------
(***************************************************************************)
(* How modest quits: the mail operation queue of MailOpQueue composed with *)
(* the window manager (modest-window-mgr.c and its GTK and Hildon          *)
(* subclasses), the account store's shutdown (modest-tny-account-store.c), *)
(* the allow-shutdown flag (modest-runtime.c) and the three callbacks of   *)
(* modest-main.c that watch the first two.                                 *)
(*                                                                         *)
(* Both watchers schedule on_idle_exit_modest when the window list and the *)
(* operation queue are empty.  Run for the first time it queues a SHUTDOWN *)
(* operation, which takes every account offline; when the queue is empty   *)
(* again the idle runs once more, finds the accounts offline and quits.    *)
(***************************************************************************)
EXTENDS MailOpQueue, FiniteSets

CONSTANTS
    Windows,       \* windows the user may open
    NoSource,      \* the NULL source of an operation
    Remote,        \* accounts that have a connection
    LocalAccounts, \* number of local store accounts (one, two with a card)
    MaxExitIdles   \* bound: the user closes no window with that many exit
                   \* idle sources pending

ASSUME ShutdownAssumption ==
    /\ NoSource \notin Windows
    /\ IsFiniteSet(Remote)
    /\ LocalAccounts \in Nat \ {0}
    /\ MaxExitIdles \in Nat \ {0}

VARIABLES
    windows,       \* priv->window_list of the window manager
    allowShutdown, \* _allow_shutdown of the runtime
    quits,         \* times on_idle_exit_modest took its quitting branch
    accounts,      \* remote accounts of the account store
    connected,     \* those CONNECTED or RECONNECTING
    goingOffline,  \* set_online(FALSE) calls not answered, per SHUTDOWN op
    pending,       \* ShutdownOpData.pending, per SHUTDOWN op
    source,        \* the window a queued operation was created for
    userLeft       \* the user and D-Bus clients ask for nothing any more

accountVars == <<accounts, connected, goingOffline, pending>>
uiVars      == <<windows, allowShutdown, source, userLeft>>
allVars     == <<vars, accountVars, uiVars, quits>>

-----------------------------------------------------------------------------
\* main() before gtk_main(): no window yet unless started with --show-ui.
ShutdownInit ==
    /\ Init
    /\ windows = {}
    /\ allowShutdown = FALSE
    /\ quits = 0
    /\ accounts \in SUBSET Remote
    /\ connected = {}
    /\ goingOffline = [op \in Ops |-> {}]
    /\ pending = [op \in Ops |-> 0]
    /\ source = [op \in Ops |-> NoSource]
    /\ userLeft = FALSE

-----------------------------------------------------------------------------
\* modest_tny_account_store_is_shutdown
IsShutdown == connected = {}

\* The idle sources once on_idle_exit_modest is scheduled, if ok holds.
WithExitIf(ok, sources) == IF ok THEN Append(sources, "exit") ELSE sources

ExitIdles == Cardinality({i \in 1..Len(idles) : idles[i] = "exit"})

\* Mutant: a local store account is skipped but stays counted.
SkipNothing(n) == n

\* account_shutdown of a local store account: it does not count as pending.
SkipLocal(n) == n - LocalAccounts

\* modest_tny_account_store_shutdown for SHUTDOWN operation op: every account
\* is counted, local ones are skipped, the others are told to go offline.
DisconnectAll(op) ==
    /\ goingOffline' = [goingOffline EXCEPT ![op] = accounts]
    /\ pending' = [pending EXCEPT
                     ![op] = SkipLocal(Cardinality(accounts) + LocalAccounts)]

-----------------------------------------------------------------------------
(* The user, D-Bus clients and timers.                                     *)

\* An operation is created for window w, or for none (D-Bus, timers).
Request(op, w) ==
    /\ ~userLeft
    /\ Add(op)
    /\ source' = [source EXCEPT ![op] = w]
    /\ UNCHANGED <<windows, allowShutdown, userLeft, accountVars, quits>>

DBusNoop(op) ==
    /\ ~userLeft
    /\ Noop(op)
    /\ UNCHANGED <<uiVars, accountVars, quits>>

CancelAllFromUI ==
    /\ ~userLeft
    /\ CancelAll
    /\ UNCHANGED <<uiVars, accountVars, quits>>

\* Mutant: the allow-shutdown flag and the device are mixed up.
FirstWindowGoesOffline ==
    /\ deviceForced' = TRUE
    /\ allowShutdown' = TRUE

\* modest_window_mgr_register_window: the first window brings the device back
\* online and allows modest to shut down later.
FirstWindow ==
    /\ deviceForced' = FALSE
    /\ allowShutdown' = TRUE

RegisterWindow(w) ==
    /\ ~userLeft
    /\ w \notin windows
    /\ windows' = windows \union {w}
    /\ IF windows = {} THEN FirstWindow
                       ELSE UNCHANGED <<deviceForced, allowShutdown>>
    /\ UNCHANGED <<queueVars, opVars, runningFinalSync, source, userLeft,
                   accountVars, quits>>

\* cancel_window_operations: the operations of w in the queue that receive.
CanceledWith(w) == {op \in Queued : source[op] = w /\ mailOp[op].type = "RECEIVE"}

\* on_window_destroy and unregister_window, then on_window_list_empty.
UnregisterWindow(w) ==
    /\ ~userLeft
    /\ w \in windows
    /\ ExitIdles < MaxExitIdles
    /\ windows' = windows \ {w}
    /\ Cancel(CanceledWith(w))
    /\ idles' = WithExitIf(windows' = {} /\ allowShutdown /\ opQueue = <<>>, idles)
    /\ UNCHANGED <<opQueue, watched, removing, stray, told, inFlight, syncVars,
                   allowShutdown, source, userLeft, quits, accountVars>>

\* The user closed the last window and asks for nothing more.
UserLeaves ==
    /\ ~userLeft
    /\ windows = {}
    /\ allowShutdown
    /\ userLeft' = TRUE
    /\ UNCHANGED <<vars, windows, allowShutdown, source, accountVars, quits>>

\* External (tinymail): an account connects, on behalf of a user or of an
\* operation, unless the device is forced offline.
Connect(a) ==
    /\ a \in accounts \ connected
    /\ ~deviceForced
    /\ ~userLeft \/ \E op \in Queued : mailOp[op].type # "SHUTDOWN"
    /\ connected' = connected \union {a}
    /\ UNCHANGED <<vars, accounts, goingOffline, pending, uiVars, quits>>

-----------------------------------------------------------------------------
(* The main loop.                                                          *)

\* An operation that leaves drops its reference to the source window.
DropSource ==
    /\ source' = [op \in Ops |-> IF op \in Queued' THEN source[op] ELSE NoSource]
    /\ UNCHANGED <<windows, allowShutdown, userLeft>>

\* A queued operation goes on: started, refused or withdrawn.
Proceed(op) ==
    /\ \/ \E type \in UserTypes : Start(op, type)
       \/ StartFails(op)
       \/ RemoveFolderRefused(op)
       \/ RemoveFolderNow(op)
       \/ RemoveFolderToTrash(op)
       \/ RemoveUnstarted(op)
    /\ DropSource
    /\ UNCHANGED <<accountVars, quits>>

Complete(op) ==
    /\ \E c \in Outcomes : Finish(op, c)
    /\ DropSource
    /\ UNCHANGED <<accountVars, quits>>

HandlerReturns ==
    /\ ErrorHandlerReturns
    /\ UNCHANGED <<uiVars, accountVars, quits>>

\* Mutant: every answer is taken for the last one.
FirstAccountOffline(op, a) ==
    /\ a \in goingOffline[op]
    /\ goingOffline' = [goingOffline EXCEPT ![op] = @ \ {a}]
    /\ connected' = connected \ {a}
    /\ pending' = [pending EXCEPT ![op] = @ - 1]
    /\ IF pending[op] > 0 THEN ShutdownDone(op) ELSE UNCHANGED vars
    /\ UNCHANGED <<accounts, uiVars, quits>>

\* account_shutdown_callback of account a for operation op.  The answer to
\* the last call runs shutdown_callback, which ends the operation.
AccountOffline(op, a) ==
    /\ a \in goingOffline[op]
    /\ goingOffline' = [goingOffline EXCEPT ![op] = @ \ {a}]
    /\ connected' = connected \ {a}
    /\ pending' = [pending EXCEPT ![op] = @ - 1]
    /\ IF pending'[op] = 0 THEN ShutdownDone(op) ELSE UNCHANGED vars
    /\ UNCHANGED <<accounts, uiVars, quits>>

\* notify_queue_empty, and on_queue_empty if it emits the signal.
QueueEmptyIdle ==
    /\ NotifyQueueEmpty(
         WithExitIf(opQueue = <<>> /\ allowShutdown /\ windows = {}, <<>>))
    /\ UNCHANGED <<quits, uiVars, accountVars>>

\* on_idle_exit_modest once the final sync is over.
Quit ==
    /\ idles # <<>> /\ Head(idles) = "exit"
    /\ IsShutdown /\ runningFinalSync
    /\ idles' = Tail(idles)
    /\ quits' = quits + 1
    /\ UNCHANGED <<opQueue, watched, removing, stray, told, opVars, syncVars,
                   uiVars, accountVars>>

\* on_idle_exit_modest otherwise: start the final sync.
FinalSync(op) ==
    /\ idles # <<>> /\ Head(idles) = "exit"
    /\ ~(IsShutdown /\ runningFinalSync)
    /\ IF accounts = {} THEN ShutdownAtOnce(op, Tail(idles))
                        ELSE Shutdown(op, Tail(idles))
    /\ DisconnectAll(op)
    /\ UNCHANGED <<quits, accounts, connected, uiVars>>

ExitIdle == Quit \/ \E op \in Ops : FinalSync(op)

\* The quitting branch disconnects the watchers and runs what is pending, the
\* other exit idles among it, before it leaves the main loop.
LeftoverExitIdle == quits = 1 /\ Quit

-----------------------------------------------------------------------------
UserNext ==
    \/ UserLeaves
    \/ CancelAllFromUI
    \/ \E w \in Windows : RegisterWindow(w) \/ UnregisterWindow(w)
    \/ \E op \in Ops :
         \/ DBusNoop(op)
         \/ \E w \in windows \union {NoSource} : Request(op, w)

LoopNext ==
    \/ QueueEmptyIdle
    \/ ExitIdle
    \/ HandlerReturns
    \/ \E a \in Remote : Connect(a)
    \/ \E op \in Ops :
         \/ Proceed(op)
         \/ Complete(op)
         \/ \E a \in Remote : AccountOffline(op, a)

ShutdownNext == (quits = 0 /\ (UserNext \/ LoopNext)) \/ LeftoverExitIdle

\* The main loop goes on as long as it has something to do: idle sources are
\* dispatched, dialogs answered, connections made or given up, tinymail calls
\* answered.  Nothing is assumed about the order.
ShutdownFairness == WF_allVars(quits = 0 /\ LoopNext)

ShutdownSafety == ShutdownInit /\ [][ShutdownNext]_allVars

ShutdownSpec == ShutdownSafety /\ ShutdownFairness

-----------------------------------------------------------------------------
(* Properties.                                                             *)

\* With a window open the device is never left forced offline for good: if a
\* late SHUTDOWN operation forced it, the queue still knows it is in a final
\* sync, so the next operation that starts takes the device online again.
OfflineHeals == windows # {} /\ deviceForced => runningFinalSync

\* The account store answers a SHUTDOWN operation after the last account did:
\* the operation is queued exactly while calls of its own are outstanding, and
\* pending counts them, however many SHUTDOWN operations overlap.
ShutdownWaitsForAccounts ==
    \A op \in Ops :
        /\ pending[op] = Cardinality(goingOffline[op])
        /\ goingOffline[op] # {} <=> op \in Queued /\ mailOp[op].type = "SHUTDOWN"

\* Once the user has closed the last window and nothing new is requested,
\* modest quits, whatever operations, dialogs, pending idles and overlapping
\* final syncs were left behind.
QuitsInTheEnd == userLeft ~> quits > 0

\* modest-main.c: "Disconnect signals. Will be freed by the destroy notify":
\* the quitting branch finds its handlers as main() left them.
QuitsOnce == quits <= 1
=============================================================================
