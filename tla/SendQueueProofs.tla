--------------------------- MODULE SendQueueProofs ---------------------------
(***************************************************************************)
(* Proofs about module SendQueue, for any number of messages, any ids and  *)
(* any number of requests to tinymail.                                     *)
(***************************************************************************)
EXTENDS SendQueue, SequenceLemmas, FiniteSetTheorems, TLAPS

\* The part of TypeOK that the invariants rest on.
CoreTyped ==
    /\ status \in [Ids -> Statuses]
    /\ sending \in BOOLEAN
    /\ quit \in BOOLEAN
    /\ mail \in [Msgs -> Mail]
    /\ runOps \in Nat
    /\ current \subseteq Msgs

\* modest's idea of the queue, priv->sending, follows the thread, which sends
\* one message at a time and only while it is on.
FollowsThread ==
    /\ sending <=> worker = "on"
    /\ \A m, n \in current : m = n

\* The inductive invariant.
IInv ==
    /\ CoreTyped
    /\ FollowsThread
    /\ RunOpWhileSending
    /\ WaitsBeforeStart
    /\ SendingIsReal
    /\ NoQuitWhileSending

-----------------------------------------------------------------------------
\* The number of operations waiting for the queue is a natural number.
LEMMA WaitingCounted == Cardinality(Waiting) \in Nat
  <1>1. IsFiniteSet(Waiting)
    BY SendQueueAssumption, FS_Subset DEF Waiting
  <1> QED
    BY <1>1, FS_CardinalityType

\* The invariant holds of a new queue.
LEMMA InvariantInit == Init => IInv
  <1> SUFFICES ASSUME Init PROVE IInv
    OBVIOUS
  <1>1. CoreTyped
    BY DEF Init, CoreTyped, Statuses, Mail
  <1>2. FollowsThread /\ RunOpWhileSending /\ WaitsBeforeStart
    BY DEF Init, FollowsThread, RunOpWhileSending, WaitsBeforeStart
  <1>3. SendingIsReal /\ NoQuitWhileSending
    BY DEF Init, SendingIsReal, NoQuitWhileSending
  <1> QED
    BY <1>1, <1>2, <1>3 DEF IInv

\* Steps that leave the thread, the operations that run and wait, and the
\* infos of messages being sent alone.
LEMMA QuietStep ==
    ASSUME IInv, ~quit, quit' = FALSE,
           UNCHANGED <<sending, runOps, current>>,
           worker' = "on" <=> worker = "on",
           status' \in [Ids -> Statuses],
           mail' \in [Msgs -> Mail],
           \A id \in Ids : status'[id] = "SENDING" => status[id] = "SENDING",
           \A m \in Msgs : mail'[m].op = "waiting" => mail[m].op = "waiting"
    PROVE  IInv'
  <1>1. CoreTyped' /\ FollowsThread'
    BY DEF IInv, CoreTyped, FollowsThread
  <1>2. RunOpWhileSending' /\ WaitsBeforeStart'
    BY DEF IInv, RunOpWhileSending, WaitsBeforeStart, Waiting
  <1>3. SendingIsReal' /\ NoQuitWhileSending'
    BY DEF IInv, SendingIsReal, NoQuitWhileSending, IdsOf
  <1> QED
    BY <1>1, <1>2, <1>3 DEF IInv

-----------------------------------------------------------------------------
\* New mail, before and after its message is in the outbox.
LEMMA SendNewMailStep ==
    ASSUME IInv, ~quit, NEW m \in Msgs, NEW draft \in BOOLEAN, SendNewMail(m, draft)
    PROVE  IInv'
  <1>1. mail' \in [Msgs -> Mail]
    BY DEF IInv, CoreTyped, SendNewMail, Mail
  <1>2. \A n \in Msgs : mail'[n].op = "waiting" => mail[n].op = "waiting"
    BY DEF IInv, CoreTyped, SendNewMail, Mail
  <1>3. UNCHANGED <<status, sending, runOps, current, worker, quit>>
    BY DEF SendNewMail, infoVars, workVars
  <1> QED
    BY <1>1, <1>2, <1>3, QuietStep DEF IInv, CoreTyped

LEMMA StoreStep ==
    ASSUME IInv, ~quit, NEW m \in Msgs, Store(m)
    PROVE  IInv'
  <1>1. mail' \in [Msgs -> Mail]
    BY DEF IInv, CoreTyped, Store, Mail
  <1>2. \A n \in Msgs : mail'[n].op = "waiting" => mail[n].op = "waiting"
    BY DEF IInv, CoreTyped, Store, Mail
  <1>3. UNCHANGED <<status, sending, runOps, current, worker, quit>>
    BY DEF Store, infoVars, workVars
  <1> QED
    BY <1>1, <1>2, <1>3, QuietStep DEF IInv, CoreTyped

LEMMA DraftSyncedStep ==
    ASSUME IInv, ~quit, NEW m \in Msgs, DraftSynced(m)
    PROVE  IInv'
  <1>1. mail' \in [Msgs -> Mail]
    BY DEF IInv, CoreTyped, DraftSynced, Mail
  <1>2. \A n \in Msgs : mail'[n].op = "waiting" => mail[n].op = "waiting"
    BY DEF IInv, CoreTyped, DraftSynced, Mail
  <1>3. UNCHANGED <<status, sending, runOps, current, worker, quit>>
    BY DEF DraftSynced, infoVars, workVars
  <1> QED
    BY <1>1, <1>2, <1>3, QuietStep DEF IInv, CoreTyped

\* The callback of a message added to the outbox: the operation that notifies
\* becomes a running or a waiting one as the queue is sending or not.
LEMMA AddedToOutboxStep ==
    ASSUME IInv, ~quit, NEW m \in Msgs, AddedToOutbox(m)
    PROVE  IInv'
  <1> DEFINE id == MsgId[m]
  <1>1. id \in Ids
    BY SendQueueAssumption
  <1>2. status' = [status EXCEPT ![id] = "WAITING"]
    BY DEF AddedToOutbox
  <1>3. status' \in [Ids -> Statuses]
    BY <1>1, <1>2 DEF IInv, CoreTyped, Statuses
  <1>4. \A i \in Ids : status'[i] = "SENDING" => status[i] = "SENDING"
    BY <1>1, <1>2 DEF IInv, CoreTyped
  <1>5. UNCHANGED <<sending, current, quit>> /\ (worker' = "on" <=> worker = "on")
    BY DEF AddedToOutbox, Woken
  <1>6. mail' \in [Msgs -> Mail]
    BY DEF IInv, CoreTyped, AddedToOutbox, AwaitQueue, Mail
  <1>7. CASE mail[m].draft
    <2>1. UNCHANGED runOps
      BY <1>7 DEF AddedToOutbox
    <2>2. \A n \in Msgs : mail'[n].op = "waiting" => mail[n].op = "waiting"
      BY <1>7 DEF IInv, CoreTyped, AddedToOutbox, Mail
    <2> QED
      BY <1>3, <1>4, <1>5, <1>6, <2>1, <2>2, QuietStep DEF IInv, CoreTyped
  <1>8. CASE ~mail[m].draft
    <2>1. AwaitQueue(m)
      BY <1>8 DEF AddedToOutbox
    <2>2. runOps' \in Nat /\ (runOps' > 0 <=> sending')
      BY <1>5, <2>1 DEF AwaitQueue, IInv, CoreTyped, RunOpWhileSending
    <2>3. CoreTyped' /\ FollowsThread'
      BY <1>3, <1>5, <1>6, <2>2 DEF IInv, CoreTyped, FollowsThread
    <2>4. WaitsBeforeStart'
      <3> SUFFICES ASSUME sending' PROVE Waiting' = {}
        BY DEF WaitsBeforeStart
      <3>1. mail' = [mail EXCEPT ![m].add = "called", ![m].op = "ended"]
        BY <1>5, <2>1 DEF AwaitQueue
      <3>2. \A n \in Msgs : mail[n].op # "waiting"
        BY <1>5 DEF IInv, WaitsBeforeStart, Waiting
      <3> QED
        BY <3>1, <3>2 DEF Waiting, IInv, CoreTyped, Mail
    <2>5. SendingIsReal' /\ NoQuitWhileSending'
      BY <1>4, <1>5 DEF IInv, SendingIsReal, NoQuitWhileSending, IdsOf
    <2> QED
      BY <2>2, <2>3, <2>4, <2>5 DEF IInv, RunOpWhileSending
  <1> QED
    BY <1>7, <1>8

-----------------------------------------------------------------------------
\* The thread starts: whoever waited is taken over by RUN_QUEUE operations.
LEMMA QueueStartStep ==
    ASSUME IInv, ~quit, QueueStart
    PROVE  IInv'
  <1>1. sending' /\ worker' = "on" /\ UNCHANGED <<status, current, quit>>
    BY DEF QueueStart
  <1>2. runOps' \in Nat /\ runOps' > 0
    BY WaitingCounted DEF QueueStart, StartsRunOps, IInv, CoreTyped
  <1>3. mail' = [m \in Msgs |-> IF m \in Waiting THEN [mail[m] EXCEPT !.op = "ended"]
                                                 ELSE mail[m]]
    BY DEF QueueStart
  <1>4. mail' \in [Msgs -> Mail]
    BY <1>3 DEF IInv, CoreTyped, Mail
  <1>5. Waiting' = {}
    BY <1>3 DEF Waiting, IInv, CoreTyped, Mail
  <1>6. CoreTyped' /\ FollowsThread'
    BY <1>1, <1>2, <1>4 DEF IInv, CoreTyped, FollowsThread
  <1>7. RunOpWhileSending' /\ WaitsBeforeStart'
    BY <1>1, <1>2, <1>5 DEF RunOpWhileSending, WaitsBeforeStart
  <1>8. SendingIsReal' /\ NoQuitWhileSending'
    BY <1>1 DEF IInv, SendingIsReal, NoQuitWhileSending, IdsOf
  <1> QED
    BY <1>6, <1>7, <1>8 DEF IInv

LEMMA QueueCannotStartStep ==
    ASSUME IInv, ~quit, QueueCannotStart
    PROVE  IInv'
  <1>1. mail' = [m \in Msgs |-> IF m \in Waiting THEN [mail[m] EXCEPT !.op = "ended"]
                                                 ELSE mail[m]]
    BY DEF QueueCannotStart
  <1>2. mail' \in [Msgs -> Mail]
    BY <1>1 DEF IInv, CoreTyped, Mail
  <1>3. \A n \in Msgs : mail'[n].op = "waiting" => mail[n].op = "waiting"
    BY <1>1 DEF Waiting, IInv, CoreTyped, Mail
  <1>4. /\ UNCHANGED <<status, sending, runOps, current, quit>>
        /\ worker = "due" /\ worker' = "off"
    BY DEF QueueCannotStart, infoVars
  <1> QED
    BY <1>2, <1>3, <1>4, QuietStep DEF IInv, CoreTyped

\* Steps of the running thread that change infos and the message being sent.
LEMMA ThreadStep ==
    ASSUME IInv, ~quit,
           UNCHANGED <<sending, worker, opVars>>,
           status' \in [Ids -> Statuses],
           current' \subseteq Msgs,
           \A m, n \in current' : m = n,
           SendingIsReal'
    PROVE  IInv'
  <1>1. CoreTyped' /\ FollowsThread'
    BY DEF IInv, CoreTyped, FollowsThread, opVars
  <1>2. RunOpWhileSending' /\ WaitsBeforeStart' /\ NoQuitWhileSending'
    BY DEF IInv, RunOpWhileSending, WaitsBeforeStart, NoQuitWhileSending, Waiting,
           opVars
  <1> QED
    BY <1>1, <1>2 DEF IInv

LEMMA MsgSendingStep ==
    ASSUME IInv, ~quit, NEW m \in Msgs, MsgSending(m)
    PROVE  IInv'
  <1>1. MsgId[m] \in Ids
    BY SendQueueAssumption
  <1>2. /\ UNCHANGED <<sending, worker, opVars>>
        /\ current = {} /\ current' = {m}
        /\ status' = [status EXCEPT ![MsgId[m]] = IF @ = "UNKNOWN" THEN @ ELSE "SENDING"]
    BY DEF MsgSending
  <1>3. status' \in [Ids -> Statuses]
    BY <1>1, <1>2 DEF IInv, CoreTyped, Statuses
  <1>4. \A id \in Ids : status[id] # "SENDING"
    BY <1>2 DEF IInv, SendingIsReal, IdsOf
  <1>5. SendingIsReal'
    BY <1>1, <1>2, <1>4 DEF IInv, CoreTyped, SendingIsReal, IdsOf
  <1> QED
    BY <1>2, <1>3, <1>5, ThreadStep

\* Once the message being sent is done with, its info is not SENDING, and no
\* other info was.
LEMMA DoneSendingStep ==
    ASSUME IInv, ~quit, NEW m \in current, NEW s \in Statuses \ {"SENDING"},
           UNCHANGED <<sending, worker, opVars>>,
           current' = {},
           status' = [status EXCEPT ![MsgId[m]] = s]
    PROVE  IInv'
  <1>1. m \in Msgs /\ MsgId[m] \in Ids
    BY SendQueueAssumption DEF IInv, CoreTyped
  <1>2. status' \in [Ids -> Statuses]
    BY <1>1 DEF IInv, CoreTyped
  <1>3. IdsOf(current) = {MsgId[m]}
    BY DEF IdsOf, IInv, FollowsThread
  <1>4. \A id \in Ids : status'[id] # "SENDING"
    BY <1>1, <1>3 DEF IInv, CoreTyped, SendingIsReal
  <1>5. SendingIsReal'
    BY <1>4 DEF SendingIsReal
  <1> QED
    BY <1>2, <1>5, ThreadStep

LEMMA MsgSentStep ==
    ASSUME IInv, ~quit, NEW m \in Msgs, MsgSent(m)
    PROVE  IInv'
  <1>1. /\ m \in current /\ current' = {}
        /\ UNCHANGED <<sending, worker, opVars>>
        /\ status' = [status EXCEPT ![MsgId[m]] = "UNKNOWN"]
    BY DEF MsgSent
  <1>2. "UNKNOWN" \in Statuses \ {"SENDING"}
    BY DEF Statuses
  <1> QED
    BY <1>1, <1>2, DoneSendingStep

LEMMA MsgErrorStep ==
    ASSUME IInv, ~quit, NEW m \in Msgs, NEW canceled \in BOOLEAN, MsgError(m, canceled)
    PROVE  IInv'
  <1> DEFINE id == MsgId[m]
             s == IF status[id] = "UNKNOWN" THEN "UNKNOWN"
                                            ELSE ErrorStatus(status[id], canceled)
  <1>1. id \in Ids
    BY SendQueueAssumption
  <1>2. /\ m \in current /\ current' = {}
        /\ UNCHANGED <<sending, worker, opVars>>
        /\ status' = [status EXCEPT ![id] = s]
    BY <1>1 DEF MsgError, IInv, CoreTyped
  <1>3. s \in Statuses \ {"SENDING"}
    BY DEF Statuses, ErrorStatus
  <1> HIDE DEF s
  <1> QED
    BY <1>2, <1>3, DoneSendingStep

\* A repeated signal removes an info at most.
LEMMA MsgSentAgainStep ==
    ASSUME IInv, ~quit, NEW m \in Msgs, MsgSentAgain(m)
    PROVE  IInv'
  <1>1. MsgId[m] \in Ids
    BY SendQueueAssumption
  <1>2. /\ UNCHANGED <<sending, runOps, current, worker, mail, quit>>
        /\ status' = [status EXCEPT ![MsgId[m]] = "UNKNOWN"]
    BY DEF MsgSentAgain, opVars, workVars
  <1>3. /\ status' \in [Ids -> Statuses]
        /\ \A id \in Ids : status'[id] = "SENDING" => status[id] = "SENDING"
    BY <1>1, <1>2 DEF IInv, CoreTyped, Statuses
  <1> QED
    BY <1>2, <1>3, QuietStep DEF IInv, CoreTyped

\* The thread stops while nothing is being sent; every RUN_QUEUE operation ends.
LEMMA QueueStopStep ==
    ASSUME IInv, ~quit, QueueStop
    PROVE  IInv'
  <1>1. /\ sending' = FALSE /\ worker' = "off" /\ runOps' = 0
        /\ UNCHANGED <<status, mail, current, quit>>
    BY DEF QueueStop, AllStop
  <1>2. CoreTyped' /\ FollowsThread'
    <2>1. CoreTyped'
      BY <1>1 DEF IInv, CoreTyped
    <2>2. FollowsThread'
      BY <1>1 DEF IInv, FollowsThread
    <2> QED
      BY <2>1, <2>2
  <1>3. RunOpWhileSending' /\ WaitsBeforeStart' /\ NoQuitWhileSending'
    BY <1>1 DEF IInv, RunOpWhileSending, WaitsBeforeStart, NoQuitWhileSending
  <1>4. SendingIsReal'
    BY <1>1 DEF IInv, SendingIsReal, IdsOf
  <1> QED
    BY <1>2, <1>3, <1>4 DEF IInv

-----------------------------------------------------------------------------
\* Listings of the outbox change infos, but none to SENDING.
LEMMA ListedStep ==
    ASSUME IInv, ~quit, NEW i \in 1..Len(requests), Listed(i)
    PROVE  IInv'
  <1>1. CASE NewQueueListed(i)
    <2>1. /\ UNCHANGED <<sending, runOps, current, mail, quit>>
          /\ worker' = "on" <=> worker = "on"
      BY <1>1 DEF NewQueueListed, opVars
    <2>2. CASE UNCHANGED status
      BY <2>1, <2>2, QuietStep DEF IInv, CoreTyped
    <2>3. ASSUME NEW S,
                 status' = [id \in Ids |-> IF status[id] = "UNKNOWN" /\ id \in IdsOf(S)
                                             THEN "WAITING" ELSE status[id]]
          PROVE  IInv'
      <3>1. /\ status' \in [Ids -> Statuses]
            /\ \A id \in Ids : status'[id] = "SENDING" => status[id] = "SENDING"
        BY <2>3 DEF IInv, CoreTyped, Statuses
      <3> QED
        BY <2>1, <3>1, QuietStep DEF IInv, CoreTyped
    <2> QED
      BY <1>1, <2>2, <2>3 DEF NewQueueListed
  <1>2. CASE StopListed(i)
    <2>1. UNCHANGED <<sending, runOps, current, worker, mail, quit>>
      BY <1>2 DEF StopListed, opVars, workVars
    <2>2. CASE UNCHANGED status
      BY <2>1, <2>2, QuietStep DEF IInv, CoreTyped
    <2>3. ASSUME NEW S,
                 status' = [id \in Ids |-> IF status[id] # "UNKNOWN" /\ id \in IdsOf(S)
                                             THEN "SUSPENDED" ELSE status[id]]
          PROVE  IInv'
      <3>1. /\ status' \in [Ids -> Statuses]
            /\ \A id \in Ids : status'[id] = "SENDING" => status[id] = "SENDING"
        BY <2>3 DEF IInv, CoreTyped, Statuses
      <3> QED
        BY <2>1, <3>1, QuietStep DEF IInv, CoreTyped
    <2> QED
      BY <1>2, <2>2, <2>3 DEF StopListed
  <1>3. CASE WakeupListed(i)
    <2>1. UNCHANGED <<sending, runOps, current, worker, mail, quit>>
      BY <1>3 DEF WakeupListed, workVars
    <2>2. PICK S : status' = [id \in Ids |-> IF id \in IdsOf(S) THEN "WAITING"
                                                                ELSE status[id]]
      BY <1>3 DEF WakeupListed
    <2>3. /\ status' \in [Ids -> Statuses]
          /\ \A id \in Ids : status'[id] = "SENDING" => status[id] = "SENDING"
      BY <2>2 DEF IInv, CoreTyped, Statuses
    <2> QED
      BY <2>1, <2>3, QuietStep DEF IInv, CoreTyped
  <1>4. CASE WakeupNotListed(i)
    <2>1. /\ UNCHANGED <<status, sending, runOps, current, mail, quit>>
          /\ worker' = "on" <=> worker = "on"
      BY <1>4 DEF WakeupNotListed, Flushed, Woken
    <2> QED
      BY <2>1, QuietStep DEF IInv, CoreTyped
  <1> QED
    BY <1>1, <1>2, <1>3, <1>4 DEF Listed

\* A wakeup is asked for or ends, the user cancels.
LEMMA RequestStep ==
    ASSUME IInv, ~quit, QueueWakeup \/ WakeupSynced \/ CancelSuspend
    PROVE  IInv'
  <1>1. /\ UNCHANGED <<status, sending, runOps, current, mail, quit>>
        /\ worker' = "on" <=> worker = "on"
    <2>1. CASE QueueWakeup
      BY <2>1 DEF QueueWakeup, opVars, workVars
    <2>2. CASE WakeupSynced
      BY <2>2 DEF WakeupSynced, infoVars, Flushed, Woken
    <2>3. CASE CancelSuspend
      BY <2>3 DEF CancelSuspend, opVars
    <2> QED
      BY <2>1, <2>2, <2>3
  <1> QED
    BY <1>1, QuietStep DEF IInv, CoreTyped

\* The program quits with no operation in the mail operation queue: no
\* RUN_QUEUE operation means that the thread is off.
LEMMA NotifyQueueEmptyStep ==
    ASSUME IInv, NotifyQueueEmpty
    PROVE  IInv'
  <1>1. UNCHANGED <<status, sending, runOps, current, worker, mail>>
    BY DEF NotifyQueueEmpty, infoVars, workVars
  <1>2. quit' \in BOOLEAN /\ (quit' => NoOps)
    BY DEF NotifyQueueEmpty, StillEmpty
  <1>3. NoQuitWhileSending'
    BY <1>1, <1>2 DEF IInv, RunOpWhileSending, NoQuitWhileSending, NoOps, SendOps
  <1>4. CoreTyped' /\ FollowsThread' /\ RunOpWhileSending' /\ WaitsBeforeStart'
    BY <1>1, <1>2 DEF IInv, CoreTyped, FollowsThread, RunOpWhileSending,
       WaitsBeforeStart, Waiting
  <1>5. SendingIsReal'
    BY <1>1 DEF IInv, SendingIsReal, IdsOf
  <1> QED
    BY <1>3, <1>4, <1>5 DEF IInv

\* Nothing happens.
LEMMA StutterStep ==
    ASSUME IInv, UNCHANGED vars
    PROVE  IInv'
  <1>1. UNCHANGED <<status, sending, runOps, current, worker, mail, quit>>
    BY DEF vars, infoVars, opVars, workVars
  <1>2. CoreTyped' /\ FollowsThread' /\ RunOpWhileSending' /\ WaitsBeforeStart'
    BY <1>1 DEF IInv, CoreTyped, FollowsThread, RunOpWhileSending, WaitsBeforeStart,
       Waiting
  <1>3. SendingIsReal' /\ NoQuitWhileSending'
    BY <1>1 DEF IInv, SendingIsReal, NoQuitWhileSending, IdsOf, SendOps
  <1> QED
    BY <1>2, <1>3 DEF IInv

\* Every step keeps the invariant.
LEMMA InvariantStep == IInv /\ [Next]_vars => IInv'
  <1> SUFFICES ASSUME IInv, [Next]_vars PROVE IInv'
    OBVIOUS
  <1>1. CASE Next
    <2>1. ~quit
      BY <1>1 DEF Next, Live
    <2>2. ASSUME NEW m \in Msgs, MailNext(m) PROVE IInv'
      <3>1. ASSUME NEW draft \in BOOLEAN, SendNewMail(m, draft) PROVE IInv'
        BY <2>1, <3>1, SendNewMailStep
      <3>2. ASSUME NEW canceled \in BOOLEAN, MsgError(m, canceled) PROVE IInv'
        BY <2>1, <3>2, MsgErrorStep
      <3>3. CASE Store(m)
        BY <2>1, <3>3, StoreStep
      <3>4. CASE AddedToOutbox(m)
        BY <2>1, <3>4, AddedToOutboxStep
      <3>5. CASE DraftSynced(m)
        BY <2>1, <3>5, DraftSyncedStep
      <3>6. CASE MsgSending(m)
        BY <2>1, <3>6, MsgSendingStep
      <3>7. CASE MsgSent(m)
        BY <2>1, <3>7, MsgSentStep
      <3>8. CASE MsgSentAgain(m)
        BY <2>1, <3>8, MsgSentAgainStep
      <3> QED
        BY <2>2, <3>1, <3>2, <3>3, <3>4, <3>5, <3>6, <3>7, <3>8 DEF MailNext
    <2>3. ASSUME NEW i \in 1..Len(requests), Listed(i) PROVE IInv'
      BY <2>1, <2>3, ListedStep
    <2>4. CASE QueueStart
      BY <2>1, <2>4, QueueStartStep
    <2>5. CASE QueueCannotStart
      BY <2>1, <2>5, QueueCannotStartStep
    <2>6. CASE QueueStop
      BY <2>1, <2>6, QueueStopStep
    <2>7. CASE QueueWakeup \/ WakeupSynced \/ CancelSuspend
      BY <2>1, <2>7, RequestStep
    <2>8. CASE NotifyQueueEmpty
      BY <2>8, NotifyQueueEmptyStep
    <2> QED
      BY <1>1, <2>2, <2>3, <2>4, <2>5, <2>6, <2>7, <2>8 DEF Next
  <1>2. CASE UNCHANGED vars
    BY <1>2, StutterStep
  <1> QED
    BY <1>1, <1>2

-----------------------------------------------------------------------------
\* The inductive invariant holds in every state.
THEOREM Invariant == Safety => []IInv
  <1> QED
    BY InvariantInit, InvariantStep, PTL DEF Safety

\* The thread runs exactly while a RUN_QUEUE operation is in the mail operation
\* queue (_on_queue_start, run_queue_start and run_queue_stop together).
THEOREM RunOpCoversSending == Safety => []RunOpWhileSending
  <1>1. IInv => RunOpWhileSending
    BY DEF IInv
  <1> QED
    BY <1>1, Invariant, PTL

\* No operation waits for the start of a queue that is running already.
THEOREM WaitingPrecedesStart == Safety => []WaitsBeforeStart
  <1>1. IInv => WaitsBeforeStart
    BY DEF IInv
  <1> QED
    BY <1>1, Invariant, PTL

\* Only the message being sent is shown as SENDING, whatever ids collide.
THEOREM SendingShownIsReal == Safety => []SendingIsReal
  <1>1. IInv => SendingIsReal
    BY DEF IInv
  <1> QED
    BY <1>1, Invariant, PTL

\* The program never quits under a running thread or under new mail that
\* waits for the queue to start.
THEOREM NeverQuitsWhileSending == Safety => []NoQuitWhileSending
  <1>1. IInv => NoQuitWhileSending
    BY DEF IInv
  <1> QED
    BY <1>1, Invariant, PTL
-----------------------------------------------------------------------------
\* The rest of TypeOK.
RestTyped ==
    /\ suspend \in BOOLEAN /\ transport \in BOOLEAN
    /\ requests \in Seq(Request)
    /\ syncs \in Nat /\ overUnref \in Nat
    /\ emptyDue \in BOOLEAN
    /\ outbox \subseteq Msgs /\ flagged \subseteq Msgs /\ again \subseteq Msgs
    /\ worker \in {"off", "due", "on"}
    /\ tried \subseteq Msgs
    /\ stopping \in BOOLEAN

\* What a step may do to the outbox and the thread, requests aside.
LEMMA WokenTyped ==
    ASSUME RestTyped
    PROVE  Woken \in {"off", "due", "on"} /\ Flushed \in {"off", "due", "on"}
  BY DEF RestTyped, Woken, Flushed

\* A request that is answered leaves, a new one comes last.
LEMMA RequestsTyped ==
    ASSUME RestTyped, NEW i \in 1..Len(requests)
    PROVE  /\ RemoveAt(requests, i) \in Seq(Request)
           /\ Append(RemoveAt(requests, i),
                     [kind |-> "wakeup", headers |-> outbox]) \in Seq(Request)
  <1>1. requests \in Seq(Request)
    BY DEF RestTyped
  <1>2. RemoveAt(requests, i) \in Seq(Request)
    BY <1>1, RemoveAtProperties
  <1>3. [kind |-> "wakeup", headers |-> outbox] \in Request
    BY DEF RestTyped, Request
  <1> QED
    BY <1>2, <1>3, AppendProperties

LEMMA AskTyped ==
    ASSUME RestTyped, NEW kind \in {"stop", "wakeup"}
    PROVE  Ask(kind) \in Seq(Request)
  <1>1. [kind |-> kind, headers |-> outbox] \in Request
    BY DEF RestTyped, Request
  <1> QED
    BY <1>1, AppendProperties DEF RestTyped, Ask

\* The operations leave by a formula.
LEMMA EmptyDueTyped == OpLeaves => emptyDue' \in BOOLEAN
  BY DEF OpLeaves

LEMMA RestInit == Init => RestTyped
  <1> SUFFICES ASSUME Init PROVE RestTyped
    OBVIOUS
  <1>1. [kind |-> "new", headers |-> outbox] \in Request
    BY DEF Init, Request
  <1>2. requests \in Seq(Request)
    BY <1>1 DEF Init
  <1> QED
    BY <1>2 DEF Init, RestTyped

\* Steps for one message.
LEMMA MailNextTyped ==
    ASSUME RestTyped, current \subseteq Msgs, NEW m \in Msgs, MailNext(m)
    PROVE  RestTyped'
  <1> USE DEF RestTyped, infoVars, opVars, boxVars, workVars
  <1>1. ASSUME NEW draft \in BOOLEAN, SendNewMail(m, draft) PROVE RestTyped'
    BY <1>1 DEF SendNewMail
  <1>2. CASE Store(m)
    BY <1>2 DEF Store
  <1>3. CASE AddedToOutbox(m)
    BY <1>3, WokenTyped, EmptyDueTyped DEF AddedToOutbox
  <1>4. CASE DraftSynced(m)
    BY <1>4, EmptyDueTyped DEF DraftSynced
  <1>5. CASE MsgSending(m)
    BY <1>5 DEF MsgSending
  <1>6. CASE MsgSent(m)
    BY <1>6 DEF MsgSent
  <1>7. CASE MsgSentAgain(m)
    BY <1>7 DEF MsgSentAgain
  <1>8. ASSUME NEW canceled \in BOOLEAN, MsgError(m, canceled) PROVE RestTyped'
    BY <1>8 DEF MsgError
  <1> QED
    BY <1>1, <1>2, <1>3, <1>4, <1>5, <1>6, <1>7, <1>8 DEF MailNext

\* Listings of the outbox.
LEMMA ListedTyped ==
    ASSUME RestTyped, NEW i \in 1..Len(requests), Listed(i)
    PROVE  RestTyped'
  <1>1. requests' \in Seq(Request)
    BY RequestsTyped DEF Listed, NewQueueListed, StopListed, WakeupListed,
                         WakeupNotListed
  <1> USE <1>1 DEF RestTyped, infoVars, opVars, boxVars, workVars
  <1>2. CASE NewQueueListed(i)
    BY <1>2 DEF NewQueueListed
  <1>3. CASE StopListed(i)
    BY <1>3 DEF StopListed
  <1>4. CASE WakeupListed(i)
    BY <1>4 DEF WakeupListed
  <1>5. CASE WakeupNotListed(i)
    BY <1>5, WokenTyped, EmptyDueTyped DEF WakeupNotListed
  <1> QED
    BY <1>2, <1>3, <1>4, <1>5 DEF Listed

LEMMA RestStep ==
    ASSUME RestTyped, current \subseteq Msgs, [Next]_vars
    PROVE  RestTyped'
  <1> USE DEF RestTyped, infoVars, opVars, boxVars, workVars
  <1>1. CASE QueueStart
    BY <1>1 DEF QueueStart
  <1>2. CASE QueueCannotStart
    BY <1>2, EmptyDueTyped DEF QueueCannotStart
  <1>3. CASE QueueStop
    BY <1>3, AskTyped, EmptyDueTyped DEF QueueStop
  <1>4. CASE QueueWakeup
    BY <1>4, AskTyped DEF QueueWakeup
  <1>5. CASE WakeupSynced
    BY <1>5, WokenTyped, EmptyDueTyped DEF WakeupSynced
  <1>6. CASE CancelSuspend
    BY <1>6 DEF CancelSuspend
  <1>7. CASE NotifyQueueEmpty
    BY <1>7 DEF NotifyQueueEmpty
  <1>8. CASE UNCHANGED vars
    BY <1>8 DEF vars
  <1> QED
    BY <1>1, <1>2, <1>3, <1>4, <1>5, <1>6, <1>7, <1>8, MailNextTyped,
       ListedTyped DEF Next

\* The variables of the send queue keep their types, the queues of requests
\* and the counters of operations included.
THEOREM TypeCorrect == Safety => []TypeOK
  <1>1. IInv /\ RestTyped /\ [Next]_vars => RestTyped'
    BY RestStep DEF IInv, CoreTyped
  <1>2. IInv /\ RestTyped => TypeOK
    BY DEF IInv, CoreTyped, RestTyped, TypeOK
  <1> QED
    BY <1>1, <1>2, RestInit, Invariant, PTL DEF Safety
=============================================================================
