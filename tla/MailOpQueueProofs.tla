------------------------- MODULE MailOpQueueProofs --------------------------
(***************************************************************************)
(* The safety properties of MailOpQueue, for any set of operations, any    *)
(* types the user starts and any outcomes of tinymail calls, that the      *)
(* queue implements the safety part of QueueReports, and the same for the  *)
(* queue within Shutdown, with what Shutdown promises itself.              *)
(*                                                                         *)
(* LeavesOnce and EmptyReportDue need each other and the types to be       *)
(* inductive: that queue_remove() takes out all of an operation, and only  *)
(* once, rests on the queue having no duplicates and on watched being what *)
(* is queued.  The proof follows the handlers: each either takes one       *)
(* operation out (RemoveFrom) or changes the queue in a simple way.  The   *)
(* lemmas leave open which idle sources a handler installs, so that they   *)
(* hold with the exit idles of Shutdown too.  What Shutdown promises needs *)
(* that every SHUTDOWN operation is queued and that its pending accounts   *)
(* are counted (ShutdownInv).                                              *)
(***************************************************************************)
EXTENDS Shutdown, SequenceLemmas, FiniteSetTheorems

\* The variables of the queue are what they should be.
QueueSafe ==
    /\ opQueue \in Seq(Ops)
    /\ watched \subseteq Ops
    /\ removing \in Seq([op : Ops, left : Nat])
    /\ idles \in Seq(IdleSources)
    /\ stray \in BOOLEAN
    /\ told \in BOOLEAN
    /\ LeavesOnce
    /\ EmptyReportDue

OpsTyped  == mailOp \in [Ops -> Operation] /\ inFlight \subseteq Ops
SyncTyped == runningFinalSync \in BOOLEAN /\ deviceForced \in BOOLEAN

IInv == QueueSafe /\ OpsTyped /\ SyncTyped

\* The invariant is the conjunction of the properties the runs check.
LEMMA IInvIs == IInv <=> TypeOK /\ LeavesOnce /\ EmptyReportDue
BY DEF IInv, QueueSafe, OpsTyped, SyncTyped, TypeOK

-----------------------------------------------------------------------------
\* The last step of queue_remove(): the installed idle sources stay idle
\* sources, the report is among them if nothing was left, and was not lost
\* otherwise.
LEMMA ReportIfLastSafe ==
  ASSUME NEW sources \in Seq(IdleSources), NEW left,
         ReportIfLast(left, sources)
  PROVE  /\ idles' \in Seq(IdleSources)
         /\ left = 0 => \E i \in 1..Len(idles') : idles'[i] = "empty"
         /\ left # 0 => idles' = sources
<1> DEFINE others == RemoveFirst(sources, "empty")
<1>1. others \in Seq(IdleSources)
  BY RemoveFirstType
<1>2. "empty" \in IdleSources
  BY DEF IdleSources
<1>3. CASE left = 0
  <2>1. idles' = Append(others, "empty")
    BY <1>3 DEF ReportIfLast
  <2> HIDE DEF others
  <2>2. /\ idles' \in Seq(IdleSources) /\ Len(idles') = Len(others) + 1
        /\ idles'[Len(others) + 1] = "empty"
    BY <1>1, <1>2, <2>1, AppendProperties
  <2>3. Len(others) + 1 \in 1..Len(idles')
    BY <1>1, <2>2, LenProperties
  <2> QED
    BY <1>3, <2>2, <2>3
<1>4. CASE left # 0
  BY <1>4 DEF ReportIfLast
<1> QED
  BY <1>3, <1>4

\* queue_remove() of an operation that is in q: the queue is safe afterwards,
\* whether the error handler stops it or not.
LEMMA RemoveFromSafe ==
  ASSUME QueueSafe,
         NEW op \in Ops, NEW q \in Seq(Ops), NEW o,
         NEW sources \in Seq(IdleSources),
         NoDuplicates(q), op \in ToSet(q), ToSet(q) \ {op} = Queued \ {op},
         RemoveFrom(q, op, o, sources)
  PROVE  QueueSafe' /\ Queued' = Queued \ {op} /\ told' = FALSE
<1> DEFINE rest == RemoveFirst(q, op)
<1>1. opQueue' = rest /\ rest \in Seq(Ops) /\ Len(rest) \in Nat
  BY RemoveFirstType, LenProperties DEF RemoveFrom
<1>2. NoDuplicates(rest) /\ ToSet(rest) = Queued \ {op}
  BY RemoveFirstUnique
<1>3. watched' = Queued' /\ Queued' = Queued \ {op}
  BY <1>1, <1>2 DEF RemoveFrom, WatchedWithout, QueueSafe, LeavesOnce, Queued
<1>4. LeavesOnce'
  BY <1>1, <1>2, <1>3 DEF RemoveFrom, QueueSafe, LeavesOnce, NoDuplicates
<1>5. stray' \in BOOLEAN /\ told' = FALSE /\ watched' \subseteq Ops
  <2>1. stray' \in BOOLEAN
    BY Zenon DEF RemoveFrom
  <2> QED
    BY <2>1 DEF RemoveFrom, WatchedWithout, QueueSafe
<1>6. (rest = <<>>) <=> (Len(rest) = 0)
  BY <1>1, EmptySeq
<1>7. CASE ReportIfLast(Len(rest), sources) /\ UNCHANGED removing
  <2>1. idles' \in Seq(IdleSources) /\ EmptyReportDue'
    BY <1>1, <1>6, <1>7, ReportIfLastSafe DEF QueueSafe, EmptyReportDue
  <2> QED
    BY <1>1, <1>3, <1>4, <1>5, <1>7, <2>1 DEF QueueSafe
<1>8. CASE /\ removing' = Append(removing, [op |-> op, left |-> Len(rest)])
           /\ idles' = sources
  <2>1. [op |-> op, left |-> Len(rest)] \in [op : Ops, left : Nat]
    BY <1>1
  <2>2. /\ removing' \in Seq([op : Ops, left : Nat])
        /\ Len(removing') = Len(removing) + 1
        /\ removing'[Len(removing) + 1] = [op |-> op, left |-> Len(rest)]
    BY <1>8, <2>1, AppendProperties DEF QueueSafe
  <2>3. Len(removing) + 1 \in 1..Len(removing')
    BY <2>2, LenProperties DEF QueueSafe
  <2>4. EmptyReportDue'
    BY <1>1, <1>6, <2>2, <2>3 DEF EmptyReportDue
  <2> QED
    BY <1>1, <1>3, <1>4, <1>5, <1>8, <2>2, <2>4 DEF QueueSafe
<1> QED
  BY <1>3, <1>7, <1>8 DEF RemoveFrom

\* notify_end, however often it is called.
LEMMA NotifyEndSafe ==
  ASSUME QueueSafe, NEW op \in Ops, NEW o, NotifyEnd(op, o)
  PROVE  QueueSafe'
<1>1. CASE op \in watched
  <2>1. RemoveFrom(opQueue, op, o, idles)
    BY <1>1 DEF NotifyEnd
  <2>2. /\ op \in ToSet(opQueue) /\ NoDuplicates(opQueue)
        /\ opQueue \in Seq(Ops) /\ idles \in Seq(IdleSources)
    BY <1>1 DEF QueueSafe, LeavesOnce, Queued, NoDuplicates
  <2> QED
    BY <2>1, <2>2, RemoveFromSafe DEF Queued
<1>2. CASE op \notin watched
  BY <1>2 DEF NotifyEnd, queueVars, QueueSafe, LeavesOnce, EmptyReportDue, Queued
<1> QED
  BY <1>1, <1>2

\* A new operation at the end of the queue.
LEMMA AppendFresh ==
  ASSUME QueueSafe, NEW op \in Ops, Fresh(op)
  PROVE  /\ Append(opQueue, op) \in Seq(Ops)
         /\ Append(opQueue, op) # <<>>
         /\ NoDuplicates(Append(opQueue, op))
         /\ ToSet(Append(opQueue, op)) = Queued \union {op}
         /\ op \notin Queued
<1>1. NoDuplicates(opQueue)
  BY DEF QueueSafe, LeavesOnce, NoDuplicates
<1> QED
  BY <1>1, AppendProperties, AppendSet DEF QueueSafe, Fresh, Queued

-----------------------------------------------------------------------------
\* The operations' side of the handlers that end one.
LEMMA EndsAsSafe ==
  ASSUME IInv, NEW op \in Ops, NEW c, EndsAs(op, c)
  PROVE  QueueSafe' /\ mailOp' \in [Ops -> Operation]
<1>1. QueueSafe'
  BY NotifyEndSafe DEF EndsAs, IInv
<1>2. Blank \in Operation
  BY DEF Blank, Operation, Types, Statuses
<1> QED
  BY <1>1, <1>2 DEF EndsAs, Finalized, IInv, OpsTyped

LEMMA StartedTyped ==
  ASSUME SyncTyped, NEW type, Started(type)
  PROVE  SyncTyped'
BY Zenon DEF Started, SyncTyped

LEMMA CancelTyped ==
  ASSUME OpsTyped, NEW ops, Cancel(ops)
  PROVE  mailOp' \in [Ops -> Operation]
<1>1. ASSUME NEW op \in Ops
      PROVE  [mailOp[op] EXCEPT !.status = "CANCELED"] \in Operation
  BY DEF OpsTyped, Operation, Statuses
<1> QED
  BY <1>1 DEF OpsTyped, Cancel

\* Setting the type and the status of an operation.
LEMMA RunningTyped ==
  ASSUME OpsTyped, NEW op \in Ops, NEW type \in Types
  PROVE  [mailOp EXCEPT ![op].type = type, ![op].status = "IN_PROGRESS"]
            \in [Ops -> Operation]
<1>1. [mailOp[op] EXCEPT !.type = type, !.status = "IN_PROGRESS"] \in Operation
  BY DEF OpsTyped, Operation, Statuses
<1> QED
  BY <1>1 DEF OpsTyped, Operation, Statuses

\* Handlers that leave the queue's variables alone.
LEMMA QueueUnchanged ==
  ASSUME QueueSafe, UNCHANGED queueVars
  PROVE  QueueSafe'
BY DEF queueVars, QueueSafe, LeavesOnce, EmptyReportDue, Queued

\* A new operation enters the queue.
LEMMA EnterSafe ==
  ASSUME QueueSafe, NEW op \in Ops, Fresh(op),
         opQueue' = Append(opQueue, op), watched' = watched \union {op},
         idles' \in Seq(IdleSources), UNCHANGED <<removing, stray, told>>
  PROVE  QueueSafe' /\ Queued' = Queued \union {op}
<1>1. /\ opQueue' \in Seq(Ops) /\ opQueue' # <<>> /\ NoDuplicates(opQueue')
      /\ Queued' = Queued \union {op}
  BY AppendFresh DEF Queued
<1>2. LeavesOnce'
  BY <1>1 DEF QueueSafe, LeavesOnce, NoDuplicates
<1>3. EmptyReportDue'
  BY <1>1 DEF EmptyReportDue
<1> QED
  BY <1>1, <1>2, <1>3 DEF QueueSafe

\* A new operation enters the queue and leaves it in the same handler.
LEMMA ComesAndGoesSafe ==
  ASSUME QueueSafe, NEW op \in Ops, NEW o, Fresh(op),
         NEW sources \in Seq(IdleSources),
         RemoveFrom(Append(opQueue, op), op, o, sources)
  PROVE  QueueSafe' /\ Queued' = Queued \ {op} /\ told' = FALSE
BY AppendFresh, RemoveFromSafe

-----------------------------------------------------------------------------
LEMMA InitSafe == Init => IInv
<1> SUFFICES ASSUME Init PROVE IInv
  OBVIOUS
<1>1. QueueSafe
  <2>1. opQueue = <<>> /\ Len(opQueue) = 0 /\ DOMAIN opQueue = {}
    BY DEF Init
  <2>2. LeavesOnce
    BY <2>1 DEF Init, LeavesOnce, Queued, ToSet
  <2>3. EmptyReportDue /\ told \in BOOLEAN /\ stray \in BOOLEAN
    BY Zenon DEF Init, EmptyReportDue
  <2> QED
    BY <2>2, <2>3 DEF Init, QueueSafe
<1>2. OpsTyped
  BY DEF Init, OpsTyped, Blank, Operation, Types, Statuses
<1>3. SyncTyped
  BY DEF Init, SyncTyped
<1> QED
  BY <1>1, <1>2, <1>3 DEF IInv

\* Every handler for one operation keeps the invariant.
LEMMA OpNextSafe ==
  ASSUME IInv, NEW op \in Ops, OpNext(op)
  PROVE  IInv'
<1> USE DEF IInv
<1>0. idles \in Seq(IdleSources)
  BY DEF QueueSafe
<1>1. CASE Add(op)
  <2>1. QueueSafe'
    BY <1>0, <1>1, EnterSafe DEF Add
  <2> QED
    BY <1>1, <2>1 DEF Add, opVars, syncVars, OpsTyped, SyncTyped
<1>2. ASSUME NEW type \in UserTypes, Start(op, type)
      PROVE  IInv'
  <2>1. QueueSafe' /\ SyncTyped'
    BY <1>2, QueueUnchanged, StartedTyped DEF Start
  <2>2. type \in Types
    BY QueueAssumption DEF Types
  <2> QED
    BY <1>2, <2>1, <2>2, RunningTyped DEF Start, OpsTyped
<1>3. CASE StartFails(op)
  BY <1>3, EndsAsSafe DEF StartFails, OpsTyped, SyncTyped, syncVars
<1>4. ASSUME NEW c \in Outcomes, Finish(op, c)
      PROVE  IInv'
  BY <1>4, EndsAsSafe DEF Finish, OpsTyped, SyncTyped, syncVars
<1>5. CASE RemoveFolderRefused(op)
  BY <1>5, EndsAsSafe DEF RemoveFolderRefused, OpsTyped, SyncTyped, syncVars
<1>6. CASE RemoveFolderNow(op)
  BY <1>6, EndsAsSafe, StartedTyped DEF RemoveFolderNow, OpsTyped
<1>7. CASE RemoveFolderToTrash(op)
  <2>1. QueueSafe' /\ SyncTyped'
    BY <1>7, NotifyEndSafe, StartedTyped DEF RemoveFolderToTrash
  <2>2. "RECEIVE" \in Types
    BY DEF Types
  <2> QED
    BY <1>7, <2>1, <2>2, RunningTyped DEF RemoveFolderToTrash, OpsTyped
<1>8. CASE RemoveUnstarted(op)
  <2>1. NoDuplicates(opQueue) /\ op \in Queued /\ opQueue \in Seq(Ops)
    BY <1>8 DEF RemoveUnstarted, Unstarted, QueueSafe, LeavesOnce, NoDuplicates
  <2>2. QueueSafe'
    BY <1>0, <1>8, <2>1, RemoveFromSafe DEF RemoveUnstarted, Queued
  <2>3. Blank \in Operation
    BY DEF Blank, Operation, Types, Statuses
  <2> QED
    BY <1>8, <2>2, <2>3
       DEF RemoveUnstarted, Finalized, OpsTyped, SyncTyped, syncVars
<1>9. CASE CancelOne(op)
  BY <1>9, QueueUnchanged, CancelTyped
     DEF CancelOne, OpsTyped, SyncTyped, syncVars
<1>10. CASE Noop(op)
  <2>1. QueueSafe' /\ SyncTyped'
    BY <1>0, <1>10, ComesAndGoesSafe, StartedTyped DEF Noop
  <2> QED
    BY <1>10, <2>1 DEF Noop, OpsTyped, opVars
<1>11. CASE Shutdown(op, idles)
  <2>1. QueueSafe' /\ SyncTyped'
    BY <1>0, <1>11, EnterSafe DEF Shutdown, SyncTyped
  <2>2. "SHUTDOWN" \in Types
    BY DEF Types
  <2> QED
    BY <1>11, <2>1, <2>2, RunningTyped DEF Shutdown, OpsTyped
<1>12. CASE ShutdownAtOnce(op, idles)
  <2>1. QueueSafe'
    BY <1>0, <1>12, ComesAndGoesSafe DEF ShutdownAtOnce
  <2> QED
    BY <1>12, <2>1 DEF ShutdownAtOnce, OpsTyped, SyncTyped, opVars
<1>13. CASE ShutdownDone(op)
  BY <1>13, EndsAsSafe DEF ShutdownDone, OpsTyped, SyncTyped, syncVars
<1> QED
  BY <1>1, <1>2, <1>3, <1>4, <1>5, <1>6, <1>7, <1>8, <1>9, <1>10, <1>11,
     <1>12, <1>13 DEF OpNext

\* The innermost error handler returns: if it held back the report of an
\* empty queue, the report is installed now; if not, the one that holds it
\* back is further out.
LEMMA ErrorHandlerReturnsSafe ==
  ASSUME IInv, ErrorHandlerReturns
  PROVE  IInv'
<1> DEFINE n == Len(removing)
<1>1. /\ removing \in Seq([op : Ops, left : Nat]) /\ n \in Nat \ {0}
      /\ idles \in Seq(IdleSources)
  BY EmptySeq DEF IInv, QueueSafe, ErrorHandlerReturns
<1>2. /\ removing' \in Seq([op : Ops, left : Nat]) /\ Len(removing') = n - 1
      /\ \A i \in 1..n-1 : removing'[i] = removing[i]
  BY <1>1, PopProperties DEF ErrorHandlerReturns
<1>3. /\ idles' \in Seq(IdleSources)
      /\ removing[n].left = 0 => \E i \in 1..Len(idles') : idles'[i] = "empty"
      /\ removing[n].left # 0 => idles' = idles
  BY <1>1, ReportIfLastSafe DEF ErrorHandlerReturns
<1>4. EmptyReportDue'
  <2> SUFFICES ASSUME opQueue = <<>>, ~told,
                      ~ \E i \in 1..Len(idles') : idles'[i] = "empty"
               PROVE  \E i \in 1..Len(removing') : removing'[i].left = 0
    BY DEF EmptyReportDue, ErrorHandlerReturns
  <2>1. idles' = idles /\ removing[n].left # 0
    BY <1>3
  <2>2. PICK i \in 1..n : removing[i].left = 0
    BY <2>1 DEF IInv, QueueSafe, EmptyReportDue
  <2>3. i \in 1..n-1
    BY <1>1, <2>1, <2>2
  <2> QED
    BY <1>1, <1>2, <2>2, <2>3
<1>5. LeavesOnce'
  BY DEF IInv, QueueSafe, LeavesOnce, ErrorHandlerReturns, Queued
<1>6. OpsTyped' /\ SyncTyped'
  BY DEF IInv, OpsTyped, SyncTyped, ErrorHandlerReturns, opVars, syncVars
<1> QED
  BY <1>2, <1>3, <1>4, <1>5, <1>6 DEF IInv, QueueSafe, ErrorHandlerReturns

\* notify_queue_empty: either something is queued again, or it reports.
LEMMA NotifyQueueEmptySafe ==
  ASSUME IInv, NEW more \in Seq(IdleSources), NotifyQueueEmpty(more)
  PROVE  IInv'
<1>1. idles' \in Seq(IdleSources)
  <2>1. Tail(idles) \in Seq(IdleSources) /\ idles' = Tail(idles) \o more
    BY HeadTailProperties DEF IInv, QueueSafe, NotifyQueueEmpty
  <2> QED
    BY <2>1, ConcatProperties
<1>2. EmptyReportDue'
  BY DEF EmptyReportDue, NotifyQueueEmpty
<1>3. told' \in BOOLEAN
  BY Zenon DEF NotifyQueueEmpty
<1>4. LeavesOnce'
  BY DEF IInv, QueueSafe, LeavesOnce, NotifyQueueEmpty, Queued
<1>5. OpsTyped' /\ SyncTyped'
  BY DEF IInv, OpsTyped, SyncTyped, NotifyQueueEmpty, opVars, syncVars
<1> QED
  BY <1>1, <1>2, <1>3, <1>4, <1>5 DEF IInv, QueueSafe, NotifyQueueEmpty

LEMMA StepSafe == IInv /\ [Next]_vars => IInv'
<1> SUFFICES ASSUME IInv, [Next]_vars PROVE IInv'
  OBVIOUS
<1>1. CASE CancelAll
  BY <1>1, QueueUnchanged, CancelTyped
     DEF IInv, CancelAll, OpsTyped, SyncTyped, syncVars
<1>2. CASE ErrorHandlerReturns
  BY <1>2, ErrorHandlerReturnsSafe
<1>3. CASE NotifyQueueEmpty(<<>>)
  <2>1. <<>> \in Seq(IdleSources)
    OBVIOUS
  <2> QED
    BY <1>3, <2>1, NotifyQueueEmptySafe
<1>4. ASSUME NEW op \in Ops, OpNext(op) PROVE IInv'
  BY <1>4, OpNextSafe
<1>5. CASE UNCHANGED vars
  BY <1>5, QueueUnchanged
     DEF IInv, vars, opVars, syncVars, OpsTyped, SyncTyped
<1> QED
  BY <1>1, <1>2, <1>3, <1>4, <1>5 DEF Next

-----------------------------------------------------------------------------
\* The inductive invariant holds in every reachable state.
THEOREM Invariant == Safety => []IInv
BY InitSafe, StepSafe, PTL DEF Safety

\* The types are as declared, whatever the operations and their outcomes.
THEOREM TypeCorrect == Safety => []TypeOK
BY Invariant, IInvIs, PTL

\* No operation is queued twice, leaves twice, or stays watched after it
\* left, for any number of operations and any nesting of error handlers.
THEOREM OperationsLeaveOnce == Safety => []LeavesOnce
BY Invariant, IInvIs, PTL

\* An empty queue nobody was told of always has a report on its way, however
\* many queue_remove() calls are nested in each other's error handlers.
THEOREM ReportAlwaysDue == Safety => []EmptyReportDue
BY Invariant, IInvIs, PTL

-----------------------------------------------------------------------------
(* The queue implements QueueReports: an operation is in iff it is queued, *)
(* and each handler enters one, lets one leave, reports, or changes        *)
(* nothing the abstract specification sees.                                *)

\* Both specifications see the same step.
AbstractStep == Reports!Next \/ UNCHANGED <<Queued, told>>

LEMMA NotifyEndRefines ==
  ASSUME QueueSafe, NEW op \in Ops, NEW o, NotifyEnd(op, o)
  PROVE  AbstractStep
<1>1. CASE op \in watched
  <2>1. RemoveFrom(opQueue, op, o, idles)
    BY <1>1 DEF NotifyEnd
  <2>2. /\ op \in ToSet(opQueue) /\ NoDuplicates(opQueue)
        /\ opQueue \in Seq(Ops) /\ idles \in Seq(IdleSources)
    BY <1>1 DEF QueueSafe, LeavesOnce, Queued, NoDuplicates
  <2>3. Reports!Leave(op)
    BY <2>1, <2>2, RemoveFromSafe DEF Queued, Reports!Leave
  <2> QED
    BY <2>3 DEF AbstractStep, Reports!Next
<1>2. CASE op \notin watched
  BY <1>2 DEF NotifyEnd, queueVars, Queued, AbstractStep
<1> QED
  BY <1>1, <1>2

LEMMA OpNextRefines ==
  ASSUME IInv, NEW op \in Ops, OpNext(op)
  PROVE  AbstractStep
<1> USE DEF IInv
<1>0. idles \in Seq(IdleSources)
  BY DEF QueueSafe
<1>1. CASE Add(op) \/ Shutdown(op, idles)
  <2>1. Queued' = Queued \union {op} /\ op \notin Queued /\ told' = told
    BY <1>0, <1>1, EnterSafe DEF Add, Shutdown, Fresh
  <2>2. Reports!Enter(op)
    BY <2>1 DEF Reports!Enter
  <2> QED
    BY <2>2 DEF AbstractStep, Reports!Next
<1>2. CASE Noop(op) \/ ShutdownAtOnce(op, idles)
  <2>1. Queued' = Queued \ {op} /\ told' = FALSE
    BY <1>0, <1>2, ComesAndGoesSafe DEF Noop, ShutdownAtOnce
  <2>2. Reports!Leave(op)
    BY <2>1 DEF Reports!Leave
  <2> QED
    BY <2>2 DEF AbstractStep, Reports!Next
<1>3. CASE RemoveUnstarted(op)
  <2>1. NoDuplicates(opQueue) /\ op \in Queued /\ opQueue \in Seq(Ops)
    BY <1>3 DEF RemoveUnstarted, Unstarted, QueueSafe, LeavesOnce, NoDuplicates
  <2>2. Reports!Leave(op)
    BY <1>0, <1>3, <2>1, RemoveFromSafe
       DEF RemoveUnstarted, Queued, Reports!Leave
  <2> QED
    BY <2>2 DEF AbstractStep, Reports!Next
<1>4. CASE \/ StartFails(op)
           \/ \E c \in Outcomes : Finish(op, c)
           \/ RemoveFolderRefused(op)
           \/ RemoveFolderNow(op)
           \/ ShutdownDone(op)
  <2>1. PICK c : EndsAs(op, c)
    BY <1>4 DEF StartFails, Finish, RemoveFolderRefused, RemoveFolderNow,
                ShutdownDone
  <2> QED
    BY <2>1, NotifyEndRefines DEF EndsAs
<1>5. CASE RemoveFolderToTrash(op)
  BY <1>5, NotifyEndRefines DEF RemoveFolderToTrash
<1>6. CASE (\E type \in UserTypes : Start(op, type)) \/ CancelOne(op)
  BY <1>6 DEF Start, CancelOne, queueVars, Queued, AbstractStep
<1> QED
  BY <1>1, <1>2, <1>3, <1>4, <1>5, <1>6 DEF OpNext

\* notify_queue_empty reports an empty queue, whatever idle sources the
\* handlers of the report install.
LEMMA ReportRefines ==
  ASSUME QueueSafe, NEW more, NotifyQueueEmpty(more)
  PROVE  AbstractStep
<1>1. CASE opQueue = <<>>
  <2>1. Queued = {} /\ Queued' = Queued
    BY <1>1 DEF NotifyQueueEmpty, Queued, ToSet
  <2>2. told' = TRUE
    BY <1>1, Zenon DEF NotifyQueueEmpty
  <2> QED
    BY <2>1, <2>2 DEF AbstractStep, Reports!Next, Reports!Report
<1>2. CASE opQueue # <<>>
  <2>1. told' = told
    BY <1>2, Zenon DEF NotifyQueueEmpty, QueueSafe
  <2> QED
    BY <2>1 DEF NotifyQueueEmpty, Queued, AbstractStep
<1> QED
  BY <1>1, <1>2

LEMMA StepRefines == IInv /\ [Next]_vars => AbstractStep
<1> SUFFICES ASSUME IInv, [Next]_vars PROVE AbstractStep
  OBVIOUS
<1>1. CASE CancelAll
  BY <1>1 DEF CancelAll, queueVars, Queued, AbstractStep
<1>2. CASE ErrorHandlerReturns
  BY <1>2 DEF ErrorHandlerReturns, Queued, AbstractStep
<1>3. CASE NotifyQueueEmpty(<<>>)
  BY <1>3, ReportRefines DEF IInv
<1>4. ASSUME NEW op \in Ops, OpNext(op) PROVE AbstractStep
  BY <1>4, OpNextRefines
<1>5. CASE UNCHANGED vars
  BY <1>5 DEF vars, queueVars, Queued, AbstractStep
<1> QED
  BY <1>1, <1>2, <1>3, <1>4, <1>5 DEF Next

\* Everything the queue does is something QueueReports allows: in particular
\* "queue-empty" is never emitted while an operation is queued.  That it is
\* emitted in the end is checked by TLC only.
THEOREM Refinement == Safety => Reports!Safety
<1>1. Init => Reports!Init
  BY DEF Init, Reports!Init, Queued, ToSet
<1>2. IInv /\ [Next]_vars => [Reports!Next]_(Reports!vars)
  BY StepRefines DEF AbstractStep, Reports!vars
<1> QED
  BY <1>1, <1>2, Invariant, PTL DEF Safety, Reports!Safety

-----------------------------------------------------------------------------
(* The queue within Shutdown: the same handlers, but that the watchers of  *)
(* modest-main.c install further idle sources, and who may call them.      *)

\* The SHUTDOWN operations under way: they are queued.
ShutdownOps == {op \in Ops : mailOp[op].type = "SHUTDOWN"}

\* The accounts a SHUTDOWN operation waits for are remote ones, and counted.
AccountsFit ==
    /\ accounts \subseteq Remote
    /\ goingOffline \in [Ops -> SUBSET Remote]
    /\ pending \in [Ops -> Nat]
    /\ \A op \in Ops : /\ pending[op] = Cardinality(goingOffline[op])
                       /\ goingOffline[op] # {} <=> op \in ShutdownOps

\* The inductive invariant of the composition.
ShutdownInv == IInv /\ ShutdownOps \subseteq Queued /\ AccountsFit /\ OfflineHeals

\* An operation that says it finished is queued no more.
LEMMA NotifyEndLeaves ==
  ASSUME QueueSafe, NEW op \in Ops, NEW o, NotifyEnd(op, o)
  PROVE  Queued' = Queued \ {op}
<1>1. CASE op \in watched
  <2>1. RemoveFrom(opQueue, op, o, idles)
    BY <1>1 DEF NotifyEnd
  <2>2. /\ op \in ToSet(opQueue) /\ NoDuplicates(opQueue)
        /\ opQueue \in Seq(Ops) /\ idles \in Seq(IdleSources)
    BY <1>1 DEF QueueSafe, LeavesOnce, Queued, NoDuplicates
  <2> QED
    BY <2>1, <2>2, RemoveFromSafe DEF Queued
<1>2. CASE op \notin watched
  BY <1>2 DEF NotifyEnd, queueVars, QueueSafe, LeavesOnce, Queued
<1> QED
  BY <1>1, <1>2

LEMMA EndsAsLeaves ==
  ASSUME IInv, NEW op \in Ops, NEW c, EndsAs(op, c)
  PROVE  Queued' = Queued \ {op} /\ ShutdownOps' = ShutdownOps \ {op}
<1>1. Queued' = Queued \ {op}
  BY NotifyEndLeaves DEF EndsAs, IInv
<1>2. ShutdownOps' = ShutdownOps \ {op}
  BY DEF EndsAs, Finalized, ShutdownOps, IInv, OpsTyped, Blank
<1> QED
  BY <1>1, <1>2

LEMMA CancelTypes ==
  ASSUME OpsTyped, NEW ops, Cancel(ops)
  PROVE  ShutdownOps' = ShutdownOps
BY DEF Cancel, ShutdownOps, OpsTyped, Operation

\* A handler of another operation leaves the SHUTDOWN operations queued.
LEMMA OthersKeepShutdown ==
  ASSUME IInv, ShutdownOps \subseteq Queued, NEW op \in Ops,
         \/ Add(op) \/ Noop(op)
         \/ \E type \in UserTypes : Start(op, type)
         \/ StartFails(op) \/ RemoveFolderRefused(op) \/ RemoveFolderNow(op)
         \/ RemoveFolderToTrash(op) \/ RemoveUnstarted(op)
         \/ \E c \in Outcomes : Finish(op, c)
  PROVE  ShutdownOps' = ShutdownOps /\ ShutdownOps' \subseteq Queued'
<1>0. idles \in Seq(IdleSources) /\ QueueSafe /\ OpsTyped
  BY DEF IInv, QueueSafe
<1>1. CASE Add(op)
  BY <1>0, <1>1, EnterSafe DEF Add, opVars, ShutdownOps
<1>2. CASE Noop(op)
  BY <1>0, <1>2, ComesAndGoesSafe DEF Noop, opVars, ShutdownOps, Fresh
<1>3. ASSUME NEW type \in UserTypes, Start(op, type)
      PROVE  ShutdownOps' = ShutdownOps /\ ShutdownOps' \subseteq Queued'
  <2>1. type # "SHUTDOWN" /\ mailOp[op].type # "SHUTDOWN"
    BY <1>3, QueueAssumption DEF Start, Unstarted
  <2>2. ShutdownOps' = ShutdownOps
    BY <1>0, <1>3, <2>1 DEF Start, ShutdownOps, OpsTyped, Operation
  <2> QED
    BY <1>3, <2>2 DEF Start, queueVars, Queued
<1>4. CASE StartFails(op) \/ RemoveFolderRefused(op) \/ RemoveFolderNow(op)
  <2>1. mailOp[op].type # "SHUTDOWN" /\ \E c : EndsAs(op, c)
    BY <1>4 DEF StartFails, RemoveFolderRefused, RemoveFolderNow, Unstarted
  <2> QED
    BY <2>1, EndsAsLeaves DEF ShutdownOps
<1>5. CASE RemoveFolderToTrash(op)
  <2>1. /\ mailOp[op].type # "SHUTDOWN"
        /\ mailOp' = [mailOp EXCEPT ![op].type = "RECEIVE",
                                    ![op].status = "IN_PROGRESS"]
        /\ NotifyEnd(op, mailOp'[op])
    BY <1>5 DEF RemoveFolderToTrash, Unstarted
  <2>2. ShutdownOps' = ShutdownOps
    BY <1>0, <2>1 DEF ShutdownOps, OpsTyped, Operation
  <2>3. Queued' = Queued \ {op}
    BY <1>0, <2>1, NotifyEndLeaves
  <2> QED
    BY <2>1, <2>2, <2>3 DEF ShutdownOps
<1>6. CASE RemoveUnstarted(op)
  <2>1. /\ mailOp[op].type # "SHUTDOWN" /\ op \in Queued /\ Finalized(op)
        /\ RemoveFrom(opQueue, op, mailOp[op], idles)
    BY <1>6 DEF RemoveUnstarted, Unstarted
  <2>2. NoDuplicates(opQueue) /\ opQueue \in Seq(Ops)
    BY <1>0 DEF QueueSafe, LeavesOnce, NoDuplicates
  <2>3. Queued' = Queued \ {op}
    BY <1>0, <2>1, <2>2, RemoveFromSafe DEF Queued
  <2>4. ShutdownOps' = ShutdownOps \ {op}
    BY <1>0, <2>1 DEF Finalized, ShutdownOps, OpsTyped, Blank
  <2> QED
    BY <2>1, <2>3, <2>4 DEF ShutdownOps
<1>7. ASSUME NEW c \in Outcomes, Finish(op, c)
      PROVE  ShutdownOps' = ShutdownOps /\ ShutdownOps' \subseteq Queued'
  <2>1. mailOp[op].type # "SHUTDOWN" /\ EndsAs(op, c)
    BY <1>7 DEF Finish
  <2> QED
    BY <2>1, EndsAsLeaves DEF ShutdownOps
<1> QED
  BY <1>1, <1>2, <1>3, <1>4, <1>5, <1>6, <1>7

\* Nothing changes for the accounts.
LEMMA AccountsStable ==
  ASSUME AccountsFit, ShutdownOps' = ShutdownOps,
         UNCHANGED <<accounts, goingOffline, pending>>
  PROVE  AccountsFit'
BY DEF AccountsFit

\* A handler that starts an operation, or touches neither device nor windows.
LEMMA StartedHeals ==
  ASSUME OfflineHeals, SyncTyped, windows' = windows,
         \/ \E type \in Types : Started(type)
         \/ UNCHANGED syncVars
  PROVE  OfflineHeals'
<1>1. ASSUME NEW type \in Types, Started(type)
      PROVE  OfflineHeals'
  BY <1>1, Zenon DEF OfflineHeals, Started
<1> QED
  BY <1>1 DEF OfflineHeals, syncVars

\* The handlers of an operation that is not a SHUTDOWN one.
LEMMA OtherHandlersKeep ==
  ASSUME ShutdownInv, NEW op \in Ops,
         \/ Add(op) \/ Noop(op)
         \/ \E type \in UserTypes : Start(op, type)
         \/ StartFails(op) \/ RemoveFolderRefused(op) \/ RemoveFolderNow(op)
         \/ RemoveFolderToTrash(op) \/ RemoveUnstarted(op)
         \/ \E c \in Outcomes : Finish(op, c),
         UNCHANGED <<windows, accounts, goingOffline, pending>>
  PROVE  ShutdownInv'
<1>1. IInv'
  BY OpNextSafe DEF OpNext, ShutdownInv
<1>2. ShutdownOps' = ShutdownOps /\ ShutdownOps' \subseteq Queued'
  BY OthersKeepShutdown DEF ShutdownInv
<1>3. AccountsFit'
  BY <1>2, AccountsStable DEF ShutdownInv
<1>4. (\E type \in Types : Started(type)) \/ UNCHANGED syncVars
  <2>1. UserTypes \subseteq Types /\ {"INFO", "DELETE"} \subseteq Types
    BY QueueAssumption DEF Types
  <2> QED
    BY <2>1 DEF Add, Noop, Start, StartFails, RemoveFolderRefused,
       RemoveFolderNow, RemoveFolderToTrash, RemoveUnstarted, Finish
<1>5. OfflineHeals'
  BY <1>4, StartedHeals DEF ShutdownInv, IInv
<1> QED
  BY <1>1, <1>2, <1>3, <1>5 DEF ShutdownInv

\* Handlers that change nothing but the installed idle sources and the window
\* manager, the device included when the first window opens.
LEMMA IdlesKeep ==
  ASSUME ShutdownInv, idles' \in Seq(IdleSources), EmptyReportDue',
         UNCHANGED <<opQueue, watched, removing, stray, told, inFlight>>,
         mailOp' \in [Ops -> Operation], ShutdownOps' = ShutdownOps,
         SyncTyped', OfflineHeals', UNCHANGED <<accounts, goingOffline, pending>>
  PROVE  ShutdownInv'
<1>1. QueueSafe' /\ Queued' = Queued
  BY DEF ShutdownInv, IInv, QueueSafe, LeavesOnce, Queued
<1>2. IInv'
  BY <1>1 DEF ShutdownInv, IInv, OpsTyped
<1>3. AccountsFit'
  BY AccountsStable DEF ShutdownInv
<1> QED
  BY <1>1, <1>2, <1>3 DEF ShutdownInv

LEMMA UserKeeps ==
  ASSUME ShutdownInv, UserNext
  PROVE  ShutdownInv'
<1>0. /\ idles \in Seq(IdleSources) /\ EmptyReportDue /\ OpsTyped /\ SyncTyped
      /\ OfflineHeals
  BY DEF ShutdownInv, IInv, QueueSafe
<1>1. CASE UserLeaves
  <2>1. UNCHANGED <<vars, windows, accounts, goingOffline, pending>>
    BY <1>1 DEF UserLeaves, accountVars
  <2> QED
    BY <1>0, <2>1, IdlesKeep
       DEF vars, queueVars, opVars, syncVars, EmptyReportDue, OpsTyped,
           ShutdownOps, SyncTyped, OfflineHeals
<1>2. CASE CancelAllFromUI
  <2>1. /\ Cancel(Queued) /\ UNCHANGED <<inFlight, queueVars, syncVars>>
        /\ UNCHANGED <<windows, accounts, goingOffline, pending>>
    BY <1>2 DEF CancelAllFromUI, CancelAll, uiVars, accountVars
  <2>2. ShutdownOps' = ShutdownOps /\ mailOp' \in [Ops -> Operation]
    BY <1>0, <2>1, CancelTypes, CancelTyped
  <2> QED
    BY <1>0, <2>1, <2>2, IdlesKeep
       DEF queueVars, syncVars, EmptyReportDue, SyncTyped, OfflineHeals
<1>3. ASSUME NEW w \in Windows, RegisterWindow(w)
      PROVE  ShutdownInv'
  <2>1. /\ UNCHANGED <<queueVars, opVars, runningFinalSync>>
        /\ UNCHANGED <<accounts, goingOffline, pending>>
        /\ windows' = windows \union {w}
        /\ deviceForced' = FALSE \/ (windows # {} /\ deviceForced' = deviceForced)
    BY <1>3 DEF RegisterWindow, FirstWindow, accountVars
  <2>2. runningFinalSync' = runningFinalSync
    BY <2>1
  <2>3. SyncTyped' /\ OfflineHeals'
    <3>1. CASE deviceForced' = FALSE
      <4>1. deviceForced' \in BOOLEAN /\ ~deviceForced'
        BY <3>1
      <4> QED
        BY <1>0, <2>2, <4>1 DEF SyncTyped, OfflineHeals
    <3>2. CASE windows # {} /\ deviceForced' = deviceForced
      BY <1>0, <2>2, <3>2, Zenon DEF SyncTyped, OfflineHeals
    <3> QED
      BY <2>1, <3>1, <3>2
  <2> QED
    BY <1>0, <2>1, <2>3, IdlesKeep
       DEF queueVars, opVars, EmptyReportDue, OpsTyped, ShutdownOps
<1>4. ASSUME NEW w \in Windows, UnregisterWindow(w)
      PROVE  ShutdownInv'
  <2>1. /\ UNCHANGED <<opQueue, watched, removing, stray, told, inFlight, syncVars>>
        /\ UNCHANGED <<accounts, goingOffline, pending>>
        /\ windows' = windows \ {w} /\ w \in windows
        /\ Cancel(CanceledWith(w))
        /\ idles' = Append(idles, "exit") \/ idles' = idles
    BY <1>4 DEF UnregisterWindow, accountVars, WithExitIf
  <2>2. ShutdownOps' = ShutdownOps /\ mailOp' \in [Ops -> Operation]
    BY <1>0, <2>1, CancelTypes, CancelTyped
  <2>3. idles' \in Seq(IdleSources) /\ EmptyReportDue'
    <3>1. CASE idles' = idles
      BY <1>0, <2>1, <3>1 DEF EmptyReportDue
    <3>2. CASE idles' = Append(idles, "exit")
      <4>1. "exit" \in IdleSources
        BY DEF IdleSources
      <4>2. /\ idles' \in Seq(IdleSources) /\ Len(idles') = Len(idles) + 1
            /\ \A i \in 1..Len(idles) : idles'[i] = idles[i]
            /\ Len(idles) \in Nat
        BY <1>0, <3>2, <4>1, AppendProperties, LenProperties
      <4> QED
        BY <1>0, <2>1, <4>2 DEF EmptyReportDue
    <3> QED
      BY <2>1, <3>1, <3>2
  <2>4. SyncTyped' /\ OfflineHeals'
    BY <1>0, <2>1 DEF SyncTyped, OfflineHeals, syncVars
  <2> QED
    BY <2>1, <2>2, <2>3, <2>4, IdlesKeep
<1>5. ASSUME NEW op \in Ops, DBusNoop(op) \/ \E w : Request(op, w)
      PROVE  ShutdownInv'
  <2>1. /\ Noop(op) \/ Add(op)
        /\ UNCHANGED <<windows, accounts, goingOffline, pending>>
    BY <1>5 DEF DBusNoop, Request, uiVars, accountVars
  <2> QED
    BY <2>1, OtherHandlersKeep
<1> QED
  BY <1>1, <1>2, <1>3, <1>4, <1>5 DEF UserNext

\* The main loop's own steps.
LEMMA SourcesKeep ==
  ASSUME ShutdownInv, QueueEmptyIdle \/ Quit \/ HandlerReturns
                      \/ \E a \in Remote : Connect(a)
  PROVE  ShutdownInv'
<1>0. /\ idles \in Seq(IdleSources) /\ EmptyReportDue /\ OpsTyped /\ SyncTyped
      /\ OfflineHeals /\ IInv /\ ShutdownOps \subseteq Queued /\ AccountsFit
  BY DEF ShutdownInv, IInv, QueueSafe
<1>1. CASE QueueEmptyIdle
  <2> DEFINE more ==
        WithExitIf(opQueue = <<>> /\ allowShutdown /\ windows = {}, <<>>)
  <2>1. /\ NotifyQueueEmpty(more)
        /\ UNCHANGED <<windows, accounts, goingOffline, pending>>
    BY <1>1 DEF QueueEmptyIdle, uiVars, accountVars
  <2>2. more \in Seq(IdleSources)
    <3>1. <<>> \in Seq(IdleSources) /\ "exit" \in IdleSources
      BY DEF IdleSources
    <3>2. Append(<<>>, "exit") \in Seq(IdleSources)
      BY <3>1, AppendProperties
    <3> QED
      BY <3>1, <3>2 DEF WithExitIf
  <2> HIDE DEF more
  <2>3. IInv'
    BY <1>0, <2>1, <2>2, NotifyQueueEmptySafe
  <2>4. UNCHANGED <<opQueue, mailOp, runningFinalSync, deviceForced>>
    BY <2>1 DEF NotifyQueueEmpty, opVars, syncVars
  <2>5. ShutdownOps' = ShutdownOps /\ Queued' = Queued /\ OfflineHeals'
    BY <1>0, <2>1, <2>4 DEF ShutdownOps, Queued, OfflineHeals
  <2> QED
    BY <1>0, <2>1, <2>3, <2>5, AccountsStable DEF ShutdownInv
<1>2. CASE Quit
  <2>1. /\ UNCHANGED <<opQueue, watched, removing, stray, told, inFlight, mailOp>>
        /\ UNCHANGED <<syncVars, windows, accounts, goingOffline, pending>>
        /\ idles # <<>> /\ idles[1] = "exit" /\ idles' = Tail(idles)
    BY <1>0, <1>2, HeadTailProperties
       DEF Quit, opVars, uiVars, accountVars
  <2>2. /\ idles' \in Seq(IdleSources) /\ Len(idles') = Len(idles) - 1
        /\ \A i \in 1..Len(idles') : idles'[i] = idles[i+1]
        /\ Len(idles) \in Nat \ {0}
    BY <1>0, <2>1, HeadTailProperties, EmptySeq
  <2>3. ASSUME NEW i \in 1..Len(idles), idles[i] = "empty"
        PROVE  \E j \in 1..Len(idles') : idles'[j] = "empty"
    <3>1. i - 1 \in 1..Len(idles') /\ (i - 1) + 1 = i
      BY <2>1, <2>2, <2>3
    <3> QED
      BY <2>2, <2>3, <3>1
  <2>4. EmptyReportDue'
    BY <1>0, <2>1, <2>3 DEF EmptyReportDue
  <2> QED
    BY <1>0, <2>1, <2>2, <2>4, IdlesKeep
       DEF OpsTyped, ShutdownOps, SyncTyped, OfflineHeals, syncVars
<1>3. CASE HandlerReturns
  <2>1. /\ ErrorHandlerReturns
        /\ UNCHANGED <<windows, accounts, goingOffline, pending>>
    BY <1>3 DEF HandlerReturns, uiVars, accountVars
  <2>2. UNCHANGED <<opQueue, mailOp, runningFinalSync, deviceForced>>
    BY <2>1 DEF ErrorHandlerReturns, opVars, syncVars
  <2>3. ShutdownOps' = ShutdownOps /\ Queued' = Queued /\ OfflineHeals'
    BY <1>0, <2>1, <2>2 DEF ShutdownOps, Queued, OfflineHeals
  <2> QED
    BY <1>0, <2>1, <2>3, AccountsStable, ErrorHandlerReturnsSafe DEF ShutdownInv
<1>4. ASSUME NEW a \in Remote, Connect(a)
      PROVE  ShutdownInv'
  <2>1. UNCHANGED <<vars, windows, accounts, goingOffline, pending>>
    BY <1>4 DEF Connect, uiVars
  <2> QED
    BY <1>0, <2>1, IdlesKeep
       DEF vars, queueVars, opVars, syncVars, EmptyReportDue, OpsTyped,
           ShutdownOps, SyncTyped, OfflineHeals
<1> QED
  BY <1>1, <1>2, <1>3, <1>4

\* A SHUTDOWN operation is told to take the accounts offline.
LEMMA DisconnectAllFits ==
  ASSUME AccountsFit, NEW op \in Ops, DisconnectAll(op), UNCHANGED accounts,
         ShutdownOps' = IF accounts = {} THEN ShutdownOps
                        ELSE ShutdownOps \union {op},
         op \notin ShutdownOps
  PROVE  AccountsFit'
<1>1. /\ IsFiniteSet(accounts) /\ Cardinality(accounts) \in Nat
      /\ (Cardinality(accounts) = 0 <=> accounts = {})
  BY ShutdownAssumption, FS_Subset, FS_CardinalityType, FS_EmptySet
     DEF AccountsFit
<1>2. SkipLocal(Cardinality(accounts) + LocalAccounts) = Cardinality(accounts)
  BY <1>1, ShutdownAssumption DEF SkipLocal
<1>3. /\ goingOffline' = [goingOffline EXCEPT ![op] = accounts]
      /\ pending' = [pending EXCEPT ![op] = Cardinality(accounts)]
  BY <1>2 DEF DisconnectAll
<1>4. /\ goingOffline' \in [Ops -> SUBSET Remote]
      /\ pending' \in [Ops -> Nat] /\ accounts' \subseteq Remote
      /\ goingOffline'[op] = accounts /\ pending'[op] = Cardinality(accounts)
      /\ \A x \in Ops \ {op} : /\ goingOffline'[x] = goingOffline[x]
                               /\ pending'[x] = pending[x]
  BY <1>1, <1>3 DEF AccountsFit
<1> QED
  BY <1>1, <1>4 DEF AccountsFit

LEMMA FinalSyncKeeps ==
  ASSUME ShutdownInv, NEW op \in Ops, FinalSync(op)
  PROVE  ShutdownInv'
<1> DEFINE rest == Tail(idles)
<1>0. /\ idles \in Seq(IdleSources) /\ QueueSafe /\ OpsTyped /\ SyncTyped
      /\ ShutdownOps \subseteq Queued /\ AccountsFit
  BY DEF ShutdownInv, IInv, QueueSafe
<1>1. /\ IF accounts = {} THEN ShutdownAtOnce(op, rest) ELSE Shutdown(op, rest)
      /\ DisconnectAll(op) /\ UNCHANGED <<accounts, windows>> /\ idles # <<>>
  BY DEF FinalSync, uiVars
<1>2. rest \in Seq(IdleSources)
  BY <1>0, <1>1, HeadTailProperties
<1> HIDE DEF rest
<1>3. Fresh(op) /\ op \notin Queued
  BY <1>1 DEF ShutdownAtOnce, Shutdown, Fresh
<1>4. runningFinalSync' = TRUE /\ deviceForced' = TRUE
  BY <1>1 DEF ShutdownAtOnce, Shutdown
<1>5. SyncTyped' /\ OfflineHeals'
  BY <1>4 DEF SyncTyped, OfflineHeals
<1>6. CASE accounts = {}
  <2>1. ShutdownAtOnce(op, rest)
    BY <1>1, <1>6
  <2>2. /\ RemoveFrom(Append(opQueue, op), op, [Blank EXCEPT !.status = "SUCCESS"],
                      rest)
        /\ UNCHANGED opVars
    BY <2>1 DEF ShutdownAtOnce
  <2>3. QueueSafe' /\ Queued' = Queued
    BY <1>0, <1>2, <1>3, <2>2, ComesAndGoesSafe
  <2>4. OpsTyped' /\ ShutdownOps' = ShutdownOps
    BY <1>0, <2>2 DEF OpsTyped, ShutdownOps, opVars
  <2>5. AccountsFit'
    BY <1>0, <1>1, <1>3, <1>6, <2>4, DisconnectAllFits
  <2> QED
    BY <1>0, <1>5, <2>3, <2>4, <2>5 DEF ShutdownInv, IInv
<1>7. CASE accounts # {}
  <2>1. Shutdown(op, rest)
    BY <1>1, <1>7
  <2>2. /\ opQueue' = Append(opQueue, op) /\ watched' = watched \union {op}
        /\ idles' = rest /\ UNCHANGED <<removing, stray, told>>
        /\ inFlight' = inFlight \union {op}
        /\ mailOp' = [mailOp EXCEPT ![op].type = "SHUTDOWN",
                                    ![op].status = "IN_PROGRESS"]
    BY <2>1 DEF Shutdown
  <2>3. QueueSafe' /\ Queued' = Queued \union {op}
    BY <1>0, <1>2, <1>3, <2>2, EnterSafe
  <2>4. "SHUTDOWN" \in Types
    BY DEF Types
  <2>5. OpsTyped'
    BY <1>0, <2>2, <2>4, RunningTyped DEF OpsTyped
  <2>6. ShutdownOps' = ShutdownOps \union {op}
    BY <1>0, <2>2 DEF ShutdownOps, OpsTyped, Operation
  <2>7. AccountsFit'
    BY <1>0, <1>1, <1>3, <1>7, <2>6, DisconnectAllFits
  <2> QED
    BY <1>0, <1>5, <2>3, <2>5, <2>6, <2>7 DEF ShutdownInv, IInv
<1> QED
  BY <1>6, <1>7

\* An account answers: the operation ends with the last one.
LEMMA AccountOfflineKeeps ==
  ASSUME ShutdownInv, NEW op \in Ops, NEW a \in Remote, AccountOffline(op, a)
  PROVE  ShutdownInv'
<1>0. /\ IInv /\ AccountsFit /\ OfflineHeals /\ ShutdownOps \subseteq Queued
      /\ SyncTyped
  BY DEF ShutdownInv, IInv
<1> DEFINE left == goingOffline[op] \ {a}
<1>1. /\ a \in goingOffline[op]
      /\ goingOffline' = [goingOffline EXCEPT ![op] = left]
      /\ pending' = [pending EXCEPT ![op] = pending[op] - 1]
      /\ IF pending'[op] = 0 THEN ShutdownDone(op) ELSE UNCHANGED vars
      /\ UNCHANGED <<accounts, windows>>
  BY DEF AccountOffline, uiVars
<1>2. /\ goingOffline[op] \in SUBSET Remote
      /\ pending[op] = Cardinality(goingOffline[op]) /\ op \in ShutdownOps
  BY <1>0, <1>1 DEF AccountsFit
<1>3. IsFiniteSet(goingOffline[op])
  BY <1>2, ShutdownAssumption, FS_Subset
<1>4. /\ IsFiniteSet(left) /\ Cardinality(left) = pending[op] - 1
      /\ Cardinality(left) \in Nat /\ (Cardinality(left) = 0 <=> left = {})
  <2>1. IsFiniteSet(left) /\ Cardinality(left) = Cardinality(goingOffline[op]) - 1
    BY <1>1, <1>3, FS_RemoveElement
  <2> QED
    BY <1>2, <2>1, FS_CardinalityType, FS_EmptySet
<1>5. /\ goingOffline' \in [Ops -> SUBSET Remote] /\ pending' \in [Ops -> Nat]
      /\ goingOffline'[op] = left /\ pending'[op] = Cardinality(left)
      /\ \A x \in Ops \ {op} : /\ goingOffline'[x] = goingOffline[x]
                               /\ pending'[x] = pending[x]
  BY <1>0, <1>1, <1>2, <1>4 DEF AccountsFit
<1> HIDE DEF left
<1>6. CASE pending'[op] = 0
  <2>1. /\ op \in inFlight /\ inFlight' = inFlight \ {op}
        /\ EndsAs(op, <<"SUCCESS", FALSE>>) /\ UNCHANGED syncVars
    BY <1>1, <1>6 DEF ShutdownDone
  <2>2. /\ Queued' = Queued \ {op} /\ ShutdownOps' = ShutdownOps \ {op}
    BY <1>0, <2>1, EndsAsLeaves
  <2>3. IInv'
    BY <1>0, <2>1, EndsAsSafe DEF IInv, OpsTyped, SyncTyped, syncVars
  <2>4. AccountsFit'
    BY <1>0, <1>1, <1>4, <1>5, <1>6, <2>2 DEF AccountsFit
  <2>5. OfflineHeals'
    BY <1>0, <1>1, <2>1, StartedHeals
  <2> QED
    BY <1>0, <2>2, <2>3, <2>4, <2>5 DEF ShutdownInv
<1>7. CASE pending'[op] # 0
  <2>1. UNCHANGED vars
    BY <1>1, <1>7
  <2>2. IInv'
    BY <1>0, <2>1, QueueUnchanged
       DEF IInv, vars, opVars, syncVars, OpsTyped, SyncTyped
  <2>3. ShutdownOps' = ShutdownOps /\ Queued' = Queued
    BY <2>1 DEF vars, queueVars, opVars, ShutdownOps, Queued
  <2>4. AccountsFit'
    BY <1>0, <1>1, <1>2, <1>4, <1>5, <1>7, <2>3 DEF AccountsFit
  <2>5. OfflineHeals'
    BY <1>0, <1>1, <2>1, StartedHeals DEF vars
  <2> QED
    BY <1>0, <2>2, <2>3, <2>4, <2>5 DEF ShutdownInv
<1> QED
  BY <1>6, <1>7

LEMMA LoopKeeps ==
  ASSUME ShutdownInv, LoopNext
  PROVE  ShutdownInv'
<1>1. ASSUME NEW op \in Ops, Proceed(op) \/ Complete(op)
      PROVE  ShutdownInv'
  <2>1. UNCHANGED <<windows, accounts, goingOffline, pending>>
    BY <1>1 DEF Proceed, Complete, DropSource, accountVars
  <2> QED
    BY <1>1, <2>1, OtherHandlersKeep DEF Proceed, Complete
<1> QED
  BY <1>1, SourcesKeep, FinalSyncKeeps, AccountOfflineKeeps
     DEF LoopNext, ExitIdle

\* The composition keeps the queue's promises (TypeOK, LeavesOnce and
\* EmptyReportDue) with the exit idles among the idle sources, every SHUTDOWN
\* operation is queued, and the accounts are counted.
THEOREM ShutdownInvariant == ShutdownSafety => []ShutdownInv
<1>1. ShutdownInit => ShutdownInv
  <2> SUFFICES ASSUME ShutdownInit PROVE ShutdownInv
    OBVIOUS
  <2>1. IInv
    BY InitSafe DEF ShutdownInit
  <2>2. ShutdownOps = {}
    BY DEF ShutdownInit, Init, ShutdownOps, Blank
  <2>3. AccountsFit
    BY <2>2, FS_EmptySet DEF ShutdownInit, AccountsFit
  <2> QED
    BY <2>1, <2>2, <2>3 DEF ShutdownInv, ShutdownInit, OfflineHeals
<1>2. ShutdownInv /\ [ShutdownNext]_allVars => ShutdownInv'
  <2> SUFFICES ASSUME ShutdownInv, [ShutdownNext]_allVars PROVE ShutdownInv'
    OBVIOUS
  <2>1. CASE ShutdownNext
    BY <2>1, UserKeeps, LoopKeeps, SourcesKeep
       DEF ShutdownNext, LeftoverExitIdle
  <2>2. CASE UNCHANGED allVars
    <3>1. UNCHANGED <<vars, windows, accounts, goingOffline, pending>>
      BY <2>2 DEF allVars, uiVars, accountVars
    <3>2. /\ idles \in Seq(IdleSources) /\ EmptyReportDue /\ OpsTyped
          /\ SyncTyped /\ OfflineHeals
      BY DEF ShutdownInv, IInv, QueueSafe
    <3> QED
      BY <3>1, <3>2, IdlesKeep
         DEF vars, queueVars, opVars, syncVars, EmptyReportDue, OpsTyped,
             ShutdownOps, SyncTyped, OfflineHeals
  <2> QED
    BY <2>1, <2>2
<1> QED
  BY <1>1, <1>2, PTL DEF ShutdownSafety

\* A device forced offline under an open window goes online again with the
\* next operation (OfflineHeals: on_operation_started and register_window).
THEOREM DeviceGoesOnlineAgain == ShutdownSafety => []OfflineHeals
<1>1. ShutdownInv => OfflineHeals
  BY DEF ShutdownInv
<1> QED
  BY <1>1, ShutdownInvariant, PTL

\* A SHUTDOWN operation is queued exactly while accounts have not answered it,
\* and pending counts those (ShutdownWaitsForAccounts:
\* account_shutdown_callback), for any number of operations and accounts.
THEOREM ShutdownCountsAccounts == ShutdownSafety => []ShutdownWaitsForAccounts
<1>1. ShutdownInv => ShutdownWaitsForAccounts
  BY DEF ShutdownInv, AccountsFit, ShutdownOps, ShutdownWaitsForAccounts
<1> QED
  BY <1>1, ShutdownInvariant, PTL

-----------------------------------------------------------------------------
(* The composition implements QueueReports as well: whatever the exit      *)
(* idles, the SHUTDOWN operations and the windows do to the queue, it is   *)
(* told empty only while it is.                                            *)

\* A SHUTDOWN operation of the final sync enters, and leaves at once if there
\* are no accounts to wait for.
LEMMA FinalSyncRefines ==
  ASSUME ShutdownInv, NEW op \in Ops, FinalSync(op)
  PROVE  AbstractStep
<1> DEFINE rest == Tail(idles)
<1>1. idles \in Seq(IdleSources) /\ QueueSafe
  BY DEF ShutdownInv, IInv, QueueSafe
<1>2. /\ ShutdownAtOnce(op, rest) \/ Shutdown(op, rest)
      /\ rest \in Seq(IdleSources)
  BY <1>1, HeadTailProperties DEF FinalSync
<1> HIDE DEF rest
<1>3. CASE Shutdown(op, rest)
  <2>1. Queued' = Queued \union {op} /\ op \notin Queued /\ told' = told
    BY <1>1, <1>2, <1>3, EnterSafe DEF Shutdown, Fresh
  <2>2. Reports!Enter(op)
    BY <2>1 DEF Reports!Enter
  <2> QED
    BY <2>2 DEF AbstractStep, Reports!Next
<1>4. CASE ShutdownAtOnce(op, rest)
  <2>1. Queued' = Queued \ {op} /\ told' = FALSE
    BY <1>1, <1>2, <1>4, ComesAndGoesSafe DEF ShutdownAtOnce
  <2>2. Reports!Leave(op)
    BY <2>1 DEF Reports!Leave
  <2> QED
    BY <2>2 DEF AbstractStep, Reports!Next
<1> QED
  BY <1>2, <1>3, <1>4

LEMMA UserRefines ==
  ASSUME ShutdownInv, UserNext
  PROVE  AbstractStep
<1>1. CASE UserLeaves
  BY <1>1 DEF UserLeaves, vars, queueVars, Queued, AbstractStep
<1>2. CASE CancelAllFromUI
  BY <1>2 DEF CancelAllFromUI, CancelAll, queueVars, Queued, AbstractStep
<1>3. ASSUME NEW w \in Windows, RegisterWindow(w) \/ UnregisterWindow(w)
      PROVE  AbstractStep
  BY <1>3 DEF RegisterWindow, UnregisterWindow, queueVars, Queued, AbstractStep
<1>4. ASSUME NEW op \in Ops,
             DBusNoop(op) \/ \E w \in windows \union {NoSource} : Request(op, w)
      PROVE  AbstractStep
  <2>1. OpNext(op)
    BY <1>4 DEF DBusNoop, Request, OpNext
  <2> QED
    BY <2>1, OpNextRefines DEF ShutdownInv
<1> QED
  BY <1>1, <1>2, <1>3, <1>4 DEF UserNext

LEMMA LoopRefines ==
  ASSUME ShutdownInv, LoopNext \/ Quit
  PROVE  AbstractStep
<1>1. CASE QueueEmptyIdle
  BY <1>1, ReportRefines DEF QueueEmptyIdle, ShutdownInv, IInv
<1>2. CASE Quit \/ HandlerReturns
  BY <1>2 DEF Quit, HandlerReturns, ErrorHandlerReturns, Queued, AbstractStep
<1>3. ASSUME NEW a \in Remote, Connect(a)
      PROVE  AbstractStep
  BY <1>3 DEF Connect, vars, queueVars, Queued, AbstractStep
<1>4. ASSUME NEW op \in Ops, Proceed(op) \/ Complete(op)
      PROVE  AbstractStep
  <2>1. OpNext(op)
    BY <1>4 DEF Proceed, Complete, OpNext
  <2> QED
    BY <2>1, OpNextRefines DEF ShutdownInv
<1>5. ASSUME NEW op \in Ops, NEW a \in Remote, AccountOffline(op, a)
      PROVE  AbstractStep
  <2>1. CASE ShutdownDone(op)
    BY <2>1, OpNextRefines DEF ShutdownInv, OpNext
  <2>2. CASE UNCHANGED vars
    BY <2>2 DEF vars, queueVars, Queued, AbstractStep
  <2> QED
    BY <1>5, <2>1, <2>2 DEF AccountOffline
<1> QED
  BY <1>1, <1>2, <1>3, <1>4, <1>5, FinalSyncRefines DEF LoopNext, ExitIdle

\* Quitting does not make the queue break a promise: with windows, exit idles
\* and any number of final syncs around it, it does only what QueueReports
\* allows (on_queue_empty and on_idle_exit_modest rest on that).
THEOREM ShutdownRefinement == ShutdownSafety => Reports!Safety
<1>1. ShutdownInit => Reports!Init
  BY DEF ShutdownInit, Init, Reports!Init, Queued, ToSet
<1>2. ShutdownInv /\ [ShutdownNext]_allVars => [Reports!Next]_(Reports!vars)
  <2> SUFFICES ASSUME ShutdownInv, [ShutdownNext]_allVars PROVE AbstractStep
    BY DEF AbstractStep, Reports!vars
  <2>1. CASE ShutdownNext
    BY <2>1, UserRefines, LoopRefines DEF ShutdownNext, LeftoverExitIdle
  <2>2. CASE UNCHANGED allVars
    BY <2>2 DEF allVars, vars, queueVars, Queued, AbstractStep
  <2> QED
    BY <2>1, <2>2
<1> QED
  BY <1>1, <1>2, ShutdownInvariant, PTL DEF ShutdownSafety, Reports!Safety
=============================================================================
