---------------------------- MODULE CommandProofs ----------------------------
(***************************************************************************)
(* Going online for a command, the operations on messages and the requests *)
(* of D-Bus: proofs about Connect, MessageOps and DBusService, for every   *)
(* platform and any commands, accounts, messages and folders.              *)
(*                                                                         *)
(* Connect: what waits in the queue unstarted is awaited by a connection,  *)
(* on hildon2; on gtk its command may have been forgotten.                 *)
(* MessageOps: the operations tell of the messages in the order of their   *)
(* list, a success did all of the list, and what is being sent is spared.  *)
(* The invariant follows each kind of operation: how far it is in its list *)
(* and what of the list it has done.                                       *)
(* DBusService: the counters of a request are the number of calls that are *)
(* out, each call a token, so that they reach zero with the last answer,   *)
(* and what has been listed is found or still in a list.                   *)
(***************************************************************************)
EXTENDS Connect, MessageOps, DBusService, SequenceLemmas, FiniteSetTheorems,
        SequenceTheorems, TLAPS

-----------------------------------------------------------------------------
(* Going online for a command.                                             *)

(* What is known of command k: its operation is in the queue if it runs or  *)
(* if it is a receiving that still waits, and was started if it runs; on    *)
(* hildon2 it is never forgotten.                                           *)
Tracked(k) ==
    /\ jobs[k].stage \in Stages
    /\ Toolkit = "hildon2" => jobs[k].stage # "lost"
    /\ Mail(k) \in queue <=>
         \/ jobs[k].stage = "operating"
         \/ jobs[k].kind = "receive" /\ jobs[k].stage \in Waiting
    /\ k \in started <=> jobs[k].stage = "operating"

Inv == DOMAIN jobs = Jobs /\ \A k \in Jobs : Tracked(k)

-----------------------------------------------------------------------------
(* The operations of a command are its own.                                *)
LEMMA MailIsOwn ==
  ASSUME NEW j, NEW k, NEW ops, ops \subseteq {Mail(j), Leave(j), Hold(j)}
  PROVE  /\ k # j => (Mail(k) \in Queued(j, ops) <=> Mail(k) \in queue)
         /\ Mail(j) \in Queued(j, ops) <=> Mail(j) \in ops
  BY DEF Queued, Mail, Leave, Hold

(* What is asked for is one of the answers waited for; on hildon2 somebody  *)
(* gives it.                                                                *)
LEMMA AsksSomebody ==
  ASSUME NEW g, NEW on
  PROVE  /\ Asks(g, on) \in Waiting
         /\ Toolkit = "hildon2" => Asks(g, on) # "lost"
  BY DEF Asks, AsksHildon, AsksGtk, Waiting

(* One command changes to this stage, with these operations in the queue.  *)
LEMMA OneChanges ==
  ASSUME Inv, NEW j \in Jobs, NEW kind, NEW stage \in Stages, NEW goals, NEW ops,
         ops \subseteq {Mail(j), Leave(j), Hold(j)},
         Toolkit = "hildon2" => stage # "lost",
         jobs' = [jobs EXCEPT ![j] =
                    [kind |-> kind, stage |-> stage, goals |-> goals]],
         queue' = Queued(j, ops),
         Mail(j) \in ops <=> \/ stage = "operating"
                             \/ kind = "receive" /\ stage \in Waiting,
         started' \ {j} = started \ {j},
         j \in started' <=> stage = "operating"
  PROVE  Inv'
<1>1. DOMAIN jobs' = Jobs
  BY DEF Inv
<1>2. ASSUME NEW k \in Jobs PROVE Tracked(k)'
  <2>1. CASE k = j
    <3>1. jobs'[j] = [kind |-> kind, stage |-> stage, goals |-> goals]
      BY DEF Inv
    <3>2. jobs'[j].kind = kind /\ jobs'[j].stage = stage
      BY <3>1
    <3>3. Mail(j) \in queue' <=> Mail(j) \in ops
      BY MailIsOwn
    <3> QED BY <2>1, <3>2, <3>3 DEF Tracked, Mail
  <2>2. CASE k # j
    <3>1. jobs'[k] = jobs[k]
      BY <2>2 DEF Inv
    <3>2. Mail(k) \in queue' <=> Mail(k) \in queue
      BY <2>2, MailIsOwn
    <3>3. k \in started' <=> k \in started
      BY <2>2
    <3>4. Tracked(k)
      BY DEF Inv
    <3> QED BY <3>1, <3>2, <3>3, <3>4 DEF Tracked, Mail
  <2> QED BY <2>1, <2>2
<1> QED BY <1>1, <1>2 DEF Inv

LEMMA AbandonKeeps ==
  ASSUME Inv, NEW j \in Jobs, jobs[j].stage # "operating", Abandon(j)
  PROVE  Inv'
<1>1. j \notin started
  BY DEF Inv, Tracked
<1>2. "free" \in Stages /\ "free" \notin Waiting
  BY DEF Stages, Waiting
<1> QED BY <1>1, <1>2, OneChanges DEF Abandon, Free

LEMMA PerformKeeps ==
  ASSUME Inv, NEW j \in Jobs, jobs[j].stage # "operating", NEW kind,
         Perform(j, kind)
  PROVE  Inv'
<1>1. j \notin started
  BY DEF Inv, Tracked
<1>2. {"idle", "operating"} \subseteq Stages /\ "idle" \in Waiting
  BY DEF Stages, Waiting
<1>3. Mail(j) # Hold(j)
  BY DEF Mail, Hold
<1>4. CASE kind \in {"receive", "operate"} /\ started' = started \union {j}
           /\ jobs' = [jobs EXCEPT ![j] =
                [kind |-> kind, stage |-> "operating", goals |-> <<>>]]
           /\ queue' = Queued(j, {Mail(j)})
  BY <1>2, <1>4, OneChanges
<1>5. CASE kind = "dbus" /\ started' = started
           /\ jobs' = [jobs EXCEPT ![j] =
                [kind |-> kind, stage |-> "idle", goals |-> <<>>]]
           /\ queue' = Queued(j, {Hold(j)})
  BY <1>1, <1>2, <1>3, <1>5, OneChanges
<1>6. CASE Abandon(j)
  BY <1>6, AbandonKeeps
<1> QED BY <1>4, <1>5, <1>6 DEF Perform

LEMMA PursueKeeps ==
  ASSUME Inv, NEW j \in Jobs, jobs[j].stage # "operating", NEW kind, NEW goals,
         NEW on, NEW up, Pursue(j, kind, goals, on, up)
  PROVE  Inv'
<1> DEFINE left == Remaining(goals, on, up)
           ask  == Asks(Head(left), on)
           ops  == IF kind = "receive" THEN {Mail(j)} ELSE {}
<1>1. CASE Perform(j, kind)
  BY <1>1, PerformKeeps
<1>2. CASE /\ jobs' = [jobs EXCEPT ![j] =
                [kind |-> kind, stage |-> ask, goals |-> left]]
           /\ queue' = Queued(j, ops)
           /\ UNCHANGED started
  <2>1. ask \in Waiting /\ (Toolkit = "hildon2" => ask # "lost")
    BY AsksSomebody
  <2>2. ask \in Stages /\ ask # "operating"
    BY <2>1 DEF Waiting, Stages
  <2>3. j \notin started
    BY DEF Inv, Tracked
  <2>4. Mail(j) \in ops <=> kind = "receive"
    OBVIOUS
  <2> HIDE DEF ask, left
  <2> QED BY <1>2, <2>1, <2>2, <2>3, <2>4, OneChanges
<1> QED BY <1>1, <1>2 DEF Pursue

LEMMA StartReceivingKeeps ==
  ASSUME Inv, NEW j \in Jobs, jobs[j].stage # "operating", NEW a,
         StartReceiving(j, a)
  PROVE  Inv'
<1>1. j \notin started
  BY DEF Inv, Tracked
<1>2. "leaving" \in Stages /\ "leaving" \in Waiting
  BY DEF Stages, Waiting
<1>3. CASE Pursue(j, "receive", <<a>>, online, connected)
  BY <1>3, PursueKeeps
<1>4. CASE /\ jobs' = [jobs EXCEPT ![j] =
                [kind |-> "receive", stage |-> "leaving", goals |-> <<a>>]]
           /\ queue' = Queued(j, {Mail(j), Leave(j)})
           /\ UNCHANGED started
  BY <1>1, <1>2, <1>4, OneChanges
<1> QED BY <1>3, <1>4 DEF StartReceiving

-----------------------------------------------------------------------------
LEMMA CommandKeeps ==
  ASSUME Inv, NEW j \in Jobs, Command(j)
  PROVE  Inv'
<1>1. ASSUME jobs[j] = Free PROVE jobs[j].stage # "operating"
  BY <1>1 DEF Free
<1>2. ASSUME NEW kind, NEW accounts, Request(j, kind, accounts) PROVE Inv'
  BY <1>1, <1>2, PursueKeeps DEF Request
<1>3. CASE Receive(j)
  BY <1>1, <1>3, StartReceivingKeeps DEF Receive
<1>4. CASE \E kind, accounts : Request(j, kind, accounts)
  BY <1>2, <1>4
<1> QED
  BY <1>3, <1>4
     DEF Command, DBusReceive, DBusOpen, OpenMessage, RetrieveContents,
         ReplyForward, CreateFolder, RenameFolder, DeleteFolder, MoveFolder,
         MoveMessages, ViewPart, FetchImages

LEMMA AnswerKeeps ==
  ASSUME Inv, NEW j \in Jobs, ConnectAnswer(j)
  PROVE  Inv'
<1>1. ASSUME NEW ok \in BOOLEAN, DeviceAnswers(j, ok) PROVE Inv'
  <2>1. jobs[j].stage = "device"
    BY <1>1 DEF DeviceAnswers
  <2>2. CASE Abandon(j)
    BY <2>1, <2>2, AbandonKeeps
  <2>3. CASE Pursue(j, jobs[j].kind, Tail(jobs[j].goals), TRUE, connected)
    BY <2>1, <2>3, PursueKeeps
  <2>4. CASE /\ jobs' = [jobs EXCEPT ![j] =
                  [kind |-> jobs[j].kind, stage |-> "account",
                   goals |-> jobs[j].goals]]
             /\ UNCHANGED <<queue, started>>
    <3>1. DOMAIN jobs' = Jobs
      BY <2>4 DEF Inv
    <3>2. ASSUME NEW k \in Jobs PROVE Tracked(k)'
      <4>1. Tracked(k)
        BY DEF Inv
      <4>2. CASE k = j
        <5>1. jobs'[j] = [kind |-> jobs[j].kind, stage |-> "account",
                          goals |-> jobs[j].goals]
          BY <2>4 DEF Inv
        <5>2. jobs'[j].kind = jobs[j].kind /\ jobs'[j].stage = "account"
          BY <5>1
        <5> QED BY <2>1, <2>4, <4>1, <4>2, <5>2
                DEF Tracked, Mail, Stages, Waiting
      <4>3. CASE k # j
        BY <2>4, <4>1, <4>3 DEF Inv, Tracked, Mail
      <4> QED BY <4>2, <4>3
    <3> QED BY <3>1, <3>2 DEF Inv
  <2> QED BY <1>1, <2>2, <2>3, <2>4 DEF DeviceAnswers
<1>2. ASSUME NEW ok \in BOOLEAN, AccountAnswers(j, ok) PROVE Inv'
  <2>1. jobs[j].stage # "operating"
    BY <1>2 DEF AccountAnswers
  <2>2. ASSUME NEW up,
               Pursue(j, jobs[j].kind, Tail(jobs[j].goals), online, up)
        PROVE  Inv'
    BY <2>1, <2>2, PursueKeeps
  <2>3. CASE Abandon(j)
    BY <2>1, <2>3, AbandonKeeps
  <2> QED BY <1>2, <2>2, <2>3 DEF AccountAnswers
<1>3. CASE Disconnected(j)
  <2>1. jobs[j].stage # "operating"
    BY <1>3 DEF Disconnected
  <2> QED BY <1>3, <2>1, PursueKeeps DEF Disconnected
<1>4. CASE IdleReceive(j)
  <2>1. jobs[j].stage # "operating"
    BY <1>4 DEF IdleReceive
  <2> QED BY <1>4, <2>1, AbandonKeeps, StartReceivingKeeps DEF IdleReceive
<1> QED BY <1>1, <1>2, <1>3, <1>4 DEF ConnectAnswer

LEMMA FinishKeeps ==
  ASSUME Inv, NEW j \in Jobs, Finish(j)
  PROVE  Inv'
<1>1. "free" \in Stages /\ "free" \notin Waiting
  BY DEF Stages, Waiting
<1>2. started' = started \ {j} /\ queue' = Queued(j, {})
      /\ jobs' = [jobs EXCEPT ![j] =
                    [kind |-> "none", stage |-> "free", goals |-> <<>>]]
  BY DEF Finish, Free
<1> QED BY <1>1, <1>2, OneChanges

LEMMA Initially == ConnectInit => Inv
  BY DEF ConnectInit, Inv, Tracked, Free, Stages, Waiting

LEMMA StepKeeps == Inv /\ [ConnectNext]_connectVars => Inv'
<1> SUFFICES ASSUME Inv, [ConnectNext]_connectVars PROVE Inv'
  OBVIOUS
<1>1. CASE UNCHANGED <<jobs, queue, started>>
  BY <1>1 DEF Inv, Tracked, Mail
<1>2. ASSUME NEW j \in Jobs, Command(j) \/ ConnectAnswer(j) \/ Finish(j)
      PROVE  Inv'
  BY <1>2, CommandKeeps, AnswerKeeps, FinishKeeps
<1> QED BY <1>1, <1>2 DEF ConnectNext, Drift, connectVars

(* Every command's operation is where the command's stage says, in every    *)
(* reachable state: the inductive invariant.                                *)
THEOREM Invariant == ConnectSpec => []Inv
  BY Initially, StepKeeps, PTL DEF ConnectSpec

(* On hildon2 an operation that waits in the queue unstarted has a command  *)
(* that waits for an answer, and the other way round                        *)
(* (do_send_receive_performer and what calls it), for any commands and      *)
(* accounts.  On gtk the command may be lost instead, as Tracked allows.    *)
THEOREM AlwaysAwaited ==
  ASSUME Toolkit = "hildon2"
  PROVE  ConnectSpec => []QueuedIsAwaited
<1>1. Inv => QueuedIsAwaited
  BY DEF Inv, Tracked, QueuedIsAwaited, Waiting, Stages
<1> QED BY <1>1, Invariant, PTL

-----------------------------------------------------------------------------
(* The operations on messages.                                             *)

Task ==
    [kind : {"none", "get", "parts", "xfer", "remove", "sync", "refresh"},
     list : Seq(Mails), src : Places \union {"none"},
     dest : Places \union {"none"}, delete : BOOLEAN, single : BOOLEAN,
     pos : Nat, count : Nat,
     status : {"INVALID", "IN_PROGRESS", "SUCCESS", "FAILED",
               "FINISHED_WITH_ERRORS", "CANCELED"},
     stage : {"none", "asked", "syncing", "stuck", "ended"}, cut : BOOLEAN,
     heard : Seq(Mails), done : SUBSET Mails, spared : SUBSET Mails,
     robbed : SUBSET Mails]

\* The first messages of the list, n of them.
FirstOf(list, n) == {list[i] : i \in 1..n}

\* A retrieval has heard of the messages before the one it has asked for, and
\* has all of them that it was answered without an error.
GetFits(task) ==
    task.kind = "get" =>
        /\ task.stage \in {"asked", "stuck", "ended"}
        /\ Len(task.heard) <= Len(task.list)
        /\ \A i \in 1..Len(task.heard) : task.heard[i] = task.list[i]
        /\ task.stage = "asked" =>
             /\ task.count = Len(task.list)
             /\ task.pos \in 1..task.count
             /\ Len(task.heard) = task.pos - 1
             /\ task.status \in {"IN_PROGRESS", "FINISHED_WITH_ERRORS", "CANCELED"}
             /\ task.status = "IN_PROGRESS" =>
                  FirstOf(task.list, task.pos - 1) \subseteq task.done
        /\ task.stage = "ended" /\ task.status \notin {"CANCELED", "FAILED"} =>
             Len(task.heard) = Len(task.list)
        /\ task.stage = "ended" /\ task.status = "SUCCESS" =>
             FirstOf(task.list, Len(task.list)) \subseteq task.done

\* One with parts has one message and hears of it at the end.
PartsFit(task) ==
    task.kind = "parts" =>
        /\ task.stage \in {"asked", "ended"} /\ Len(task.list) = 1
        /\ task.stage = "asked" =>
             /\ task.heard = <<>>
             /\ task.status \in {"IN_PROGRESS", "FINISHED_WITH_ERRORS", "CANCELED"}
        /\ task.stage = "ended" =>
             Len(task.heard) = 1 /\ task.heard[1] = task.list[1]
        /\ task.stage = "ended" /\ task.status = "SUCCESS" =>
             task.list[1] \in task.done

\* A transfer between accounts has moved those before the one it asked for.
XferFits(task) ==
    task.kind = "xfer" =>
        /\ task.stage \in {"asked", "syncing", "ended"}
        /\ task.stage = "asked" =>
             /\ task.count = Len(task.list)
             /\ task.pos \in 1..task.count
             /\ task.status \in {"IN_PROGRESS", "CANCELED"}
             /\ task.single => FirstOf(task.list, task.pos - 1) \subseteq task.done
        /\ task.stage \in {"syncing", "ended"} /\ task.status = "SUCCESS" =>
             FirstOf(task.list, Len(task.list)) \subseteq task.done

\* A removal was asked for all but what was being sent, and for that only if
\* all of the list was, or if another queue or none knows the first message.
RemoveFits(task) ==
    /\ task.kind # "remove" => task.spared = {} /\ task.robbed = {}
    /\ task.kind = "remove" =>
         /\ task.stage \in {"stuck", "asked", "syncing", "ended"}
         /\ task.stage # "stuck" =>
              FirstOf(task.list, Len(task.list)) \subseteq task.done \union task.spared
         /\ task.robbed \subseteq task.done
         /\ \A m \in task.done \intersect task.spared :
              \/ Listed(task.list) = task.spared
              \/ owner[task.list[1]] \in {"none"} \union ({"q1", "q2"} \ {owner[m]})

OthersFit(task) ==
    /\ task.kind = "none" => task.stage = "none"
    /\ task.kind \in {"sync", "refresh"} => task.list = <<>>

TaskFits(task) ==
    /\ GetFits(task) /\ PartsFit(task) /\ XferFits(task)
    /\ RemoveFits(task) /\ OthersFit(task)

\* The inductive invariant.
TasksFit ==
    /\ tasks \in [Tasks -> Task]
    /\ \A t \in Tasks : TaskFits(tasks[t])
    /\ owner \in [Mails -> {"q1", "q2", "none"}]
    /\ inSending \subseteq Mails

\* A list of messages as selected is a sequence without an end.
LEMMA SelectionType ==
    ASSUME NEW p, NEW list \in Selections(p)
    PROVE  list \in Seq(Mails) /\ Len(list) \in Nat /\ Listed(list) \subseteq Mails
  <1>1. PICK n \in 0..Cardinality(In(p)) : list \in [1..n -> In(p)]
    BY DEF Selections
  <1>2. In(p) \subseteq Mails
    BY DEF In
  <1>3. Cardinality(In(p)) \in Nat
    BY <1>2, MessageOpsAssumption, FS_Subset, FS_CardinalityType
  <1>4. n \in Nat
    BY <1>3
  <1>5. list \in [1..n -> Mails]
    BY <1>1, <1>2
  <1>6. list \in Seq(Mails) /\ Len(list) = n
    BY <1>4, <1>5
  <1> QED
    BY <1>4, <1>5, <1>6 DEF Listed

LEMMA NoTaskFits == NoTask \in Task /\ TaskFits(NoTask)
  <1>1. <<>> \in Seq(Mails)
    OBVIOUS
  <1>2. NoTask \in Task
    BY <1>1 DEF NoTask, Task
  <1>3. TaskFits(NoTask)
    BY DEF TaskFits, NoTask, GetFits, PartsFit, XferFits, RemoveFits, OthersFit
  <1> QED
    BY <1>2, <1>3

\* An operation that begins.
LEMMA BegunIs ==
    ASSUME NEW kind \in {"get", "parts", "xfer", "remove", "sync", "refresh"},
           NEW list \in Seq(Mails), NEW p \in Places
    PROVE  LET b == Begun(kind, list, p) IN
           /\ b \in Task
           /\ b.kind = kind /\ b.list = list /\ b.src = p /\ b.pos = 0
           /\ b.status = "IN_PROGRESS" /\ b.stage = "asked" /\ b.heard = <<>>
           /\ b.done = {} /\ b.spared = {} /\ b.robbed = {}
  <1>1. /\ NoTask \in Task /\ NoTask.heard = <<>> /\ NoTask.pos = 0
        /\ NoTask.done = {} /\ NoTask.spared = {} /\ NoTask.robbed = {}
    BY NoTaskFits DEF NoTask
  <1> QED
    BY <1>1 DEF Begun, Task

\* The end of an operation changes its status and its stage.
LEMMA EndedIs ==
    ASSUME NEW task \in Task,
           NEW status \in {"SUCCESS", "FAILED", "FINISHED_WITH_ERRORS", "CANCELED"}
    PROVE  LET e == Ended(task, status) IN
           /\ e \in Task /\ e.status = status /\ e.stage = "ended"
           /\ e.kind = task.kind /\ e.list = task.list /\ e.heard = task.heard
           /\ e.done = task.done /\ e.spared = task.spared
           /\ e.robbed = task.robbed
  BY DEF Ended, Task

\* A step of one operation.
LEMMA OneTaskSteps ==
    ASSUME TasksFit, NEW t \in Tasks, NEW w \in Task, TaskFits(w), Set(t, w),
           UNCHANGED owner, inSending' \subseteq Mails
    PROVE  TasksFit'
  <1>1. TaskFits(w)'
    BY DEF TaskFits, GetFits, PartsFit, XferFits, RemoveFits, OthersFit, Listed, FirstOf
  <1>2. tasks' \in [Tasks -> Task] /\ tasks'[t] = w
    BY DEF TasksFit, Set
  <1>3. ASSUME NEW u \in Tasks, u # t PROVE TaskFits(tasks[u])'
    BY <1>3
    DEF TasksFit, Set, TaskFits, GetFits, PartsFit, XferFits, RemoveFits,
        OthersFit, Listed, FirstOf
  <1>4. \A u \in Tasks : TaskFits(tasks[u])'
    BY <1>1, <1>2, <1>3
    DEF TaskFits, GetFits, PartsFit, XferFits, RemoveFits, OthersFit, Listed, FirstOf
  <1> QED
    BY <1>2, <1>4 DEF TasksFit

\* Canceling changes what the operation will answer.
LEMMA CancelingFits ==
    ASSUME NEW task \in Task, TaskFits(task)
    PROVE  LET c == [task EXCEPT !.cut = TRUE]
               d == [task EXCEPT !.status = "CANCELED", !.cut = TRUE]
           IN  /\ c \in Task /\ TaskFits(c)
               /\ task.stage \in {"asked", "syncing"} => d \in Task /\ TaskFits(d)
  <1> DEFINE c == [task EXCEPT !.cut = TRUE]
             d == [task EXCEPT !.status = "CANCELED", !.cut = TRUE]
  <1>1. /\ c \in Task /\ c.status = task.status
        /\ c.kind = task.kind /\ c.list = task.list /\ c.stage = task.stage
        /\ c.pos = task.pos /\ c.count = task.count /\ c.single = task.single
        /\ c.heard = task.heard /\ c.done = task.done /\ c.spared = task.spared
        /\ c.robbed = task.robbed
    BY DEF Task
  <1>2. /\ d \in Task /\ d.status = "CANCELED"
        /\ d.kind = task.kind /\ d.list = task.list /\ d.stage = task.stage
        /\ d.pos = task.pos /\ d.count = task.count /\ d.single = task.single
        /\ d.heard = task.heard /\ d.done = task.done /\ d.spared = task.spared
        /\ d.robbed = task.robbed
    BY DEF Task
  <1> HIDE DEF c, d
  <1>3. TaskFits(c)
    BY <1>1 DEF TaskFits, GetFits, PartsFit, XferFits, RemoveFits, OthersFit
  <1>4. task.stage \in {"asked", "syncing"} => TaskFits(d)
    BY <1>2 DEF TaskFits, GetFits, PartsFit, XferFits, RemoveFits, OthersFit
  <1> QED
    BY <1>1, <1>2, <1>3, <1>4 DEF c, d

-----------------------------------------------------------------------------
(* One lemma for each action that changes an operation.                    *)

LEMMA GetMsgsFits ==
    ASSUME TasksFit, NEW t \in Tasks, NEW p \in Places, GetMsgs(t, p)
    PROVE  TasksFit'
  <1> DEFINE task(list) == [Begun("get", list, p) EXCEPT !.pos = 1, !.count = Len(list)]
             stuck(list) == [task(list) EXCEPT !.stage = "stuck"]
  <1>1. PICK list \in Selections(p) :
           /\ Set(t, IF list = <<>> THEN stuck(list) ELSE task(list))
           /\ UNCHANGED <<owner, inSending>>
    BY DEF GetMsgs
  <1>2. list \in Seq(Mails) /\ Len(list) \in Nat
    BY SelectionType
  <1> DEFINE b == Begun("get", list, p)
             n == Len(list)
             w == IF list = <<>> THEN stuck(list) ELSE task(list)
  <1>3. /\ b \in Task
        /\ b.kind = "get" /\ b.list = list /\ b.status = "IN_PROGRESS"
        /\ b.stage = "asked" /\ b.heard = <<>> /\ b.spared = {} /\ b.robbed = {}
    BY <1>2, BegunIs
  <1>4. n \in Nat /\ (n = 0 <=> list = <<>>)
    BY <1>2, EmptySeq
  <1>5. /\ w \in Task
        /\ w.kind = "get" /\ w.list = list /\ w.status = "IN_PROGRESS"
        /\ w.heard = <<>> /\ w.spared = {} /\ w.robbed = {}
        /\ w.pos = 1 /\ w.count = n
        /\ w.stage = IF list = <<>> THEN "stuck" ELSE "asked"
    <2> HIDE DEF b, n
    <2>1. task(list) = [b EXCEPT !.pos = 1, !.count = n]
      BY DEF b, n
    <2>2. /\ task(list) \in Task
          /\ task(list).kind = "get" /\ task(list).list = list
          /\ task(list).status = "IN_PROGRESS" /\ task(list).stage = "asked"
          /\ task(list).heard = <<>> /\ task(list).spared = {}
          /\ task(list).robbed = {} /\ task(list).pos = 1 /\ task(list).count = n
      BY <1>3, <1>4, <2>1 DEF Task
    <2> HIDE DEF task
    <2> QED
      BY <2>2 DEF Task
  <1> HIDE DEF w
  <1>6. TaskFits(w)
    BY <1>4, <1>5
    DEF TaskFits, GetFits, PartsFit, XferFits, RemoveFits, OthersFit, FirstOf, n
  <1> QED
    BY <1>1, <1>5, <1>6, OneTaskSteps DEF TasksFit, w

LEMMA GetMsgAndPartsFits ==
    ASSUME TasksFit, NEW t \in Tasks, NEW p \in Places, GetMsgAndParts(t, p)
    PROVE  TasksFit'
  <1>1. PICK m \in In(p), n \in 0..MaxParts :
           /\ Set(t, [Begun("parts", <<m>>, p) EXCEPT !.pos = 1, !.count = n])
           /\ UNCHANGED <<owner, inSending>>
    BY DEF GetMsgAndParts
  <1> DEFINE list == <<m>>
             b == Begun("parts", list, p)
             w == [b EXCEPT !.pos = 1, !.count = n]
  <1>2. list \in Seq(Mails) /\ Len(list) = 1 /\ n \in Nat
    BY MessageOpsAssumption DEF In
  <1>3. Set(t, w)
    BY <1>1
  <1> HIDE DEF list
  <1>4. /\ b \in Task
        /\ b.kind = "parts" /\ b.list = list /\ b.status = "IN_PROGRESS"
        /\ b.stage = "asked" /\ b.heard = <<>> /\ b.spared = {} /\ b.robbed = {}
    BY <1>2, BegunIs
  <1> HIDE DEF b
  <1>5. /\ w \in Task
        /\ w.kind = "parts" /\ w.list = list /\ w.status = "IN_PROGRESS"
        /\ w.stage = "asked" /\ w.heard = <<>> /\ w.spared = {} /\ w.robbed = {}
    BY <1>2, <1>4 DEF Task
  <1> HIDE DEF w
  <1>6. TaskFits(w)
    BY <1>2, <1>5 DEF TaskFits, GetFits, PartsFit, XferFits, RemoveFits, OthersFit
  <1> QED
    BY <1>1, <1>5, <1>3, <1>6, OneTaskSteps DEF TasksFit

LEMMA GetRefusedFits ==
    ASSUME TasksFit, NEW t \in Tasks, NEW p \in Places, GetRefused(t, p)
    PROVE  TasksFit'
  <1>1. PICK list \in Selections(p) :
           /\ Set(t, Ended([Begun("get", list, p) EXCEPT
                             !.heard = IF list = <<>> THEN <<>>
                                       ELSE <<Head(list)>>], "FAILED"))
           /\ UNCHANGED <<owner, inSending>>
    BY DEF GetRefused
  <1> DEFINE b == Begun("get", list, p)
             heard == IF list = <<>> THEN <<>> ELSE <<Head(list)>>
             w == [b EXCEPT !.heard = heard]
             e == Ended(w, "FAILED")
  <1>2. list \in Seq(Mails) /\ Len(list) \in Nat
    BY SelectionType
  <1>3. /\ b \in Task
        /\ b.kind = "get" /\ b.list = list /\ b.spared = {} /\ b.robbed = {}
    BY <1>2, BegunIs
  <1>4. /\ heard \in Seq(Mails) /\ Len(heard) <= Len(list)
        /\ \A i \in 1..Len(heard) : heard[i] = list[i]
    <2>1. CASE list = <<>>
      BY <1>2, <2>1
    <2>2. CASE list # <<>>
      <3>1. Len(list) >= 1 /\ Head(list) = list[1] /\ Head(list) \in Mails
        BY <1>2, <2>2, EmptySeq
      <3> QED
        BY <2>2, <3>1
    <2> QED
      BY <2>1, <2>2
  <1> HIDE DEF b, heard
  <1>5. /\ w \in Task
        /\ w.kind = "get" /\ w.list = list /\ w.spared = {} /\ w.robbed = {}
        /\ w.heard = heard
    BY <1>3, <1>4 DEF Task
  <1>6. Set(t, e)
    BY <1>1 DEF b, heard
  <1> HIDE DEF w
  <1>7. /\ e \in Task /\ e.stage = "ended" /\ e.status = "FAILED"
        /\ e.kind = "get" /\ e.list = list /\ e.spared = {} /\ e.robbed = {}
        /\ e.heard = heard
    BY <1>5, EndedIs
  <1> HIDE DEF e
  <1>8. TaskFits(e)
    BY <1>4, <1>7 DEF TaskFits, GetFits, PartsFit, XferFits, RemoveFits, OthersFit
  <1> QED
    BY <1>1, <1>6, <1>7, <1>8, OneTaskSteps DEF TasksFit

\* What the callback of a retrieval does to what has been heard.
LEMMA HeardIs ==
    ASSUME NEW task \in Task, TaskFits(task), task.kind \in {"get", "parts"},
           task.stage = "asked", NEW last \in BOOLEAN
    PROVE  LET h == Heard(task, last) IN
           /\ Asked(task) \in Mails
           /\ task.kind = "get" => Asked(task) = task.list[task.pos]
           /\ task.kind = "parts" => Asked(task) = task.list[1]
           /\ h \in Task
           /\ h.kind = task.kind /\ h.list = task.list /\ h.pos = task.pos
           /\ h.count = task.count /\ h.status = task.status
           /\ h.stage = "asked" /\ h.done = task.done
           /\ h.spared = task.spared /\ h.robbed = task.robbed
           /\ task.kind = "get" \/ last =>
                /\ Len(h.heard) = Len(task.heard) + 1
                /\ \A i \in 1..Len(h.heard) : h.heard[i] = task.list[i]
           /\ task.kind = "parts" /\ ~last => h.heard = <<>>
  <1> DEFINE heard == Append(task.heard, Asked(task))
             h == Heard(task, last)
  <1>1. /\ task.list \in Seq(Mails) /\ Len(task.list) \in Nat
        /\ task.heard \in Seq(Mails) /\ Len(task.heard) \in Nat
    BY DEF Task
  <1>2. /\ Asked(task) \in Mails
        /\ task.kind = "get" => Asked(task) = task.list[task.pos]
        /\ task.kind = "parts" => Asked(task) = task.list[1]
    BY <1>1 DEF TaskFits, GetFits, PartsFit, Asked
  <1>3. h = IF last \/ task.kind = "get" THEN [task EXCEPT !.heard = heard] ELSE task
    BY DEF Heard, Asked
  <1>4. /\ heard \in Seq(Mails) /\ Len(heard) = Len(task.heard) + 1
        /\ \A i \in 1..Len(task.heard) + 1 : heard[i] = task.list[i]
    <2>1. /\ heard \in Seq(Mails) /\ Len(heard) = Len(task.heard) + 1
          /\ \A i \in 1..Len(task.heard) : heard[i] = task.heard[i]
          /\ heard[Len(task.heard) + 1] = Asked(task)
      BY <1>1, <1>2, AppendProperties
    <2>2. CASE task.kind = "get"
      BY <1>1, <1>2, <2>1, <2>2 DEF TaskFits, GetFits
    <2>3. CASE task.kind = "parts"
      BY <1>1, <1>2, <2>1, <2>3 DEF TaskFits, PartsFit
    <2> QED
      BY <2>2, <2>3
  <1> HIDE DEF heard, h
  <1>5. /\ h \in Task
        /\ h.kind = task.kind /\ h.list = task.list /\ h.pos = task.pos
        /\ h.count = task.count /\ h.status = task.status
        /\ h.stage = "asked" /\ h.done = task.done
        /\ h.spared = task.spared /\ h.robbed = task.robbed
        /\ h.heard = IF last \/ task.kind = "get" THEN heard ELSE task.heard
    BY <1>3, <1>4 DEF Task
  <1> QED
    BY <1>2, <1>4, <1>5 DEF h, TaskFits, PartsFit

LEMMA GotMsgFits ==
    ASSUME TasksFit, NEW t \in Tasks, GotMsg(t)
    PROVE  TasksFit'
  <1> DEFINE task == tasks[t]
             last == Finished(task)
             h == Heard(task, last)
             done == IF task.kind = "get" \/ task.pos >= task.count
                     THEN h.done \union {Asked(task)} ELSE h.done
             next == [h EXCEPT !.done = done]
             pos == next.pos + 1
             w == [next EXCEPT !.pos = pos, !.cut = FALSE]
             e == Ended(next, Success(task))
  <1>1. /\ task.stage = "asked" /\ task.kind \in {"get", "parts"}
        /\ Set(t, IF last THEN e ELSE w)
        /\ UNCHANGED <<owner, inSending>>
    BY DEF GotMsg
  <1>2. task \in Task /\ TaskFits(task)
    BY DEF TasksFit
  <1>3. last \in BOOLEAN /\ (last <=> task.pos >= task.count)
    BY DEF Finished
  <1> HIDE DEF task, last
  <1>4. /\ Asked(task) \in Mails
        /\ task.kind = "get" => Asked(task) = task.list[task.pos]
        /\ task.kind = "parts" => Asked(task) = task.list[1]
        /\ h \in Task
        /\ h.kind = task.kind /\ h.list = task.list /\ h.pos = task.pos
        /\ h.count = task.count /\ h.status = task.status
        /\ h.stage = "asked" /\ h.done = task.done
        /\ h.spared = task.spared /\ h.robbed = task.robbed
        /\ task.kind = "get" \/ last =>
             /\ Len(h.heard) = Len(task.heard) + 1
             /\ \A i \in 1..Len(h.heard) : h.heard[i] = task.list[i]
        /\ task.kind = "parts" /\ ~last => h.heard = <<>>
    BY <1>1, <1>2, <1>3, HeardIs
  <1> HIDE DEF h
  <1>5. /\ done \in SUBSET Mails /\ task.done \subseteq done
        /\ task.kind = "get" \/ last => Asked(task) \in done
    BY <1>3, <1>4 DEF Task
  <1> HIDE DEF done
  <1>6. /\ next \in Task
        /\ next.kind = task.kind /\ next.list = task.list /\ next.pos = task.pos
        /\ next.count = task.count /\ next.status = task.status
        /\ next.stage = "asked" /\ next.done = done
        /\ next.spared = task.spared /\ next.robbed = task.robbed
        /\ next.heard = h.heard
    BY <1>4, <1>5 DEF Task
  <1> HIDE DEF next
  <1>7. /\ task.list \in Seq(Mails) /\ Len(task.list) \in Nat /\ task.pos \in Nat
        /\ task.count \in Nat /\ Len(task.heard) \in Nat
    BY <1>2 DEF Task
  <1>8. task.kind = "get" =>
          /\ task.count = Len(task.list) /\ task.pos \in 1..task.count
          /\ Len(task.heard) = task.pos - 1 /\ Len(h.heard) = task.pos
          /\ task.status \in {"IN_PROGRESS", "FINISHED_WITH_ERRORS", "CANCELED"}
          /\ task.status = "IN_PROGRESS" => FirstOf(task.list, task.pos) \subseteq done
    <2> SUFFICES ASSUME task.kind = "get"
                 PROVE  /\ task.count = Len(task.list) /\ task.pos \in 1..task.count
                        /\ Len(task.heard) = task.pos - 1 /\ Len(h.heard) = task.pos
                        /\ task.status \in {"IN_PROGRESS", "FINISHED_WITH_ERRORS", "CANCELED"}
                        /\ task.status = "IN_PROGRESS" =>
                             FirstOf(task.list, task.pos) \subseteq done
      OBVIOUS
    <2>1. /\ task.count = Len(task.list) /\ task.pos \in 1..task.count
          /\ Len(task.heard) = task.pos - 1 /\ Len(h.heard) = task.pos
          /\ task.status \in {"IN_PROGRESS", "FINISHED_WITH_ERRORS", "CANCELED"}
          /\ task.status = "IN_PROGRESS" =>
               FirstOf(task.list, task.pos - 1) \subseteq task.done
      BY <1>1, <1>2, <1>4, <1>7 DEF TaskFits, GetFits
    <2>2. \A i \in 1..task.pos : i \in 1..task.pos - 1 \/ i = task.pos
      BY <1>7
    <2>3. task.list[task.pos] \in done
      BY <1>4, <1>5
    <2> QED
      BY <1>5, <2>1, <2>2, <2>3 DEF FirstOf
  <1>9. task.kind = "parts" =>
          /\ Len(task.list) = 1 /\ task.heard = <<>>
          /\ task.status \in {"IN_PROGRESS", "FINISHED_WITH_ERRORS", "CANCELED"}
    BY <1>1, <1>2 DEF TaskFits, PartsFit
  <1>10. task.spared = {} /\ task.robbed = {}
    BY <1>1, <1>2 DEF TaskFits, RemoveFits
  <1>11. CASE last
    <2>1. /\ Success(task) \in {"SUCCESS", "FINISHED_WITH_ERRORS", "CANCELED"}
          /\ Success(task) = "SUCCESS" => task.status = "IN_PROGRESS"
      BY <1>1, <1>8, <1>9 DEF Success
    <2>2. /\ e \in Task /\ e.status = Success(task) /\ e.stage = "ended"
          /\ e.kind = task.kind /\ e.list = task.list /\ e.heard = h.heard
          /\ e.done = done /\ e.spared = {} /\ e.robbed = {}
      BY <1>6, <1>10, <2>1, EndedIs
    <2>3. Set(t, e)
      BY <1>1, <1>11
    <2> HIDE DEF e
    <2>4. CASE task.kind = "get"
      <3>1. task.pos = Len(task.list)
        BY <1>3, <1>7, <1>8, <1>11, <2>4
      <3>2. TaskFits(e)
        BY <1>4, <1>7, <1>8, <2>1, <2>2, <2>4, <3>1
        DEF TaskFits, GetFits, PartsFit, XferFits, RemoveFits, OthersFit
      <3> QED
        BY <1>1, <2>2, <2>3, <3>2, OneTaskSteps DEF TasksFit
    <2>5. CASE task.kind = "parts"
      <3>1. Len(h.heard) = 1 /\ h.heard[1] = task.list[1]
        <4>1. Len(task.heard) = 0
          BY <1>9, <2>5
        <4>2. /\ Len(h.heard) = 1
              /\ \A i \in 1..Len(h.heard) : h.heard[i] = task.list[i]
          BY <1>4, <1>11, <4>1
        <4> QED
          BY <4>2
      <3>2. TaskFits(e)
        BY <1>4, <1>5, <1>9, <1>11, <2>1, <2>2, <2>5, <3>1
        DEF TaskFits, GetFits, PartsFit, XferFits, RemoveFits, OthersFit
      <3> QED
        BY <1>1, <2>2, <2>3, <3>2, OneTaskSteps DEF TasksFit
    <2> QED
      BY <1>1, <2>4, <2>5
  <1>12. CASE ~last
    <2>0. pos \in Nat /\ pos = task.pos + 1
      BY <1>6, <1>7
    <2> HIDE DEF pos
    <2>1. /\ w \in Task
          /\ w.kind = task.kind /\ w.list = task.list /\ w.pos = task.pos + 1
          /\ w.count = task.count /\ w.status = task.status
          /\ w.stage = "asked" /\ w.done = done /\ w.spared = {} /\ w.robbed = {}
          /\ w.heard = h.heard
      BY <1>6, <1>10, <2>0 DEF Task
    <2>2. Set(t, w)
      BY <1>1, <1>12 DEF pos
    <2> HIDE DEF w
    <2>3. CASE task.kind = "get"
      <3>1. task.pos + 1 \in 1..task.count /\ (task.pos + 1) - 1 = task.pos
        BY <1>3, <1>7, <1>8, <1>12, <2>3
      <3>2. TaskFits(w)
        BY <1>4, <1>7, <1>8, <2>1, <2>3, <3>1
        DEF TaskFits, GetFits, PartsFit, XferFits, RemoveFits, OthersFit
      <3> QED
        BY <1>1, <2>1, <2>2, <3>2, OneTaskSteps DEF TasksFit
    <2>4. CASE task.kind = "parts"
      <3>1. TaskFits(w)
        BY <1>4, <1>9, <1>12, <2>1, <2>4
        DEF TaskFits, GetFits, PartsFit, XferFits, RemoveFits, OthersFit
      <3> QED
        BY <1>1, <2>1, <2>2, <3>1, OneTaskSteps DEF TasksFit
    <2> QED
      BY <1>1, <2>3, <2>4
  <1> QED
    BY <1>3, <1>11, <1>12

\* An error is remembered in the status.
LEMMA GetFailsFits ==
    ASSUME TasksFit, NEW t \in Tasks, GetFails(t)
    PROVE  TasksFit'
  <1> DEFINE task == tasks[t]
             last == Finished(task)
             h == Heard(task, last)
             pos == h.pos + 1
             w == [h EXCEPT !.status = "FINISHED_WITH_ERRORS",
                            !.pos = pos, !.cut = FALSE]
             e == Ended(h, "FINISHED_WITH_ERRORS")
  <1>1. /\ task.stage = "asked" /\ task.kind \in {"get", "parts"}
        /\ Set(t, IF last THEN e ELSE w)
        /\ UNCHANGED <<owner, inSending>>
    BY DEF GetFails
  <1>2. task \in Task /\ TaskFits(task)
    BY DEF TasksFit
  <1>3. last \in BOOLEAN /\ (last <=> task.pos >= task.count)
    BY DEF Finished
  <1> HIDE DEF task, last
  <1>4. /\ h \in Task
        /\ h.kind = task.kind /\ h.list = task.list /\ h.pos = task.pos
        /\ h.count = task.count
        /\ h.stage = "asked" /\ h.done = task.done
        /\ h.spared = task.spared /\ h.robbed = task.robbed
        /\ task.kind = "get" \/ last =>
             /\ Len(h.heard) = Len(task.heard) + 1
             /\ \A i \in 1..Len(h.heard) : h.heard[i] = task.list[i]
        /\ task.kind = "parts" /\ ~last => h.heard = <<>>
    BY <1>1, <1>2, <1>3, HeardIs
  <1>5. /\ task.list \in Seq(Mails) /\ Len(task.list) \in Nat /\ task.pos \in Nat
        /\ task.count \in Nat /\ Len(task.heard) \in Nat
    BY <1>2 DEF Task
  <1>6. task.kind = "get" =>
          /\ task.count = Len(task.list) /\ task.pos \in 1..task.count
          /\ Len(h.heard) = task.pos
    BY <1>1, <1>2, <1>4, <1>5 DEF TaskFits, GetFits
  <1>7. task.kind = "parts" => Len(task.list) = 1 /\ Len(task.heard) = 0
    BY <1>1, <1>2 DEF TaskFits, PartsFit
  <1>8. task.spared = {} /\ task.robbed = {}
    BY <1>1, <1>2 DEF TaskFits, RemoveFits
  <1>9. CASE last
    <2>1. /\ e \in Task /\ e.status = "FINISHED_WITH_ERRORS" /\ e.stage = "ended"
          /\ e.kind = task.kind /\ e.list = task.list /\ e.heard = h.heard
          /\ e.spared = {} /\ e.robbed = {}
      BY <1>4, <1>8, EndedIs
    <2>2. Set(t, e)
      BY <1>1, <1>9
    <2> HIDE DEF e, h
    <2>3. task.kind = "get" => Len(h.heard) = Len(task.list)
      BY <1>3, <1>5, <1>6, <1>9
    <2>4. ASSUME task.kind = "parts"
          PROVE  Len(h.heard) = 1 /\ h.heard[1] = task.list[1]
      <3>1. /\ Len(h.heard) = Len(task.heard) + 1 /\ Len(task.heard) = 0
            /\ \A i \in 1..Len(h.heard) : h.heard[i] = task.list[i]
        BY <1>4, <1>7, <1>9, <2>4
      <3>2. Len(h.heard) = 1
        BY <3>1
      <3> QED
        BY <3>1, <3>2
    <2>5. TaskFits(e)
      BY <1>1, <1>4, <1>5, <1>7, <1>9, <2>1, <2>3, <2>4
      DEF TaskFits, GetFits, PartsFit, XferFits, RemoveFits, OthersFit
    <2> QED
      BY <1>1, <2>1, <2>2, <2>5, OneTaskSteps DEF TasksFit
  <1>10. CASE ~last
    <2>1. pos \in Nat /\ pos = task.pos + 1
      BY <1>4, <1>5
    <2>2. Set(t, w)
      BY <1>1, <1>10
    <2> HIDE DEF pos, h
    <2>3. /\ w \in Task
          /\ w.kind = task.kind /\ w.list = task.list /\ w.pos = pos
          /\ w.count = task.count /\ w.status = "FINISHED_WITH_ERRORS"
          /\ w.stage = "asked" /\ w.spared = {} /\ w.robbed = {}
          /\ w.heard = h.heard
      BY <1>4, <1>8, <2>1 DEF Task
    <2> HIDE DEF w
    <2>4. task.kind = "get" => pos \in 1..task.count /\ pos - 1 = task.pos
      BY <1>3, <1>5, <1>6, <1>10, <2>1
    <2>5. TaskFits(w)
      BY <1>1, <1>4, <1>5, <1>6, <1>7, <1>10, <2>3, <2>4
      DEF TaskFits, GetFits, PartsFit, XferFits, RemoveFits, OthersFit
    <2> QED
      BY <1>1, <2>2, <2>3, <2>5, OneTaskSteps DEF TasksFit
  <1> QED
    BY <1>3, <1>9, <1>10

LEMMA GetCanceledFits ==
    ASSUME TasksFit, NEW t \in Tasks, GetCanceled(t)
    PROVE  TasksFit'
  <1> DEFINE task == tasks[t]
             h == Heard(task, TRUE)
             e == Ended(h, "CANCELED")
  <1>1. /\ task.stage = "asked" /\ task.kind \in {"get", "parts"}
        /\ Set(t, e) /\ UNCHANGED <<owner, inSending>>
    BY DEF GetCanceled
  <1>2. task \in Task /\ TaskFits(task)
    BY DEF TasksFit
  <1> HIDE DEF task
  <1>3. /\ h \in Task
        /\ h.kind = task.kind /\ h.list = task.list
        /\ h.spared = task.spared /\ h.robbed = task.robbed
        /\ Len(h.heard) = Len(task.heard) + 1
        /\ \A i \in 1..Len(h.heard) : h.heard[i] = task.list[i]
    BY <1>1, <1>2, HeardIs
  <1> HIDE DEF h
  <1>4. /\ task.list \in Seq(Mails) /\ Len(task.list) \in Nat /\ task.pos \in Nat
        /\ task.count \in Nat /\ Len(task.heard) \in Nat
    BY <1>2 DEF Task
  <1>5. ASSUME task.kind = "get" PROVE Len(h.heard) <= Len(task.list)
    <2>1. /\ task.count = Len(task.list) /\ task.pos \in 1..task.count
          /\ Len(task.heard) = task.pos - 1
      BY <1>1, <1>2, <1>5 DEF TaskFits, GetFits
    <2>2. Len(h.heard) = Len(task.heard) + 1
      BY <1>3
    <2> QED
      BY <1>4, <2>1, <2>2
  <1>6. task.kind = "parts" => /\ Len(task.list) = 1 /\ Len(h.heard) = 1
                               /\ h.heard[1] = task.list[1]
    <2>1. task.kind = "parts" => Len(task.list) = 1 /\ Len(task.heard) = 0
      BY <1>1, <1>2 DEF TaskFits, PartsFit
    <2>2. ASSUME Len(task.heard) = 0
          PROVE  Len(h.heard) = 1 /\ h.heard[1] = task.list[1]
      <3>1. Len(h.heard) = 1
        BY <1>3, <2>2
      <3>2. 1 \in 1..Len(h.heard)
        BY <3>1
      <3> QED
        BY <1>3, <3>1, <3>2
    <2> QED
      BY <2>1, <2>2
  <1>7. task.spared = {} /\ task.robbed = {}
    BY <1>1, <1>2 DEF TaskFits, RemoveFits
  <1>8. /\ e \in Task /\ e.status = "CANCELED" /\ e.stage = "ended"
        /\ e.kind = task.kind /\ e.list = task.list /\ e.heard = h.heard
        /\ e.spared = {} /\ e.robbed = {}
    BY <1>3, <1>7, EndedIs
  <1> HIDE DEF e
  <1>9. TaskFits(e)
    BY <1>1, <1>3, <1>4, <1>5, <1>6, <1>8
    DEF TaskFits, GetFits, PartsFit, XferFits, RemoveFits, OthersFit
  <1> QED
    BY <1>1, <1>8, <1>9, OneTaskSteps DEF TasksFit

LEMMA XferMsgsFits ==
    ASSUME TasksFit, NEW t \in Tasks, NEW p \in Places, NEW dest \in Places,
           NEW delete \in BOOLEAN, XferMsgs(t, p, dest, delete)
    PROVE  TasksFit'
  <1> DEFINE single == AccountOf(p) # AccountOf(dest)
  <1>1. PICK list \in Selections(p) :
           /\ list # <<>>
           /\ Set(t, [Begun("xfer", list, p) EXCEPT
                        !.dest = dest, !.delete = delete, !.pos = 1,
                        !.single = single, !.count = Len(list)])
           /\ UNCHANGED <<owner, inSending>>
    BY DEF XferMsgs
  <1> DEFINE b == Begun("xfer", list, p)
             n == Len(list)
             w == [b EXCEPT !.dest = dest, !.delete = delete, !.pos = 1,
                            !.single = single, !.count = n]
  <1>2. list \in Seq(Mails) /\ n \in Nat /\ n >= 1
    BY <1>1, SelectionType, EmptySeq
  <1>3. /\ b \in Task
        /\ b.kind = "xfer" /\ b.list = list /\ b.status = "IN_PROGRESS"
        /\ b.stage = "asked" /\ b.spared = {} /\ b.robbed = {}
    BY <1>2, BegunIs
  <1>4. single \in BOOLEAN
    OBVIOUS
  <1>5. Set(t, w)
    BY <1>1
  <1> HIDE DEF single, b, n
  <1>6. /\ w \in Task
        /\ w.kind = "xfer" /\ w.list = list /\ w.status = "IN_PROGRESS"
        /\ w.stage = "asked" /\ w.spared = {} /\ w.robbed = {}
        /\ w.pos = 1 /\ w.count = n
    BY <1>2, <1>3, <1>4 DEF Task
  <1> HIDE DEF w
  <1>7. TaskFits(w)
    BY <1>2, <1>6
    DEF TaskFits, GetFits, PartsFit, XferFits, RemoveFits, OthersFit, FirstOf, n
  <1> QED
    BY <1>1, <1>5, <1>6, <1>7, OneTaskSteps DEF TasksFit

LEMMA XferRefusedFits ==
    ASSUME TasksFit, NEW t \in Tasks, NEW p \in Places, NEW dest \in Places,
           XferRefused(t, p, dest)
    PROVE  TasksFit'
  <1>1. PICK list \in Selections(p) :
           /\ Set(t, Ended([Begun("xfer", list, p) EXCEPT !.dest = dest], "FAILED"))
           /\ UNCHANGED <<owner, inSending>>
    BY DEF XferRefused
  <1> DEFINE b == Begun("xfer", list, p)
             w == [b EXCEPT !.dest = dest]
             e == Ended(w, "FAILED")
  <1>2. list \in Seq(Mails)
    BY SelectionType
  <1>3. /\ b \in Task /\ b.kind = "xfer" /\ b.spared = {} /\ b.robbed = {}
    BY <1>2, BegunIs
  <1>4. Set(t, e)
    BY <1>1
  <1> HIDE DEF b
  <1>5. /\ w \in Task /\ w.kind = "xfer" /\ w.spared = {} /\ w.robbed = {}
    BY <1>3 DEF Task
  <1> HIDE DEF w
  <1>6. /\ e \in Task /\ e.stage = "ended" /\ e.status = "FAILED"
        /\ e.kind = "xfer" /\ e.spared = {} /\ e.robbed = {}
    BY <1>5, EndedIs
  <1> HIDE DEF e
  <1>7. TaskFits(e)
    BY <1>6 DEF TaskFits, GetFits, PartsFit, XferFits, RemoveFits, OthersFit
  <1> QED
    BY <1>1, <1>4, <1>6, <1>7, OneTaskSteps DEF TasksFit

\* Those that were moved are done; after the last, all of the list is.
LEMMA XferredFits ==
    ASSUME TasksFit, NEW t \in Tasks, Xferred(t)
    PROVE  TasksFit'
  <1> DEFINE task == tasks[t]
             batch == Batch(task)
             done == task.done \union batch
             next == [task EXCEPT !.done = done]
             pos == next.pos + 1
             status == IF NotCanceled(task) THEN "SUCCESS" ELSE "CANCELED"
             w == [next EXCEPT !.pos = pos, !.cut = FALSE]
             e == [next EXCEPT !.stage = AfterLast(task), !.status = status]
  <1>1. /\ task.stage = "asked" /\ task.kind = "xfer"
        /\ batch \subseteq Mails
        /\ Set(t, IF NotCanceled(task) /\ task.single /\ ~Finished(task) THEN w ELSE e)
        /\ UNCHANGED <<owner, inSending>>
    BY DEF Xferred, In
  <1>2. task \in Task /\ TaskFits(task)
    BY DEF TasksFit
  <1> HIDE DEF task
  <1>3. /\ task.list \in Seq(Mails) /\ Len(task.list) \in Nat
        /\ task.count = Len(task.list) /\ task.pos \in 1..task.count
        /\ task.status \in {"IN_PROGRESS", "CANCELED"}
        /\ task.single => FirstOf(task.list, task.pos - 1) \subseteq task.done
        /\ task.spared = {} /\ task.robbed = {}
    BY <1>1, <1>2 DEF Task, TaskFits, XferFits, RemoveFits
  <1>4. /\ ~task.single => FirstOf(task.list, Len(task.list)) \subseteq done
        /\ task.single => FirstOf(task.list, task.pos) \subseteq done
    <2>1. \A i \in 1..task.pos : i \in 1..task.pos - 1 \/ i = task.pos
      BY <1>3
    <2> QED
      BY <1>3, <2>1 DEF Batch, Listed, FirstOf
  <1>5. done \in SUBSET Mails /\ pos \in Nat /\ pos = task.pos + 1
    BY <1>1, <1>2, <1>3 DEF Task
  <1>6. status \in {"SUCCESS", "CANCELED"} /\ AfterLast(task) = "syncing"
    BY DEF AfterLast
  <1> HIDE DEF batch, done, pos, status
  <1>7. /\ next \in Task
        /\ next.kind = "xfer" /\ next.list = task.list /\ next.pos = task.pos
        /\ next.count = task.count /\ next.status = task.status
        /\ next.stage = "asked" /\ next.done = done /\ next.spared = {}
        /\ next.robbed = {} /\ next.single = task.single
    BY <1>1, <1>2, <1>3, <1>5 DEF Task
  <1> HIDE DEF next
  <1>8. CASE NotCanceled(task) /\ task.single /\ ~Finished(task)
    <2>1. /\ w \in Task
          /\ w.kind = "xfer" /\ w.list = task.list /\ w.pos = pos
          /\ w.count = task.count /\ w.status = task.status
          /\ w.stage = "asked" /\ w.done = done /\ w.spared = {} /\ w.robbed = {}
      BY <1>5, <1>7 DEF Task
    <2>2. Set(t, w)
      BY <1>1, <1>8
    <2> HIDE DEF w
    <2>3. pos \in 1..task.count /\ pos - 1 = task.pos
      BY <1>3, <1>5, <1>8 DEF Finished
    <2>4. TaskFits(w)
      BY <1>3, <1>4, <1>8, <2>1, <2>3
      DEF TaskFits, GetFits, PartsFit, XferFits, RemoveFits, OthersFit
    <2> QED
      BY <1>1, <2>1, <2>2, <2>4, OneTaskSteps DEF TasksFit
  <1>9. CASE ~(NotCanceled(task) /\ task.single /\ ~Finished(task))
    <2>1. /\ e \in Task
          /\ e.kind = "xfer" /\ e.list = task.list /\ e.status = status
          /\ e.stage = "syncing" /\ e.done = done /\ e.spared = {} /\ e.robbed = {}
      BY <1>6, <1>7 DEF Task
    <2>2. Set(t, e)
      BY <1>1, <1>9
    <2> HIDE DEF e
    <2>3. status = "SUCCESS" => FirstOf(task.list, Len(task.list)) \subseteq done
      <3>1. status = "SUCCESS" => NotCanceled(task)
        BY DEF status
      <3>2. Finished(task) => task.pos = Len(task.list)
        BY <1>3 DEF Finished
      <3> QED
        BY <1>2, <1>4, <1>9, <3>1, <3>2 DEF Task
    <2>4. TaskFits(e)
      BY <2>1, <2>3 DEF TaskFits, GetFits, PartsFit, XferFits, RemoveFits, OthersFit
    <2> QED
      BY <1>1, <2>1, <2>2, <2>4, OneTaskSteps DEF TasksFit
  <1> QED
    BY <1>8, <1>9

\* What failed or was canceled is not a success, whatever it had moved.
LEMMA XferBrokenFits ==
    ASSUME TasksFit, NEW t \in Tasks, XferBroken(t)
    PROVE  TasksFit'
  <1> DEFINE task == tasks[t]
             w(status) == [task EXCEPT !.stage = "syncing", !.status = status]
  <1>1. PICK status \in {"CANCELED", "FAILED"} : Set(t, w(status))
    BY DEF XferBroken
  <1>2. /\ task.kind = "xfer" /\ UNCHANGED <<owner, inSending>>
        /\ task \in Task /\ TaskFits(task)
    BY DEF XferBroken, TasksFit
  <1> HIDE DEF task
  <1>3. task.spared = {} /\ task.robbed = {}
    BY <1>2 DEF TaskFits, RemoveFits
  <1>4. /\ w(status) \in Task /\ w(status).kind = "xfer"
        /\ w(status).stage = "syncing" /\ w(status).status = status
        /\ w(status).spared = {} /\ w(status).robbed = {}
    BY <1>2, <1>3 DEF Task
  <1>5. TaskFits(w(status))
    <2> DEFINE v == w(status)
    <2>1. /\ v.kind = "xfer" /\ v.stage = "syncing" /\ v.status = status
          /\ v.spared = {} /\ v.robbed = {}
      BY <1>4
    <2> HIDE DEF v
    <2>2. TaskFits(v)
      BY <2>1 DEF TaskFits, GetFits, PartsFit, XferFits, RemoveFits, OthersFit
    <2> QED
      BY <2>2 DEF v
  <1> HIDE DEF w
  <1> QED
    BY <1>1, <1>2, <1>4, <1>5, OneTaskSteps DEF TasksFit

LEMMA XferSyncedFits ==
    ASSUME TasksFit, NEW t \in Tasks, XferSynced(t)
    PROVE  TasksFit'
  <1> DEFINE task == tasks[t]
             w == [task EXCEPT !.status = task.status, !.stage = "ended"]
  <1>1. /\ task.kind = "xfer" /\ task.stage = "syncing" /\ Set(t, w)
        /\ UNCHANGED <<owner, inSending>>
        /\ task \in Task /\ TaskFits(task)
    BY DEF XferSynced, TasksFit, Ended
  <1> HIDE DEF task
  <1>2. /\ w \in Task /\ w.kind = "xfer" /\ w.list = task.list
        /\ w.stage = "ended" /\ w.status = task.status /\ w.done = task.done
        /\ w.spared = task.spared /\ w.robbed = task.robbed
    BY <1>1 DEF Task
  <1> HIDE DEF w
  <1>3. TaskFits(w)
    BY <1>1, <1>2 DEF TaskFits, GetFits, PartsFit, XferFits, RemoveFits, OthersFit
  <1> QED
    BY <1>1, <1>2, <1>3, OneTaskSteps DEF TasksFit

\* What is being sent by the queue of the first message is spared.
LEMMA ToRemoveSpares ==
    ASSUME TasksFit, NEW list \in Seq(Mails), Len(list) \in Nat, list # <<>>
    PROVE  /\ ToRemove(list) \subseteq Listed(list)
           /\ Listed(list) \subseteq ToRemove(list) \union (Listed(list) \intersect inSending)
           /\ \A m \in ToRemove(list) \intersect inSending :
                \/ Listed(list) = Listed(list) \intersect inSending
                \/ owner[list[1]] \in {"none"} \union ({"q1", "q2"} \ {owner[m]})
  <1> DEFINE mine == owner[list[1]]
             kept == {m \in Listed(list) : ~(owner[m] = mine /\ m \in inSending)}
  <1>1. mine \in {"q1", "q2", "none"}
    <2>1. list[1] \in Mails
      BY EmptySeq
    <2> QED
      BY <2>1 DEF TasksFit
  <1>2. ToRemove(list) = IF mine = "none" \/ kept = {} THEN Listed(list) ELSE kept
    BY DEF ToRemove
  <1>3. CASE mine = "none"
    BY <1>2, <1>3
  <1>4. CASE mine # "none" /\ kept = {}
    <2>1. \A m \in Listed(list) : m \in inSending
      BY <1>4
    <2> HIDE DEF mine, kept
    <2> QED
      BY <1>2, <1>4, <2>1
  <1>5. CASE mine # "none" /\ kept # {}
    <2>1. \A m \in kept \intersect inSending : owner[m] # mine
      OBVIOUS
    <2>2. /\ kept \subseteq Listed(list)
          /\ Listed(list) \subseteq kept \union (Listed(list) \intersect inSending)
      OBVIOUS
    <2>3. ToRemove(list) = kept
      BY <1>2, <1>5
    <2> HIDE DEF kept
    <2> QED
      BY <1>1, <1>5, <2>1, <2>2, <2>3
  <1> QED
    BY <1>3, <1>4, <1>5

LEMMA RemoveMsgsFits ==
    ASSUME TasksFit, NEW t \in Tasks, NEW p \in Places, RemoveMsgs(t, p)
    PROVE  TasksFit'
  <1> DEFINE b(list) == Begun("remove", list, p)
             stuck(list) == [b(list) EXCEPT !.stage = "stuck", !.status = "INVALID"]
             all(list) == [b(list) EXCEPT !.done = Listed(list)]
             some(list) == [b(list) EXCEPT !.done = ToRemove(list),
                                          !.spared = Listed(list) \intersect inSending]
  <1>1. PICK list \in Selections(p) :
           /\ \/ Set(t, stuck(list))
              \/ list # <<>> /\ Set(t, all(list))
              \/ list # <<>> /\ Set(t, some(list))
           /\ UNCHANGED <<owner, inSending>>
    BY DEF RemoveMsgs
  <1> DEFINE every == Listed(list)
             sending == every \intersect inSending
             asked == ToRemove(list)
  <1>2. /\ list \in Seq(Mails) /\ Len(list) \in Nat /\ every \subseteq Mails
        /\ every = FirstOf(list, Len(list)) /\ sending \in SUBSET Mails
    BY SelectionType DEF FirstOf, Listed
  <1>3. /\ b(list) \in Task /\ b(list).kind = "remove" /\ b(list).list = list
        /\ b(list).stage = "asked" /\ b(list).done = {} /\ b(list).spared = {}
        /\ b(list).robbed = {}
    BY <1>2, BegunIs
  <1> HIDE DEF b
  <1>4. CASE Set(t, stuck(list))
    <2> DEFINE w == stuck(list)
    <2>1. /\ w \in Task /\ w.kind = "remove" /\ w.stage = "stuck"
          /\ w.done = {} /\ w.robbed = {}
      BY <1>3 DEF Task
    <2>2. Set(t, w)
      BY <1>4
    <2> HIDE DEF w
    <2>3. TaskFits(w)
      BY <2>1 DEF TaskFits, GetFits, PartsFit, XferFits, RemoveFits, OthersFit
    <2> QED
      BY <1>1, <2>1, <2>2, <2>3, OneTaskSteps DEF TasksFit
  <1>5. CASE Set(t, all(list))
    <2> DEFINE w == [b(list) EXCEPT !.done = every]
    <2>1. Set(t, w)
      BY <1>5
    <2> HIDE DEF every
    <2>2. /\ w \in Task /\ w.kind = "remove" /\ w.stage = "asked" /\ w.list = list
          /\ w.done = every /\ w.spared = {} /\ w.robbed = {}
      BY <1>2, <1>3 DEF Task
    <2> HIDE DEF w
    <2>3. TaskFits(w)
      BY <1>2, <2>2 DEF TaskFits, GetFits, PartsFit, XferFits, RemoveFits, OthersFit
    <2> QED
      BY <1>1, <2>1, <2>2, <2>3, OneTaskSteps DEF TasksFit
  <1>6. CASE list # <<>> /\ Set(t, some(list))
    <2> DEFINE w == [b(list) EXCEPT !.done = asked, !.spared = sending]
    <2>1. Set(t, w)
      BY <1>6
    <2>2. /\ asked \subseteq every /\ every \subseteq asked \union sending
          /\ \A m \in asked \intersect sending :
               \/ every = sending
               \/ owner[list[1]] \in {"none"} \union ({"q1", "q2"} \ {owner[m]})
      BY <1>2, <1>6, ToRemoveSpares
    <2>3. Listed(list) = every
      OBVIOUS
    <2> HIDE DEF every, sending, asked
    <2>4. /\ w \in Task /\ w.kind = "remove" /\ w.stage = "asked" /\ w.list = list
          /\ w.done = asked /\ w.spared = sending /\ w.robbed = {}
      BY <1>2, <1>3, <2>2 DEF Task
    <2> HIDE DEF w
    <2>5. TaskFits(w)
      BY <1>2, <2>2, <2>3, <2>4
      DEF TaskFits, GetFits, PartsFit, XferFits, RemoveFits, OthersFit
    <2> QED
      BY <1>1, <2>1, <2>4, <2>5, OneTaskSteps DEF TasksFit
  <1> QED
    BY <1>1, <1>4, <1>5, <1>6

LEMMA RemovedFits ==
    ASSUME TasksFit, NEW t \in Tasks, Removed(t)
    PROVE  TasksFit'
  <1> DEFINE task == tasks[t]
             robbed == IF task.src = "outbox" THEN task.done \intersect inSending ELSE {}
             w == [task EXCEPT !.stage = "syncing", !.cut = FALSE, !.robbed = robbed]
  <1>1. /\ task.kind = "remove" /\ task.stage = "asked" /\ Set(t, w)
        /\ UNCHANGED <<owner, inSending>>
        /\ task \in Task /\ TaskFits(task)
    BY DEF Removed, TasksFit
  <1> HIDE DEF task
  <1>2. robbed \subseteq task.done /\ robbed \in SUBSET Mails
    BY <1>1 DEF Task
  <1> HIDE DEF robbed
  <1>3. /\ w \in Task /\ w.kind = "remove" /\ w.list = task.list
        /\ w.stage = "syncing" /\ w.done = task.done
        /\ w.spared = task.spared /\ w.robbed = robbed
    BY <1>1, <1>2 DEF Task
  <1> HIDE DEF w
  <1>4. TaskFits(w)
    BY <1>1, <1>2, <1>3
    DEF TaskFits, GetFits, PartsFit, XferFits, RemoveFits, OthersFit
  <1> QED
    BY <1>1, <1>3, <1>4, OneTaskSteps DEF TasksFit

\* The end of a removal, a synchronisation or a refresh.
LEMMA EndFits ==
    ASSUME TasksFit, NEW t \in Tasks, NEW task \in Task, TaskFits(task),
           task.kind \in {"remove", "sync", "refresh"},
           task.stage \in {"asked", "syncing"},
           NEW status \in {"SUCCESS", "FAILED", "FINISHED_WITH_ERRORS", "CANCELED"},
           Set(t, Ended(task, status)), UNCHANGED <<owner, inSending>>
    PROVE  TasksFit'
  <1> DEFINE e == Ended(task, status)
  <1>1. /\ e \in Task /\ e.status = status /\ e.stage = "ended"
        /\ e.kind = task.kind /\ e.list = task.list
        /\ e.done = task.done /\ e.spared = task.spared
        /\ e.robbed = task.robbed
    BY EndedIs
  <1>2. Set(t, e)
    OBVIOUS
  <1> HIDE DEF e
  <1>3. TaskFits(e)
    BY <1>1 DEF TaskFits, GetFits, PartsFit, XferFits, RemoveFits, OthersFit
  <1> QED
    BY <1>1, <1>2, <1>3, OneTaskSteps DEF TasksFit

LEMMA EndingFits ==
    ASSUME TasksFit, NEW t \in Tasks, RemoveFails(t) \/ Synced(t) \/ Refreshed(t)
    PROVE  TasksFit'
  <1>1. tasks[t] \in Task /\ TaskFits(tasks[t])
    BY DEF TasksFit
  <1>2. /\ tasks[t].kind \in {"remove", "sync", "refresh"}
        /\ tasks[t].stage \in {"asked", "syncing"}
        /\ UNCHANGED <<owner, inSending>>
    BY DEF RemoveFails, Synced, Refreshed
  <1>3. PICK status \in {"SUCCESS", "FAILED", "FINISHED_WITH_ERRORS", "CANCELED"} :
           Set(t, Ended(tasks[t], status))
    BY DEF RemoveFails, Synced, Refreshed
  <1> QED
    BY <1>1, <1>2, <1>3, EndFits

\* A folder is synchronised or refreshed.
LEMMA FolderOpFits ==
    ASSUME TasksFit, NEW t \in Tasks, NEW p \in Places,
           SyncFolder(t, p) \/ RefreshFolder(t, p)
    PROVE  TasksFit'
  <1> DEFINE none == <<>>
  <1>0. none = <<>>
    OBVIOUS
  <1>1. none \in Seq(Mails)
    OBVIOUS
  <1>2. /\ SyncFolder(t, p) =>
             Set(t, [Begun("sync", none, p) EXCEPT !.stage = "syncing"])
        /\ RefreshFolder(t, p) =>
             \/ Set(t, Begun("refresh", none, p))
             \/ Set(t, Ended(Begun("refresh", none, p), "FAILED"))
    BY DEF SyncFolder, RefreshFolder
  <1> HIDE DEF none
  <1>3. ASSUME NEW kind \in {"sync", "refresh"},
               NEW stage \in {"asked", "syncing", "ended"},
               NEW status \in {"IN_PROGRESS", "FAILED"}
        PROVE  LET w == [Begun(kind, none, p) EXCEPT !.status = status,
                                                           !.stage = stage]
               IN  w \in Task /\ TaskFits(w)
    <2> DEFINE b == Begun(kind, none, p)
               w == [b EXCEPT !.status = status, !.stage = stage]
    <2>1. /\ b \in Task /\ b.kind = kind /\ b.list = none /\ b.spared = {}
          /\ b.robbed = {}
      BY <1>1, BegunIs
    <2> HIDE DEF b
    <2>2. /\ w \in Task /\ w.kind = kind /\ w.list = <<>> /\ w.spared = {}
          /\ w.robbed = {}
      BY <1>0, <2>1 DEF Task
    <2> HIDE DEF w
    <2>3. TaskFits(w)
      BY <2>2 DEF TaskFits, GetFits, PartsFit, XferFits, RemoveFits, OthersFit
    <2> QED
      BY <2>2, <2>3 DEF w, b
  <1>4. PICK kind \in {"sync", "refresh"}, stage \in {"asked", "syncing", "ended"},
             status \in {"IN_PROGRESS", "FAILED"} :
           Set(t, [Begun(kind, none, p) EXCEPT !.status = status,
                                                     !.stage = stage])
    <2>1. CASE SyncFolder(t, p)
      <3> DEFINE b == Begun("sync", none, p)
      <3>1. b \in Task /\ b.status = "IN_PROGRESS"
        BY <1>1, BegunIs
      <3>2. Set(t, [b EXCEPT !.stage = "syncing"])
        BY <1>2, <2>1
      <3> HIDE DEF b
      <3>3. [b EXCEPT !.stage = "syncing"] =
               [b EXCEPT !.status = "IN_PROGRESS", !.stage = "syncing"]
        BY <3>1 DEF Task
      <3>4. Set(t, [b EXCEPT !.status = "IN_PROGRESS", !.stage = "syncing"])
        BY <3>2, <3>3
      <3> QED
        BY <3>4 DEF b
    <2>2. CASE RefreshFolder(t, p) /\ Set(t, Begun("refresh", none, p))
      <3> DEFINE b == Begun("refresh", none, p)
      <3>1. b \in Task /\ b.status = "IN_PROGRESS" /\ b.stage = "asked"
        BY <1>1, BegunIs
      <3>2. Set(t, b)
        BY <2>2
      <3> HIDE DEF b
      <3>3. b = [b EXCEPT !.status = "IN_PROGRESS", !.stage = "asked"]
        BY <3>1 DEF Task
      <3>4. Set(t, [b EXCEPT !.status = "IN_PROGRESS", !.stage = "asked"])
        BY <3>2, <3>3
      <3> QED
        BY <3>4 DEF b
    <2>3. CASE Set(t, Ended(Begun("refresh", none, p), "FAILED"))
      BY <2>3 DEF Ended
    <2> QED
      BY <1>2, <2>1, <2>2, <2>3
  <1>5. UNCHANGED <<owner, inSending>>
    BY DEF SyncFolder, RefreshFolder
  <1> DEFINE w == [Begun(kind, none, p) EXCEPT !.status = status, !.stage = stage]
  <1>6. w \in Task /\ TaskFits(w) /\ Set(t, w)
    BY <1>3, <1>4
  <1> HIDE DEF w
  <1> QED
    BY <1>5, <1>6, OneTaskSteps DEF TasksFit

\* A cancellation reaches every operation of the account.
LEMMA CancelTaskFits ==
    ASSUME TasksFit, NEW t \in Tasks, CancelTask(t) \/ CanceledElsewhere(t)
    PROVE  TasksFit'
  <1>1. UNCHANGED <<owner, inSending>> /\ DOMAIN tasks = Tasks
    BY DEF CancelTask, CanceledElsewhere, TasksFit
  <1>2. ASSUME NEW u \in Tasks
        PROVE  tasks'[u] \in Task /\ TaskFits(tasks'[u])
    <2> DEFINE c == [tasks[u] EXCEPT !.cut = TRUE]
               d == [tasks[u] EXCEPT !.status = "CANCELED", !.cut = TRUE]
    <2>1. tasks[u] \in Task /\ TaskFits(tasks[u])
      BY DEF TasksFit
    <2>2. /\ c \in Task /\ TaskFits(c)
          /\ Goes(u) => d \in Task /\ TaskFits(d)
      BY <2>1, CancelingFits DEF Goes
    <2>3. \/ tasks'[u] = tasks[u]
          \/ tasks'[u] = c
          \/ Goes(u) /\ tasks'[u] = d
      <3>1. CASE CancelTask(t)
        BY <3>1 DEF CancelTask
      <3>2. CASE CanceledElsewhere(t)
        BY <1>1, <3>2 DEF CanceledElsewhere, Set
      <3> QED
        BY <3>1, <3>2
    <2> HIDE DEF c, d
    <2> QED
      BY <2>1, <2>2, <2>3
  <1>3. \A u \in Tasks : TaskFits(tasks[u])'
    BY <1>1, <1>2
    DEF TaskFits, GetFits, PartsFit, XferFits, RemoveFits, OthersFit, Listed, FirstOf
  <1>4. tasks' \in [Tasks -> Task]
    <2>1. tasks' = [u \in Tasks |-> tasks'[u]]
      BY <1>1 DEF CancelTask, CanceledElsewhere, Set
    <2> QED
      BY <1>2, <2>1
  <1> QED
    BY <1>1, <1>3, <1>4 DEF TasksFit

\* The operations are not touched otherwise.
LEMMA ElsewhereFits ==
    ASSUME TasksFit, UNCHANGED <<tasks, owner>>, inSending' \subseteq Mails
    PROVE  TasksFit'
  BY DEF TasksFit, TaskFits, GetFits, PartsFit, XferFits, RemoveFits, OthersFit,
         Listed, FirstOf

LEMMA TasksStep == TasksFit /\ [MessageOpsNext]_messageVars => TasksFit'
  <1> SUFFICES ASSUME TasksFit, [MessageOpsNext]_messageVars PROVE TasksFit'
    OBVIOUS
  <1>1. ASSUME NEW t \in Tasks, Answers(t) PROVE TasksFit'
    BY <1>1, GotMsgFits, GetFailsFits, GetCanceledFits, XferredFits,
       XferBrokenFits, XferSyncedFits, RemovedFits, EndingFits DEF Answers
  <1>2. ASSUME NEW t \in Tasks, CancelTask(t) \/ CanceledElsewhere(t)
        PROVE  TasksFit'
    BY <1>2, CancelTaskFits
  <1>3. ASSUME NEW t \in Tasks, SyncFolder(t, "inbox") \/ RefreshFolder(t, "inbox")
        PROVE  TasksFit'
    <2>1. "inbox" \in Places
      BY DEF Places
    <2> QED
      BY <1>3, <2>1, FolderOpFits
  <1>4. ASSUME NEW t \in Tasks, NEW p \in Places,
               GetMsgs(t, p) \/ GetMsgAndParts(t, p) \/ GetRefused(t, p)
               \/ RemoveMsgs(t, p)
        PROVE  TasksFit'
    BY <1>4, GetMsgsFits, GetMsgAndPartsFits, GetRefusedFits, RemoveMsgsFits
  <1>5. ASSUME NEW t \in Tasks, NEW p \in Places, NEW dest \in Places,
               NEW delete \in BOOLEAN,
               XferRefused(t, p, dest) \/ XferMsgs(t, p, dest, delete)
        PROVE  TasksFit'
    BY <1>5, XferRefusedFits, XferMsgsFits
  <1>6. ASSUME NEW m \in Mails, SendingOne(m) PROVE TasksFit'
    <2>1. inSending' \subseteq Mails /\ UNCHANGED <<tasks, owner>>
      BY <1>6 DEF SendingOne, TasksFit
    <2> QED
      BY <2>1, ElsewhereFits
  <1>7. ASSUME NEW m \in Mails, NEW p \in Places, ChangedElsewhere(m, p)
        PROVE  TasksFit'
    <2>1. inSending' \subseteq Mails /\ UNCHANGED <<tasks, owner>>
      BY <1>7 DEF ChangedElsewhere, TasksFit
    <2> QED
      BY <2>1, ElsewhereFits
  <1>8. CASE UNCHANGED messageVars
    <2>1. inSending' \subseteq Mails /\ UNCHANGED <<tasks, owner>>
      BY <1>8 DEF messageVars, TasksFit
    <2> QED
      BY <2>1, ElsewhereFits
  <1>9. TRUE \in BOOLEAN
    OBVIOUS
  <1> QED
    BY <1>1, <1>2, <1>3, <1>4, <1>5, <1>6, <1>7, <1>8, <1>9 DEF MessageOpsNext

\* The inductive invariant: what each operation was asked, has done and has
\* still to do.
THEOREM TasksInvariant == MessageOpsSpec => []TasksFit
  <1>1. MessageOpsInit => TasksFit
    BY NoTaskFits DEF MessageOpsInit, TasksFit
  <1> QED
    BY <1>1, TasksStep, PTL DEF MessageOpsSpec

\* For any selection and any number of operations, the callback of a retrieval
\* hears of the messages in the order of the list, and of all of them.
THEOREM HeardAll == MessageOpsSpec => []HeardInOrder
  <1>1. TasksFit => HeardInOrder
    <2> SUFFICES ASSUME TasksFit, NEW t \in Tasks, tasks[t].kind \in {"get", "parts"}
                 PROVE  LET task == tasks[t] IN
          /\ Len(task.heard) <= Len(task.list)
          /\ \A i \in 1..Len(task.heard) : task.heard[i] = task.list[i]
          /\ task.kind = "parts" /\ task.stage # "ended" => task.heard = <<>>
          /\ task.stage = "ended" /\ task.status \notin {"CANCELED", "FAILED"}
             => Len(task.heard) = Len(task.list)
      BY DEF HeardInOrder
    <2>1. tasks[t] \in Task /\ TaskFits(tasks[t])
      BY DEF TasksFit
    <2>2. CASE tasks[t].kind = "get"
      BY <2>1, <2>2 DEF TaskFits, GetFits
    <2>3. CASE tasks[t].kind = "parts"
      <3>1. CASE tasks[t].stage = "asked"
        <4>1. tasks[t].heard = <<>> /\ Len(tasks[t].list) = 1 /\ Len(tasks[t].heard) = 0
          BY <2>1, <2>3, <3>1 DEF TaskFits, PartsFit
        <4> QED
          BY <3>1, <4>1
      <3>2. CASE tasks[t].stage = "ended"
        BY <2>1, <2>3, <3>2 DEF TaskFits, PartsFit
      <3> QED
        BY <2>1, <2>3, <3>1, <3>2 DEF TaskFits, PartsFit
    <2> QED
      BY <2>2, <2>3
  <1> QED
    BY <1>1, TasksInvariant, PTL

\* An operation reports success only if every message of its list was
\* retrieved, moved or removed, or spared because it was being sent.
THEOREM SuccessDidAll == MessageOpsSpec => []SuccessIsTrue
  <1>1. TasksFit => SuccessIsTrue
    <2> SUFFICES ASSUME TasksFit, NEW t \in Tasks, tasks[t].stage = "ended",
                        tasks[t].status = "SUCCESS"
                 PROVE  Listed(tasks[t].list) \subseteq tasks[t].done \union tasks[t].spared
      BY DEF SuccessIsTrue
    <2> DEFINE task == tasks[t]
    <2>1. task \in Task /\ TaskFits(task) /\ task.stage = "ended" /\ task.status = "SUCCESS"
      BY DEF TasksFit
    <2> SUFFICES Listed(task.list) \subseteq task.done \union task.spared
      OBVIOUS
    <2> HIDE DEF task
    <2>2. CASE task.kind \in {"get", "xfer", "remove"}
      BY <2>1, <2>2 DEF TaskFits, GetFits, XferFits, RemoveFits, FirstOf, Listed
    <2>3. CASE task.kind = "parts"
      BY <2>1, <2>3 DEF TaskFits, PartsFit, Listed
    <2>4. CASE task.kind \in {"none", "sync", "refresh"}
      <3>1. task.list = <<>> /\ Len(task.list) = 0
        BY <2>1, <2>4 DEF TaskFits, OthersFit
      <3> QED
        BY <3>1 DEF Listed
    <2> QED
      BY <2>1, <2>2, <2>3, <2>4 DEF Task
  <1> QED
    BY <1>1, TasksInvariant, PTL

\* Whatever the selection and the queues, a message whose sending had begun is
\* not taken out of the outbox, but for the exceptions of the code.
THEOREM SendingSpared == MessageOpsSpec => []BeingSentIsSpared
  <1>1. TasksFit => BeingSentIsSpared
    <2> SUFFICES ASSUME TasksFit, NEW t \in Tasks,
                        NEW m \in tasks[t].robbed \intersect tasks[t].spared
                 PROVE  \/ Listed(tasks[t].list) = tasks[t].spared
                        \/ owner[tasks[t].list[1]]
                             \in {"none"} \union ({"q1", "q2"} \ {owner[m]})
      BY DEF BeingSentIsSpared
    <2>1. RemoveFits(tasks[t])
      BY DEF TasksFit, TaskFits
    <2> QED
      BY <2>1 DEF RemoveFits
  <1> QED
    BY <1>1, TasksInvariant, PTL

-----------------------------------------------------------------------------
(* The requests of D-Bus.                                                  *)

(* The calls tinymail has to answer, each container's numbered: there are   *)
(* as many as the counters of the helpers say.                              *)
Tokens(calls) == UNION { {c} \X (1..calls[c]) : c \in Containers }

RemoteAccounts == Accounts \ {LocalAccount}
Plain  == RemoteAccounts \ Multi
InPlain == UNION { Under[a] : a \in Plain }

SearchTyped ==
    /\ search \in SearchHelper
    /\ listing["search"] \in [Containers -> Nat]
    /\ reading["search"] \in TnyFolders \union {NoFolder}
    /\ seen["search"] \subseteq TnyFolders
    /\ DOMAIN listing = Helpers /\ DOMAIN reading = Helpers /\ DOMAIN seen = Helpers

(* Before the request nothing is found or waited for; a running search      *)
(* counts the listings that are out, and reads the first of its folders     *)
(* when there are none; what was listed and is not read yet is in its list. *)
SearchInv ==
    /\ SearchTyped
    /\ NothingLeft("search", search.stage)
    /\ search.stage = "free" => seen["search"] = {} /\ search.folders = <<>>
    /\ search.stage = "alive" =>
         search.pending = Cardinality(Tokens(listing["search"]))
    /\ reading["search"] # NoFolder =>
         /\ listing["search"] = NoListing
         /\ search.folders # <<>> /\ Head(search.folders) = reading["search"]
    /\ seen["search"] \intersect search.wanted \subseteq
         search.hits \union lost \union
           (IF search.stage = "alive" THEN Range(search.folders) ELSE {})

UnreadTyped ==
    /\ unread \in GetUnreadMessagesHelper
    /\ listing["unread"] \in [Containers -> Nat]
    /\ reading["unread"] \in TnyFolders \union {NoFolder}
    /\ retry \in TnyFolders \union {NoFolder}
    /\ seen["unread"] \subseteq TnyFolders
    /\ DOMAIN listing = Helpers /\ DOMAIN reading = Helpers /\ DOMAIN seen = Helpers

(* Of the accounts left none is reported, of the others each once.          *)
Reported(h) ==
    /\ IsInjective(h.accounts)
    /\ Range(h.accounts) \subseteq RemoteAccounts
    /\ \A i \in DOMAIN h.hits :
         /\ h.hits[i].account \in RemoteAccounts \ Range(h.accounts)
         /\ IsInjective(h.hits[i].counted)
         /\ h.hits[i].account \in Plain =>
              Range(h.hits[i].counted) \subseteq Under[h.hits[i].account]
    /\ \A i, j \in DOMAIN h.hits :
         h.hits[i].account = h.hits[j].account => i = j
    /\ \A a \in RemoteAccounts \ Range(h.accounts) :
         \E i \in DOMAIN h.hits : h.hits[i].account = a

(* The inboxes counted in multi-mailbox accounts.                           *)
Counted(h) ==
    UNION { Range(h.hits[i].counted) :
              i \in {k \in DOMAIN h.hits : h.hits[k].account \in Multi} }

(* In an account of another protocol it waits for the folders, or for the   *)
(* headers of one folder in it, or for the time to try again.               *)
InPlainAccount(a, h, calls, f, again) ==
    /\ h.inboxes = <<>>
    /\ \/ calls = [NoListing EXCEPT ![a] = 1] /\ f = NoFolder /\ again = NoFolder
       \/ calls = NoListing /\ f \in Under[a] /\ again = NoFolder
       \/ calls = NoListing /\ f = NoFolder /\ again \in Under[a]

(* In a multi-mailbox account it waits for the listings it counts, of the   *)
(* account and of folders, and keeps each inbox once.                       *)
InMultiAccount(a, h, calls, f, again) ==
    /\ f = NoFolder /\ again = NoFolder
    /\ h.total = h.done + Cardinality(Tokens(calls)) /\ calls # NoListing
    /\ \A c \in Accounts \ {a} : calls[c] = 0
    /\ IsInjective(h.inboxes) /\ Range(h.inboxes) \subseteq Inboxes

(* A request under way is at the first of the accounts left.                *)
AtAccount(h, calls, f, again) ==
    /\ h.accounts # <<>>
    /\ IF Head(h.accounts) \in Multi
       THEN InMultiAccount(Head(h.accounts), h, calls, f, again)
       ELSE InPlainAccount(Head(h.accounts), h, calls, f, again)

(* Of the inboxes listed it has counted, or keeps, those in multi-mailbox    *)
(* accounts.                                                                *)
Reporting(h, calls, f, again, listed) ==
    /\ h \in GetUnreadMessagesHelper /\ Reported(h)
    /\ \/ /\ h.stage = "alive" /\ AtAccount(h, calls, f, again)
          /\ Counted(h) \union Range(h.inboxes) = (listed \intersect Inboxes) \ InPlain
       \/ /\ h.stage = "answered" /\ h.accounts = <<>>
          /\ calls = NoListing /\ f = NoFolder /\ again = NoFolder
          /\ Counted(h) = (listed \intersect Inboxes) \ InPlain

UnreadInv ==
    /\ UnreadTyped
    /\ \/ /\ unread.stage \in {"free", "asked"}
          /\ listing["unread"] = NoListing /\ reading["unread"] = NoFolder
          /\ retry = NoFolder /\ seen["unread"] = {} /\ unread.hits = <<>>
       \/ Reporting(unread, listing["unread"], reading["unread"], retry,
                    seen["unread"])

DBusInv == SearchInv /\ UnreadInv

-----------------------------------------------------------------------------
(* Counting calls.                                                         *)

LEMMA AccountsFinite == IsFiniteSet(Accounts) /\ IsFiniteSet(Containers)
<1>1. /\ StoreAccounts \in [1..Len(StoreAccounts) -> Accounts]
      /\ Len(StoreAccounts) \in Nat
  BY DBusAssumption, LenProperties
<1>2. StoreAccounts \in Surjection(1..Len(StoreAccounts), Accounts)
  BY <1>1 DEF Surjection, Accounts, Range
<1>3. IsFiniteSet(1..Len(StoreAccounts))
  BY <1>1, FS_Interval
<1>4. IsFiniteSet(Accounts)
  BY <1>2, <1>3, FS_Surjection
<1> QED
  BY <1>4, DBusAssumption, FS_Union DEF Containers

LEMMA TokenOf ==
  ASSUME NEW calls, NEW c, NEW k
  PROVE  <<c, k>> \in Tokens(calls) <=> c \in Containers /\ k \in 1..calls[c]
BY DEF Tokens

LEMMA TokenIsPair ==
  ASSUME NEW calls, NEW t \in Tokens(calls)
  PROVE  \E c \in Containers : \E k \in 1..calls[c] : t = <<c, k>>
BY DEF Tokens

LEMMA TokensFinite ==
  ASSUME NEW calls \in [Containers -> Nat]
  PROVE  IsFiniteSet(Tokens(calls)) /\ Cardinality(Tokens(calls)) \in Nat
<1> DEFINE of == [c \in Containers |-> {c} \X (1..calls[c])]
           all == { {c} \X (1..calls[c]) : c \in Containers }
<1>1. of \in Surjection(Containers, all)
  BY DEF Surjection
<1>2. IsFiniteSet(all)
  BY <1>1, AccountsFinite, FS_Surjection
<1>3. ASSUME NEW c \in Containers PROVE IsFiniteSet({c} \X (1..calls[c]))
  <2>1. calls[c] \in Int
    OBVIOUS
  <2>2. IsFiniteSet(1..calls[c])
    BY <2>1, FS_Interval
  <2> QED
    BY <2>2, FS_Singleton, FS_Product
<1>4. IsFiniteSet(UNION all)
  BY <1>2, <1>3, FS_UNION
<1>5. IsFiniteSet(Tokens(calls))
  BY <1>4 DEF Tokens
<1> QED
  BY <1>5, FS_CardinalityType

(* No call is out if the count is zero.                                     *)
LEMMA TokensNone ==
  ASSUME NEW calls \in [Containers -> Nat]
  PROVE  Cardinality(Tokens(calls)) = 0 <=> calls = NoListing
<1>1. Cardinality(Tokens(calls)) = 0 <=> Tokens(calls) = {}
  BY TokensFinite, FS_EmptySet
<1>2. ASSUME Tokens(calls) = {} PROVE calls = NoListing
  <2>1. ASSUME NEW c \in Containers PROVE calls[c] = 0
    <3>1. <<c, 1>> \notin Tokens(calls)
      BY <1>2
    <3>2. calls[c] \in Nat /\ 1 \notin 1..calls[c]
      BY <3>1, TokenOf
    <3> QED
      BY <3>2
  <2> QED
    BY <2>1 DEF NoListing
<1>3. ASSUME calls = NoListing PROVE Tokens(calls) = {}
  <2>1. ASSUME NEW t \in Tokens(calls) PROVE FALSE
    <3>1. PICK c \in Containers : \E k \in 1..calls[c] : t = <<c, k>>
      BY <2>1, TokenIsPair
    <3>2. calls[c] = 0
      BY <1>3 DEF NoListing
    <3> QED
      BY <3>1, <3>2
  <2> QED
    BY <2>1
<1> QED
  BY <1>1, <1>2, <1>3

(* An answer takes one call.                                                *)
LEMMA TokenTaken ==
  ASSUME NEW calls \in [Containers -> Nat], NEW c \in Containers, calls[c] > 0
  PROVE  /\ Answered(calls, c) \in [Containers -> Nat]
         /\ Cardinality(Tokens(Answered(calls, c)))
              = Cardinality(Tokens(calls)) - 1
<1> DEFINE after == Answered(calls, c)
<1>1. /\ after \in [Containers -> Nat]
      /\ \A d \in Containers : after[d] = IF d = c THEN calls[c] - 1 ELSE calls[d]
  BY DEF Answered
<1> HIDE DEF after
<1>2. <<c, calls[c]>> \in Tokens(calls)
  <2>1. calls[c] \in 1..calls[c]
    OBVIOUS
  <2> QED
    BY <2>1, TokenOf
<1>3. ASSUME NEW d, NEW k
      PROVE  <<d, k>> \in Tokens(after)
               <=> <<d, k>> \in Tokens(calls) /\ <<d, k>> # <<c, calls[c]>>
  <2>1. CASE d \in Containers /\ d = c
    <3>1. k \in 1..calls[c]-1 <=> k \in 1..calls[c] /\ k # calls[c]
      OBVIOUS
    <3> QED
      BY <2>1, <3>1, <1>1, TokenOf
  <2>2. CASE d \in Containers /\ d # c
    BY <2>2, <1>1, TokenOf
  <2>3. CASE d \notin Containers
    BY <2>3, TokenOf
  <2> QED
    BY <2>1, <2>2, <2>3
<1>4. Tokens(after) = Tokens(calls) \ {<<c, calls[c]>>}
  <2>1. \A t \in Tokens(after) : t \in Tokens(calls) /\ t # <<c, calls[c]>>
    BY <1>3, TokenIsPair
  <2>2. \A t \in Tokens(calls) : t # <<c, calls[c]>> => t \in Tokens(after)
    BY <1>3, TokenIsPair
  <2> QED
    BY <2>1, <2>2
<1>5. Cardinality(Tokens(after)) = Cardinality(Tokens(calls)) - 1
  BY <1>2, <1>4, TokensFinite, FS_RemoveElement
<1> QED
  BY <1>1, <1>5 DEF after

(* One more position asked for is one more call.                            *)
LEMMA OneMoreAsked ==
  ASSUME NEW calls \in [Containers -> Nat], NEW cs \in Seq(Containers),
         NEW at \in SUBSET DOMAIN cs, NEW i \in at
  PROVE  /\ AskAll(calls, cs, at) \in [Containers -> Nat]
         /\ AskAll(calls, cs, at \ {i}) \in [Containers -> Nat]
         /\ Cardinality(Tokens(AskAll(calls, cs, at)))
              = Cardinality(Tokens(AskAll(calls, cs, at \ {i}))) + 1
<1>1. DOMAIN cs = 1..Len(cs) /\ Len(cs) \in Nat /\ cs[i] \in Containers
  BY LenProperties
<1>2. IsFiniteSet(DOMAIN cs)
  BY <1>1, FS_Interval
<1> DEFINE here(s, c) == {j \in s : cs[j] = c}
<1>3. ASSUME NEW s \in SUBSET DOMAIN cs, NEW c
      PROVE  IsFiniteSet(here(s, c)) /\ Cardinality(here(s, c)) \in Nat
  <2>1. here(s, c) \in SUBSET DOMAIN cs
    OBVIOUS
  <2>2. IsFiniteSet(here(s, c))
    BY <1>2, <2>1, FS_Subset
  <2> QED
    BY <2>2, FS_CardinalityType
<1>4. ASSUME NEW s \in SUBSET DOMAIN cs
      PROVE  /\ AskAll(calls, cs, s) \in [Containers -> Nat]
             /\ \A c \in Containers :
                  AskAll(calls, cs, s)[c] = calls[c] + Cardinality(here(s, c))
  <2>1. AskAll(calls, cs, s)
          = [c \in Containers |-> calls[c] + Cardinality(here(s, c))]
    BY DEF AskAll
  <2> HIDE DEF here
  <2> QED
    BY <1>3, <2>1
<1> DEFINE all  == AskAll(calls, cs, at)
           less == AskAll(calls, cs, at \ {i})
<1>5. at \ {i} \in SUBSET DOMAIN cs
  OBVIOUS
<1>6. all \in [Containers -> Nat] /\ less \in [Containers -> Nat]
  BY <1>4, <1>5
<1>7. ASSUME NEW c \in Containers, c # cs[i] PROVE less[c] = all[c]
  <2>1. here(at \ {i}, c) = here(at, c)
    BY <1>7
  <2> HIDE DEF here
  <2> QED
    BY <1>4, <1>5, <2>1
<1>8. less[cs[i]] = all[cs[i]] - 1
  <2>1. here(at \ {i}, cs[i]) = here(at, cs[i]) \ {i}
    OBVIOUS
  <2>2. i \in here(at, cs[i]) /\ IsFiniteSet(here(at, cs[i]))
    BY <1>3
  <2> HIDE DEF here
  <2>3. Cardinality(here(at, cs[i]) \ {i}) = Cardinality(here(at, cs[i])) - 1
    BY <2>2, FS_RemoveElement
  <2>4. calls[cs[i]] \in Nat /\ Cardinality(here(at, cs[i])) \in Nat
    BY <1>1, <1>3
  <2>5. less[cs[i]] = calls[cs[i]] + Cardinality(here(at \ {i}, cs[i]))
    BY <1>1, <1>4, <1>5
  <2>6. all[cs[i]] = calls[cs[i]] + Cardinality(here(at, cs[i]))
    BY <1>1, <1>4
  <2>7. Cardinality(here(at \ {i}, cs[i])) = Cardinality(here(at, cs[i])) - 1
    BY <2>1, <2>3
  <2> HIDE DEF all, less
  <2> QED
    BY <2>4, <2>5, <2>6, <2>7
<1> HIDE DEF all, less
<1>9. less = Answered(all, cs[i])
  BY <1>6, <1>7, <1>8 DEF Answered
<1>10. all[cs[i]] > 0
  BY <1>1, <1>6, <1>8
<1>11. Cardinality(Tokens(less)) = Cardinality(Tokens(all)) - 1
  BY <1>1, <1>6, <1>9, <1>10, TokenTaken
<1>12. Cardinality(Tokens(all)) \in Nat /\ Cardinality(Tokens(less)) \in Nat
  BY <1>6, TokensFinite
<1>13. Cardinality(Tokens(all)) = Cardinality(Tokens(less)) + 1
  BY <1>11, <1>12
<1> QED
  BY <1>6, <1>13 DEF all, less

(* Each position asked for is one call: a smallest set of positions of which *)
(* that is not true would have one with one position less.                   *)
LEMMA TokensAsked ==
  ASSUME NEW calls \in [Containers -> Nat], NEW cs \in Seq(Containers),
         NEW at \in SUBSET DOMAIN cs
  PROVE  /\ AskAll(calls, cs, at) \in [Containers -> Nat]
         /\ Cardinality(at) \in Nat
         /\ Cardinality(Tokens(AskAll(calls, cs, at)))
              = Cardinality(Tokens(calls)) + Cardinality(at)
<1>1. DOMAIN cs = 1..Len(cs) /\ Len(cs) \in Nat
  BY LenProperties
<1>2. IsFiniteSet(DOMAIN cs)
  BY <1>1, FS_Interval
<1>3. ASSUME NEW s \in SUBSET DOMAIN cs
      PROVE  IsFiniteSet(s) /\ Cardinality(s) \in Nat
  BY <1>2, FS_Subset, FS_CardinalityType
<1> DEFINE Right(s) == Cardinality(Tokens(AskAll(calls, cs, s)))
                         = Cardinality(Tokens(calls)) + Cardinality(s)
           wrong == {n \in Nat : \E s \in SUBSET DOMAIN cs :
                                   Cardinality(s) = n /\ ~Right(s)}
<1>4. /\ AskAll(calls, cs, {}) = calls
      /\ Right({})
  <2>1. ASSUME NEW c \in Containers
        PROVE  Cardinality({i \in {} : cs[i] = c}) = 0
    <3>1. {i \in {} : cs[i] = c} = {}
      OBVIOUS
    <3> QED
      BY <3>1, FS_EmptySet
  <2>2. AskAll(calls, cs, {}) = calls
    BY <2>1 DEF AskAll
  <2>3. Cardinality(Tokens(calls)) \in Nat /\ Cardinality({}) = 0
    BY TokensFinite, FS_EmptySet
  <2> QED
    BY <2>2, <2>3
<1>5. ASSUME wrong # {} PROVE FALSE
  <2>1. Min(wrong) \in wrong /\ \A n \in wrong : Min(wrong) <= n
    BY <1>5, MinInSet
  <2>2. PICK s \in SUBSET DOMAIN cs : Cardinality(s) = Min(wrong) /\ ~Right(s)
    BY <2>1
  <2>3. PICK i : i \in s
    BY <1>4, <2>2
  <2>4. s \ {i} \in SUBSET DOMAIN cs /\ Cardinality(s) \in Nat
    BY <1>3
  <2>5. Cardinality(s \ {i}) = Cardinality(s) - 1
    BY <1>3, <2>3, FS_RemoveElement
  <2>6. Right(s \ {i})
    <3>1. Cardinality(s \ {i}) \in Nat
      BY <1>3, <2>4
    <3>2. ~ (Min(wrong) <= Cardinality(s \ {i}))
      BY <2>2, <2>4, <2>5
    <3>3. Cardinality(s \ {i}) \notin wrong
      BY <2>1, <3>2
    <3> QED
      BY <2>4, <3>1, <3>3
  <2>7. Cardinality(Tokens(AskAll(calls, cs, s)))
          = Cardinality(Tokens(AskAll(calls, cs, s \ {i}))) + 1
    BY <2>3, OneMoreAsked
  <2>8. Cardinality(Tokens(calls)) \in Nat
    BY TokensFinite
  <2> QED
    BY <2>2, <2>4, <2>5, <2>6, <2>7, <2>8
<1>6. Right(at) /\ Cardinality(at) \in Nat
  BY <1>3, <1>5
<1>7. AskAll(calls, cs, at) \in [Containers -> Nat]
  BY <1>4, OneMoreAsked
<1> QED
  BY <1>6, <1>7

-----------------------------------------------------------------------------
(* The answers of tinymail.                                                *)

LEMMA AnswerIn ==
  ASSUME NEW c \in Containers, NEW fs \in FoldersIn(c)
  PROVE  /\ fs \in Seq(TnyFolders) /\ fs \in Seq(Containers)
         /\ Range(fs) \subseteq Under[c]
         /\ StoresAt(fs) \in SUBSET DOMAIN fs
<1>1. Under[c] \subseteq TnyFolders /\ TnyFolders \subseteq Containers
  BY DBusAssumption DEF Containers
<1>2. Cardinality(Under[c]) \in Nat
  BY <1>1, DBusAssumption, FS_Subset, FS_CardinalityType
<1>3. SetToSeqs(Under[c]) \subseteq Seq(Under[c])
  BY <1>2 DEF SetToSeqs
<1>4. fs \in Seq(Under[c])
  <2>1. CASE fs \in SetToSeqs(Under[c])
    BY <2>1, <1>3
  <2>2. CASE fs = <<>>
    BY <2>2
  <2>3. CASE \E once \in SetToSeqs(Under[c]) : fs = once \o once
    BY <2>3, <1>3, ConcatProperties
  <2> QED
    BY <2>1, <2>2, <2>3 DEF FoldersIn
<1>5. fs \in Seq(TnyFolders) /\ fs \in Seq(Containers)
  BY <1>1, <1>4, SeqMonotonic
<1>6. Range(fs) \subseteq Under[c]
  BY <1>4, LenProperties DEF Range
<1> QED
  BY <1>5, <1>6 DEF StoresAt

(* The first element that is in a set, if there is one.                     *)
LEMMA FirstOfSeq ==
  ASSUME NEW S, NEW s \in Seq(S), NEW W,
         NEW i, i = SelectInSeq(s, LAMBDA e : e \in W)
  PROVE  \/ i = 0 /\ Range(s) \intersect W = {}
         \/ i \in 1..Len(s) /\ s[i] \in W /\ \A j \in 1..i-1 : s[j] \notin W
<1>1. Len(s) \in Nat /\ DOMAIN s = 1..Len(s)
  BY LenProperties
<1> DEFINE at == {k \in 1..Len(s) : s[k] \in W}
<1>2. i = IF at # {} THEN Min(at) ELSE 0
  BY DEF SelectInSeq
<1>3. CASE at = {}
  BY <1>1, <1>2, <1>3 DEF Range
<1>4. CASE at # {}
  <2>1. at \in SUBSET Nat
    BY <1>1
  <2>2. Min(at) \in at /\ \A n \in at : Min(at) <= n
    BY <1>4, <2>1, MinInSet
  <2>3. i \in at /\ \A n \in at : i <= n
    BY <1>2, <1>4, <2>2
  <2>4. ASSUME NEW j \in 1..i-1 PROVE s[j] \notin W
    <3>1. j \in 1..Len(s) /\ ~(i <= j)
      BY <1>1, <2>3
    <3> QED
      BY <2>3, <3>1
  <2> QED
    BY <2>3, <2>4
<1> QED
  BY <1>3, <1>4

-----------------------------------------------------------------------------
(* Searching.                                                              *)

(* Going on with the folders of a list: the first of those left is one that *)
(* is wanted, and those left out are not.                                   *)
LEMMA SearchGoesOn ==
  ASSUME NEW h \in SearchHelper, h.stage = "alive", NEW fs \in Seq(TnyFolders),
         DOMAIN reading = Helpers, SearchFrom(h, fs)
  PROVE  /\ search' \in SearchHelper
         /\ search'.wanted = h.wanted /\ search'.hits = h.hits
         /\ search'.pending = h.pending
         /\ DOMAIN reading' = Helpers
         /\ \/ /\ search'.stage = "answered" /\ reading'["search"] = NoFolder
               /\ Range(fs) \intersect h.wanted = {}
            \/ /\ search'.stage = "alive" /\ search'.folders # <<>>
               /\ reading'["search"] \in TnyFolders
               /\ Head(search'.folders) = reading'["search"]
               /\ Range(fs) \intersect h.wanted \subseteq Range(search'.folders)
<1> DEFINE i == SelectInSeq(fs, LAMBDA f : f \in h.wanted)
<1>0. Len(fs) \in Nat /\ DOMAIN fs = 1..Len(fs) /\ \A k \in 1..Len(fs) : fs[k] \in TnyFolders
  BY LenProperties
<1>1. \/ i = 0 /\ Range(fs) \intersect h.wanted = {}
      \/ i \in 1..Len(fs) /\ fs[i] \in h.wanted /\ \A j \in 1..i-1 : fs[j] \notin h.wanted
  <2> HIDE DEF i
  <2> QED
    BY FirstOfSeq DEF i
<1>2. IF i = 0
      THEN /\ search' = [h EXCEPT !.folders = <<>>, !.stage = "answered"]
           /\ reading' = [reading EXCEPT !["search"] = NoFolder]
      ELSE /\ search' = [h EXCEPT !.folders = SubSeq(fs, i, Len(fs))]
           /\ reading' = [reading EXCEPT !["search"] = fs[i]]
  BY DEF SearchFrom
<1> HIDE DEF i
<1>3. CASE i = 0
  <2>1. /\ search' = [h EXCEPT !.folders = <<>>, !.stage = "answered"]
        /\ reading' = [reading EXCEPT !["search"] = NoFolder]
        /\ Range(fs) \intersect h.wanted = {}
    BY <1>1, <1>2, <1>3
  <2>2. /\ search' \in SearchHelper /\ search'.stage = "answered"
        /\ search'.wanted = h.wanted /\ search'.hits = h.hits
        /\ search'.pending = h.pending
    <3>1. <<>> \in Seq(TnyFolders) /\ "answered" \in HelperStages
      BY EmptySeq DEF HelperStages
    <3> QED
      BY <2>1, <3>1 DEF SearchHelper
  <2>3. reading'["search"] = NoFolder /\ DOMAIN reading' = Helpers
    BY <2>1 DEF Helpers
  <2> QED
    BY <2>1, <2>2, <2>3
<1>4. CASE i # 0
  <2>1. /\ i \in 1..Len(fs) /\ fs[i] \in h.wanted
        /\ \A j \in 1..i-1 : fs[j] \notin h.wanted
    BY <1>1, <1>4
  <2> DEFINE rest == SubSeq(fs, i, Len(fs))
  <2>2. /\ rest \in Seq(TnyFolders) /\ Len(rest) = Len(fs) - i + 1
        /\ \A k \in 1..Len(fs)-i+1 : rest[k] = fs[i+k-1]
    <3>1. i \in Int /\ Len(fs) \in Int /\ i <= Len(fs)
      BY <1>0, <2>1
    <3>2. \A k \in i..Len(fs) : fs[k] \in TnyFolders
      BY <1>0, <2>1
    <3> QED
      BY <3>1, <3>2, SubSeqProperties
  <2> HIDE DEF rest
  <2>3. rest # <<>> /\ Head(rest) = fs[i] /\ DOMAIN rest = 1..Len(fs)-i+1
    <3>1. Len(rest) >= 1 /\ rest[1] = fs[i]
      BY <1>0, <2>1, <2>2
    <3> QED
      BY <2>2, <3>1, LenProperties
  <2>4. Range(fs) \intersect h.wanted \subseteq Range(rest)
    <3> SUFFICES ASSUME NEW k \in 1..Len(fs), fs[k] \in h.wanted
                 PROVE  fs[k] \in Range(rest)
      BY <1>0 DEF Range
    <3>1. ~(k \in 1..i-1)
      BY <2>1
    <3>2. k-i+1 \in 1..Len(fs)-i+1 /\ i+(k-i+1)-1 = k
      BY <1>0, <2>1, <3>1
    <3>3. rest[k-i+1] = fs[k]
      BY <2>2, <3>2
    <3> QED
      BY <2>3, <3>2, <3>3 DEF Range
  <2>5. /\ search' = [h EXCEPT !.folders = rest]
        /\ reading' = [reading EXCEPT !["search"] = fs[i]]
    BY <1>2, <1>4 DEF rest
  <2>6. search' \in SearchHelper /\ search'.folders = rest
    BY <2>2, <2>5 DEF SearchHelper
  <2>7. /\ search'.wanted = h.wanted /\ search'.hits = h.hits
        /\ search'.pending = h.pending /\ search'.stage = "alive"
    BY <2>5 DEF SearchHelper
  <2>8. reading'["search"] = fs[i] /\ DOMAIN reading' = Helpers /\ fs[i] \in TnyFolders
    BY <1>0, <2>1, <2>5 DEF Helpers
  <2> QED
    BY <2>3, <2>4, <2>6, <2>7, <2>8
<1> QED
  BY <1>3, <1>4

LEMMA SearchInit == DBusInit => SearchInv
<1> SUFFICES ASSUME DBusInit PROVE SearchInv
  OBVIOUS
<1>1. SearchTyped
  BY EmptySeq DEF DBusInit, SearchTyped, SearchHelper, HelperStages, Helpers,
     NoListing
<1>2. /\ search.stage = "free" /\ listing["search"] = NoListing
      /\ reading["search"] = NoFolder /\ seen["search"] = {}
      /\ search.folders = <<>>
  BY DEF DBusInit, Helpers
<1> QED
  BY <1>1, <1>2 DEF SearchInv, NothingLeft

(* What the other request does leaves the search alone.                     *)
LEMMA SearchUntouched ==
  ASSUME SearchInv, UNCHANGED <<search, lost>>,
         listing'["search"] = listing["search"], DOMAIN listing' = Helpers,
         reading'["search"] = reading["search"], DOMAIN reading' = Helpers,
         seen'["search"] = seen["search"], DOMAIN seen' = Helpers
  PROVE  SearchInv'
BY DEF SearchInv, SearchTyped, NothingLeft

LEMMA SearchStarts ==
  ASSUME SearchInv, NEW wanted \in Criteria, Search(wanted)
  PROVE  SearchInv'
<1> USE DEF Helpers
<1>1. /\ search.stage = "free" /\ search \in SearchHelper
      /\ listing["search"] = NoListing /\ reading["search"] = NoFolder
      /\ seen["search"] = {}
  BY DEF Search, SearchInv, NothingLeft, SearchTyped
<1>2. NoListing \in [Containers -> Nat]
  BY DEF NoListing
<1>3. StoreAccounts \in Seq(Containers)
  BY DBusAssumption, SeqMonotonic DEF Containers
<1>4. DOMAIN StoreAccounts = 1..Len(StoreAccounts) /\ Len(StoreAccounts) \in Nat
  BY <1>3, LenProperties
<1> DEFINE calls == AskAll(NoListing, StoreAccounts, DOMAIN StoreAccounts)
<1>5. /\ calls \in [Containers -> Nat]
      /\ Cardinality(Tokens(calls)) = Len(StoreAccounts)
  <2>1. Cardinality(DOMAIN StoreAccounts) = Len(StoreAccounts)
    <3> DEFINE n == Len(StoreAccounts)
    <3>1. n \in Nat /\ DOMAIN StoreAccounts = 1..n
      BY <1>4
    <3> HIDE DEF n
    <3>2. Cardinality(1..n) = n
      BY <3>1, FS_Interval
    <3> QED
      BY <3>1, <3>2 DEF n
  <2>2. Cardinality(Tokens(NoListing)) = 0
    BY <1>2, TokensNone
  <2> QED
    BY <1>2, <1>3, <1>4, <2>1, <2>2, TokensAsked
<1> HIDE DEF calls
<1>6. wanted \in SUBSET TnyFolders
  BY DEF Criteria
<1>7. /\ search' \in SearchHelper /\ search'.stage = "alive"
      /\ search'.pending = Len(StoreAccounts)
  BY <1>1, <1>4, <1>6 DEF Search, SearchHelper, HelperStages
<1>8. /\ listing'["search"] = calls /\ DOMAIN listing' = Helpers
      /\ reading'["search"] = NoFolder /\ seen'["search"] = {}
      /\ UNCHANGED <<reading, seen>>
  BY <1>1 DEF Search, SearchInv, SearchTyped, calls
<1> QED
  BY <1>5, <1>7, <1>8 DEF SearchInv, SearchTyped, NothingLeft

LEMMA SearchListedStep ==
  ASSUME SearchInv, NEW c \in Containers, NEW fs \in FoldersIn(c),
         SearchListed(c, fs)
  PROVE  SearchInv'
<1> USE DEF Helpers
<1> DEFINE calls == AskAll(Answered(listing["search"], c), fs, StoresAt(fs))
           n     == PendingAfter(search, fs)
           all   == search.folders \o fs
           next  == [search EXCEPT !.pending = n, !.folders = all]
<1>1. SearchTyped /\ listing["search"][c] > 0
  BY DEF SearchInv, SearchListed
<1>2. /\ search.stage = "alive" /\ reading["search"] = NoFolder
      /\ search.pending = Cardinality(Tokens(listing["search"]))
  BY <1>1 DEF SearchInv, NothingLeft, NoListing
<1>3. /\ fs \in Seq(TnyFolders) /\ fs \in Seq(Containers)
      /\ Range(fs) \subseteq TnyFolders /\ StoresAt(fs) \in SUBSET DOMAIN fs
  BY AnswerIn, RangeOfSeq
<1>4. calls \in [Containers -> Nat] /\ n = Cardinality(Tokens(calls)) /\ n \in Nat
  <2> DEFINE less == Answered(listing["search"], c)
  <2>1. /\ less \in [Containers -> Nat]
        /\ Cardinality(Tokens(less)) = Cardinality(Tokens(listing["search"])) - 1
    BY <1>1, TokenTaken DEF SearchTyped
  <2> HIDE DEF less
  <2>2. /\ AskAll(less, fs, StoresAt(fs)) \in [Containers -> Nat]
        /\ Cardinality(StoresAt(fs)) \in Nat
        /\ Cardinality(Tokens(AskAll(less, fs, StoresAt(fs))))
             = Cardinality(Tokens(less)) + Cardinality(StoresAt(fs))
    BY <1>3, <2>1, TokensAsked
  <2>3. calls = AskAll(less, fs, StoresAt(fs))
    BY DEF less
  <2>4. /\ Cardinality(Tokens(listing["search"])) \in Nat
        /\ Cardinality(Tokens(less)) \in Nat
    BY <1>1, <2>1, TokensFinite DEF SearchTyped
  <2> HIDE DEF calls
  <2> QED
    BY <1>2, <2>1, <2>2, <2>3, <2>4 DEF PendingAfter
<1>5. all \in Seq(TnyFolders) /\ Range(all) = Range(search.folders) \union Range(fs)
  BY <1>1, <1>3, ConcatProperties, RangeConcatenation DEF SearchTyped, SearchHelper
<1>6. /\ listing'["search"] = calls /\ DOMAIN listing' = Helpers
      /\ seen'["search"] = seen["search"] \union Range(fs) /\ DOMAIN seen' = Helpers
      /\ lost' = lost
      /\ IF n = 0 THEN SearchFrom(next, all) ELSE search' = next /\ reading' = reading
  BY <1>1 DEF SearchListed, SearchTyped
<1> HIDE DEF calls, n, all
<1>7. /\ next \in SearchHelper /\ next.stage = "alive" /\ next.wanted = search.wanted
      /\ next.hits = search.hits /\ next.pending = n /\ next.folders = all
  BY <1>1, <1>2, <1>4, <1>5 DEF SearchTyped, SearchHelper
<1>8. /\ seen'["search"] \subseteq TnyFolders
      /\ seen'["search"] \intersect search.wanted \subseteq
           search.hits \union lost \union (Range(all) \intersect search.wanted)
  BY <1>1, <1>2, <1>3, <1>5, <1>6 DEF SearchInv, SearchTyped
<1> HIDE DEF next
<1>9. CASE n # 0
  <2>1. /\ search' \in SearchHelper /\ search'.stage = "alive"
        /\ search'.wanted = search.wanted /\ search'.hits = search.hits
        /\ search'.pending = n /\ search'.folders = all /\ reading' = reading
    BY <1>6, <1>7, <1>9
  <2>2. SearchTyped'
    BY <1>1, <1>4, <1>6, <1>8, <2>1 DEF SearchTyped
  <2> QED
    BY <1>2, <1>4, <1>6, <1>8, <2>1, <2>2 DEF SearchInv, NothingLeft
<1>10. CASE n = 0
  <2>1. calls = NoListing
    BY <1>4, <1>10, TokensNone
  <2>2. SearchFrom(next, all) /\ DOMAIN reading = Helpers
    BY <1>1, <1>6, <1>10 DEF SearchTyped
  <2>3. /\ search' \in SearchHelper
        /\ search'.wanted = search.wanted /\ search'.hits = search.hits
        /\ search'.pending = n /\ DOMAIN reading' = Helpers
        /\ \/ /\ search'.stage = "answered" /\ reading'["search"] = NoFolder
              /\ Range(all) \intersect search.wanted = {}
           \/ /\ search'.stage = "alive" /\ search'.folders # <<>>
              /\ reading'["search"] \in TnyFolders
              /\ Head(search'.folders) = reading'["search"]
              /\ Range(all) \intersect search.wanted \subseteq Range(search'.folders)
    BY <1>5, <1>7, <2>2, SearchGoesOn
  <2>4. SearchTyped'
    BY <1>4, <1>6, <1>8, <2>3 DEF SearchTyped
  <2>5. CASE search'.stage = "answered"
    BY <1>6, <1>8, <2>1, <2>3, <2>4, <2>5 DEF SearchInv, NothingLeft
  <2>6. CASE search'.stage = "alive"
    BY <1>4, <1>6, <1>8, <2>1, <2>3, <2>4, <2>6 DEF SearchInv, NothingLeft
  <2> QED
    BY <2>3, <2>5, <2>6
<1> QED
  BY <1>9, <1>10

LEMMA SearchReadStep ==
  ASSUME SearchInv, NEW ok \in BOOLEAN, SearchRead(ok)
  PROVE  SearchInv'
<1> USE DEF Helpers
<1> DEFINE f    == reading["search"]
           next == [search EXCEPT !.hits = IF ok THEN @ \union {f} ELSE @]
           rest == Tail(search.folders)
<1>1. SearchTyped /\ f # NoFolder /\ f \in TnyFolders
  BY DEF SearchInv, SearchRead, SearchTyped
<1>2. /\ search.stage = "alive" /\ listing["search"] = NoListing
      /\ search.folders # <<>> /\ Head(search.folders) = f
      /\ search.pending = Cardinality(Tokens(listing["search"]))
  BY <1>1 DEF SearchInv, NothingLeft
<1>3. /\ rest \in Seq(TnyFolders)
      /\ Range(search.folders) = {f} \union Range(rest)
  <2>1. search.folders \in Seq(TnyFolders)
    BY <1>1 DEF SearchTyped, SearchHelper
  <2> DEFINE s == search.folders
  <2>2. /\ rest \in Seq(TnyFolders) /\ Len(rest) = Len(s) - 1 /\ Len(s) \in Nat
        /\ \A k \in 1..Len(rest) : rest[k] = s[k+1]
    BY <1>2, <2>1, HeadTailProperties, LenProperties
  <2>3. DOMAIN s = 1..Len(s) /\ DOMAIN rest = 1..Len(s)-1 /\ Len(s) # 0
    BY <1>2, <2>1, <2>2, LenProperties, EmptySeq
  <2>4. s[1] = f /\ 1 \in DOMAIN s
    BY <1>2, <2>2, <2>3
  <2> HIDE DEF rest, s
  <2>5. Range(rest) \subseteq Range(s)
    BY <2>2, <2>3 DEF Range
  <2>6. ASSUME NEW k \in DOMAIN s, k # 1 PROVE s[k] \in Range(rest)
    <3>1. k-1 \in DOMAIN rest /\ rest[k-1] = s[k]
      BY <2>2, <2>3, <2>6
    <3> QED
      BY <3>1 DEF Range
  <2>7. Range(s) \subseteq {f} \union Range(rest)
    BY <2>4, <2>6 DEF Range
  <2>8. Range(s) = {f} \union Range(rest)
    BY <2>4, <2>5, <2>7 DEF Range
  <2> QED
    BY <2>2, <2>8 DEF s
<1>4. /\ SearchFrom(next, rest) /\ lost' = (IF ok THEN lost ELSE lost \union {f})
      /\ UNCHANGED <<listing, seen>>
  BY DEF SearchRead
<1> HIDE DEF rest
<1>5. /\ next \in SearchHelper /\ next.stage = "alive" /\ next.wanted = search.wanted
      /\ next.hits = (IF ok THEN search.hits \union {f} ELSE search.hits)
      /\ next.pending = search.pending
  BY <1>1, <1>2 DEF SearchTyped, SearchHelper
<1> HIDE DEF next
<1>6. /\ search' \in SearchHelper
      /\ search'.wanted = search.wanted /\ search'.hits = next.hits
      /\ search'.pending = search.pending /\ DOMAIN reading' = Helpers
      /\ \/ /\ search'.stage = "answered" /\ reading'["search"] = NoFolder
            /\ Range(rest) \intersect search.wanted = {}
         \/ /\ search'.stage = "alive" /\ search'.folders # <<>>
            /\ reading'["search"] \in TnyFolders
            /\ Head(search'.folders) = reading'["search"]
            /\ Range(rest) \intersect search.wanted \subseteq Range(search'.folders)
  BY <1>1, <1>3, <1>4, <1>5, SearchGoesOn DEF SearchTyped
<1>7. seen["search"] \intersect search.wanted \subseteq
        next.hits \union lost' \union (Range(rest) \intersect search.wanted)
  <2>1. seen["search"] \intersect search.wanted \subseteq
          search.hits \union lost \union Range(search.folders)
    BY <1>2 DEF SearchInv
  <2>2. next.hits \union lost' = search.hits \union lost \union {f}
    BY <1>4, <1>5
  <2> QED
    BY <1>3, <2>1, <2>2
<1>8. SearchTyped'
  BY <1>1, <1>4, <1>6 DEF SearchTyped
<1>9. CASE search'.stage = "answered"
  BY <1>2, <1>4, <1>6, <1>7, <1>8, <1>9 DEF SearchInv, NothingLeft
<1>10. CASE search'.stage = "alive"
  BY <1>2, <1>4, <1>6, <1>7, <1>8, <1>10 DEF SearchInv, NothingLeft
<1> QED
  BY <1>6, <1>9, <1>10

-----------------------------------------------------------------------------
(* Unread messages.                                                        *)

LEMMA OneElement ==
  ASSUME NEW S, NEW e \in S
  PROVE  /\ <<e>> \in Seq(S) /\ IsInjective(<<e>>) /\ Range(<<e>>) = {e}
         /\ <<>> \in Seq(S) /\ IsInjective(<<>>) /\ Range(<<>>) = {}
BY DEF IsInjective, Range

(* A new element in front.                                                  *)
LEMMA InFront ==
  ASSUME NEW S, NEW s \in Seq(S), NEW e \in S
  PROVE  /\ <<e>> \o s \in Seq(S) /\ DOMAIN (<<e>> \o s) = 1..Len(s)+1
         /\ Len(s) \in Nat /\ DOMAIN s = 1..Len(s)
         /\ (<<e>> \o s)[1] = e
         /\ \A i \in 1..Len(s) : (<<e>> \o s)[i+1] = s[i]
         /\ Range(<<e>> \o s) = {e} \union Range(s)
         /\ IsInjective(s) /\ e \notin Range(s) => IsInjective(<<e>> \o s)
<1> DEFINE t == <<e>> \o s
<1>1. <<e>> \in Seq(S) /\ Len(<<e>>) = 1 /\ <<e>>[1] = e
  OBVIOUS
<1>2. /\ t \in Seq(S) /\ Len(t) = 1 + Len(s)
      /\ \A i \in 1..1+Len(s) : t[i] = IF i <= 1 THEN <<e>>[i] ELSE s[i-1]
  BY <1>1, ConcatProperties
<1>3. Len(s) \in Nat /\ DOMAIN s = 1..Len(s) /\ DOMAIN t = 1..Len(s)+1
  BY <1>2, LenProperties
<1> HIDE DEF t
<1>4. t[1] = e /\ \A i \in 1..Len(s) : t[i+1] = s[i]
  BY <1>1, <1>2, <1>3
<1>5. Range(t) = {e} \union Range(s)
  <2>1. Range(t) \subseteq {e} \union Range(s)
    BY <1>1, <1>2, <1>3 DEF Range
  <2>2. e \in Range(t)
    BY <1>3, <1>4 DEF Range
  <2>3. ASSUME NEW i \in 1..Len(s) PROVE s[i] \in Range(t)
    <3>1. i+1 \in DOMAIN t /\ t[i+1] = s[i]
      BY <1>3, <1>4
    <3> QED
      BY <3>1 DEF Range
  <2>4. Range(s) \subseteq Range(t)
    BY <1>3, <2>3 DEF Range
  <2> QED
    BY <2>1, <2>2, <2>4
<1>6. ASSUME IsInjective(s), e \notin Range(s) PROVE IsInjective(t)
  <2>1. ASSUME NEW i \in 2..Len(s)+1
        PROVE  i-1 \in DOMAIN s /\ t[i] = s[i-1] /\ t[i] # e
    <3>1. i-1 \in 1..Len(s) /\ (i-1)+1 = i
      BY <1>3
    <3>2. t[i] = s[i-1] /\ i-1 \in DOMAIN s
      BY <1>3, <1>4, <3>1
    <3> QED
      BY <1>6, <3>2 DEF Range
  <2>2. ASSUME NEW i \in DOMAIN t, NEW j \in DOMAIN t, t[i] = t[j] PROVE i = j
    <3>1. CASE i = 1 \/ j = 1
      BY <1>3, <1>4, <2>1, <2>2, <3>1
    <3>2. CASE i # 1 /\ j # 1
      <4>1. i \in 2..Len(s)+1 /\ j \in 2..Len(s)+1
        BY <1>3, <3>2
      <4>2. i-1 \in DOMAIN s /\ j-1 \in DOMAIN s /\ s[i-1] = s[j-1]
        BY <2>1, <2>2, <4>1
      <4>3. i-1 = j-1
        BY <1>6, <4>2 DEF IsInjective
      <4> QED
        BY <4>1, <4>3
    <3> QED
      BY <3>1, <3>2
  <2> QED
    BY <2>2 DEF IsInjective
<1> QED
  BY <1>2, <1>3, <1>4, <1>5, <1>6 DEF t

(* The list of inboxes keeps each of them once: the walk over the folders of *)
(* an answer, with a smallest counterexample for its steps.                 *)
LEMMA InboxesAdded ==
  ASSUME NEW inboxes \in Seq(TnyFolders), IsInjective(inboxes),
         NEW fs \in Seq(TnyFolders)
  PROVE  /\ AddInboxes(inboxes, fs) \in Seq(TnyFolders)
         /\ IsInjective(AddInboxes(inboxes, fs))
         /\ Range(AddInboxes(inboxes, fs))
              = Range(inboxes) \union (Range(fs) \intersect Inboxes)
<1> DEFINE With(l, f) == IF f \in Inboxes \ Range(l) THEN <<f>> \o l ELSE l
           Body(g, n) == [i \in 0..n |-> IF i = 0 THEN inboxes
                                         ELSE With(g[i-1], fs[i])]
           none == {n \in Nat : \A g : g # Body(g, n)}
<1>0. Len(fs) \in Nat /\ DOMAIN fs = 1..Len(fs) /\ \A i \in 1..Len(fs) : fs[i] \in TnyFolders
  BY LenProperties
<1>1. ASSUME none # {} PROVE FALSE
  <2>1. Min(none) \in none /\ \A n \in none : Min(none) <= n
    BY <1>1, MinInSet
  <2> DEFINE m == Min(none)
  <2>2. m \in Nat /\ \A g : g # Body(g, m)
    BY <2>1
  <2>3. CASE m = 0
    <3> DEFINE g == [i \in 0..0 |-> inboxes]
    <3>1. g = Body(g, 0)
      OBVIOUS
    <3> QED
      BY <2>2, <2>3, <3>1
  <2>4. CASE m # 0
    <3>1. m-1 \in Nat /\ ~(m <= m-1)
      BY <2>2, <2>4
    <3>2. m-1 \notin none
      BY <2>1, <3>1
    <3>3. PICK g : g = Body(g, m-1)
      BY <3>1, <3>2
    <3> HIDE DEF none, m
    <3> DEFINE k == [i \in 0..m |-> IF i = m THEN With(g[m-1], fs[m]) ELSE g[i]]
    <3>4. ASSUME NEW i \in 0..m
          PROVE  k[i] = IF i = 0 THEN inboxes ELSE With(k[i-1], fs[i])
      <4>1. CASE i = 0
        <5>1. 0 \in 0..m-1 /\ i # m
          BY <2>4, <3>1, <4>1
        <5>2. g[0] = inboxes
          BY <3>3, <5>1
        <5> QED
          BY <4>1, <5>1, <5>2
      <4>2. CASE i # 0 /\ i # m
        <5>1. i \in 0..m-1 /\ i-1 \in 0..m /\ i-1 # m
          BY <2>2, <3>1, <4>2
        <5>2. g[i] = With(g[i-1], fs[i])
          BY <3>3, <4>2, <5>1
        <5>3. k[i] = g[i] /\ k[i-1] = g[i-1]
          BY <4>2, <5>1
        <5> QED
          BY <4>2, <5>2, <5>3
      <4>3. CASE i = m
        <5>1. m-1 \in 0..m /\ m-1 # m
          BY <3>1, <4>3
        <5>2. k[m] = With(g[m-1], fs[m]) /\ k[m-1] = g[m-1]
          BY <4>3, <5>1
        <5> QED
          BY <2>4, <4>3, <5>2
      <4> QED
        BY <4>1, <4>2, <4>3
    <3>5. k = Body(k, m)
      <4>1. k = [i \in 0..m |-> k[i]]
        OBVIOUS
      <4> HIDE DEF k
      <4> QED
        BY <3>4, <4>1
    <3> QED
      BY <2>2, <3>5
  <2> QED
    BY <2>3, <2>4
<1>2. \E g : g = Body(g, Len(fs))
  <2>1. Len(fs) \notin none
    BY <1>1
  <2> HIDE DEF Body
  <2> QED
    BY <1>0, <2>1
<1> DEFINE after == CHOOSE g : g = Body(g, Len(fs))
<1>3. after = Body(after, Len(fs))
  <2> HIDE DEF Body
  <2> QED
    BY <1>2
<1>4. AddInboxes(inboxes, fs) = after[Len(fs)]
  BY DEF AddInboxes
<1> HIDE DEF after
<1>5. /\ after[0] = inboxes
      /\ \A i \in 1..Len(fs) : after[i] = With(after[i-1], fs[i])
  <2>1. \A i \in 0..Len(fs) :
          after[i] = IF i = 0 THEN inboxes ELSE With(after[i-1], fs[i])
    <3> HIDE DEF With
    <3> QED
      BY <1>3
  <2>2. 0 \in 0..Len(fs) /\ \A i \in 1..Len(fs) : i \in 0..Len(fs) /\ i # 0
    BY <1>0
  <2> HIDE DEF With
  <2> QED
    BY <2>1, <2>2
<1> DEFINE upTo(i) == { fs[j] : j \in 1..i } \intersect Inboxes
           Right(i) == /\ after[i] \in Seq(TnyFolders) /\ IsInjective(after[i])
                       /\ Range(after[i]) = Range(inboxes) \union upTo(i)
           wrong == {i \in 0..Len(fs) : ~Right(i)}
<1>6. ASSUME wrong # {} PROVE FALSE
  <2>1. wrong \in SUBSET Nat
    BY <1>0
  <2>2. Min(wrong) \in wrong /\ \A n \in wrong : Min(wrong) <= n
    BY <1>6, <2>1, MinInSet
  <2> DEFINE m == Min(wrong)
  <2>3. m \in 0..Len(fs) /\ ~Right(m)
    BY <2>2
  <2>4. CASE m = 0
    <3>1. upTo(0) = {}
      OBVIOUS
    <3>2. Right(0)
      BY <1>5, <3>1
    <3> QED
      BY <2>3, <2>4, <3>2
  <2>5. CASE m # 0
    <3>1. m \in 1..Len(fs) /\ m-1 \in 0..Len(fs) /\ ~(m <= m-1)
      BY <1>0, <2>3, <2>5
    <3>2. m-1 \notin wrong
      BY <2>2, <3>1
    <3>3. Right(m-1)
      BY <3>1, <3>2
    <3> HIDE DEF wrong, m
    <3>4. after[m] = With(after[m-1], fs[m]) /\ fs[m] \in TnyFolders
      BY <1>0, <1>5, <3>1
    <3>5. upTo(m) = upTo(m-1) \union ({fs[m]} \intersect Inboxes)
      <4>1. 1..m = (1..m-1) \union {m}
        BY <1>0, <3>1
      <4> QED
        BY <4>1
    <3> HIDE DEF upTo
    <3>6. CASE fs[m] \in Inboxes \ Range(after[m-1])
      <4>1. after[m] = <<fs[m]>> \o after[m-1]
        BY <3>4, <3>6
      <4>2. /\ after[m] \in Seq(TnyFolders) /\ IsInjective(after[m])
            /\ Range(after[m]) = {fs[m]} \union Range(after[m-1])
        BY <3>3, <3>4, <3>6, <4>1, InFront
      <4> QED
        BY <2>3, <3>3, <3>5, <3>6, <4>2
    <3>7. CASE fs[m] \notin Inboxes \ Range(after[m-1])
      <4>1. after[m] = after[m-1]
        BY <3>4, <3>7
      <4>2. {fs[m]} \intersect Inboxes \subseteq Range(after[m-1])
        BY <3>7
      <4> QED
        BY <2>3, <3>3, <3>5, <4>1, <4>2
    <3> QED
      BY <3>6, <3>7
  <2> QED
    BY <2>4, <2>5
<1>7. Right(Len(fs))
  BY <1>0, <1>6
<1>8. upTo(Len(fs)) = Range(fs) \intersect Inboxes
  BY <1>0 DEF Range
<1> QED
  BY <1>4, <1>7, <1>8

(* What is reported depends on the accounts left and on the hits.           *)
LEMMA SameReport ==
  ASSUME NEW h, NEW g, g.accounts = h.accounts, g.hits = h.hits
  PROVE  (Reported(g) <=> Reported(h)) /\ Counted(g) = Counted(h)
BY DEF Reported, Counted

(* A remote account is of a multi-mailbox protocol or of another.           *)
LEMMA HeadIsRemote ==
  ASSUME NEW h \in GetUnreadMessagesHelper, Reported(h), h.accounts # <<>>
  PROVE  /\ Head(h.accounts) \in RemoteAccounts /\ Head(h.accounts) \in Range(h.accounts)
         /\ Head(h.accounts) \in Accounts /\ Head(h.accounts) \in Containers
         /\ Head(h.accounts) \in Plain <=> Head(h.accounts) \notin Multi
         /\ Head(h.accounts) = h.accounts[1] /\ 1 \in DOMAIN h.accounts
         /\ h.accounts \in Seq(Containers)
<1>1. h.accounts \in Seq(Accounts) /\ Accounts \subseteq Containers
  BY DEF GetUnreadMessagesHelper, Containers
<1>2. 1 \in DOMAIN h.accounts /\ Head(h.accounts) = h.accounts[1]
  BY <1>1, EmptySeq, LenProperties
<1>3. Head(h.accounts) \in Range(h.accounts)
  BY <1>2 DEF Range
<1>4. Head(h.accounts) \in RemoteAccounts
  BY <1>3 DEF Reported
<1>5. h.accounts \in Seq(Containers)
  BY <1>1, SeqMonotonic
<1> QED
  BY <1>1, <1>2, <1>3, <1>4, <1>5 DEF RemoteAccounts, Plain

(* Asking for the folders of the first account.                             *)
LEMMA FirstAsked ==
  ASSUME NEW cs \in Seq(Containers), cs # <<>>
  PROVE  AskAll(NoListing, cs, {1}) = [NoListing EXCEPT ![Head(cs)] = 1]
<1>1. Head(cs) = cs[1] /\ cs[1] \in Containers
  BY EmptySeq, LenProperties
<1> DEFINE here(c) == {i \in {1} : cs[i] = c}
<1>2. AskAll(NoListing, cs, {1})
        = [c \in Containers |-> NoListing[c] + Cardinality(here(c))]
  BY DEF AskAll
<1>3. ASSUME NEW c \in Containers
      PROVE  here(c) = IF c = Head(cs) THEN {1} ELSE {}
  BY <1>1
<1> HIDE DEF here
<1>4. Cardinality({1}) = 1 /\ Cardinality({}) = 0
  BY FS_Singleton, FS_EmptySet
<1>5. ASSUME NEW c \in Containers
      PROVE  NoListing[c] + Cardinality(here(c)) = IF c = Head(cs) THEN 1 ELSE 0
  <2>1. NoListing[c] = 0
    BY DEF NoListing
  <2>2. CASE c = Head(cs)
    <3>1. here(c) = {1}
      BY <1>3, <2>2
    <3>2. Cardinality(here(c)) = 1
      BY <1>4, <3>1, Zenon
    <3> QED
      BY <2>1, <2>2, <3>2
  <2>3. CASE c # Head(cs)
    <3>1. here(c) = {}
      BY <1>3, <2>3
    <3>2. Cardinality(here(c)) = 0
      BY <1>4, <3>1, Zenon
    <3> QED
      BY <2>1, <2>3, <3>2
  <2> QED
    BY <2>2, <2>3
<1> QED
  BY <1>2, <1>5 DEF NoListing

(* The account is reported and the next one is up.                          *)
LEMMA AccountReported ==
  ASSUME NEW h \in GetUnreadMessagesHelper, h.stage = "alive", Reported(h),
         h.accounts # <<>>, NEW counted \in Seq(TnyFolders), IsInjective(counted),
         Head(h.accounts) \in Plain => Range(counted) \subseteq Under[Head(h.accounts)],
         NEW g, g = [Hit(h, counted) EXCEPT !.accounts = Tail(@)]
  PROVE  /\ g \in GetUnreadMessagesHelper /\ g.stage = "alive" /\ Reported(g)
         /\ g.inboxes = h.inboxes
         /\ Counted(g) = Counted(h) \union
              (IF Head(h.accounts) \in Multi THEN Range(counted) ELSE {})
<1> DEFINE a    == Head(h.accounts)
           hit  == [account |-> a, counted |-> counted]
           rest == Tail(h.accounts)
           hits == <<hit>> \o h.hits
<1>1. h.accounts \in Seq(Accounts) /\ h.hits \in Seq(AccountHits)
  BY DEF GetUnreadMessagesHelper
<1>2. a \in RemoteAccounts /\ a \in Accounts /\ a \in Range(h.accounts)
  BY HeadIsRemote
<1>3. hit \in AccountHits
  BY <1>2 DEF AccountHits
<1>4. /\ rest \in Seq(Accounts) /\ IsInjective(rest)
      /\ Range(rest) = Range(h.accounts) \ {a}
  <2> DEFINE s == h.accounts
  <2>1. /\ rest \in Seq(Accounts) /\ Len(rest) = Len(s) - 1 /\ Len(s) \in Nat
        /\ \A k \in 1..Len(rest) : rest[k] = s[k+1]
    BY <1>1, HeadTailProperties, LenProperties
  <2>2. DOMAIN s = 1..Len(s) /\ DOMAIN rest = 1..Len(s)-1 /\ Len(s) # 0
    BY <1>1, <2>1, LenProperties, EmptySeq
  <2>3. s[1] = a /\ 1 \in DOMAIN s /\ IsInjective(s)
    BY <1>1, HeadIsRemote DEF Reported
  <2> HIDE DEF rest, s, a
  <2>4. ASSUME NEW k \in DOMAIN rest
        PROVE  k+1 \in DOMAIN s /\ k+1 # 1 /\ rest[k] = s[k+1]
    BY <2>1, <2>2
  <2>5. Range(rest) \subseteq Range(s) \ {a}
    <3>1. ASSUME NEW k \in DOMAIN rest PROVE rest[k] \in Range(s) \ {a}
      BY <2>3, <2>4 DEF Range, IsInjective
    <3> QED
      BY <3>1 DEF Range
  <2>6. ASSUME NEW k \in DOMAIN s, s[k] # a PROVE s[k] \in Range(rest)
    <3>1. k # 1
      BY <2>3, <2>6
    <3>2. k-1 \in DOMAIN rest /\ rest[k-1] = s[k]
      BY <2>1, <2>2, <3>1
    <3> QED
      BY <3>2 DEF Range
  <2>7. Range(s) \ {a} \subseteq Range(rest)
    BY <2>6 DEF Range
  <2>8. IsInjective(rest)
    <3> SUFFICES ASSUME NEW k \in DOMAIN rest, NEW l \in DOMAIN rest, rest[k] = rest[l]
                 PROVE  k = l
      BY DEF IsInjective
    <3>1. k+1 = l+1
      BY <2>3, <2>4 DEF IsInjective
    <3> QED
      BY <2>2, <3>1
  <2> QED
    BY <2>1, <2>5, <2>7, <2>8 DEF s
<1> HIDE DEF rest
<1>5. /\ hits \in Seq(AccountHits) /\ DOMAIN hits = 1..Len(h.hits)+1
      /\ Len(h.hits) \in Nat /\ DOMAIN h.hits = 1..Len(h.hits)
      /\ hits[1] = hit
      /\ \A i \in 1..Len(h.hits) : hits[i+1] = h.hits[i]
  BY <1>1, <1>3, InFront
<1>6. ASSUME NEW i \in DOMAIN hits
      PROVE  i = 1 \/ (i # 1 /\ i-1 \in DOMAIN h.hits /\ hits[i] = h.hits[i-1])
  <2>1. i = 1 \/ i-1 \in 1..Len(h.hits)
    BY <1>5
  <2>2. ASSUME i-1 \in 1..Len(h.hits) PROVE hits[i] = h.hits[i-1] /\ i # 1
    <3>1. (i-1)+1 = i
      BY <1>5
    <3> QED
      BY <1>5, <2>2, <3>1
  <2> QED
    BY <1>5, <2>1, <2>2
<1>7. g = [h EXCEPT !.hits = hits, !.accounts = rest]
  BY DEF Hit, rest, GetUnreadMessagesHelper
<1>8. hit.account = a /\ hit.counted = counted
  OBVIOUS
<1> HIDE DEF hits, hit, a
<1>9. /\ g \in GetUnreadMessagesHelper /\ g.stage = "alive"
      /\ g.accounts = rest /\ g.hits = hits /\ g.inboxes = h.inboxes
  BY <1>4, <1>5, <1>7 DEF GetUnreadMessagesHelper
<1>10. \A i \in DOMAIN h.hits : h.hits[i].account # a
  BY <1>2 DEF Reported
<1>11. Reported(g)
  <2>1. ASSUME NEW i \in DOMAIN hits
        PROVE  /\ hits[i].account \in RemoteAccounts \ Range(rest)
               /\ IsInjective(hits[i].counted)
               /\ hits[i].account \in Plain =>
                    Range(hits[i].counted) \subseteq Under[hits[i].account]
    <3>1. CASE i = 1
      BY <1>2, <1>4, <1>5, <1>8, <3>1 DEF a
    <3>2. CASE i # 1
      <4>1. i-1 \in DOMAIN h.hits /\ hits[i] = h.hits[i-1]
        BY <1>6, <3>2
      <4> QED
        BY <1>4, <4>1 DEF Reported
    <3> QED
      BY <3>1, <3>2
  <2>2. ASSUME NEW i \in DOMAIN hits, NEW j \in DOMAIN hits,
               hits[i].account = hits[j].account
        PROVE  i = j
    <3>1. CASE i = 1 /\ j # 1
      BY <1>5, <1>6, <1>8, <1>10, <2>2, <3>1
    <3>2. CASE i # 1 /\ j = 1
      BY <1>5, <1>6, <1>8, <1>10, <2>2, <3>2
    <3>3. CASE i # 1 /\ j # 1
      <4>1. i-1 \in DOMAIN h.hits /\ j-1 \in DOMAIN h.hits
        BY <1>6, <3>3
      <4>2. i-1 = j-1
        BY <1>6, <2>2, <3>3, <4>1 DEF Reported
      <4> QED
        BY <1>5, <4>2
    <3> QED
      BY <3>1, <3>2, <3>3
  <2>3. ASSUME NEW b \in RemoteAccounts \ Range(rest)
        PROVE  \E i \in DOMAIN hits : hits[i].account = b
    <3>1. CASE b = a
      BY <1>5, <1>8, <3>1
    <3>2. CASE b # a
      <4>1. PICK i \in DOMAIN h.hits : h.hits[i].account = b
        BY <1>4, <3>2 DEF Reported
      <4>2. i+1 \in DOMAIN hits /\ hits[i+1] = h.hits[i]
        BY <1>5, <4>1
      <4> QED
        BY <4>1, <4>2
    <3> QED
      BY <3>1, <3>2
  <2>4. Range(rest) \subseteq RemoteAccounts
    BY <1>4 DEF Reported
  <2>5. \A i \in DOMAIN g.hits :
          /\ g.hits[i].account \in RemoteAccounts \ Range(g.accounts)
          /\ IsInjective(g.hits[i].counted)
          /\ g.hits[i].account \in Plain =>
               Range(g.hits[i].counted) \subseteq Under[g.hits[i].account]
    BY <1>9, <2>1
  <2>6. \A i, j \in DOMAIN g.hits :
          g.hits[i].account = g.hits[j].account => i = j
    BY <1>9, <2>2
  <2>7. \A b \in RemoteAccounts \ Range(g.accounts) :
          \E i \in DOMAIN g.hits : g.hits[i].account = b
    BY <1>9, <2>3
  <2> QED
    BY <1>4, <1>9, <2>4, <2>5, <2>6, <2>7 DEF Reported
<1>12. Counted(g) = Counted(h) \union (IF a \in Multi THEN Range(counted) ELSE {})
  <2>1. ASSUME NEW f \in Counted(g)
        PROVE  f \in Counted(h) \union (IF a \in Multi THEN Range(counted) ELSE {})
    <3>1. PICK i \in DOMAIN hits : hits[i].account \in Multi /\ f \in Range(hits[i].counted)
      BY <1>9, <2>1 DEF Counted
    <3>2. CASE i = 1
      BY <1>5, <1>8, <3>1, <3>2
    <3>3. CASE i # 1
      <4>1. i-1 \in DOMAIN h.hits /\ hits[i] = h.hits[i-1]
        BY <1>6, <3>3
      <4> QED
        BY <3>1, <4>1 DEF Counted
    <3> QED
      BY <3>2, <3>3
  <2>2. ASSUME NEW f \in Counted(h) PROVE f \in Counted(g)
    <3>1. PICK i \in DOMAIN h.hits :
            h.hits[i].account \in Multi /\ f \in Range(h.hits[i].counted)
      BY <2>2 DEF Counted
    <3>2. i+1 \in DOMAIN hits /\ hits[i+1] = h.hits[i]
      BY <1>5, <3>1
    <3> QED
      BY <1>9, <3>1, <3>2 DEF Counted
  <2>3. ASSUME a \in Multi, NEW f \in Range(counted) PROVE f \in Counted(g)
    <3>1. 1 \in DOMAIN hits
      BY <1>5
    <3> QED
      BY <1>5, <1>8, <1>9, <2>3, <3>1 DEF Counted
  <2> QED
    BY <2>1, <2>2, <2>3
<1> QED
  BY <1>9, <1>11, <1>12 DEF a

(* On to the first of the accounts left, or to the reply.                   *)
LEMMA AccountGot ==
  ASSUME NEW h \in GetUnreadMessagesHelper, h.stage = "alive", Reported(h),
         NEW listed, Counted(h) = (listed \intersect Inboxes) \ InPlain,
         DOMAIN listing = Helpers, DOMAIN reading = Helpers,
         GetAccount(h, NoListing)
  PROVE  /\ Reporting(unread', listing'["unread"], reading'["unread"], NoFolder, listed)
         /\ listing'["unread"] \in [Containers -> Nat] /\ DOMAIN listing' = Helpers
         /\ listing'["search"] = listing["search"]
         /\ reading'["unread"] = NoFolder /\ DOMAIN reading' = Helpers
         /\ reading'["search"] = reading["search"]
<1> USE DEF Helpers
<1>0. NoListing \in [Containers -> Nat]
  BY DEF NoListing
<1>1. CASE h.accounts = <<>>
  <2>1. /\ unread' = [h EXCEPT !.stage = "answered", !.queued = FALSE]
        /\ reading' = [reading EXCEPT !["unread"] = NoFolder]
        /\ listing' = [listing EXCEPT !["unread"] = NoListing]
    BY <1>1 DEF GetAccount, ReturnResults
  <2>2. /\ unread' \in GetUnreadMessagesHelper /\ unread'.stage = "answered"
        /\ unread'.accounts = h.accounts /\ unread'.hits = h.hits
    <3>1. "answered" \in HelperStages
      BY DEF HelperStages
    <3> QED
      BY <2>1, <3>1 DEF GetUnreadMessagesHelper
  <2>3. Reported(unread') /\ Counted(unread') = Counted(h)
    BY <2>2, SameReport
  <2>4. /\ listing'["unread"] = NoListing /\ listing'["search"] = listing["search"]
        /\ reading'["unread"] = NoFolder /\ reading'["search"] = reading["search"]
        /\ DOMAIN listing' = Helpers /\ DOMAIN reading' = Helpers
    BY <2>1
  <2> QED
    BY <1>0, <1>1, <2>2, <2>3, <2>4 DEF Reporting
<1>2. CASE h.accounts # <<>>
  <2> DEFINE a     == Head(h.accounts)
             calls == AskAll(NoListing, h.accounts, {1})
  <2>1. /\ unread' = [h EXCEPT !.inboxes = <<>>, !.done = 0, !.total = 1]
        /\ listing' = [listing EXCEPT !["unread"] = calls]
        /\ reading' = [reading EXCEPT !["unread"] = NoFolder]
    BY <1>2 DEF GetAccount
  <2>2. /\ a \in Containers /\ h.accounts \in Seq(Containers)
        /\ a \in Accounts /\ 1 \in DOMAIN h.accounts
    BY <1>2, HeadIsRemote
  <2>3. calls = [NoListing EXCEPT ![a] = 1]
    BY <1>2, <2>2, FirstAsked
  <2>4. calls \in [Containers -> Nat] /\ Cardinality(Tokens(calls)) = 1
    <3>1. {1} \in SUBSET DOMAIN h.accounts
      BY <2>2
    <3>2. Cardinality({1}) = 1
      BY FS_Singleton
    <3>3. Cardinality(Tokens(NoListing)) = 0
      BY <1>0, TokensNone
    <3>4. /\ calls \in [Containers -> Nat]
          /\ Cardinality(Tokens(calls)) = Cardinality(Tokens(NoListing)) + Cardinality({1})
      BY <1>0, <2>2, <3>1, TokensAsked
    <3> QED
      BY <3>2, <3>3, <3>4
  <2>5. calls # NoListing
    BY <1>0, <2>4, TokensNone
  <2>6. \A c \in Accounts \ {a} : calls[c] = 0
    BY <2>3 DEF NoListing, Containers
  <2> HIDE DEF calls
  <2>7. /\ unread' \in GetUnreadMessagesHelper /\ unread'.stage = "alive"
        /\ unread'.accounts = h.accounts /\ unread'.hits = h.hits
        /\ unread'.inboxes = <<>> /\ unread'.done = 0 /\ unread'.total = 1
    BY <2>1, EmptySeq DEF GetUnreadMessagesHelper
  <2>8. Reported(unread') /\ Counted(unread') = Counted(h)
    BY <2>7, SameReport
  <2>9. Range(<<>>) = {} /\ IsInjective(<<>>)
    BY OneElement
  <2>10. /\ listing'["unread"] = calls /\ listing'["search"] = listing["search"]
         /\ reading'["unread"] = NoFolder /\ reading'["search"] = reading["search"]
         /\ DOMAIN listing' = Helpers /\ DOMAIN reading' = Helpers
    BY <2>1
  <2>11. InMultiAccount(a, unread', calls, NoFolder, NoFolder)
    BY <2>4, <2>5, <2>6, <2>7, <2>9 DEF InMultiAccount
  <2>12. InPlainAccount(a, unread', calls, NoFolder, NoFolder)
    BY <2>3, <2>7 DEF InPlainAccount
  <2>13. AtAccount(unread', calls, NoFolder, NoFolder)
    BY <1>2, <2>7, <2>11, <2>12 DEF AtAccount
  <2>14. Counted(unread') \union Range(unread'.inboxes) = (listed \intersect Inboxes) \ InPlain
    BY <2>7, <2>8, <2>9
  <2> QED
    BY <2>4, <2>7, <2>8, <2>10, <2>13, <2>14 DEF Reporting
<1> QED
  BY <1>1, <1>2

LEMMA UnreadInit == DBusInit => UnreadInv
<1> SUFFICES ASSUME DBusInit PROVE UnreadInv
  OBVIOUS
<1>1. UnreadTyped
  BY EmptySeq DEF DBusInit, UnreadTyped, GetUnreadMessagesHelper, HelperStages,
     Helpers, NoListing
<1>2. /\ unread.stage = "free" /\ listing["unread"] = NoListing
      /\ reading["unread"] = NoFolder /\ retry = NoFolder
      /\ seen["unread"] = {} /\ unread.hits = <<>>
  BY DEF DBusInit, Helpers
<1> QED
  BY <1>1, <1>2 DEF UnreadInv

(* What the search does leaves the other request alone.                     *)
LEMMA UnreadUntouched ==
  ASSUME UnreadInv, UNCHANGED <<unread, retry>>,
         listing'["unread"] = listing["unread"], DOMAIN listing' = Helpers,
         reading'["unread"] = reading["unread"], DOMAIN reading' = Helpers,
         seen'["unread"] = seen["unread"], DOMAIN seen' = Helpers
  PROVE  UnreadInv'
BY DEF UnreadInv, UnreadTyped

LEMMA UnreadStarts ==
  ASSUME UnreadInv, GetUnreadMessages
  PROVE  UnreadInv'
<1>1. UnreadTyped /\ unread.stage = "free"
  BY DEF UnreadInv, GetUnreadMessages
<1>2. /\ listing["unread"] = NoListing /\ reading["unread"] = NoFolder
      /\ retry = NoFolder /\ seen["unread"] = {} /\ unread.hits = <<>>
  BY <1>1 DEF UnreadInv, Reporting
<1>3. /\ unread' = [unread EXCEPT !.stage = "asked", !.queued = TRUE]
      /\ UNCHANGED <<listing, reading, retry, seen>>
  BY DEF GetUnreadMessages
<1>4. unread' \in GetUnreadMessagesHelper /\ unread'.stage = "asked" /\ unread'.hits = <<>>
  <2>1. "asked" \in HelperStages
    BY DEF HelperStages
  <2> QED
    BY <1>1, <1>2, <1>3, <2>1 DEF UnreadTyped, GetUnreadMessagesHelper
<1>5. UnreadTyped'
  BY <1>1, <1>3, <1>4 DEF UnreadTyped
<1> QED
  BY <1>2, <1>3, <1>4, <1>5 DEF UnreadInv

(* The remote accounts, each once.                                          *)
LEMMA EachRemoteOnce ==
  LET s == RemoveFirst(StoreAccounts, LocalAccount)
  IN  s \in Seq(Accounts) /\ IsInjective(s) /\ Range(s) = RemoteAccounts
<1> DEFINE s == RemoveFirst(StoreAccounts, LocalAccount)
<1>1. StoreAccounts \in Seq(Accounts) /\ IsInjective(StoreAccounts)
  BY DBusAssumption
<1>2. DOMAIN StoreAccounts = 1..Len(StoreAccounts)
  BY <1>1, LenProperties
<1>3. NoDuplicates(StoreAccounts)
  BY <1>1, <1>2 DEF NoDuplicates, IsInjective
<1>4. s \in Seq(Accounts)
  BY <1>1, RemoveFirstType
<1>5. NoDuplicates(s) /\ ToSet(s) = ToSet(StoreAccounts) \ {LocalAccount}
  BY <1>1, <1>3, RemoveFirstUnique
<1> HIDE DEF s
<1>6. IsInjective(s)
  BY <1>4, <1>5, LenProperties DEF NoDuplicates, IsInjective
<1>7. Range(s) = RemoteAccounts
  BY <1>5 DEF ToSet, Range, RemoteAccounts, Accounts
<1> QED
  BY <1>4, <1>6, <1>7 DEF s

LEMMA UnreadIdle ==
  ASSUME UnreadInv, OnIdleGetUnreadMessages
  PROVE  UnreadInv'
<1> DEFINE remote == RemoveFirst(StoreAccounts, LocalAccount)
           h == [unread EXCEPT !.stage = "alive", !.accounts = remote]
<1>1. UnreadTyped /\ unread.stage = "asked"
  BY DEF UnreadInv, OnIdleGetUnreadMessages
<1>2. /\ listing["unread"] = NoListing /\ reading["unread"] = NoFolder
      /\ retry = NoFolder /\ seen["unread"] = {} /\ unread.hits = <<>>
  BY <1>1 DEF UnreadInv, Reporting
<1>3. GetAccount(h, NoListing) /\ UNCHANGED <<retry, seen>>
  BY <1>2 DEF OnIdleGetUnreadMessages
<1>4. remote \in Seq(Accounts) /\ IsInjective(remote) /\ Range(remote) = RemoteAccounts
  BY EachRemoteOnce
<1> HIDE DEF remote
<1>5. /\ h \in GetUnreadMessagesHelper /\ h.stage = "alive"
      /\ h.accounts = remote /\ h.hits = <<>>
  <2>1. "alive" \in HelperStages
    BY DEF HelperStages
  <2> QED
    BY <1>1, <1>2, <1>4, <2>1 DEF UnreadTyped, GetUnreadMessagesHelper
<1> HIDE DEF h
<1>6. Reported(h) /\ Counted(h) = {}
  BY <1>4, <1>5 DEF Reported, Counted
<1>7. /\ Reporting(unread', listing'["unread"], reading'["unread"], NoFolder, {})
      /\ listing'["unread"] \in [Containers -> Nat] /\ DOMAIN listing' = Helpers
      /\ reading'["unread"] = NoFolder /\ DOMAIN reading' = Helpers
  BY <1>1, <1>3, <1>5, <1>6, AccountGot DEF UnreadTyped
<1>8. retry' = NoFolder /\ seen'["unread"] = {} /\ DOMAIN seen' = Helpers
  BY <1>1, <1>2, <1>3 DEF UnreadTyped
<1>9. UnreadTyped'
  BY <1>7, <1>8 DEF UnreadTyped, Reporting
<1> QED
  BY <1>7, <1>8, <1>9 DEF UnreadInv

(* A listing or a folder waited for is one of a request under way.          *)
LEMMA UnderWay ==
  ASSUME UnreadInv,
         \/ \E c \in Containers : listing["unread"][c] > 0
         \/ reading["unread"] # NoFolder
         \/ retry # NoFolder
  PROVE  /\ unread.stage = "alive" /\ Reported(unread)
         /\ AtAccount(unread, listing["unread"], reading["unread"], retry)
         /\ Counted(unread) \union Range(unread.inboxes)
              = (seen["unread"] \intersect Inboxes) \ InPlain
BY DEF UnreadInv, Reporting, NoListing

(* What is listed in an account of another protocol is not to be counted as  *)
(* in a multi-mailbox account.                                              *)
LEMMA PlainApart ==
  ASSUME NEW c \in Containers
  PROVE  IF c \in Plain THEN Under[c] \subseteq InPlain
                        ELSE Under[c] \intersect InPlain = {}
<1>1. Plain \subseteq Containers
  BY DEF Plain, RemoteAccounts, Containers
<1> QED
  BY <1>1, DBusAssumption DEF InPlain

LEMMA AccountListedStep ==
  ASSUME UnreadInv, NEW c \in Containers, NEW fs \in FoldersIn(c),
         AccountListed(c, fs)
  PROVE  /\ UnreadInv'
         /\ listing'["search"] = listing["search"]
         /\ reading'["search"] = reading["search"]
<1> USE DEF Helpers
<1> DEFINE a      == Head(unread.accounts)
           i      == SelectInSeq(fs, LAMBDA f : f \in Inboxes)
           listed == seen["unread"] \union Range(fs)
<1>1. UnreadTyped /\ listing["unread"][c] > 0 /\ a \notin Multi
  BY DEF UnreadInv, AccountListed
<1>2. /\ unread.stage = "alive" /\ Reported(unread)
      /\ AtAccount(unread, listing["unread"], reading["unread"], retry)
      /\ Counted(unread) \union Range(unread.inboxes)
           = (seen["unread"] \intersect Inboxes) \ InPlain
  BY <1>1, UnderWay
<1>3. /\ unread \in GetUnreadMessagesHelper /\ unread.accounts # <<>>
      /\ InPlainAccount(a, unread, listing["unread"], reading["unread"], retry)
  BY <1>1, <1>2 DEF AtAccount, UnreadTyped
<1>4. a \in Plain /\ a \in Containers
  BY <1>1, <1>2, <1>3, HeadIsRemote
<1>5. /\ listing["unread"] = [NoListing EXCEPT ![a] = 1] /\ c = a
      /\ reading["unread"] = NoFolder /\ retry = NoFolder /\ unread.inboxes = <<>>
  BY <1>1, <1>3 DEF InPlainAccount, NoListing
<1>6. Answered(listing["unread"], c) = NoListing
  BY <1>4, <1>5 DEF Answered, NoListing
<1>7. fs \in Seq(TnyFolders) /\ Range(fs) \subseteq Under[a]
  BY <1>5, AnswerIn
<1>8. /\ Counted(unread) = (listed \intersect Inboxes) \ InPlain
      /\ listed \subseteq TnyFolders
  <2>1. Range(fs) \subseteq InPlain
    BY <1>4, <1>7, PlainApart
  <2>2. Range(unread.inboxes) = {}
    BY <1>5, OneElement
  <2>3. Range(fs) \subseteq TnyFolders
    BY <1>7, RangeOfSeq
  <2> QED
    BY <1>1, <1>2, <2>1, <2>2, <2>3 DEF UnreadTyped
<1>9. /\ seen'["unread"] = listed /\ DOMAIN seen' = Helpers /\ retry' = NoFolder
  BY <1>1, <1>5 DEF AccountListed, UnreadTyped
<1>10. IF i = 0 THEN GetHeaders(Hit(unread, <<>>), NoListing)
       ELSE GetHeaders([unread EXCEPT !.inboxes = <<fs[i]>> \o @], NoListing)
  BY <1>6 DEF AccountListed
<1>11. DOMAIN listing = Helpers /\ DOMAIN reading = Helpers
  BY <1>1 DEF UnreadTyped
<1> HIDE DEF listed, a
<1>12. CASE i = 0
  <2> DEFINE g == [Hit(unread, <<>>) EXCEPT !.accounts = Tail(@)]
  <2>1. Hit(unread, <<>>).inboxes = <<>>
    BY <1>3, <1>5 DEF Hit, GetUnreadMessagesHelper
  <2>2. GetAccount(g, NoListing)
    BY <1>10, <1>12, <2>1 DEF GetHeaders
  <2>3. <<>> \in Seq(TnyFolders) /\ IsInjective(<<>>) /\ Range(<<>>) = {}
    BY OneElement, EmptySeq
  <2>4. /\ g \in GetUnreadMessagesHelper /\ g.stage = "alive" /\ Reported(g)
        /\ Counted(g) = Counted(unread) \union
             (IF Head(unread.accounts) \in Multi THEN Range(<<>>) ELSE {})
    BY <1>2, <1>3, <2>3, AccountReported
  <2>5. Counted(g) = (listed \intersect Inboxes) \ InPlain
    BY <1>8, <2>3, <2>4
  <2> HIDE DEF g
  <2>6. /\ Reporting(unread', listing'["unread"], reading'["unread"], NoFolder, listed)
        /\ listing'["unread"] \in [Containers -> Nat] /\ DOMAIN listing' = Helpers
        /\ listing'["search"] = listing["search"]
        /\ reading'["unread"] = NoFolder /\ DOMAIN reading' = Helpers
        /\ reading'["search"] = reading["search"]
    BY <1>11, <2>2, <2>4, <2>5, AccountGot
  <2>7. UnreadTyped'
    BY <1>8, <1>9, <2>6 DEF UnreadTyped, Reporting
  <2> QED
    BY <1>9, <2>6, <2>7 DEF UnreadInv
<1>13. CASE i # 0
  <2>1. i \in 1..Len(fs) /\ fs[i] \in Under[a] /\ fs[i] \in TnyFolders
    <3>1. i \in 1..Len(fs)
      <4>1. \/ i = 0 /\ Range(fs) \intersect Inboxes = {}
            \/ /\ i \in 1..Len(fs) /\ fs[i] \in Inboxes
               /\ \A j \in 1..i-1 : fs[j] \notin Inboxes
        <5> HIDE DEF i
        <5> QED
          BY <1>7, FirstOfSeq DEF i
      <4> HIDE DEF i
      <4> QED
        BY <1>13, <4>1
    <3> HIDE DEF i
    <3>2. fs[i] \in TnyFolders /\ fs[i] \in Range(fs)
      BY <1>7, <3>1, LenProperties DEF Range
    <3> QED
      BY <1>7, <3>1, <3>2
  <2> DEFINE h == [unread EXCEPT !.inboxes = <<fs[i]>> \o @]
  <2>2. GetHeaders(h, NoListing)
    BY <1>10, <1>13
  <2> HIDE DEF i
  <2>3. <<fs[i]>> \o <<>> = <<fs[i]>>
    BY <2>1, OneElement, ConcatEmptySeq
  <2>4. h = [unread EXCEPT !.inboxes = <<fs[i]>>] /\ h.inboxes = <<fs[i]>>
    BY <1>3, <1>5, <2>3 DEF GetUnreadMessagesHelper
  <2> HIDE DEF h
  <2>5. /\ h.inboxes # <<>> /\ Head(h.inboxes) = fs[i] /\ Tail(h.inboxes) = <<>>
    BY <2>4
  <2>6. /\ unread' = [h EXCEPT !.inboxes = <<>>, !.tries = MaxTries]
        /\ listing' = [listing EXCEPT !["unread"] = NoListing]
        /\ reading' = [reading EXCEPT !["unread"] = fs[i]]
    BY <2>2, <2>5 DEF GetHeaders
  <2>7. /\ unread' \in GetUnreadMessagesHelper /\ unread'.stage = "alive"
        /\ unread'.accounts = unread.accounts /\ unread'.hits = unread.hits
        /\ unread'.inboxes = <<>>
    <3>1. MaxTries \in Nat /\ <<>> \in Seq(TnyFolders)
      BY DBusAssumption, EmptySeq
    <3>2. unread' = [unread EXCEPT !.inboxes = <<>>, !.tries = MaxTries]
      BY <1>3, <2>4, <2>6 DEF GetUnreadMessagesHelper
    <3> QED
      BY <1>2, <1>3, <3>1, <3>2 DEF GetUnreadMessagesHelper
  <2>8. Reported(unread') /\ Counted(unread') = Counted(unread)
    BY <1>2, <2>7, SameReport
  <2>9. /\ listing'["unread"] = NoListing /\ reading'["unread"] = fs[i]
        /\ DOMAIN listing' = Helpers /\ DOMAIN reading' = Helpers
        /\ listing'["search"] = listing["search"]
        /\ reading'["search"] = reading["search"]
    BY <1>11, <2>6
  <2>10. InPlainAccount(a, unread', NoListing, fs[i], NoFolder)
    BY <2>1, <2>7 DEF InPlainAccount
  <2>11. AtAccount(unread', NoListing, fs[i], NoFolder)
    BY <1>1, <1>3, <2>7, <2>10 DEF AtAccount, a
  <2>12. Counted(unread') \union Range(unread'.inboxes)
           = (listed \intersect Inboxes) \ InPlain
    BY <1>8, <2>7, <2>8, OneElement
  <2>13. Reporting(unread', listing'["unread"], reading'["unread"], retry', seen'["unread"])
    BY <1>9, <2>7, <2>8, <2>9, <2>11, <2>12 DEF Reporting
  <2>14. NoListing \in [Containers -> Nat]
    BY DEF NoListing
  <2>15. UnreadTyped'
    BY <1>8, <1>9, <2>1, <2>7, <2>9, <2>14 DEF UnreadTyped
  <2> QED
    BY <2>9, <2>13, <2>15 DEF UnreadInv
<1> QED
  BY <1>12, <1>13

LEMMA MultiListedStep ==
  ASSUME UnreadInv, NEW c \in Containers, NEW fs \in FoldersIn(c),
         MultiListed(c, fs)
  PROVE  /\ UnreadInv'
         /\ listing'["search"] = listing["search"]
         /\ reading'["search"] = reading["search"]
<1> USE DEF Helpers
<1> DEFINE a      == Head(unread.accounts)
           now    == listing["unread"]
           less   == Answered(now, c)
           calls  == AskAll(less, fs, StoresAt(fs))
           inboxes == AddInboxes(unread.inboxes, fs)
           n      == Cardinality(StoresAt(fs))
           next   == [unread EXCEPT !.done = @ + 1, !.total = @ + n,
                                    !.inboxes = AddInboxes(@, fs)]
           listed == seen["unread"] \union Range(fs)
<1>1. UnreadTyped /\ now[c] > 0 /\ a \in Multi
  BY DEF UnreadInv, MultiListed
<1>2. /\ unread.stage = "alive" /\ Reported(unread)
      /\ AtAccount(unread, now, reading["unread"], retry)
      /\ Counted(unread) \union Range(unread.inboxes)
           = (seen["unread"] \intersect Inboxes) \ InPlain
  BY <1>1, UnderWay
<1>3. /\ unread \in GetUnreadMessagesHelper /\ unread.accounts # <<>>
      /\ InMultiAccount(a, unread, now, reading["unread"], retry)
  BY <1>1, <1>2 DEF AtAccount, UnreadTyped
<1>4. /\ reading["unread"] = NoFolder /\ retry = NoFolder
      /\ unread.total = unread.done + Cardinality(Tokens(now))
      /\ \A d \in Accounts \ {a} : now[d] = 0
      /\ IsInjective(unread.inboxes) /\ Range(unread.inboxes) \subseteq Inboxes
      /\ unread.inboxes \in Seq(TnyFolders) /\ unread.done \in Nat /\ unread.total \in Nat
  BY <1>3 DEF InMultiAccount, GetUnreadMessagesHelper
<1>5. c \notin Plain
  <2>1. c \in TnyFolders \/ c = a
    BY <1>1, <1>4 DEF Containers
  <2> QED
    BY <1>1, <2>1, DBusAssumption DEF Plain, RemoteAccounts
<1>6. /\ fs \in Seq(TnyFolders) /\ fs \in Seq(Containers)
      /\ Range(fs) \intersect InPlain = {} /\ StoresAt(fs) \in SUBSET DOMAIN fs
      /\ Range(fs) \subseteq TnyFolders
  <2>1. /\ fs \in Seq(TnyFolders) /\ fs \in Seq(Containers)
        /\ Range(fs) \subseteq Under[c] /\ StoresAt(fs) \in SUBSET DOMAIN fs
    BY AnswerIn
  <2>2. Under[c] \intersect InPlain = {}
    BY <1>5, PlainApart
  <2> QED
    BY <2>1, <2>2, RangeOfSeq
<1>7. /\ calls \in [Containers -> Nat] /\ n \in Nat
      /\ Cardinality(Tokens(calls)) \in Nat
      /\ Cardinality(Tokens(calls)) = Cardinality(Tokens(now)) - 1 + n
      /\ less \in [Containers -> Nat] /\ Cardinality(Tokens(now)) \in Nat
  <2>1. /\ less \in [Containers -> Nat] /\ now \in [Containers -> Nat]
        /\ Cardinality(Tokens(less)) = Cardinality(Tokens(now)) - 1
    BY <1>1, TokenTaken DEF UnreadTyped
  <2> HIDE DEF less, now
  <2>2. /\ calls \in [Containers -> Nat] /\ n \in Nat
        /\ Cardinality(Tokens(calls)) = Cardinality(Tokens(less)) + n
    BY <1>6, <2>1, TokensAsked
  <2> HIDE DEF calls
  <2>3. Cardinality(Tokens(now)) \in Nat /\ Cardinality(Tokens(calls)) \in Nat
    BY <2>1, <2>2, TokensFinite
  <2> HIDE DEF n
  <2> QED
    BY <2>1, <2>2, <2>3
<1>8. \A d \in Accounts \ {a} : calls[d] = 0
  <2> TAKE d \in Accounts \ {a}
  <2> DEFINE here == {i \in StoresAt(fs) : fs[i] = d}
  <2>1. d \in Containers /\ now[d] = 0 /\ d # c
    BY <1>1, <1>4 DEF Containers
  <2>2. less[d] = 0
    BY <1>1, <2>1 DEF Answered, UnreadTyped
  <2>3. here = {}
    <3>1. \A i \in StoresAt(fs) : fs[i] \in TnyFolders
      BY <1>6, LenProperties
    <3>2. d \notin TnyFolders
      BY DBusAssumption
    <3> QED
      BY <3>1, <3>2
  <2> HIDE DEF less
  <2>4. calls[d] = less[d] + Cardinality(here)
    BY <2>1 DEF AskAll
  <2> HIDE DEF here, calls
  <2>5. Cardinality(here) = 0
    BY <2>3, FS_EmptySet
  <2> QED
    BY <2>2, <2>4, <2>5
<1>9. /\ inboxes \in Seq(TnyFolders) /\ IsInjective(inboxes)
      /\ Range(inboxes) = Range(unread.inboxes) \union (Range(fs) \intersect Inboxes)
  BY <1>4, <1>6, InboxesAdded
<1>10. /\ Counted(unread) \union Range(inboxes) = (listed \intersect Inboxes) \ InPlain
       /\ listed \subseteq TnyFolders /\ Range(inboxes) \subseteq Inboxes
  BY <1>1, <1>2, <1>4, <1>6, <1>9 DEF UnreadTyped
<1>11. /\ seen'["unread"] = listed /\ DOMAIN seen' = Helpers /\ retry' = NoFolder
  BY <1>1, <1>4 DEF MultiListed, UnreadTyped
<1>12. DOMAIN listing = Helpers /\ DOMAIN reading = Helpers
  BY <1>1 DEF UnreadTyped
<1>13. IF next.done = next.total
       THEN GetAccount([Hit(next, next.inboxes) EXCEPT !.accounts = Tail(@)], calls)
       ELSE /\ unread' = next /\ reading' = reading
            /\ listing' = [listing EXCEPT !["unread"] = calls]
  BY DEF MultiListed
<1> HIDE DEF inboxes
<1>14. next = [unread EXCEPT !.done = @ + 1, !.total = @ + n, !.inboxes = inboxes]
  BY DEF inboxes
<1> HIDE DEF listed, a, now, less, calls, n, next
<1>15. /\ next \in GetUnreadMessagesHelper /\ next.stage = "alive"
       /\ next.accounts = unread.accounts /\ next.hits = unread.hits
       /\ next.inboxes = inboxes
       /\ next.done = unread.done + 1 /\ next.total = unread.total + n
       /\ next.done \in Nat
  <2>1. unread.done + 1 \in Nat /\ unread.total + n \in Nat
    BY <1>4, <1>7
  <2>2. next = [unread EXCEPT !.done = unread.done + 1, !.total = unread.total + n,
                              !.inboxes = inboxes]
    BY <1>14
  <2> QED
    BY <1>2, <1>3, <1>9, <2>1, <2>2 DEF GetUnreadMessagesHelper
<1>16. Reported(next) /\ Counted(next) = Counted(unread)
  BY <1>2, <1>15, SameReport
<1>17. next.total = next.done + Cardinality(Tokens(calls))
  BY <1>4, <1>7, <1>15
<1>18. CASE next.done = next.total
  <2> DEFINE g == [Hit(next, inboxes) EXCEPT !.accounts = Tail(@)]
  <2>1. calls = NoListing
    <3>1. next.done \in Nat /\ Cardinality(Tokens(calls)) \in Nat
      BY <1>7, <1>15
    <3>2. Cardinality(Tokens(calls)) = 0
      BY <1>17, <1>18, <3>1
    <3> QED
      BY <1>7, <3>2, TokensNone
  <2>2. GetAccount(g, NoListing)
    BY <1>13, <1>15, <1>18, <2>1
  <2>3. Head(next.accounts) = a /\ next.accounts # <<>> /\ a \notin Plain
    BY <1>1, <1>3, <1>15 DEF a, Plain
  <2>4. /\ g \in GetUnreadMessagesHelper /\ g.stage = "alive" /\ Reported(g)
        /\ Counted(g) = Counted(next) \union
             (IF Head(next.accounts) \in Multi THEN Range(inboxes) ELSE {})
    BY <1>9, <1>15, <1>16, <2>3, AccountReported
  <2>5. Counted(g) = (listed \intersect Inboxes) \ InPlain
    BY <1>1, <1>10, <1>16, <2>3, <2>4
  <2> HIDE DEF g
  <2>6. /\ Reporting(unread', listing'["unread"], reading'["unread"], NoFolder, listed)
        /\ listing'["unread"] \in [Containers -> Nat] /\ DOMAIN listing' = Helpers
        /\ listing'["search"] = listing["search"]
        /\ reading'["unread"] = NoFolder /\ DOMAIN reading' = Helpers
        /\ reading'["search"] = reading["search"]
    BY <1>12, <2>2, <2>4, <2>5, AccountGot
  <2>7. UnreadTyped'
    BY <1>10, <1>11, <2>6 DEF UnreadTyped, Reporting
  <2> QED
    BY <1>11, <2>6, <2>7 DEF UnreadInv
<1>19. CASE next.done # next.total
  <2>1. /\ unread' = next /\ reading' = reading
        /\ listing' = [listing EXCEPT !["unread"] = calls]
    BY <1>13, <1>19
  <2>2. calls # NoListing
    <3>1. Cardinality(Tokens(calls)) # 0
      BY <1>4, <1>15, <1>17, <1>19
    <3> QED
      BY <1>7, <3>1, TokensNone
  <2>3. /\ listing'["unread"] = calls /\ reading'["unread"] = NoFolder
        /\ DOMAIN listing' = Helpers /\ DOMAIN reading' = Helpers
        /\ listing'["search"] = listing["search"]
        /\ reading'["search"] = reading["search"]
    BY <1>4, <1>12, <2>1
  <2>4. InMultiAccount(a, next, calls, NoFolder, NoFolder)
    BY <1>8, <1>9, <1>10, <1>15, <1>17, <2>2 DEF InMultiAccount
  <2>5. AtAccount(next, calls, NoFolder, NoFolder)
    BY <1>1, <1>3, <1>15, <2>4 DEF AtAccount, a
  <2>6. Counted(next) \union Range(next.inboxes) = (listed \intersect Inboxes) \ InPlain
    BY <1>10, <1>15, <1>16
  <2>7. Reporting(unread', listing'["unread"], reading'["unread"], retry', seen'["unread"])
    BY <1>11, <1>15, <1>16, <2>1, <2>3, <2>5, <2>6 DEF Reporting
  <2>8. UnreadTyped'
    BY <1>7, <1>10, <1>11, <1>15, <2>1, <2>3 DEF UnreadTyped
  <2> QED
    BY <2>3, <2>7, <2>8 DEF UnreadInv
<1> QED
  BY <1>18, <1>19

LEMMA UnreadReadStep ==
  ASSUME UnreadInv, NEW differ \in BOOLEAN, UnreadRead(differ)
  PROVE  /\ UnreadInv'
         /\ listing'["search"] = listing["search"]
         /\ reading'["search"] = reading["search"]
<1> USE DEF Helpers
<1> DEFINE a       == Head(unread.accounts)
           f       == reading["unread"]
           counted == IF differ THEN <<>> ELSE <<f>>
           listed  == seen["unread"]
<1>1. UnreadTyped /\ f # NoFolder /\ f \in TnyFolders
  BY DEF UnreadInv, UnreadRead, UnreadTyped
<1>2. /\ unread.stage = "alive" /\ Reported(unread)
      /\ AtAccount(unread, listing["unread"], f, retry)
      /\ Counted(unread) \union Range(unread.inboxes) = (listed \intersect Inboxes) \ InPlain
  BY <1>1, UnderWay
<1>3. /\ unread \in GetUnreadMessagesHelper /\ unread.accounts # <<>>
      /\ InPlainAccount(a, unread, listing["unread"], f, retry) /\ a \notin Multi
  BY <1>1, <1>2 DEF AtAccount, InMultiAccount, UnreadTyped
<1>4. /\ listing["unread"] = NoListing /\ f \in Under[a] /\ retry = NoFolder
      /\ unread.inboxes = <<>>
  BY <1>1, <1>3 DEF InPlainAccount
<1>5. Counted(unread) = (listed \intersect Inboxes) \ InPlain
  BY <1>2, <1>4, OneElement
<1>6. DOMAIN listing = Helpers /\ DOMAIN reading = Helpers
      /\ DOMAIN seen = Helpers /\ seen' = seen /\ listed \subseteq TnyFolders
  BY <1>1 DEF UnreadTyped, UnreadRead
<1> HIDE DEF a, listed
<1>7. CASE differ /\ unread.tries > 0
  <2>1. /\ unread' = [unread EXCEPT !.tries = @ - 1] /\ retry' = f
        /\ reading' = [reading EXCEPT !["unread"] = NoFolder]
        /\ listing' = listing
    BY <1>7 DEF UnreadRead, TriesTaken
  <2>2. unread.tries - 1 \in Nat
    BY <1>3, <1>7 DEF GetUnreadMessagesHelper
  <2>3. /\ unread' \in GetUnreadMessagesHelper /\ unread'.stage = "alive"
        /\ unread'.accounts = unread.accounts /\ unread'.hits = unread.hits
        /\ unread'.inboxes = <<>>
    BY <1>2, <1>3, <1>4, <2>1, <2>2 DEF GetUnreadMessagesHelper
  <2>4. Reported(unread') /\ Counted(unread') = Counted(unread)
    BY <1>2, <2>3, SameReport
  <2>5. /\ reading'["unread"] = NoFolder /\ reading'["search"] = reading["search"]
        /\ DOMAIN reading' = Helpers
    BY <1>6, <2>1
  <2>6. InPlainAccount(a, unread', NoListing, NoFolder, f)
    BY <1>4, <2>3 DEF InPlainAccount
  <2>7. AtAccount(unread', NoListing, NoFolder, f)
    BY <1>3, <2>3, <2>6 DEF AtAccount, a
  <2>8. Counted(unread') \union Range(unread'.inboxes) = (listed \intersect Inboxes) \ InPlain
    BY <1>5, <2>3, <2>4, OneElement
  <2>9. Reporting(unread', listing'["unread"], reading'["unread"], retry', seen'["unread"])
    BY <1>4, <1>6, <2>1, <2>3, <2>4, <2>5, <2>7, <2>8 DEF Reporting, listed
  <2>10. UnreadTyped'
    BY <1>1, <1>6, <2>1, <2>3, <2>5 DEF UnreadTyped
  <2> QED
    BY <2>1, <2>5, <2>9, <2>10 DEF UnreadInv
<1>8. CASE ~(differ /\ unread.tries > 0)
  <2> DEFINE g == [Hit(unread, counted) EXCEPT !.accounts = Tail(@)]
  <2>1. GetHeaders(Hit(unread, counted), NoListing) /\ retry' = NoFolder
    BY <1>4, <1>8 DEF UnreadRead
  <2>2. Hit(unread, counted).inboxes = <<>>
    BY <1>3, <1>4 DEF Hit, GetUnreadMessagesHelper
  <2>3. GetAccount(g, NoListing)
    BY <2>1, <2>2 DEF GetHeaders
  <2>4. /\ counted \in Seq(TnyFolders) /\ IsInjective(counted)
        /\ Range(counted) \subseteq Under[a]
    BY <1>1, <1>4, OneElement
  <2> HIDE DEF counted
  <2>5. /\ g \in GetUnreadMessagesHelper /\ g.stage = "alive" /\ Reported(g)
        /\ Counted(g) = Counted(unread) \union
             (IF Head(unread.accounts) \in Multi THEN Range(counted) ELSE {})
    BY <1>2, <1>3, <2>4, AccountReported DEF a
  <2>6. Counted(g) = (listed \intersect Inboxes) \ InPlain
    BY <1>3, <1>5, <2>5 DEF a
  <2> HIDE DEF g
  <2>7. /\ Reporting(unread', listing'["unread"], reading'["unread"], NoFolder, listed)
        /\ listing'["unread"] \in [Containers -> Nat] /\ DOMAIN listing' = Helpers
        /\ listing'["search"] = listing["search"]
        /\ reading'["unread"] = NoFolder /\ DOMAIN reading' = Helpers
        /\ reading'["search"] = reading["search"]
    BY <1>6, <2>3, <2>5, <2>6, AccountGot
  <2>8. UnreadTyped'
    BY <1>1, <1>6, <2>1, <2>7 DEF UnreadTyped, Reporting
  <2> QED
    BY <1>6, <2>1, <2>7, <2>8 DEF UnreadInv, listed
<1> QED
  BY <1>7, <1>8

LEMMA UnreadAgain ==
  ASSUME UnreadInv, SendGetHeadersRequest
  PROVE  /\ UnreadInv'
         /\ reading'["search"] = reading["search"] /\ DOMAIN reading' = Helpers
<1> USE DEF Helpers
<1>1. UnreadTyped /\ retry # NoFolder /\ retry \in TnyFolders
  BY DEF UnreadInv, SendGetHeadersRequest, UnreadTyped
<1>2. /\ unread.stage = "alive" /\ Reported(unread)
      /\ AtAccount(unread, listing["unread"], reading["unread"], retry)
      /\ Counted(unread) \union Range(unread.inboxes)
           = (seen["unread"] \intersect Inboxes) \ InPlain
  BY <1>1, UnderWay
<1>3. /\ unread \in GetUnreadMessagesHelper /\ unread.accounts # <<>>
      /\ InPlainAccount(Head(unread.accounts), unread, listing["unread"],
                        reading["unread"], retry)
      /\ Head(unread.accounts) \notin Multi
  BY <1>1, <1>2 DEF AtAccount, InMultiAccount, UnreadTyped
<1>4. /\ reading' = [reading EXCEPT !["unread"] = retry] /\ retry' = NoFolder
      /\ UNCHANGED <<unread, listing, seen>>
  BY DEF SendGetHeadersRequest
<1>5. /\ reading'["unread"] = retry /\ reading'["search"] = reading["search"]
      /\ DOMAIN reading' = Helpers
  BY <1>1, <1>4 DEF UnreadTyped
<1>6. InPlainAccount(Head(unread.accounts), unread, listing["unread"], retry, NoFolder)
  BY <1>1, <1>3 DEF InPlainAccount
<1>7. AtAccount(unread, listing["unread"], retry, NoFolder)
  BY <1>3, <1>6 DEF AtAccount
<1>8. Reporting(unread, listing["unread"], retry, NoFolder, seen["unread"])
  BY <1>2, <1>3, <1>7 DEF Reporting
<1>9. UnreadTyped'
  BY <1>1, <1>4, <1>5 DEF UnreadTyped
<1> QED
  BY <1>4, <1>5, <1>8, <1>9 DEF UnreadInv

-----------------------------------------------------------------------------
(* The answers are complete.                                               *)

LEMMA DBusStep ==
  ASSUME DBusInv, [DBusNext]_dbusVars
  PROVE  DBusInv'
<1> USE DEF Helpers
<1>0. /\ SearchInv /\ UnreadInv
      /\ DOMAIN listing = Helpers /\ DOMAIN reading = Helpers /\ DOMAIN seen = Helpers
  BY DEF DBusInv, SearchInv, SearchTyped
<1>1. ASSUME NEW wanted \in Criteria, Search(wanted) PROVE DBusInv'
  <2>1. SearchInv'
    BY <1>0, <1>1, SearchStarts
  <2>2. /\ UNCHANGED <<unread, retry, reading, seen>> /\ DOMAIN listing' = Helpers
        /\ listing'["unread"] = listing["unread"]
    BY <1>0, <1>1 DEF Search
  <2>3. UnreadInv'
    BY <1>0, <2>2, UnreadUntouched
  <2> QED
    BY <2>1, <2>3 DEF DBusInv
<1>2. ASSUME GetUnreadMessages PROVE DBusInv'
  <2>1. UnreadInv'
    BY <1>0, <1>2, UnreadStarts
  <2>2. SearchInv'
    BY <1>0, <1>2, SearchUntouched DEF GetUnreadMessages
  <2> QED
    BY <2>1, <2>2 DEF DBusInv
<1>3. ASSUME OnIdleGetUnreadMessages PROVE DBusInv'
  <2>1. UnreadInv'
    BY <1>0, <1>3, UnreadIdle
  <2>2. /\ UNCHANGED <<search, lost, seen>>
        /\ listing'["search"] = listing["search"]
        /\ reading'["search"] = reading["search"]
        /\ DOMAIN listing' = Helpers /\ DOMAIN reading' = Helpers
    BY <1>0, <1>3, <2>1 DEF OnIdleGetUnreadMessages, GetAccount, ReturnResults
  <2>3. SearchInv'
    BY <1>0, <2>2, SearchUntouched
  <2> QED
    BY <2>1, <2>3 DEF DBusInv
<1>4. ASSUME NEW c \in Containers, NEW fs \in FoldersIn(c), SearchListed(c, fs)
      PROVE  DBusInv'
  <2>1. SearchInv'
    BY <1>0, <1>4, SearchListedStep
  <2>2. /\ UNCHANGED <<unread, retry>>
        /\ listing'["unread"] = listing["unread"]
        /\ reading'["unread"] = reading["unread"]
        /\ seen'["unread"] = seen["unread"]
        /\ DOMAIN listing' = Helpers /\ DOMAIN reading' = Helpers
        /\ DOMAIN seen' = Helpers
    BY <1>0, <1>4 DEF SearchListed, SearchFrom
  <2>3. UnreadInv'
    BY <1>0, <2>2, UnreadUntouched
  <2> QED
    BY <2>1, <2>3 DEF DBusInv
<1>5. ASSUME NEW c \in Containers, NEW fs \in FoldersIn(c),
             AccountListed(c, fs) \/ MultiListed(c, fs)
      PROVE  DBusInv'
  <2>1. /\ UnreadInv' /\ listing'["search"] = listing["search"]
        /\ reading'["search"] = reading["search"]
    BY <1>0, <1>5, AccountListedStep, MultiListedStep
  <2>2. /\ UNCHANGED <<search, lost>> /\ seen'["search"] = seen["search"]
    BY <1>0, <1>5 DEF AccountListed, MultiListed
  <2>3. DOMAIN listing' = Helpers /\ DOMAIN reading' = Helpers /\ DOMAIN seen' = Helpers
    BY <2>1 DEF UnreadInv, UnreadTyped
  <2>4. SearchInv'
    BY <1>0, <2>1, <2>2, <2>3, SearchUntouched
  <2> QED
    BY <2>1, <2>4 DEF DBusInv
<1>6. ASSUME NEW ok \in BOOLEAN, SearchRead(ok) PROVE DBusInv'
  <2>1. SearchInv'
    BY <1>0, <1>6, SearchReadStep
  <2>2. /\ UNCHANGED <<unread, retry, listing, seen>>
        /\ reading'["unread"] = reading["unread"] /\ DOMAIN reading' = Helpers
    BY <1>0, <1>6 DEF SearchRead, SearchFrom
  <2>3. UnreadInv'
    BY <1>0, <2>2, UnreadUntouched
  <2> QED
    BY <2>1, <2>3 DEF DBusInv
<1>7. ASSUME NEW differ \in BOOLEAN, UnreadRead(differ) PROVE DBusInv'
  <2>1. /\ UnreadInv' /\ listing'["search"] = listing["search"]
        /\ reading'["search"] = reading["search"]
    BY <1>0, <1>7, UnreadReadStep
  <2>2. UNCHANGED <<search, lost>> \/ UNCHANGED <<search, lost, seen>>
    BY <1>7 DEF UnreadRead
  <2>3. seen' = seen
    BY <1>7 DEF UnreadRead
  <2>4. DOMAIN listing' = Helpers /\ DOMAIN reading' = Helpers /\ DOMAIN seen' = Helpers
    BY <2>1 DEF UnreadInv, UnreadTyped
  <2>5. SearchInv'
    BY <1>0, <2>1, <2>2, <2>3, <2>4, SearchUntouched
  <2> QED
    BY <2>1, <2>5 DEF DBusInv
<1>8. ASSUME SendGetHeadersRequest PROVE DBusInv'
  <2>1. /\ UnreadInv' /\ reading'["search"] = reading["search"]
        /\ DOMAIN reading' = Helpers
    BY <1>0, <1>8, UnreadAgain
  <2>2. UNCHANGED <<search, lost, listing, seen>>
    BY <1>8 DEF SendGetHeadersRequest
  <2>3. SearchInv'
    BY <1>0, <2>1, <2>2, SearchUntouched
  <2> QED
    BY <2>1, <2>3 DEF DBusInv
<1>9. CASE UNCHANGED dbusVars
  BY <1>0, <1>9, SearchUntouched, UnreadUntouched DEF dbusVars, DBusInv
<1>10. ASSUME NEW c \in Called PROVE c \in Containers
  BY DEF Called
<1> QED
  BY <1>1, <1>2, <1>3, <1>4, <1>5, <1>6, <1>7, <1>8, <1>9, <1>10
     DEF DBusNext, FoldersAnswered, HeadersAnswered

(* A request answered has reported every account and counted every inbox.   *)
LEMMA ReportIsComplete ==
  ASSUME UnreadInv
  PROVE  UnreadIsComplete
<1> SUFFICES ASSUME unread.stage = "answered" PROVE UnreadIsComplete
  BY DEF UnreadIsComplete
<1> DEFINE hits    == Range(unread.hits)
           of(a)   == { h \in hits : h.account = a }
           several == Multi \ {LocalAccount}
<1>1. /\ Reported(unread) /\ unread.accounts = <<>>
      /\ Counted(unread) = (seen["unread"] \intersect Inboxes) \ InPlain
  BY DEF UnreadInv, Reporting
<1>2. Range(unread.accounts) = {}
  BY <1>1, OneElement
<1>3. /\ (Accounts \ Multi) \ {LocalAccount} = Plain
      /\ several \subseteq RemoteAccounts /\ Plain \subseteq RemoteAccounts
  BY DBusAssumption DEF Plain, RemoteAccounts
<1>4. \A h \in hits : /\ h.account \in RemoteAccounts /\ IsInjective(h.counted)
                      /\ h.account \in Plain => Range(h.counted) \subseteq Under[h.account]
  BY <1>1, <1>2 DEF Reported, Range
<1>5. ASSUME NEW a \in RemoteAccounts
      PROVE  Cardinality({i \in DOMAIN unread.hits : unread.hits[i].account = a}) = 1
  <2>1. PICK i \in DOMAIN unread.hits : unread.hits[i].account = a
    BY <1>1, <1>2 DEF Reported
  <2> DEFINE at == {j \in DOMAIN unread.hits : unread.hits[j].account = a}
  <2>2. at = {i}
    BY <1>1, <2>1 DEF Reported
  <2> HIDE DEF at
  <2>3. Cardinality(at) = 1
    BY <2>2, FS_Singleton, Zenon
  <2> QED
    BY <2>3 DEF at
<1>6. UNION { Range(h.counted) : h \in UNION { of(a) : a \in several } } = Counted(unread)
  <2>1. ASSUME NEW f, f \in UNION { Range(h.counted) : h \in UNION { of(a) : a \in several } }
        PROVE  f \in Counted(unread)
    <3>1. PICK h \in hits : h.account \in Multi /\ f \in Range(h.counted)
      BY <2>1
    <3>2. PICK i \in DOMAIN unread.hits : h = unread.hits[i]
      BY <3>1 DEF Range
    <3> QED
      BY <3>1, <3>2 DEF Counted
  <2>2. ASSUME NEW f \in Counted(unread)
        PROVE  f \in UNION { Range(h.counted) : h \in UNION { of(a) : a \in several } }
    <3>1. PICK i \in DOMAIN unread.hits :
            unread.hits[i].account \in Multi /\ f \in Range(unread.hits[i].counted)
      BY <2>2 DEF Counted
    <3>2. unread.hits[i] \in hits
      BY DEF Range
    <3>3. unread.hits[i].account \in several
      BY <1>4, <3>1, <3>2 DEF RemoteAccounts
    <3> QED
      BY <3>1, <3>2, <3>3
  <2> QED
    BY <2>1, <2>2
<1>7. UNION { Range(h.counted) : h \in UNION { of(a) : a \in several } }
        = (seen["unread"] \intersect Inboxes) \ UNION { Under[a] : a \in Plain }
  BY <1>1, <1>6 DEF InPlain
<1> HIDE DEF hits
<1>8. \A a \in Plain : \A h \in of(a) : Range(h.counted) \subseteq Under[a]
  BY <1>4
<1>9. \A a \in Plain \union several :
        Cardinality({i \in DOMAIN unread.hits : unread.hits[i].account = a}) = 1
  BY <1>3, <1>5
<1> QED
  BY <1>3, <1>4, <1>7, <1>8, <1>9 DEF UnreadIsComplete, hits

LEMMA InvIsComplete ==
  ASSUME DBusInv
  PROVE  AnswersAreComplete
<1>1. SearchInv /\ UnreadInv
  BY DEF DBusInv
<1>2. NothingLeft("search", search.stage) /\ SearchIsComplete
  BY <1>1 DEF SearchInv, SearchIsComplete
<1>3. NothingLeft("unread", unread.stage) /\ (unread.stage # "alive" => retry = NoFolder)
  BY <1>1 DEF UnreadInv, Reporting, NothingLeft
<1> QED
  BY <1>1, <1>2, <1>3, ReportIsComplete DEF AnswersAreComplete

(* The reply to Search and the one to GetUnreadMessages are complete, and with *)
(* them nothing is left that would use the freed helper, for any accounts,     *)
(* any forest of folders and any order of the answers.                         *)
THEOREM AnswersComplete == DBusSpec => []AnswersAreComplete
<1>1. DBusInit => DBusInv
  BY SearchInit, UnreadInit DEF DBusInv
<1>2. DBusInv /\ [DBusNext]_dbusVars => DBusInv'
  BY DBusStep
<1>3. DBusInv => AnswersAreComplete
  BY InvIsComplete
<1> QED
  BY <1>1, <1>2, <1>3, PTL DEF DBusSpec
=============================================================================
