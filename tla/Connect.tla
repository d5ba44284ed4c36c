------------------------------- MODULE Connect -------------------------------
(***************************************************************************)
(* Going online before doing something: the commands that need an account  *)
(* hand a performer to modest_platform_connect_and_perform, which calls it *)
(* once the device and the account are online, or could not be brought     *)
(* there (hildon2/modest-platform.c and gtk/modest-platform.c).  Commands  *)
(* on two folders go through modest_platform_double_connect_and_perform,   *)
(* which brings the source's account online and then the destination's.    *)
(*                                                                         *)
(* Sending and receiving queues its mail operation before it connects, so  *)
(* that modest does not quit meanwhile; a POP account is disconnected      *)
(* first, by an operation of its own.  The performer starts the queued     *)
(* operation or takes it out of the queue again: nobody else would.        *)
(*                                                                         *)
(* The device and the accounts also come and go by themselves, between the *)
(* request, the answers of tinymail and the performer.                     *)
(***************************************************************************)
EXTENDS Naturals, Sequences, FiniteSetsExt

CONSTANTS
    Toolkit,   \* "hildon2" or "gtk": the platform modest was built for
    Jobs,      \* commands under way
    Remote,    \* remote store accounts
    Pop,       \* those that speak POP3
    Local,     \* the local folders account
    DeviceOnly \* a NULL account: only the device is wanted

ASSUME ConnectAssumption ==
    /\ Toolkit \in {"hildon2", "gtk"}
    /\ Pop \subseteq Remote
    /\ Local \notin Remote /\ DeviceOnly \notin Remote

VARIABLES
    online,    \* tny_device_is_online
    connected, \* accounts with TNY_CONNECTION_STATUS_CONNECTED
    jobs,      \* each command: what it does, for whom it still waits, and how
    queue,     \* the mail operations of the commands, in the operation queue
    started    \* the commands whose operation was started

connectVars == <<online, connected, jobs, queue, started>>

-----------------------------------------------------------------------------
(* Whose answer a job waits for: the disconnection of a POP account, the    *)
(* device, the account, an idle source; or nobody's, when its performer is  *)
(* forgotten ("lost").                                                      *)
Waiting == {"leaving", "device", "account", "idle", "lost"}
Stages  == Waiting \union {"free", "operating"}

(* The kinds of commands: "receive" is modest_ui_actions_do_send_receive,   *)
(* "dbus" the D-Bus request for it, "operate" one that creates its          *)
(* operation when connected and "look" one that needs none.                 *)
Free == [kind |-> "none", stage |-> "free", goals |-> <<>>]

(* The operations of job j: the one that does the work, the one that        *)
(* disconnects, and the one that only keeps the queue from being empty.     *)
Mail(j)  == <<j, "mail">>
Leave(j) == <<j, "leave">>
Hold(j)  == <<j, "hold">>

\* The queue without the operations of j, and with these ones of it.
Queued(j, ops) == (queue \ {Mail(j), Leave(j), Hold(j)}) \union ops

-----------------------------------------------------------------------------
\* Nothing more is to be brought online for goal g.
Met(g, on, up) == on /\ (g = DeviceOnly \/ g \in up)

\* The goals that are left once those met at the front are dropped: the
\* performer of the first of two accounts at once asks for the second.
Remaining(goals, on, up) ==
    LET met == {n \in 0..Len(goals) : \A i \in 1..n : Met(goals[i], on, up)}
    IN  SubSeq(goals, Max(met) + 1, Len(goals))

\* Mutant: the device is looked at the wrong way round.
AsksInverted(g, on) == IF on THEN "lost" ELSE "account"

\* modest_platform_connect_and_perform for a goal that is not met: whom it
\* asks.
AsksHildon(g, on) == IF on THEN "account" ELSE "device"

\* The same built for gtk: the account is asked to go online only while the
\* device is offline, and nothing at all happens for the device alone.
AsksGtk(g, on) == IF ~on /\ g # DeviceOnly THEN "account" ELSE "lost"

Asks(g, on) == IF Toolkit = "hildon2" THEN AsksHildon(g, on) ELSE AsksGtk(g, on)

\* The performers, called with canceled or err: the command is over, and
\* do_send_receive_performer takes its operation out of the queue.
Abandon(j) ==
    /\ jobs' = [jobs EXCEPT ![j] = Free]
    /\ queue' = Queued(j, {})
    /\ UNCHANGED started

\* The performers, called with neither.  do_send_receive_performer starts the
\* operation that waits in the queue, on_send_receive_performer adds an idle
\* source and one that keeps the queue busy, most others queue and start one.
Perform(j, kind) ==
    \/ /\ kind \in {"receive", "operate"}
       /\ jobs' = [jobs EXCEPT ![j] =
                     [kind |-> kind, stage |-> "operating", goals |-> <<>>]]
       /\ queue' = Queued(j, {Mail(j)})
       /\ started' = started \union {j}
    \/ /\ kind = "dbus"
       /\ jobs' = [jobs EXCEPT ![j] = [kind |-> kind, stage |-> "idle", goals |-> <<>>]]
       /\ queue' = Queued(j, {Hold(j)})
       /\ UNCHANGED started
    \/ kind = "look" /\ Abandon(j)

\* Job j of this kind wants these accounts, one after the other, with the
\* device (on) and the accounts (up) as they are now.
Pursue(j, kind, goals, on, up) ==
    LET left == Remaining(goals, on, up)
    IN  \/ left = <<>> /\ Perform(j, kind)
        \/ /\ left # <<>>
           /\ jobs' = [jobs EXCEPT ![j] =
                         [kind |-> kind, stage |-> Asks(Head(left), on), goals |-> left]]
           /\ queue' = Queued(j, IF kind = "receive" THEN {Mail(j)} ELSE {})
           /\ UNCHANGED started

\* modest_platform_connect_if_remote_and_perform: no need to connect for a
\* local account.
Wanted(accounts) == SelectSeq(accounts, LAMBDA a : a # Local)

Request(j, kind, accounts) ==
    /\ jobs[j] = Free
    /\ Pursue(j, kind, Wanted(accounts), online, connected)
    /\ UNCHANGED <<online, connected>>

-----------------------------------------------------------------------------
(* The commands.                                                           *)

\* modest_ui_actions_do_send_receive from here on: the operation is queued,
\* and a POP account is disconnected before anything else.
StartReceiving(j, a) ==
    \/ a \notin Pop /\ Pursue(j, "receive", <<a>>, online, connected)
    \/ /\ a \in Pop
       /\ jobs' = [jobs EXCEPT ![j] =
                     [kind |-> "receive", stage |-> "leaving", goals |-> <<a>>]]
       /\ queue' = Queued(j, {Mail(j), Leave(j)})
       /\ UNCHANGED started

Receive(j) ==
    /\ jobs[j] = Free
    /\ \E a \in Remote : StartReceiving(j, a)
    /\ UNCHANGED <<online, connected>>

\* on_send_receive and on_send_receive_full: the device only.
DBusReceive(j) == Request(j, "dbus", <<DeviceOnly>>)

\* on_idle_open_message_performer, for a message that is not on the device.
DBusOpen(j) == \E a \in Remote : Request(j, "look", <<a>>)

\* modest_ui_actions_on_retrieve_msg_contents, and reply_forward of a message
\* that is not cached or lacks parts.
RetrieveContents(j) == \E a \in Remote : Request(j, "operate", <<a>>)
ReplyForward(j)     == \E a \in Remote : Request(j, "operate", <<a>>)

\* open_msg_from_header of a message that is not cached: a window of it fetches
\* the message later, a draft is fetched here.
OpenMessage(j) ==
    \E a \in Remote, kind \in {"operate", "look"} : Request(j, kind, <<a>>)

\* do_create_folder.  In the outbox, whose folder is a merge folder, the
\* performer is called with an error at once and asks the user again.
CreateFolder(j) == \E a \in Remote \union {Local} : Request(j, "operate", <<a>>)

\* modest_ui_actions_on_edit_mode_rename_folder and delete_folder.
RenameFolder(j) == \E a \in Remote \union {Local} : Request(j, "operate", <<a>>)
DeleteFolder(j) == \E a \in Remote \union {Local} : Request(j, "operate", <<a>>)

\* modest_ui_actions_on_folder_window_move_to: always both accounts.
MoveFolder(j) ==
    \E src, dst \in Remote \union {Local} : Request(j, "operate", <<src, dst>>)

\* modest_ui_actions_transfer_messages_helper: modest_ui_actions_xfer_messages_check
\* asks for a connection only if the source is remote and the device offline,
\* and then only for messages that are not cached or must leave the server.
MoveMessages(j) ==
    \E src, dst \in Remote \union {Local} :
        \/ src # Local /\ ~online /\ Request(j, "operate", <<src, dst>>)
        \/ Request(j, "operate", <<>>)

\* modest_msg_view_window_view_attachment, for a part that was not fetched
\* while the device is offline; parts of a merge folder have no account.
ViewPart(j) ==
    /\ ~online
    /\ \E a \in Remote \union {DeviceOnly} : Request(j, "look", <<a>>)

\* modest_ui_actions_on_fetch_images: the device only.
FetchImages(j) == Request(j, "look", <<DeviceOnly>>)

-----------------------------------------------------------------------------
(* The answers of tinymail, each of them given once.                       *)

\* on_conic_device_went_online: on error, or if there is no account, that is
\* it; else the account is put online too.
DeviceAnswers(j, ok) ==
    LET job == jobs[j]
    IN  /\ job.stage = "device"
        /\ online' = (online \/ ok)
        /\ \/ ~ok /\ Abandon(j)
           \/ /\ ok /\ Head(job.goals) = DeviceOnly
              /\ Pursue(j, job.kind, Tail(job.goals), TRUE, connected)
           \/ /\ ok /\ Head(job.goals) # DeviceOnly
              /\ jobs' = [jobs EXCEPT ![j] =
                            [kind |-> job.kind, stage |-> "account",
                             goals |-> job.goals]]
              /\ UNCHANGED <<queue, started>>
        /\ UNCHANGED connected

\* on_account_went_online; src_account_connect_performer goes on with the
\* destination's account, or gives up.
AccountAnswers(j, ok) ==
    LET job == jobs[j]
        up  == IF ok THEN connected \union {Head(job.goals)} ELSE connected
    IN  /\ job.stage = "account"
        /\ connected' = up
        /\ \/ ~ok /\ Abandon(j)
           \/ ok /\ Pursue(j, job.kind, Tail(job.goals), online, up)
        /\ UNCHANGED online

\* modest_mail_operation_disconnect_account_cb and, from its end,
\* modest_ui_actions_send_receive_offline.
Disconnected(j) ==
    LET job == jobs[j]
        up  == connected \ {Head(job.goals)}
    IN  /\ job.stage = "leaving"
        /\ connected' = up
        /\ Pursue(j, "receive", job.goals, online, up)
        /\ UNCHANGED online

\* on_idle_send_receive: unless automatic updates are off or bound to another
\* kind of connection, it receives; then its own operation leaves the queue.
IdleReceive(j) ==
    /\ jobs[j].stage = "idle"
    /\ Abandon(j) \/ \E a \in Remote : StartReceiving(j, a)
    /\ UNCHANGED <<online, connected>>

\* The operation of j ends (see MailOpQueue).
Finish(j) ==
    /\ jobs[j].stage = "operating"
    /\ jobs' = [jobs EXCEPT ![j] = Free]
    /\ queue' = Queued(j, {})
    /\ started' = started \ {j}
    /\ UNCHANGED <<online, connected>>

\* The network, the server or another part of modest changes the device or an
\* account.
Drift ==
    /\ online' \in BOOLEAN
    /\ connected' \in SUBSET Remote
    /\ UNCHANGED <<jobs, queue, started>>

-----------------------------------------------------------------------------
ConnectInit ==
    /\ online \in BOOLEAN
    /\ connected \in SUBSET Remote
    /\ jobs = [j \in Jobs |-> Free]
    /\ queue = {} /\ started = {}

Command(j) ==
    \/ Receive(j) \/ DBusReceive(j) \/ DBusOpen(j)
    \/ OpenMessage(j) \/ RetrieveContents(j) \/ ReplyForward(j)
    \/ CreateFolder(j) \/ RenameFolder(j) \/ DeleteFolder(j)
    \/ MoveFolder(j) \/ MoveMessages(j)
    \/ ViewPart(j) \/ FetchImages(j)

ConnectAnswer(j) ==
    \/ \E ok \in BOOLEAN : DeviceAnswers(j, ok) \/ AccountAnswers(j, ok)
    \/ Disconnected(j)
    \/ IdleReceive(j)

ConnectNext == Drift \/ \E j \in Jobs : Command(j) \/ ConnectAnswer(j) \/ Finish(j)

\* tinymail answers every call, and the main loop runs its idle sources.
ConnectFairness == \A j \in Jobs : WF_connectVars(ConnectAnswer(j))

ConnectSpec == ConnectInit /\ [][ConnectNext]_connectVars /\ ConnectFairness

-----------------------------------------------------------------------------
(* Properties.                                                             *)

\* Every command that asked for a connection gets its performer called, with
\* success or not: whatever it holds is freed and what it queued goes on,
\* although the device and the accounts come and go between the answers.
PerformersRun ==
    \A j \in Jobs : jobs[j].stage \in Waiting ~> jobs[j].stage \notin Waiting

\* An operation that waits in the queue unstarted has a command that waits for an
\* answer and will start or remove it then, and sending and receiving has its
\* operation in the queue all that time: modest neither quits while it connects
\* nor stays for an operation nobody remembers.  On gtk this is not so: a command
\* that is lost leaves its operation in the queue.
QueuedIsAwaited ==
    \A j \in Jobs :
        Mail(j) \in queue /\ j \notin started
            <=> jobs[j].kind = "receive" /\ jobs[j].stage \in Waiting \ {"lost"}
=============================================================================
