# TLA+ models of modest

Modest is a mail client for Maemo and GTK: a UI over the tinymail library,
written in C with GObject. Everything modest does runs in one GTK main loop;
tinymail has threads of its own and answers asynchronous calls through callbacks
and signals that are delivered in that main loop. So there are no data races
between modest's handlers. What goes wrong goes wrong between them: a callback
reads what another one changed since the call was made, two signals arrive in an
order nobody tried, a counter of outstanding calls misses zero, a dialog runs a
nested main loop in the middle of a function.

The modules here model the part of modest in which that matters most: the mail
operations, the queue they are in, the send queue, send and receive, the accounts
and their outboxes, going online, writing and reading messages, and the way the
program decides that it may quit. TLC checks them on small instances; TLAPS
proves the main invariants for every instance.

Paths below are relative to the repository's `src/` directory. `PROJECT.json` maps
each definition to its lines (there the paths start with one more `src/`).

## Components

| component | state it keeps | operations | talks to |
|---|---|---|---|
| mail operation queue (`modest-mail-operation-queue.c`) | the queue, the handlers connected to each operation, the installed queue-empty idle source, `running_final_sync` | add, remove, cancel, cancel_all, the started and finished callbacks, `notify_queue_empty` | every mail operation (signals), main loop (idle sources), device, progress observers, `modest-main.c` |
| mail operations (`modest-mail-operation.c`) | type, status, error, done/total, account, source window, a helper per asynchronous call | one function per operation, its callbacks, `notify_start`, `notify_end`, cancel | tinymail, queue, send queue, account manager |
| quitting (`modest-main.c`, `modest_tny_account_store_shutdown`, `modest-runtime.c`) | two signal handlers, exit idle sources, `_allow_shutdown`, `ShutdownOpData.pending` | the two watchers, `on_idle_exit_modest`, the accounts' shutdown | queue, window manager, account store, device |
| window managers (`widgets/modest-window-mgr.c`, `gtk/`, `hildon2/`) | window list, modals, blocked headers, viewer handlers | register, unregister, find, the window-list-empty signal | queue (cancels the window's operations), quitting |
| send queue (`modest-tny-send-queue.c`) | a `SendInfo` per message, `sending`, `suspend` | add, cancel, wakeup, seven signal handlers, three listings of the outbox | tinymail's `TnyCamelSendQueue` and its thread, mail operations, runtime's cache |
| account store (`modest-tny-account-store.c`) | store, transport and outbox account lists, password hash, forget flags | passwords, insertion, removal and reconnection of accounts | account manager (signals), send queues, tinymail session |
| account manager (`modest-account-mgr*.c`) | configuration, busy accounts | getters and setters, busy flag, add, remove | configuration, account store |
| edit window (`widgets/modest-msg-edit-window.c`) | the text, whether it is modified or was sent, the draft it replaces | edit, save, send, close | UI actions, mail operations (the callback of a save sets the draft), window manager (a closing window is saved) |
| view window (`widgets/modest-msg-view-window.c`) | the message shown, its row in the list's model, its identifier, the progress hint, a helper per saving | open, next, previous, the list's signals, a replaced model, opening and saving attachments | UI actions, mail operations, window manager (registry of messages being opened) |
| header view and header window (`widgets/modest-header-view.c`, `modest-header-window.c`) | the folder, its model and filter, what the filter let through so far, the refilter under way; whether the window shows the list or "no messages" | set, clear and reload the folder, search, the folder's and the model's changes | UI actions, mail operations (refresh, synchronisation), tinymail's list model and folder monitor |
| platforms (`gtk/` and `hildon2/modest-platform.c`) | a performer with its helper per request that waits | connect_and_perform, for one account, for two, or only if it is remote | device, tinymail accounts, whoever asked |
| UI actions (`modest-ui-actions.c`) | none of their own | every menu and toolbar command | all of the above |
| D-Bus service (`dbus_api/`) and search (`modest-search.c`) | a helper per request | calls of other programs, some through idle sources; Search and GetUnreadMessages reply after a walk over all folders | UI actions, mail operations and their queue, allow-shutdown, tinymail |
| everything else | see `PROJECT.json`, `components` | message construction, text conversion, widgets, dimming rules, presets, plugins, configuration, platform code | |

### What is hard, and what makes each component correct

* **Queue.** `queue_remove` reads the number of operations under a lock, lets go
  of it, notifies observers and may run an error dialog: other operations come
  and go before it acts on the number. Some operations end twice, some are
  removed without having started. Correct: an operation leaves once, and the
  report of an empty queue, on which the program quits, is neither lost nor
  premature.
* **Quitting.** Two watchers, each with idle sources of its own, look at two
  lists; between the look and the idle a window may open, an operation may
  start, another exit idle may be added; quitting needs two rounds because the
  first one starts a final sync, which is itself an operation. Correct: modest
  quits after the last window closed, once, not while accounts are connected, and
  a user who comes back in between is not left offline.
* **Send queue.** Whether modest lives while tinymail's thread sends depends on
  RUN_QUEUE operations created by whichever SEND operation or signal handler is
  first; `sending`, the infos and tinymail's flags are brought up to date by
  listings that answer later. Correct: operations exist exactly while the thread
  runs, nobody waits for a start that has passed, a message is shown as being
  sent only when it is.
* **Send and receive.** A helper is shared by any number of callbacks, and freed
  by the last; which is the last is found by counting listings (with a retry
  that must not count twice) and messages (in fields that a progress callback
  writes as well). Correct: the helper lives as long as its callbacks, every
  update ends, one that ends as a success did everything, the account does not
  stay busy.
* **Accounts.** An account is dozens of keys written one by one; the program may
  die after any of them, and reads them back when it starts. In a session the
  outbox of an account is listed, and a removed account disconnected, by answers
  that come after the account was removed or another one took its name; and a mail
  is put in the outbox of the account it was written with long after that account
  was looked at. Correct: what is listed can be loaded, of a removed account nothing
  is left but what could not be removed, and the global outbox, the cached send
  queues and the mail on disk belong to accounts there are, apart from the cases the
  properties name.
* **Operations on messages.** Chains of requests, each sent by the callback of the
  one before, with errors, a cancellation that only sets a status, and other
  clients that delete the messages in between. Correct: each operation ends, tells
  of every message once, and says SUCCESS only if it is true.
* **Writing.** A window counts as unmodified from the moment a save was asked for;
  the message is made in a thread and stored by another; the window may be edited,
  saved again, sent or closed before either answers, and the old draft has to go
  at some point. Correct: no text is lost, no saved mail disappears before
  another took its place, and one copy remains.
* **Reading.** A window asks for a message, with a row that identifies it in the
  list; until it arrives the list changes or is replaced, and the window closes.
  Correct: what the window acts on is what it shows, and no message stays marked as
  being opened.
* **Listing.** The headers come after they were asked for, rows in batches after the
  headers, the end of a refresh and the folder's changes in any order; a search is
  applied in idle chunks to rows that come and go; that all rows are hidden is told
  one second later; a synchronisation sets the same folder again over all of that.
  Correct: the rows shown match the search, the model ends up with the folder's
  headers, and no window says "no messages" over a message it could show.

* **Going online.** A command hands a performer to the platform, which looks at the
  device and at the account now, when the device answers, and when the account
  answers, while both come and go. Correct: the performer is called once, and an
  operation that waits in the queue for it is started or removed.
* **D-Bus requests.** One helper is shared by listings of accounts and of folders whose
  number is known only when the last has answered, with retries by a timeout and
  folders that come twice. Correct: one reply, complete, and no callback after it.
* **Attachments.** Saving goes back and forth between a thread and the main loop, a
  connection is asked for in the middle of a list of files, each file overwrites
  the result of the one before. Correct: what the user is told is true of the file it is about.

`PROJECT.json` lists the hazards one by one, each at its line, with the properties
that cover it or the reason why none does.

## Modules

| module | lines it models | builds on |
|---|---|---|
| `QueueReports` | what the queue promises, without signals or idles | |
| `MailOpQueue` | `modest-mail-operation-queue.c`, common life of operations, `remove_folder`, `noop`, `shutdown` | INSTANCE `QueueReports` |
| `Shutdown` | `modest-main.c`, window list, allow-shutdown, the accounts' shutdown | EXTENDS `MailOpQueue` |
| `SendQueue` | `modest-tny-send-queue.c`, `send_new_mail`, `run_queue`, `queue_wakeup` | |
| `UpdateAccount` | `update_account`, `update_folder_counts`, busy flag of the account manager | |
| `AccountMgr` | accounts in the configuration: `modest-account-mgr.c`, `modest-account-mgr-helpers.c` | |
| `AtomicAccounts` | what the configuration promises of accounts, without keys and their order | |
| `AccountStore` | `modest-tny-account-store.c`, the merged outbox, the cache of send queues | EXTENDS `AccountMgr`, INSTANCE `AtomicAccounts` |
| `MessageOps` | `get_msg`, `get_msgs_full`, `get_msg_and_parts`, `xfer_msgs`, `remove_msgs`, `sync_folder`, `refresh_folder` of `modest-mail-operation.c` | |
| `Composer` | `save_to_drafts` and `send_new_mail` with their threads and callbacks, the edit window, closing windows | |
| `Viewers` | `open_msg_from_header` and what follows, the view window, the registry of the window manager | |
| `HeaderList` | `modest-header-view.c`, `modest-header-window.c`, the reload of `modest-ui-actions.c` | |
| `Connect` | `connect_and_perform` and its relatives of both `modest-platform.c`, the commands of `modest-ui-actions.c` and of the D-Bus service that use them | |
| `Attachments` | opening and saving attachments and the progress hint of `modest-msg-view-window.c` | |
| `DBusService` | Search and GetUnreadMessages of `modest-dbus-callbacks.c`, `modest-search.c` | |
| `MailOpQueueProofs` | theorems about the queue, alone and within `Shutdown` | EXTENDS `Shutdown` |
| `SendQueueProofs`, `UpdateAccountProofs`, `AccountStoreProofs`, `HeaderListProofs` | theorems about the module of that name | EXTENDS that module |
| `WindowProofs` | theorems about the windows: `Viewers`, `Attachments`, `Composer` | EXTENDS the three |
| `CommandProofs` | theorems about commands: `Connect`, `MessageOps`, `DBusService` | EXTENDS the three |
| `SequenceLemmas` | what `RemoveFirst`, `RemoveAt` and `Append` do to sequences; that sets of naturals have a least member | |
| `MC*` | values for the constants | the module of that name; `MCLive`, `MCMessages`, `MCSendAndList` and `MCAccountStore` put several in one run |

### MailOpQueue

`opQueue` is `priv->mailOpqueue`; `watched` the operations with the finished
handler connected; `mailOp` what the queue reads of an operation; `inFlight` the
operations tinymail has to answer. A mail operation goes through Add (queue),
Start (an asynchronous call is made, *operation-started*), Finish (its callback,
*operation-finished*, queue_remove). The other actions are the paths that differ:
an operation that fails before it starts, `remove_folder` (refused, done at once,
or moved to the trash by a second operation that ends the first one's object
again), `do_send_receive_performer` that removes what it queued, no-operations,
and SHUTDOWN operations.

`RemoveFrom` is queue_remove up to its error handler. `removing` is the stack of
queue_remove calls that are in an error dialog, each with the number of operations
it read; any other action may happen before `ErrorHandlerReturns` pops the stack
and the outer call decides, with its stale number, whether to install the idle
source. `idles` are the low-priority idle sources in the order they will run:
the queue's own and, for `Shutdown`, the exit idles.

`QueueReports` is the contract: operations enter and leave, "empty" is reported
only while it is true, and is reported. `ReportsWhenEmpty` says `MailOpQueue`
implements it, with `queued` the set of the queue.

### Shutdown

Adds the windows, the allow-shutdown flag, the accounts with the calls that take
them offline, and the exit idles. Every action conjoins the whole of what its
handler does to the queue (`RegisterWindow`, `UnregisterWindow`,
`QueueEmptyIdle`, `FinalSync`, `AccountOffline`, ...). `pending` is counted as
the code does it, all accounts first, the local ones subtracted while they are
skipped. `UserLeaves` marks the moment from which the user and the D-Bus clients
ask for nothing; liveness is about what happens afterwards. The quitting branch
runs the idle sources that are pending, so a second exit idle may run inside it
(`LeftoverExitIdle`).

### SendQueue

One action per handler. A SEND operation is identified with its message:
`mail[m]` tells how far the add to the outbox and its operation are. The infos
are a function from ids to statuses, UNKNOWN where there is no info. Each
listing of the outbox is a member of `requests`; its answer gives the outbox as
it was when asked for or as it is now. RUN_QUEUE operations are counted. The
worker thread of tinymail is `worker` ("off", "due" after it was started and
before *queue-start* is delivered, "on"), the message it sends `current`, and
`again` the messages whose *msg-sent* tinymail may repeat. `overUnref` counts
references given back that nobody took, `Refs` those held; the model stops when
the queue would be finalized (`Alive`) or modest quits (`quit`, the
*queue-empty* report with no window left).

tinymail is external: the definitions marked so in the map take from it what
modest's handlers rely on, and no more. It starts its thread after a successful
add and after a flush of an outbox that is not empty, and signals in the order
start, message by message, stop; anything may happen in between.

### UpdateAccount

`UpdateAccount` and `UpdateFolderCounts` start an update, `Listed`, `ListAgain` and
`ListFails` are `recurse_folders_async_cb`, `FolderRefreshed` and `RefreshFails`
`folder_refreshed_cb`, `GotMsg` `update_account_get_msg_async_cb`,
`NotifyAndFree` the common end. `info[u]` is the `UpdateAccountInfo`, `NoInfo`
when there is none; `listings`, `refreshing` and `gets` are the calls that
tinymail still has to answer, including those that wait for their timeout source.
Several updates may run at once, with headers arriving for any of them or for
other operations (`NewHeader`); the account's busy flag is shared.

What the model keeps although it may surprise: errors of single messages are
ignored (they count as done and the update succeeds); an update that is canceled
but answered without an error refreshes nothing, sends the mail and ends in
SUCCESS; a refresh that fails drops the headers other folders gave.

### AccountMgr and AccountStore

`entry` and `server` are the keys of an account and of its two server accounts as
far as `account_names` and `load_account_settings` tell them apart. `MgrAdd` and
`MgrRemove` are whole calls; `DieInAdd` and `DieInRemove` stop them after any
write, and `NewSession` starts from what was written. `WriteResults` lets a write
fail while the code goes on with the next key: that of a reference to a server, those
of a server's keys, or that of "enabled". `Removed` does the same for the removals of a
server's keys and of the account's own (`kept`), whose errors `real_remove_account`
only logs. Either leaves keys of a server to which no account refers, of which nobody
is told; `lost` remembers them.

In `AccountStore` an object of a session is a name and the number of that name's
object, because an account may be removed and added again while an answer for
the first one is due. `listing` holds the outboxes being listed, `leaving` the
accounts being disconnected; `OutboxListed`, `OutboxNotListed` and `Disconnected`
are those answers and may come in any order, or after a removal.

Sending is in four steps, as in the code. `Send` takes a transport account from the list,
and a thread makes the message (`making`). `SendMade` is the idle that asks the runtime
for the account's send queue, and has one made, without looking at the account again
(`src/src/modest-mail-operation.c:996`); `MailStored` puts the message in the outbox;
`AskQueueAgain` are the callback after that and a cancellation, which ask for the queue
once more; `SendEnds` is the end of any of it. An account may be removed, disconnected
and added again between any two. What then keeps a queue from being cached for
an account that is gone is that `modest_runtime_get_send_queue` needs an outbox, which
is looked up by the name of the account (`HasOutbox`): it fails to if an outbox of that
name stayed or came back. A mail that was on its way when its account was removed is
stored all the same; tinymail may also refuse, as the folder's cache may be gone,
so the model allows more than will happen.

`history` remembers what the properties name as exceptions: accounts removed before
their outbox was listed (their answer adds it to the global one all the same), outboxes
that could not be listed, accounts removed while mail was being sent with them
(`outlived`), names removed while their mail stayed or whose mail came later (`left`).
The last two are shortcomings of the code as it is: "Each modest account has its own
send queue" (`src/src/modest-runtime.c:226`) does not hold of a queue that outlived its
account, and mail stored after a removal waits for an account that may never come, or
goes out with the next one of that name. `QueueHasAccount` and `NoStrayMail` say that
these are all the cases.

`AtomicAccounts` is the contract of the configuration, as `QueueReports` is that of
the queue. It knows accounts that are whole, those saved with a write that failed,
the default one and the number of faults; an addition or removal happens in one step
or not at all. Only with a fault (a death, or keys that could not be removed) may the
choice of the default account be left undone: after the last write of the first
account, or once the removal of the default one has begun (`FaultInRemove`).

### MessageOps

An operation has a `stage`: "asked" (tinymail works on a request), "syncing",
"ended", or "stuck" for the two calls with an empty list that nothing ends.
`pos` and `count` are the iterators `more_msgs` and `get_parts`. The answers are
one action per outcome (`GotMsg`, `GetFails`, `GetCanceled`, `Xferred`,
`XferBroken`, ...), each with all that its callback does, the next request
included. `CancelTask` writes CANCELED and asks tinymail to stop (`cut`), which
it may or may not still do, for that and the account's other requests. Messages
leave folders by the hands of others (`ChangedElsewhere`), the send queues send
those of the outbox (`SendingOne`).

What the model keeps although it may surprise: after an error a retrieval goes on
with the next message, and after a cancellation that came too late as well;
`get_msg_and_parts` asks for the message and then passes the first of the parts
by; of a selection in the outbox messages being sent are removed if all of them
are, or if they belong to another queue than the first one.

### Composer

`editors[e]` is an edit window with the number of its text; `ops[m]` the operation
that makes message `m`; `where[m]` the folder it is in. Making a message
(`MadeToSave`, `MadeToSend`) and adding it (`AddedToDrafts`, `AddedToOutbox`,
`AddFails`) are separate answers, in any order among operations; the removal of
the old draft that a send does not wait for is in `dropping`. Closing a window,
by the user or for a new one (`Register`), saves it if it is modified. `Crash`
keeps the folders, with any part of what was under way, and nothing else.

### Viewers

A row reference is none, lost, of the model the list shows ("here") or of one it
showed before ("old"). `OpenMsg` registers the message and asks for a connection;
`OpenPerformed` opens the window, starts its request and registers it with the
window manager, which may refuse early, refuse late, or close the window on top;
drafts are retrieved first. `Select` is next and previous. The requests of a
window, waiting for a connection or for the message, outlive it. `RowRemoved`,
`RowInserted` and `ModelReplaced` happen at any time. `abandoned` are the messages
left registered by the two paths that forget them.

### HeaderList

`list` is the header view: its folder, the number of the model it shows, the headers
of that model (`listed`), the rows the model made of them so far (`rows`), those the
filter lets through (`shown`), the `status` that `filter_row` accumulates and the
timeout that tells of it, the search, and the walk of `refilter_idle_handler`.
`contents` is what the window shows. Refreshes, listings, changes of the folder
that its observers are not told of yet and synchronisations that will reload the
list are pending in `refreshes`, `listings`, `changes` and `reloads`.

`Filtered` is `filter_row` for some rows. A walk (`Walk`, `RefilterIdle`) visits the
rows by their position; a row that comes may keep its iterator valid or not, one that
goes never does, and a walk without its iterator starts again. `FolderSet` makes a
new model and leaves the monitor with the old one until the headers arrive
(`HeadersListed`). The model takes it that tinymail answers the listings in their order
and gives the headers the folder has at the time of the callback. If it read them earlier,
a message that came in between would be missing until the folder is set again, unless
tinymail tells the new monitor of it; that is not decided in this repository, and
`ListFollowsFolder` says nothing of it. This is the GTK window: the live search and the "show more"
button of hildon2 are left out, as are the outbox's own filter, rows hidden while
they are cut, and a window that closes.

### Connect

`jobs[j]` is a command under way: its `kind`, its `goals` (the accounts it still wants
online, one after the other), and its `stage`, which says whose answer it waits for.
`Pursue` is connect_and_perform: it drops the goals that are met now, and either
calls the performer (`Perform`) or asks the device or the account, as the platform
does (`Asks`). The two platforms differ in one test only (`AsksHildon`, `AsksGtk`).
`DeviceAnswers` and `AccountAnswers` are the two callbacks; they go on to the next
goal or call the performer with an error (`Abandon`). Each command is an action with
the accounts it asks for and the conditions under which it asks at all. `Drift`
changes the device and the accounts at any time.

`queue` holds the operations of the commands. Send and receive puts its operation
there before it connects, and for a POP account a second one that disconnects
first (`Disconnected`); its performer starts the first or removes it. A D-Bus request
queues nothing while it brings the device online; what its performer queues
keeps the program alive until the idle source ran.

### Attachments

`saves[s]` is the helper of a saving: the attachments `asked` for, those `left`, those
`written`, the `result` the next file will overwrite, and what was `told`. A saving is
a question, a thread, an idle source that connects, the platform's answer, a new
thread, and so on, until an idle source reports. `opens` are the attachments
being decoded to be opened, `running` the window's operations; each of the three
sets the one `hint` and clears it.

What the model keeps although it may surprise: "Saved" means that the last file tried
was written, not all of them; an error of the connection leaves the result of the file
before; a decoding that fails leaves the hint set.

### DBusService

`search` and `unread` are the two helpers, which go from "free" to "answered", where the
code frees them with the reply. `listing` counts the listings tinymail has to answer
for each, `reading` is the folder whose headers are awaited. `SearchListed`,
`SearchRead`, `AccountListed`, `MultiListed` and `UnreadRead` are the five callbacks; the
functions that they continue with (`SearchFrom`, `GetAccount`, `GetHeaders`,
`ReturnResults`) are operators of their own. A listing answers all folders, none, or, for
a multi-mailbox account, each of them twice. `seen` and `lost` only record what
tinymail answered, for the properties. When the retries are used up the code lets the
unsigned counter wrap; it is set again before it is read again, so the model leaves it
at zero.

What the model keeps although it may surprise: headers that cannot be read are left
out of a search, and out of the unread messages, without a word in the reply.

## Runs

| run | instance | checks |
|---|---|---|
| `queue_cancel` | 2 operations | finding: canceled operations go on |
| `shutdown` | 2 operations, 1 window, 2 remote and 1 local account, 2 exit idles | `OfflineHeals`, `ShutdownWaitsForAccounts`, `QuitsInTheEnd` |
| `shutdown_quits_once` | the same with 1 remote account | finding: the quitting branch runs twice |
| `send_and_list` | one of: 2 messages, one request of the user outstanding; a folder of 2 messages, 2 arrivals or expunges, 2 models | `RunOpWhileSending`, `SendingIsReal`, `NoQuitWhileSending`; `NoMessageHidden`, `RowsMatchSearch`, `ListFollowsFolder` |
| `send_queue_alive` | 1 message | finding: the cached queue is finalized |
| `send_queue_quit_early` | 1 message | finding: quitting while a start is due |
| `live` | one of: 2 operations in the queue; 1 command, 2 remote accounts, one of them POP; 1 message to send; 1 update, 3 folders (one in the inbox), 3 messages, a limit of 2 to fetch; 1 operation on 2 messages with 2 parts and 1 failure; a search, or a request for unread messages, over 3 accounts and 5 folders, with 2 retries | `ReportsWhenEmpty` (refinement of `QueueReports` with its liveness); `PerformersRun`; `SendingEnds`; `UpdatesEnd`, `TellsWhatItSaw`; `TasksEnd`; `AnswersAreComplete`, `RequestsAnswered` |
| `accounts` | one of: 2 names, 1 connection specific account, 4 account objects, 1 fault; 2 updates, 3 folders, 1 message | `AccountsLoad`, `HasAccountsIsTrue`, `NoOrphanServers`, `OutboxMatchesAccounts`, `QueueHasAccount`, `NoStrayMail`, `SpecificsWithRemote`, `AccountsAreAtomic` (refinement of `AtomicAccounts`); `HelperHasCaller`, `BusyOnlyWhileUpdating`, `SuccessIsComplete` |
| `messages` | one of: 3 operations in the queue, all user types and outcomes; 2 editors, 3 messages, 2 texts, 1 fault; 1 operation on 2 messages with 2 parts, 2 failures; a list of 2 messages, 2 windows, 2 pending requests; 2 attachments, 1 saving, 1 opening, 1 operation | `LeavesOnce`, `EmptyReportDue`; `SavedIsKept`, `TextIsHandedOver`, `DraftIsLive`, `OneCopy`; `HeardInOrder`, `SuccessIsTrue`, `BeingSentIsSpared`; `RowIsShown`, `RegistryIsFreed`; `ReportFitsLastFile` |
| `update_busy` | 2 updates, 1 message | finding: busy while another update ends |
| `connect_gtk` | the GTK platform, 2 commands, 2 remote accounts | finding: a performer that is never called |
| `transfer_mode` | 2 attachments, 1 saving, 1 opening, 1 operation | finding: the hint is not what it says |

### Bounds, and why they are enough

* **Queue.** Three operations (two for liveness) give an error handler stacked on another one with a
  third operation that enters or leaves under both. An object that nobody holds is
  used again, so the history is unbounded. The theorem covers any number.
* **Shutdown.** Two operations are enough for a SHUTDOWN operation next to an
  ordinary one and for two overlapping SHUTDOWN operations, and two accounts for
  the order of their answers. One window opens and closes any number of times.
  `MaxExitIdles` = 2 lets two exit idles be pending when a window closes, which
  is one more than a single quit needs. In the run with liveness the operations
  of the user are of type RECEIVE and fail with an error, as those run an error
  handler and are canceled with the window; a success takes a subset of the same
  steps. The theorems cover any number of operations, windows, accounts and idles.
* **SendQueue.** Two messages: one being sent while the other is added, listed,
  suspended or repeated. `MaxRequests` = 1 lets one request of the user (cancel,
  wakeup) overlap with the ones the code makes by itself. In the run messages have
  ids of their own; the theorem holds for ids that collide.
* **UpdateAccount.** Two updates, since they share only the flag and the headers.
  Three folders: one nested, so that listings are made in the course of listings,
  and two siblings whose answers race. `MaxPosition` bounds the position that a
  refresh reports: zero or one in `live`, where the total is told from less, zero in
  `accounts`, whose properties do not look at it. In `live` one update has three messages
  with a limit of two, the least that distinguishes all three counts; in `accounts`
  two updates overlap over one message. The theorems cover any number of both.

* **AccountStore.** Two names, so that one account's removal overlaps with the
  other's addition and the default account moves; four objects in a session,
  three after the fault, let a name be taken twice, next to the connection specific
  account, while answers for its first object are due. `FewAtOnce` lets two transport
  accounts be disconnected at a time, as when the last remote account is removed, and
  mail wait in one outbox: the properties speak of one object or name at a time. One fault: the
  properties are about what a single death or failed write leaves behind. One mail is
  made or sent at a time, while one name is in use (that name may be taken again after
  its removal), nothing fails and nobody asks whether there are accounts: what a mail
  meets is the removal of its account and another account of that name. The theorems
  have none of these bounds: they cover any number of names, objects, mails and faults,
  in any order.
* **Composer.** Three messages: a draft, its replacement, and a save or a send that
  overlaps. Two windows, since opening one closes the other. A failure and a crash
  exclude each other within the bound of one fault; the theorems have no such bound.
* **MessageOps.** Two messages tell the first from the last of a list, and two
  failures let an error be followed by another one. Other operations are present
  through what they do to the same messages and requests. The theorems cover any
  number of operations, messages and failures.
* **Viewers.** Only one window is open at a time; the second is one that closed
  and has a request left. Two requests: one that waits for a connection while
  another retrieves. The theorems cover any number.
* **Connect.** Commands act on each other only through the device and the accounts,
  which `Drift` changes in any way at any time: one command is as good as many in
  `live`, and the theorems cover any number. Two accounts, of which one speaks POP,
  give every pair a command on two folders may have.
* **Attachments.** Two attachments tell the last file from the others and the one left
  from those done; savings of one window share the hint only, and what was
  downloaded, which a saving may find either way. The theorem covers any number.
* **DBusService.** Three accounts, one of each kind; an inbox below a folder, so that a
  listing is asked for in the course of another, and two inboxes in one account.
  One request of each kind, as two share nothing. `MaxTries` = 2 instead of 20
  tells the first, a further and the last attempt apart. The local folders are
  always listed: the search looks at the first folder without asking whether there
  is one. The theorem covers any accounts and folders and any number of tries.
* **HeaderList.** Two messages, of which the older may be deleted and only the latest
  listed: one row is before the walk when the other moves. Two changes, since the
  second may come before the first is told; two models, the second being the reload.
  The theorems cover any number.

The parts of `live`, `messages`, `accounts` and `send_and_list` share no state: each
behaviour is one of one part, and the others stay in an initial state.

`CHECK_DEADLOCK FALSE` is set because these systems may rest: a queue nobody adds
to, a program that quit, updates that all ended, windows nobody touches.

### Fairness

Safety is checked without any. For liveness:

* `MailOpQueue`: the idle source is dispatched and an error dialog is answered some
  time. Nothing is assumed about the operations.
* `Shutdown`: weak fairness of the main loop as a whole, until it quits: as long as
  something is due, something happens. GLib dispatches whatever source is ready;
  which, is left open.
* `SendQueue`: each answer of tinymail comes: adds, listings, syncs, the start and
  the stop of a thread that is due or told to stop, and the thread goes on to the
  next message and reports about the current one. Nothing makes the user act, and
  the second *msg-sent* may never come.
* `UpdateAccount`: tinymail answers the calls of each update some time. Which of
  them first, and how, is open.
* `Connect`: tinymail answers each request for the device, for an account and for a
  disconnection once, with success or not, and GLib dispatches the idle source of
  a D-Bus request. Nothing makes the network work.
* `DBusService`: tinymail answers every listing of folders and of headers some time,
  with an error if it likes; GLib runs the idle source and the timeout.
* `MessageOps`: tinymail answers every request some time, with a message, an error
  or a cancellation.

## Findings

Each is a run of its own in which TLC shows a behaviour of the code that a
comment, a header or the documentation in it denies.

1. `shutdown_quits_once`: a window closed after the final sync ended adds a second
   exit idle. The first one quits, frees its handlers and iterates the main loop,
   in which the second one uses them again (`modest-main.c`).
2. `send_queue_alive`: `wakeup_get_headers_async_cb` gives back one reference too
   many if the outbox cannot be listed. The cache then returns a finalized queue.
3. `queue_cancel`: canceling an operation that was not started yet has no effect:
   when it starts, its status is overwritten.
4. `send_queue_quit_early`: the re-check in `notify_queue_empty` is there for a send
   queue whose thread has not reported its start yet. After a wakeup it does not
   help, because the wakeup's operation ended when it flushed the queue.
5. `update_busy`: the busy flag is a set of names, not a count. Of two
   overlapping updates the first to end makes the account look idle.
6. `connect_gtk`: the GTK platform asks an account to go online only while the device
   is offline. If the device is online and the account is not, as after the
   disconnection that every send and receive of a POP account starts with, the
   performer is neither called nor kept: the operation stays in the queue for good.
   The comments in that branch, and the hildon2 platform, have it the other way.
7. `transfer_mode`: `progress_widgets` is never filled, so the end of any operation of
   a view window, of an opening or of a saving ends the transfer mode whatever
   else is running; a decoding that fails never ends it. The header says the
   mode tells whether a transfer is in progress.

## Proofs

`tlapm` checks all theorems; none is taken on trust. The assumptions are the named
`ASSUME`s of the modules: the sets of messages, of folders, of accounts and of the
attachments of a message are finite, the folders of an account are a tree (each of
them is somewhere below its root; for `DBusService`, which does not need that, no
folder is in two accounts or folders, and the account store lists an account once),
a name that means none is not the name of anything, constants are of their types. TLC evaluates them in each run. Each inductive
invariant was checked by TLC on an instance of its own before it was proved; where
a property was not inductive, the paragraphs below say what it lacked. Every
invariant that a passing run checks is a theorem, and so are the two refinements in
their safety part.

**MailOpQueue**, for any set of operations: `TypeCorrect`, `OperationsLeaveOnce`,
`ReportAlwaysDue`, and `Refinement`: each step of the queue is a step of
`QueueReports` or leaves it unchanged. The invariant `IInv` is the conjunction of
the three properties and is inductive, as they need each other: that no operation
is queued twice is what makes the removal of its first occurrence a removal of it;
that the finished handler is connected exactly while it is queued is what
turns the second end of an operation into nothing. The proof handles
queue_remove once (`RemoveFromSafe`), the end of an operation once
(`NotifyEndSafe`), and each action by citing them. `SequenceLemmas` proves what
the sequence operators of the community modules do, from their definitions.

**Shutdown**, for any operations, windows, accounts and exit idles:
`DeviceGoesOnlineAgain` (`OfflineHeals`), `ShutdownCountsAccounts`
(`ShutdownWaitsForAccounts`) and `ShutdownRefinement`: the queue within the whole
program still implements `QueueReports`. The same lemmas about the queue serve both
modules, as `idles` now holds exit idles too, which the queue's part of the invariant
does not look at. `ShutdownInv` adds that a SHUTDOWN operation is in the queue, that
`pending` is the number of remote accounts that have not answered, and that there are
such accounts exactly while the operation lasts.

**SendQueue**, for any messages and any assignment of ids to them:
`RunOpCoversSending`, `WaitingPrecedesStart`, `SendingShownIsReal`,
`NeverQuitsWhileSending`, `TypeCorrect`. `IInv` adds to those four properties that
`priv->sending` follows the thread and that at most one message is being sent.
That a thread which reports its start finds no `sending` set, and that a stop ends
all RUN_QUEUE operations, is not derivable without it. Most handlers touch few
of these variables: `QuietStep` and `ThreadStep` prove the common cases.

**UpdateAccount**, for any folder tree, any messages and any number of updates:
`HelperAlive`, `BusyEnds`, `ToldAll`, `RefreshedAll`, `TypeCorrect`. `IInv` says of
each update at which stage it is: listing (`pending` is the number of outstanding
listings, and nothing below a store that is being listed is known yet), refreshing,
fetching (`done` and the outstanding messages make up `total`), or without a
helper. The second half of the first stage is what makes the counting go through:
a store never comes up in two listings, or the set of outstanding calls would grow
by less than `pending`. `OneUpdateSteps` reduces the other updates to stuttering.
`RefreshedAll` (`SuccessIsComplete`) has an invariant on top of that, `CInv`: while
an update has neither failed nor been canceled, every store it knows is listed or
its folders are known, and then what it refreshed, is refreshing and still has to
refresh are together the folders it is for. That all folders are known once no
listing is left needs that the folders are a tree. The assumption says it of sets:
every nonempty set of folders has a member whose parent is outside it. With the set
of the folders missed for S that is a contradiction, and no induction.

**AccountStore**, for any names, objects of accounts, deaths and failures: the
seven invariants of the run `accounts` (`WhatIsEnabledLoads`, `CacheIsTrue`,
`NoServerIsOrphaned`, `OutboxIsThatOfAccounts`, `NoQueueIsLeft`, `NoMailIsStray`,
`SpecificsFollowRemote`). The invariant has two halves. `ConfInv` is about the keys
alone and holds wherever modest dies: "enabled" is the last key of an account, so
that what is enabled refers to both servers, and each is complete or gone
(`EnabledIsWhole`). What `NoOrphanServers` adds is that keys without an account are those
of a reference that was not written or of a removal that failed (`lost`). The other half is about the session: what the lists hold can be
loaded (`ListsAgree`), an outbox is being listed, could not be listed or is merged,
never two of those (`OutboxStages`), and mail that can be removed is that of an
account in the list (`MailHasAccount`), without which a removal would leave mail
nobody knows. `SendStages` says it of mail under way: the account of a mail that is made
or sent is in the list or was removed meanwhile (`outlived`). With it `QueueAsked` shows
that a queue asked for late is that of an account in the list or finds an outbox that
`OutboxStayed` explains: an outbox found by the name of an account that is gone is that
of a later account of the name, or of one removed before its outbox was known. The mail
that is stored late is that of `left` by the same lemma. `DieInAdd` and `DieInRemove` reduce to lemmas on what any number of
writes leaves (`WhatIsSaved` and those after it). `AccountsChangeAtomically` is the
refinement (`AccountsAreAtomic`): an account is whole if it is listed as enabled, no
write of it failed and it loads, and with that each step of `AccountStore` is one of
`AtomicAccounts` or changes nothing there. It needs `ConfInv` in four places: what is
listed is whole or broken (`ListedIsWhole`), so that the default account chosen after a
removal is one of these; a name that is unused is neither (`UnusedNotThere`); the
default account has keys, so that an addition does not replace it (`DefaultHasKeys`);
and a removal that is interrupted, or leaves keys behind, leaves the account as it was or
takes it from those that are whole, never a third thing (`AfterRemoved`). The session stutters; a restart is
a fault that leaves the accounts alone.

**Viewers** (in `WindowProofs`, as are the next two), for any messages, windows and
requests: `RowAlwaysShown` and `RegistryAlwaysFreed`. For the first the invariant adds
that a window is identified by the message it shows and that a request's row, as
long as it is one of the list, is that of the message it asks for: only so does a row
that was inserted, or one that comes with an answer, fit the message in the view.

**Attachments**, for any attachments and any number of savings: `SavedIsTold`
(`ReportFitsLastFile`): the report is about the file tried last, and an earlier one that
failed may be told as saved. The files are tried from the last to the first, in pieces
with a connection in between, and each overwrites the result. `SaveFits` says that
those left are before all those tried, and that the result is that of the one tried
last; so what is told at the end is about the first file tried last, whatever the
others did. `Canceled` is told only with a file left.

**Composer**, for any number of windows, messages and texts, with crashes and
failures: `NothingSavedIsLost`, `NothingWrittenIsForgotten`, `NextSaveFindsDraft`,
`OneMailOneCopy`. `ComposerInv` describes each message as its operation left it
(`OpFits`): its old draft is older, and gone once the new one is there (`OldFits`),
and a message that is gone, or about to be, has been replaced by one that is stored or
under way (`KeptFits`). `OneCopy` needs more: that two stored messages of an editor
neither of which replaces the other are the same, although each save only knows its
own predecessor. `ChainFits` gives it: all that an editor stored hangs on the draft
it came with, in one chain, unless two of its operations started from the same
draft, the exception the property names. `EditorFits` ties the windows to it
(the draft of a window is a stored one, and if the window made it, a live one), and
`OwnAlone` that no two windows own the same save, or the save of one would drop the
draft of the other.

**HeaderList**, for any number of messages, changes and models: `RowsAlwaysMatch`,
`HeadersFollowFolder` (`ListFollowsFolder`) and `EmptyIsTrue` (`NoMessageHidden`).
Rows come and go while a refilter walks over them, so the invariant cannot say
which rows were visited. It says which may still be wrong: with a valid
iterator, only rows at its position or behind it, where the position of a row
is the number of newer rows. A new row is right when it comes and moves the others
back, never to the front, and a walk that ends leaves no position for a wrong row.
The other two properties speak of a state in which everything has settled, so their
invariant (`ShowsInv`) accounts for what has not: of several pending changes of a
message the last one says whether the folder has it (`ChangesTrue`); the listings come
in the order of the models that wait for them (`ListingsInOrder`); a model whose
headers have come differs from the folder only in messages with a pending change
(`Follows`). A window that says "no messages" over a row that is to be seen is still
to be told (`Told`), or the status does not say that there is one; and the status
does say so for every such row that the walk has left behind (`Seen`).

**Connect** (in `CommandProofs`, as are the next two), for any commands and any accounts:
`Invariant`, for both platforms, and `AlwaysAwaited`, which states `QueuedIsAwaited`, for
hildon2. The invariant gives for each stage of a command the operations of it in the queue
and whether they were started (`Tracked`), and that hildon2 forgets no command. The gtk
platform does (the stage "lost", the finding of `connect_gtk`), and the operation of a
forgotten command stays in the queue: there the formula is false. Operations of different commands are
different, so `Pursue`, `Perform` and `Abandon` are handled once, each for one
command, and every action cites them. That the performer is called at all is
liveness, and left to TLC.

**MessageOps**, for any operations, messages, parts and failures: `HeardAll`
(`HeardInOrder`), `SuccessDidAll` (`SuccessIsTrue`), `SendingSpared`
(`BeingSentIsSpared`). `TasksFit` has one clause per kind of operation, which relates
its position in the list to what it told of and to what it did: before position
`pos` a retrieval has told of everything, and it has all of that as well if its
status is still IN_PROGRESS, since an error changes the status for good. For a removal
it relates what was asked for, what was spared because it was being sent, and what was
removed in spite of that.

**DBusService**, for any accounts and folders: `AnswersComplete`
(`AnswersAreComplete`). What has to be shown is that the counters say when the last
answer has come. `Tokens` makes a set of the calls that tinymail has to answer, a
folder that is listed twice having two of them; the invariant `DBusInv` says that
`pending_calls` of a search is its cardinality, and that in a multi-mailbox account
`total` exceeds `done` by it (`InMultiAccount`), so that an answer which asks for more
must count those before it is counted itself. The second half is completeness: what
was listed and wanted is found, lost or still to be read; of the remote accounts, each
is reported once or still in the list (`Reported`), and every inbox listed in a
multi-mailbox account is counted or kept, however often it was listed. The operators
select from sequences and walk along them, which would be inductions; the lemmas
take the first position at which the claim is false instead (`MinInSet`), one step
after a position at which it holds. `TokensAsked` is that for the calls made
(each position of a list that is asked is one more call) and `InboxesAdded` for the
inboxes collected.

`TypeOK` of the queue and of the send queue, `QueuedIsAwaited` and `WaitsBeforeStart`
(whose consequence `SendingEnds` is checked) are theorems and no run checks them any
more; the others are checked by a run as well.

**Only model-checked.** Liveness: `ReportsWhenEmpty` in its fair part,
`QuitsInTheEnd`, `PerformersRun`, `SendingEnds`, `UpdatesEnd`, `TasksEnd` and
`RequestsAnswered`. Each rests on weak fairness, whose proof needs ENABLED of the
actions, which the prover does not handle.

## What is not modelled

* Passwords (`get_password`, `forget_password` and the alert function): the outcome
  depends on what the user types into a dialog with a nested main loop and on which
  error tinymail takes for a refused password. The hash with its "asked for" marks
  is three assignments whose effect only the server's answers tell apart, so a model
  would consist of assumptions about those.
* The memory card account, and settings written one at a time by the account editor.
* The REMOVE cancellation of a send queue inside `SendQueue`: `AccountStore` has the
  cache and the lists, not the operations that wait for the dropped queue. The late
  disconnection of a removed store account deletes a cache directory that a new
  account of the same name may be using already: cache contents are not modelled.
* `create_folder` and `rename_folder`: in `MailOpQueue` they are operations that
  start, or fail to, and end.
* Drafts that a plugin keeps on a server (`save_remote_draft`), and a user who
  deletes a draft that is being edited: `where` would be left by other hands, and
  every property of `Composer` would need the exception.
* Windows of attached messages, nested in a view window: they have no row and are
  not registered. Messages opened by D-Bus or a search have no row either.
* Window managers: the hildon2 stack (hildon windows with their own modal rules),
  full screen and zoom.
* Of the header view: columns and their renderers, sorting, the selection, the
  clipboard's hidden rows. Folder and account views.
* `modest_mail_operation_send_mail` has no caller. `requested_send_receive` only
  chooses a banner. Failures of `send_new_mail` before the message exists end
  the operation at once, which `StartFails` of `MailOpQueue` covers.
* Of `Connect`: connect_and_wait, which runs a main loop of its own and connects before
  a selection of messages is fetched (`connect_to_get_msg`); what the helpers of the performers hold
  (the one of the fetched images keeps a reference to its window; that of send and
  receive is written to, line 2461, after its performer may have freed it).
  `modest_ui_actions_send_receive_offline` removes an operation from the queue that the
  queue's own handler removes as well; `MailOpQueue` has that case for
  `remove_folder`.
* Of the view window: the identifier that the saving thread reads while the main
  loop may replace it, the counter of images being fetched, and the progress hints
  of the other windows.
* A window that is opened between the watcher and a quitting exit idle is quit
  away: the code looks at the window list once. No text in the repository
  says otherwise, so no property does.
* Of the D-Bus service: the window of a message that is opened, deleting a message
  (a thread that keeps the top window, without a reference, while it lists a folder),
  GetFolders and dumps; what a search compares.
* The UI, text conversion, message construction, presets, plugins, configuration
  and packaging: no control the properties here could be about. Unit tests suit
  them better.

## Plan

1. Proofs: what the invariant of `SendQueue` needs for a bound on the references
   (`send_queue_alive` shows that the code breaks it in one path only).
2. `AccountStore` composed with `SendQueue`: the REMOVE cancellation and the
   operations that hold a queue which is dropped from the cache.
3. The edit window's attachments and images, which are counted and fetched
   asynchronously, and the folder view's moves with their confirmation.

## Running

In this directory, with the TLA+ community modules on TLC's library path:

    tlc -workers 2 -config MailOpQueueCancel.cfg MCMailOpQueue
    tlc -workers 2 -config Shutdown.cfg MCShutdown
    tlc -workers 2 -config SendAndList.cfg MCSendAndList
    tlc -workers 2 -config AccountStore.cfg MCAccountStore
    tlc -workers 2 -config Messages.cfg MCMessages
    tlc -workers 2 -config Live.cfg MCLive
    tlc -workers 2 -config ConnectGtk.cfg Connect
    tlc -workers 2 -config TransferMode.cfg Attachments
    tlapm MailOpQueueProofs.tla
    tlapm WindowProofs.tla

and so on for the other runs and modules, as listed in `PROJECT.json`. The longest
runs, `send_and_list`, `accounts`, `messages` and `shutdown`, take two to three minutes
with two workers, `live` one and a half, the others less than one. `tlapm` takes from
half a minute to three minutes for a module.
