---------------------------- MODULE AccountStore ----------------------------
(***************************************************************************)
(* The accounts of a session (modest-tny-account-store.c), on top of those *)
(* in the configuration: the lists of store and transport accounts, an     *)
(* outbox for each transport account that is merged into one global outbox *)
(* (modest-tny-local-folders-account.c), the send queues the runtime       *)
(* caches and the transport accounts of single connections.                *)
(*                                                                         *)
(* tinymail answers from the main loop: the listing of an account's outbox *)
(* when the account is inserted, the disconnection when it is removed.     *)
(* Sending takes the account when the user asks for it and the send queue  *)
(* of that account when a thread made the message, whatever happened to    *)
(* the account since.  Accounts may come and go in between, and a name     *)
(* that became free may be taken again.  An account object is the name and *)
(* the number of the object of that name in the session.                   *)
(***************************************************************************)
EXTENDS AccountMgr, FiniteSets

CONSTANTS
    Specifics, \* transport accounts in MODEST_CONF_CONNECTION_SPECIFIC_SMTP_LIST
    MaxMade,   \* bound: account objects made in a session, and faults before
    MaxFaults  \* bound: deaths, and writes and listings that fail

ASSUME AccountStoreAssumption ==
    /\ Specifics \intersect (Names \union {NoName}) = {}
    /\ MaxMade \in Nat
    /\ MaxFaults \in Nat

VARIABLES
    made,       \* how many account objects of a name the session made
    stores,     \* remote accounts in priv->store_accounts
    transports, \* priv->transport_accounts
    boxes,      \* owners of the accounts in priv->store_accounts_outboxes
    listing,    \* outboxes being listed when an account was inserted
    outboxOf,   \* priv->outbox_of_transport: accounts whose outbox is known
    merged,     \* owners of the folders in the global outbox
    queues,     \* transport accounts with a send queue in the cache
    leaving,    \* removed transport accounts whose disconnection is not over
    making,     \* accounts with which a mail is to be sent that a thread makes
    sending,    \* those whose SEND operations asked for the send queue and wait
    mail,       \* on disk: accounts in whose outbox mail waits
    faults,     \* counts the faults, up to MaxFaults
    history     \* what happened, read by properties only

listVars  == <<made, stores, transports>>
boxVars   == <<boxes, listing, outboxOf, merged>>
sendVars  == <<making, sending>>
storeVars == <<listVars, boxVars, queues, leaving, sendVars, mail, faults, history>>
accountVars == <<confVars, storeVars>>

Objects == (Names \union Specifics) \X (1..MaxMade)

NameOf(o) == o[1]

\* Of the history, early: removed before their outbox was listed; unlisted:
\* whose outbox could not be listed; left: names removed from the
\* configuration while their mail stayed, or whose mail came after the account
\* was removed; outlived: removed while mail was being sent with them; failed: an
\* insertion failed in this session.

\* The first start of the program: nothing is configured.
AccountsInit ==
    /\ AccountMgrInit
    /\ made = [n \in Names \union Specifics |-> 0]
    /\ stores = {} /\ transports = {}
    /\ boxes = {} /\ listing = {} /\ outboxOf = {} /\ merged = {}
    /\ queues = {}
    /\ leaving = {}
    /\ making = {} /\ sending = {}
    /\ faults = 0
    /\ mail = {}
    /\ history = [early |-> {}, unlisted |-> {}, left |-> {}, outlived |-> {},
                  failed |-> FALSE]

-----------------------------------------------------------------------------
\* Mutant: it is not looked at whether there is a remote account.
AlwaysLocal == TRUE

\* modest_tny_account_store_get_num_remote_accounts is 0.
OnlyLocalAccounts == stores = {}

Fault == faults < MaxFaults /\ faults' = faults + 1

\* The objects made for these names now.
NewObjects(names) == {<<n, made[n] + 1>> : n \in names}

\* How many objects the session made.
SumMade == Cardinality({o \in Objects : o[2] <= made[o[1]]})

\* insert_account and new_connection_specific_transport_account: each new
\* transport account gets a per-account outbox that is listed asynchronously.
Insert(accounts, specifics) ==
    LET new  == NewObjects(accounts)
        all  == NewObjects(accounts \union specifics)
    IN  /\ SumMade + Cardinality(all) + faults <= MaxMade \* bound
        /\ made' = [n \in Names \union Specifics |->
                      IF n \in accounts \union specifics THEN made[n] + 1 ELSE made[n]]
        /\ stores' = stores \union new
        /\ transports' = transports \union all
        /\ boxes' = boxes \union all
        /\ listing' = listing \union all

\* modest_tny_account_get_special_folder: the outbox of an account is looked for
\* by the name of the account, in those of the list.
HasOutbox(o) == \E b \in boxes : NameOf(b) = NameOf(o)

\* modest_runtime_get_send_queue (o, TRUE), where o need not be in a list: there
\* is no new queue without an outbox, or if the folder in it cannot be listed.
GetQueue(o) ==
    \/ /\ queues' = IF HasOutbox(o) THEN queues \union {o} ELSE queues
       /\ UNCHANGED faults
    \/ /\ o \notin queues /\ HasOutbox(o)
       /\ Fault
       /\ UNCHANGED queues

\* on_account_inserted, in add_account_from_settings: if it is the first remote
\* account, those of single connections are added too.  Only accounts inserted
\* now get a send queue at once, if their outbox is found.
AddAccount(n, written) ==
    LET ok       == Loads(entry', server', n)
        accounts == IF ok THEN {n} ELSE {}
    IN  /\ written # AllWritten => Fault
        /\ MgrAdd(n, written)
        /\ Insert(accounts, IF OnlyLocalAccounts THEN Specifics ELSE {})
        /\ \/ /\ queues' = queues \union NewObjects(accounts)
              /\ written = AllWritten => UNCHANGED faults
           \/ UNCHANGED queues /\ Fault
        /\ history' = [history EXCEPT !.failed = @ \/ ~ok]
        /\ UNCHANGED <<outboxOf, merged, leaving, sendVars, mail>>

\* add_outbox_from_transport_account_to_global_outbox_get_folders_cb: whether
\* the account is still there is not looked at.
OutboxListed(o) ==
    /\ o \in listing
    /\ listing' = listing \ {o}
    /\ outboxOf' = outboxOf \union {o}
    /\ merged' = merged \union {o}
    /\ UNCHANGED <<confVars, listVars, boxes, queues, leaving, sendVars, mail,
                   faults, history>>

\* There is no space for the folder: it stays an account without outbox.
OutboxNotListed(o) ==
    /\ o \in listing
    /\ Fault
    /\ listing' = listing \ {o}
    /\ history' = [history EXCEPT !.unlisted = @ \union {o}]
    /\ UNCHANGED <<confVars, listVars, boxes, outboxOf, merged, queues, leaving,
                   sendVars, mail>>

\* Mutants: the global outbox keeps the folder; the mail in it stays.
KeepFolders(known) == merged
KeepMail(known)    == mail

\* modest_tny_local_folders_account_remove_folder_from_outbox.
MergedWithout(known) == merged \ known

\* The cache of the account of the outbox is deleted.
MailWithout(known) == mail \ {NameOf(o) : o \in known}

\* remove_transport_account for each of these.  With an outbox that is known go
\* the account it is in, the mail in it and its part of the global outbox.
RemoveTransports(gone) ==
    LET known == gone \intersect outboxOf
    IN  /\ transports' = transports \ gone
        /\ boxes' = boxes \ known
        /\ outboxOf' = outboxOf \ known
        /\ merged' = MergedWithout(known)
        /\ mail' = MailWithout(known)
        /\ history' = [history EXCEPT
                      !.early = @ \union (gone \intersect listing),
                      !.outlived = @ \union (gone \intersect (making \union sending)),
                      !.left = (@ \ {NameOf(o) : o \in known})
                                 \union (mail \intersect {NameOf(o) : o \in gone \ known})]

\* on_account_removed, after the configuration forgot the account, or tried to.
\* Without a remote account those of single connections go too, the first of each
\* name.
RemoveAccount(n, kept) ==
    LET gone      == {o \in stores : NameOf(o) = n}
        remaining == stores \ gone
        specifics == IF remaining # {} THEN {}
                     ELSE {o \in transports :
                             /\ NameOf(o) \in Specifics
                             /\ \A p \in transports : NameOf(p) = NameOf(o) => p[2] >= o[2]}
        out       == gone \union specifics
    IN  /\ n \in AccountNames(TRUE)
        /\ kept # {} => Fault
        /\ kept = {} => UNCHANGED faults
        /\ MgrRemove(n, kept)
        /\ stores' = remaining
        /\ RemoveTransports(out)
        /\ leaving' = leaving \union out
        /\ UNCHANGED <<made, listing, queues, sendVars>>

\* What waits in the outbox of the account leaves it.
MailGone(o) ==
    /\ mail' = mail \ {NameOf(o)}
    /\ history' = [history EXCEPT !.left = @ \ {NameOf(o)}]

\* Mutant: the send queue stays in the cache.
KeepQueue(o) == queues

\* modest_runtime_remove_send_queue.
QueuesWithout(o) == queues \ {o}

\* on_account_disconnect_when_removing: the send queue of a transport account
\* leaves the cache.  If it was sending, it is canceled with REMOVE before, and
\* what waits in its outbox goes.
Disconnected(o) ==
    /\ o \in leaving
    /\ leaving' = leaving \ {o}
    /\ queues' = QueuesWithout(o)
    /\ \/ UNCHANGED <<mail, history>>
       \/ o \in queues /\ MailGone(o)
    /\ UNCHANGED <<confVars, listVars, boxVars, sendVars, faults>>

-----------------------------------------------------------------------------
\* modest_tny_account_store_start_send_queues: for each account, if its outbox is
\* found.
StartSendQueues ==
    LET found == {o \in transports : HasOutbox(o)}
    IN  /\ \/ queues' = queues \union found /\ UNCHANGED faults
           \/ queues' \in {queues \union (found \ {o}) : o \in found \ queues} /\ Fault
        /\ queues' # queues
        /\ UNCHANGED <<confVars, listVars, boxVars, leaving, sendVars, mail, history>>

\* modest_mail_operation_send_new_mail, with a transport account of the list: a
\* thread makes the message.
Send(o) ==
    /\ o \in transports \ making
    /\ making' = making \union {o}
    /\ UNCHANGED <<confVars, listVars, boxVars, queues, leaving, sending, mail,
                   faults, history>>

\* modest_mail_operation_send_new_mail_cb: an idle callback asks for the send
\* queue of the account, and does not look whether it is still there.  Other
\* mails may still be made.
SendMade(o) ==
    /\ o \in making
    /\ making' \in {making, making \ {o}}
    /\ GetQueue(o)
    /\ sending' = IF o \in queues' THEN sending \union {o} ELSE sending
    /\ UNCHANGED <<confVars, listVars, boxVars, leaving, mail, history>>

\* tny_send_queue_add_async stored the message.
MailStored(o) ==
    LET names == {NameOf(o)} \intersect Names
    IN  /\ o \in sending
        /\ mail' = mail \union names
        /\ mail' # mail
        /\ history' = IF o \in transports THEN history
                      ELSE [history EXCEPT !.left = @ \union names]
        /\ UNCHANGED <<confVars, listVars, boxVars, queues, leaving, sendVars, faults>>

\* send_mail_on_added_to_outbox and the cancellation of a SEND operation ask for
\* the queue again.
AskQueueAgain(o) ==
    /\ o \in making \union sending
    /\ GetQueue(o)
    /\ queues' # queues
    /\ UNCHANGED <<confVars, listVars, boxVars, leaving, sendVars, mail, history>>

\* The operations end, or the message could not be made.
SendEnds(o) ==
    /\ \/ o \in making /\ making' = making \ {o} /\ UNCHANGED sending
       \/ o \in sending /\ sending' = sending \ {o} /\ UNCHANGED making
    /\ UNCHANGED <<confVars, listVars, boxVars, queues, leaving, mail, faults, history>>

\* The send queue of an account gets its mail to the server.
Delivered(o) ==
    /\ o \in queues
    /\ MailGone(o)
    /\ mail' # mail
    /\ UNCHANGED <<confVars, listVars, boxVars, queues, leaving, sendVars, faults>>

-----------------------------------------------------------------------------
\* modest_tny_account_store_new in a new session, on the configuration found:
\* every enabled account that loads is inserted, without a send queue.
NewSession(e, s) ==
    LET accounts  == {n \in AccountNamesIn(e, s, TRUE) : Loads(e, s, n)}
        specifics == IF accounts = {} THEN {} ELSE Specifics
        all       == (accounts \union specifics) \X {1}
    IN  /\ made' = [n \in Names \union Specifics |->
                      IF n \in accounts \union specifics THEN 1 ELSE 0]
        /\ stores' = accounts \X {1}
        /\ transports' = all
        /\ boxes' = all
        /\ listing' = all
        /\ outboxOf' = {}
        /\ merged' = {}
        /\ queues' = {}
        /\ leaving' = {}
        /\ making' = {}
        /\ sending' = {}
        /\ hasCache' = [c \in {"any", "enabled"} |-> FALSE]
        /\ UNCHANGED mail
        /\ history' = [early |-> {}, unlisted |-> {}, outlived |-> {}, failed |-> FALSE,
                    left |-> history.left
                               \union {n \in mail : entry[n].key /\ ~e[n].key}]

\* The program ends, in whatever state, and is started again.
Restart ==
    /\ \E n \in DOMAIN made : made[n] > 0
    /\ NewSession(entry, server)
    /\ UNCHANGED <<entry, server, default, saveFailed, lost>>

\* It dies after k writes of an added account.
DieInAdd(n, k) ==
    /\ Unused(n)
    /\ k < EnabledAt \/ default = NoName
    /\ Saved(n, k, AllWritten)
    /\ NewSession(entry', server')
    /\ UNCHANGED default

\* It dies after k writes of the removal of an account.
DieInRemove(n, k) ==
    /\ n \in AccountNames(TRUE)
    /\ Removed(n, k, {})
    /\ NewSession(entry', server')

-----------------------------------------------------------------------------
User ==
    \/ \E n \in Names :
         \/ \E written \in WriteResults : AddAccount(n, written)
         \/ \E kept \in SUBSET Keepable : RemoveAccount(n, kept)
         \/ NotifyAccountUpdate(n) /\ UNCHANGED storeVars
         \/ SetDefault(n) /\ UNCHANGED storeVars
    \/ AskHasAccounts /\ UNCHANGED storeVars
    \/ \E o \in Objects : Send(o)

System ==
    \/ \E o \in Objects :
         \/ OutboxListed(o)
         \/ OutboxNotListed(o)
         \/ Disconnected(o)
         \/ SendMade(o)
         \/ MailStored(o)
         \/ AskQueueAgain(o)
         \/ SendEnds(o)
         \/ Delivered(o)
    \/ StartSendQueues

Death ==
    /\ Fault
    /\ \/ Restart
       \/ \E n \in Names :
            \/ \E k \in 1..EnabledAt : DieInAdd(n, k)
            \/ \E k \in 1..RemoveWrites : DieInRemove(n, k)

AccountsNext == User \/ System \/ Death

AccountsSpec == AccountsInit /\ [][AccountsNext]_accountVars
-----------------------------------------------------------------------------
(* Properties.                                                             *)

\* An account that the program lists as enabled can be loaded and inserted,
\* wherever adding or removing an account was interrupted: "enabled" is written
\* last, and an account whose server accounts are gone is not listed.  And the
\* default account is one that is listed.  The exception is an account saved
\* with a write that failed.
AccountsLoad ==
    /\ \A n \in AccountNames(TRUE) : Loads(entry, server, n) \/ n \in saveFailed
    /\ default # NoName => default \in AccountNames(TRUE) \union saveFailed

\* What the program remembers of there being accounts is never out of date.
HasAccountsIsTrue ==
    \A c \in {"any", "enabled"} : hasCache[c] => AccountNames(c = "enabled") # {}

\* The keys of a server account belong to an account, wherever the program
\* died: a later account of the name does not find keys of an earlier one.  The
\* exceptions are a reference that could not be written, which nobody notices
\* before the keys of the server follow, and keys that could not be removed
\* before the account was.
NoOrphanServers ==
    \A n \in Names, t \in ServerTypes :
        server[n][t] # "none" => \/ entry[n].key /\ t \in entry[n].refs
                                 \/ <<n, t>> \in lost

\* The global outbox shows the outboxes of the transport accounts there are,
\* each of which is known by its account: those that were removed are not in
\* it, however listings and removals follow each other, unless the account was
\* removed before its outbox was listed.
OutboxMatchesAccounts ==
    /\ merged = outboxOf
    /\ merged \subseteq boxes
    /\ transports \ merged = transports \intersect (listing \union history.unlisted)
    /\ merged \ transports \subseteq history.early

\* The outbox of an account that is gone may still be found by its name: a later
\* account of the name has one, or that of an account stayed which was removed
\* before its outbox was known.
OutboxStayed(o) ==
    \/ o[2] < made[NameOf(o)]
    \/ \E b \in history.early \union history.unlisted : NameOf(b) = NameOf(o)

\* A send queue is cached for an account in the list, or for one that is being
\* disconnected, although queues are asked for long after the account was looked
\* at: for an account that is gone there is no outbox to make one.  It stays, or
\* comes, only if mail was being sent with the account when it was removed and an
\* outbox of its name stayed or came back.
QueueHasAccount ==
    \A o \in queues : \/ o \in transports \union leaving
                      \/ o \in history.outlived /\ OutboxStayed(o)

\* Mail in the outbox of an account that was removed is gone: a new account of
\* the same name would send it.  It stays only if the program died while it
\* removed the account, if the outbox of the account was not listed when it was
\* removed, or if the mail was put there later, by an operation that began before
\* the removal.
NoStrayMail ==
    \A n \in mail : entry[n].key \/ n \in history.left

\* The accounts of single connections are listed once each while there is a
\* remote account and not otherwise, unless an insertion failed.
SpecificsWithRemote ==
    ~history.failed =>
        \A s \in Specifics :
            Cardinality({o \in transports : NameOf(o) = s})
              = IF stores = {} THEN 0 ELSE 1

\* Adding and removing an account is atomic, although each writes many keys and
\* the program may die after any of them, or a write may fail: an account is
\* listed with both its servers or not at all, and an account that goes leaves
\* another default account unless the program died or keys could not be removed.
WholeAccounts ==
    {n \in AccountNames(TRUE) \ saveFailed : Loads(entry, server, n)}

Atomic == INSTANCE AtomicAccounts WITH whole <- WholeAccounts, broken <- saveFailed

AccountsAreAtomic == Atomic!Safety
=============================================================================
