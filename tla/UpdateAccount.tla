---------------------------- MODULE UpdateAccount ----------------------------
(***************************************************************************)
(* Send and receive: modest_mail_operation_update_account and              *)
(* _update_folder_counts (modest-mail-operation.c) on one account, by any  *)
(* number of mail operations at once.                                      *)
(*                                                                         *)
(* An update lists the folders of the account, recursively if it is to     *)
(* poke them all, with one call of tinymail outstanding for each folder;   *)
(* then refreshes the folders it is interested in one after the other,     *)
(* while an observer collects the new headers; then fetches the new        *)
(* messages, all at once; then wakes the send queue up and ends.  Every    *)
(* callback finds the helper of its update, an UpdateAccountInfo that the  *)
(* last one frees: which is the last is known by counting only.            *)
(***************************************************************************)
EXTENDS Integers, FiniteSets, FiniteSetsExt

CONSTANTS
    Updates,      \* mail operations, each runs one update
    Root,         \* the store account, as a folder store
    Folders,      \* its folders
    Parent,       \* the folder store each folder is in
    Inbox,        \* the folder of type INBOX
    UpdateAll,    \* the account has MODEST_ACCOUNT_UPDATE_ALL_FOLDERS
    Msgs,         \* messages the server has
    Home,         \* the folder of each message
    Small,        \* messages below MODEST_CONF_MSG_SIZE_LIMIT
    RetrieveLimit, \* messages to fetch at most, 0 for all
    MaxPosition    \* bound on the position and the total a refresh reports

ASSUME UpdateAssumption ==
    /\ IsFiniteSet(Folders)
    /\ Root \notin Folders
    /\ Parent \in [Folders -> Folders \union {Root}]
    /\ \A S \in SUBSET Folders : \* a tree: every folder is somewhere below Root
         S # {} => \E f \in S : Parent[f] \notin S
    /\ Inbox \in Folders
    /\ UpdateAll \in BOOLEAN
    /\ IsFiniteSet(Msgs)
    /\ Home \in [Msgs -> Folders]
    /\ Small \subseteq Msgs
    /\ RetrieveLimit \in Nat
    /\ MaxPosition \in Nat

VARIABLES
    phase,      \* each operation is "new", "running" or "ended"
    op,         \* type, status, error, done and total of the mail operation
    info,       \* its UpdateAccountInfo
    listings,   \* tinymail: folder stores being listed for each update
    refreshing, \* tinymail: the folder being refreshed, one at most
    gets,       \* tinymail: messages being fetched
    busy,       \* the account is in busy_accounts of the account manager
    known,      \* messages whose headers the local summary has
    reply,      \* what each update gave when it ended
    hist        \* history of each update, read by properties only

callVars == <<listings, refreshing, gets>>
vars     == <<phase, op, info, callVars, busy, known, reply, hist>>

-----------------------------------------------------------------------------
Statuses  == {"INVALID", "IN_PROGRESS", "SUCCESS", "FAILED", "CANCELED"}
Types     == {"UNKNOWN", "SEND_AND_RECEIVE", "UPDATE_FOLDER_COUNTS"}
Operation == [type : Types, status : Statuses, error : BOOLEAN,
              done : Nat, total : Nat]

\* UpdateAccountInfo: the folders listed, those still to refresh (folders2),
\* those the observer is added to, the headers it collected.
Info == [pokeAll : BOOLEAN, pending : Int, retries : Nat,
         folders : SUBSET Folders, folders2 : SUBSET Folders,
         observed : SUBSET Folders, newHeaders : SUBSET Msgs]

NoInfo == [pokeAll |-> FALSE, pending |-> 0, retries |-> 0,
           folders |-> {}, folders2 |-> {}, observed |-> {}, newHeaders |-> {}]

\* The headers given to the callback; QUEUE_WAKEUP operations queued.
Reply == [headers : SUBSET Msgs, wakeups : Nat]

\* seen: headers that were new in a folder it observed; refreshed: folders it
\* refreshed; canceled: the user canceled it; poked: it was to poke all folders.
History == [seen : SUBSET Msgs, refreshed : SUBSET Folders,
            canceled : BOOLEAN, poked : BOOLEAN]

TypeOK ==
    /\ phase \in [Updates -> {"new", "running", "ended"}]
    /\ op \in [Updates -> Operation]
    /\ info \in [Updates -> Info]
    /\ listings \in [Updates -> SUBSET (Folders \union {Root})]
    /\ refreshing \in [Updates -> SUBSET Folders]
    /\ gets \in [Updates -> SUBSET Msgs]
    /\ busy \in BOOLEAN
    /\ known \subseteq Msgs
    /\ reply \in [Updates -> Reply]
    /\ hist \in [Updates -> History]

Init ==
    /\ phase = [u \in Updates |-> "new"]
    /\ op = [u \in Updates |->
               [type |-> "UNKNOWN", status |-> "INVALID", error |-> FALSE,
                done |-> 0, total |-> 0]]
    /\ info = [u \in Updates |-> NoInfo]
    /\ listings = [u \in Updates |-> {}]
    /\ refreshing = [u \in Updates |-> {}]
    /\ gets = [u \in Updates |-> {}]
    /\ busy = FALSE
    /\ known \in SUBSET Msgs
    /\ reply = [u \in Updates |-> [headers |-> {}, wakeups |-> 0]]
    /\ hist = [u \in Updates |->
                 [seen |-> {}, refreshed |-> {}, canceled |-> FALSE,
                  poked |-> FALSE]]

-----------------------------------------------------------------------------
Children(store) == {f \in Folders : Parent[f] = store}

\* The folders update u refreshes, of those it listed.
ToRefresh(u, folders) ==
    IF op[u].type = "SEND_AND_RECEIVE" /\ op[u].status = "IN_PROGRESS"
      THEN {f \in folders : f = Inbox \/ UpdateAll}
      ELSE {}

\* How many of these messages are fetched.
Retrieved(headers) ==
    LET n == Cardinality(headers)
    IN  IF RetrieveLimit = 0 \/ n < RetrieveLimit THEN n ELSE RetrieveLimit

\* Mutant: the account is not set back to not busy.
LeaveBusy(u, headers, wakeups) ==
    /\ phase' = [phase EXCEPT ![u] = "ended"]
    /\ info' = [info EXCEPT ![u] = NoInfo]
    /\ reply' = [reply EXCEPT ![u].headers = headers, ![u].wakeups = @ + wakeups]
    /\ UNCHANGED busy

\* update_account_notify_user_and_free, after update_account_send_mail queued
\* that many QUEUE_WAKEUP operations: the account is not busy, the callback is
\* given the headers, the operation ends and its helper is gone.
NotifyAndFree(u, headers, wakeups) ==
    /\ phase' = [phase EXCEPT ![u] = "ended"]
    /\ info' = [info EXCEPT ![u] = NoInfo]
    /\ reply' = [reply EXCEPT ![u].headers = headers, ![u].wakeups = @ + wakeups]
    /\ busy' = FALSE

\* update_account_send_mail: the send queue is woken up unless sending is
\* blocked or the outbox is empty.
Wakeups(u) == IF op[u].type = "SEND_AND_RECEIVE" THEN {0, 1} ELSE {0}

\* The end of an update that got that far, its operation being o by then.
Succeeds(u, o, headers) ==
    /\ op' = [op EXCEPT ![u] =
                [o EXCEPT !.status = IF o.error THEN @ ELSE "SUCCESS"]]
    /\ \E wakeups \in Wakeups(u) : NotifyAndFree(u, headers, wakeups)

\* The error is set unless another callback did before.
Failed(o) == [o EXCEPT !.error = TRUE,
                       !.status = IF o.error THEN @ ELSE "FAILED"]

-----------------------------------------------------------------------------
(* Starting and canceling.                                                 *)

\* What both operations do with the account, one the user has not disabled: it
\* is busy from now on, and its folders are listed with a new helper.
ListFolders(u, type, pokeAll) ==
    /\ phase[u] = "new"
    /\ phase' = [phase EXCEPT ![u] = "running"]
    /\ op' = [op EXCEPT ![u].type = type, ![u].status = "IN_PROGRESS"]
    /\ info' = [info EXCEPT ![u] = [NoInfo EXCEPT !.pokeAll = pokeAll,
                                                  !.pending = 1, !.retries = 1]]
    /\ listings' = [listings EXCEPT ![u] = {Root}]
    /\ busy' = TRUE
    /\ hist' = [hist EXCEPT ![u].poked = pokeAll]
    /\ UNCHANGED <<refreshing, gets, known, reply>>

\* modest_mail_operation_update_account
UpdateAccount(u, pokeAll) == ListFolders(u, "SEND_AND_RECEIVE", pokeAll)

\* modest_mail_operation_update_folder_counts
UpdateFolderCounts(u) == ListFolders(u, "UPDATE_FOLDER_COUNTS", TRUE)

\* Either operation without the account: it ends and was never started.
NoAccount(u, type) ==
    /\ phase[u] = "new"
    /\ phase' = [phase EXCEPT ![u] = "ended"]
    /\ op' = [op EXCEPT ![u] = Failed([@ EXCEPT !.type = type])]
    /\ UNCHANGED <<info, callVars, busy, known, reply, hist>>

\* modest_mail_operation_cancel: the status, and tinymail may give up calls.
Cancel(u) ==
    /\ phase[u] = "running"
    /\ op' = [op EXCEPT ![u].status = "CANCELED"]
    /\ hist' = [hist EXCEPT ![u].canceled = TRUE]
    /\ UNCHANGED <<phase, info, callVars, busy, known, reply>>

-----------------------------------------------------------------------------
(* recurse_folders_async_cb.                                               *)

\* With all folders listed: the observer is added to those to refresh, and
\* the first is refreshed.  Without any, mail is sent anyway.
AllListed(u, i) ==
    IF op[u].error
      THEN /\ NotifyAndFree(u, {}, 0)
           /\ UNCHANGED <<op, refreshing>>
      ELSE LET chosen == ToRefresh(u, i.folders)
           IN  \/ /\ chosen = {}
                  /\ Succeeds(u, op[u], {})
                  /\ UNCHANGED refreshing
               \/ \E first \in chosen :
                     /\ refreshing' = [refreshing EXCEPT ![u] = {first}]
                     /\ info' = [info EXCEPT ![u] =
                           [i EXCEPT !.observed = chosen,
                                     !.folders2 = chosen \ {first}]]
                     /\ UNCHANGED <<phase, op, busy, reply>>

\* Store s is listed: its folders join the others and, if all are to be poked,
\* are listed in turn.
Listed(u, s) ==
    /\ s \in listings[u]
    /\ LET found == Children(s)
           more  == IF info[u].pokeAll THEN found ELSE {}
           i     == [info[u] EXCEPT !.folders = @ \union found,
                                    !.pending = @ + Cardinality(more) - 1]
       IN  /\ listings' = [listings EXCEPT ![u] = (@ \ {s}) \union more]
           /\ IF i.pending = 0
                THEN AllListed(u, i)
                ELSE /\ info' = [info EXCEPT ![u] = i]
                     /\ UNCHANGED <<phase, op, refreshing, busy, reply>>
    /\ UNCHANGED <<gets, known, hist>>

\* Mutant: the call that is made again is not counted again.
RelistUncounted(i) == [i EXCEPT !.retries = @ - 1, !.pending = @ - 1]

\* A listing is made again: one more pending call, and one less, its own.
Relist(i) == [i EXCEPT !.retries = @ - 1, !.pending = (@ + 1) - 1]

\* A listing that failed is made again, once in an update without an error.
MayRelist(u) == ~op[u].error /\ info[u].retries > 0

\* The first error of an update makes the listing of store s start again.
ListAgain(u, s) ==
    /\ s \in listings[u]
    /\ MayRelist(u)
    /\ LET i == Relist(info[u])
       IN  IF i.pending = 0
             THEN AllListed(u, i)
             ELSE /\ info' = [info EXCEPT ![u] = i]
                  /\ UNCHANGED <<phase, op, refreshing, busy, reply>>
    /\ UNCHANGED <<listings, gets, known, hist>>

\* A later error, or a cancellation without one, makes the update fail once
\* the other listings have come back.
ListFails(u, s, err) ==
    /\ s \in listings[u]
    /\ err => ~MayRelist(u)
    /\ listings' = [listings EXCEPT ![u] = @ \ {s}]
    /\ op' = [op EXCEPT ![u] = Failed(@)]
    /\ IF info[u].pending = 1
         THEN NotifyAndFree(u, {}, 0)
         ELSE /\ info' = [info EXCEPT ![u].pending = @ - 1]
              /\ UNCHANGED <<phase, busy, reply>>
    /\ UNCHANGED <<refreshing, gets, known, hist>>

-----------------------------------------------------------------------------
(* folder_refreshed_cb and what happens during a refresh.                  *)

\* Mutant: the observer keeps the headers of the last change only.
KeepsLast(m) ==
    LET watching == {u \in Updates : Home[m] \in info[u].observed}
    IN  /\ m \notin known
        /\ known' = known \union {m}
        /\ info' = [u \in Updates |->
                      IF u \in watching
                        THEN [info[u] EXCEPT !.newHeaders = {m}]
                        ELSE info[u]]
        /\ hist' = [u \in Updates |->
                      IF u \in watching
                        THEN [hist[u] EXCEPT !.seen = @ \union {m}]
                        ELSE hist[u]]
        /\ UNCHANGED <<phase, op, callVars, busy, reply>>

\* tinymail: the header of a new message arrives while somebody, an update or
\* another operation, refreshes its folder (internal_folder_observer_update).
NewHeader(m) ==
    LET watching == {u \in Updates : Home[m] \in info[u].observed}
    IN  /\ m \notin known
        /\ known' = known \union {m}
        /\ info' = [u \in Updates |->
                      IF u \in watching
                        THEN [info[u] EXCEPT !.newHeaders = @ \union {m}]
                        ELSE info[u]]
        /\ hist' = [u \in Updates |->
                      IF u \in watching
                        THEN [hist[u] EXCEPT !.seen = @ \union {m}]
                        ELSE hist[u]]
        /\ UNCHANGED <<phase, op, callVars, busy, reply>>

\* folder_refresh_status_update: position and total of the refresh.
Progress(u, done, total) ==
    /\ refreshing[u] # {}
    /\ op' = [op EXCEPT ![u].done = done, ![u].total = total]
    /\ UNCHANGED <<phase, info, callVars, busy, known, reply, hist>>

\* The refresh failed or was canceled: the observer is removed from all
\* folders, and what it collected is not told.
RefreshFails(u) ==
    /\ refreshing[u] # {}
    /\ refreshing' = [refreshing EXCEPT ![u] = {}]
    /\ op' = [op EXCEPT ![u].error = TRUE, ![u].status = "FAILED"]
    /\ NotifyAndFree(u, {}, 0)
    /\ UNCHANGED <<listings, gets, known, hist>>

\* The messages to fetch are asked for all at once, the most recent ones first.
Retrieve(u, headers) ==
    \E fetched \in kSubset(Retrieved(headers), headers) :
        /\ gets' = [gets EXCEPT ![u] = fetched]
        /\ op' = [op EXCEPT ![u].done = 0, ![u].total = Cardinality(fetched)]
        /\ info' = [info EXCEPT ![u].observed = {}, ![u].newHeaders = headers]
        /\ UNCHANGED <<phase, busy, reply>>

\* The last folder is refreshed: the observer is removed and what it collected
\* is told at once if there is nothing to fetch, for an account of which only
\* headers are retrieved too.
LastRefreshed(u) ==
    LET headers == info[u].newHeaders \intersect Small
    IN  \/ /\ Succeeds(u, op[u], headers)
           /\ UNCHANGED gets
        \/ /\ headers # {}
           /\ Retrieve(u, headers)

\* Mutant: the folders still to refresh are forgotten.
FirstRefreshed(u) ==
    /\ refreshing[u] # {}
    /\ hist' = [hist EXCEPT ![u].refreshed = @ \union refreshing[u]]
    /\ refreshing' = [refreshing EXCEPT ![u] = {}]
    /\ LastRefreshed(u)
    /\ UNCHANGED <<listings, known>>

\* A folder is refreshed: the next one is, or this was the last.
FolderRefreshed(u) ==
    /\ refreshing[u] # {}
    /\ hist' = [hist EXCEPT ![u].refreshed = @ \union refreshing[u]]
    /\ \/ \E next \in info[u].folders2 :
             /\ refreshing' = [refreshing EXCEPT ![u] = {next}]
             /\ info' = [info EXCEPT ![u].folders2 = @ \ {next}]
             /\ UNCHANGED <<phase, op, gets, busy, reply>>
       \/ /\ info[u].folders2 = {}
          /\ refreshing' = [refreshing EXCEPT ![u] = {}]
          /\ LastRefreshed(u)
    /\ UNCHANGED <<listings, known>>

\* Mutant: a message that could not be fetched does not count as done.
GotMsgOrNot(u, m) ==
    /\ m \in gets[u]
    /\ gets' = [gets EXCEPT ![u] = @ \ {m}]
    /\ \E fetched \in {0, 1} :
         LET o == [op[u] EXCEPT !.done = @ + fetched]
         IN  IF o.done = o.total
               THEN Succeeds(u, o, info[u].newHeaders)
               ELSE /\ op' = [op EXCEPT ![u] = o]
                    /\ UNCHANGED <<phase, info, busy, reply>>
    /\ UNCHANGED <<listings, refreshing, known, hist>>

\* update_account_get_msg_async_cb: a message was fetched or could not be, it
\* counts as done all the same; the last one ends the update.
GotMsg(u, m) ==
    /\ m \in gets[u]
    /\ gets' = [gets EXCEPT ![u] = @ \ {m}]
    /\ LET o == [op[u] EXCEPT !.done = @ + 1]
       IN  IF o.done = o.total
             THEN Succeeds(u, o, info[u].newHeaders)
             ELSE /\ op' = [op EXCEPT ![u] = o]
                  /\ UNCHANGED <<phase, info, busy, reply>>
    /\ UNCHANGED <<listings, refreshing, known, hist>>

-----------------------------------------------------------------------------
\* tinymail answers a call of update u.
Answer(u) ==
    \/ \E s \in Folders \union {Root} :
         \/ Listed(u, s)
         \/ ListAgain(u, s)
         \/ \E err \in BOOLEAN : ListFails(u, s, err)
    \/ RefreshFails(u)
    \/ FolderRefreshed(u)
    \/ \E m \in Msgs : GotMsg(u, m)

Next ==
    \/ \E m \in Msgs : NewHeader(m)
    \/ \E u \in Updates :
         \/ \E pokeAll \in BOOLEAN : UpdateAccount(u, pokeAll)
         \/ UpdateFolderCounts(u)
         \/ \E type \in Types \ {"UNKNOWN"} : NoAccount(u, type)
         \/ Cancel(u)
         \/ \E n \in 0..MaxPosition : Progress(u, n, MaxPosition)
         \/ Answer(u)

Safety == Init /\ [][Next]_vars

\* Every call of tinymail is answered some time.
Spec == Safety /\ \A u \in Updates : WF_vars(Answer(u))

-----------------------------------------------------------------------------
(* Properties.                                                             *)

\* The helper of an update lives exactly as long as a callback that uses it is
\* due, whatever listings fail, are made again or come back after an error:
\* no callback finds it freed, and no update stays without a callback.
HelperHasCaller ==
    \A u \in Updates :
        phase[u] = "running" <=> listings[u] \union refreshing[u] # {} \/ gets[u] # {}

\* The account manager shows the account as busy, its folders "Refreshing",
\* only while an update of it runs, however the updates ended.
BusyOnlyWhileUpdating == busy => \E u \in Updates : phase[u] = "running"

\* The folders an update of this account has to refresh: those right below the
\* account or, if it pokes all folders, those in folders too.
Due(poked) ==
    {f \in Folders : (f = Inbox \/ UpdateAll) /\ (poked \/ Parent[f] = Root)}

\* An update that nobody canceled and that ends as a success did what it is for:
\* it refreshed the inbox, or each folder of an account that wants that, although
\* listings failed and were made again and several came back in any order.
SuccessIsComplete ==
    \A u \in Updates :
        /\ phase[u] = "ended"
        /\ op[u].type = "SEND_AND_RECEIVE"
        /\ op[u].status = "SUCCESS"
        /\ ~hist[u].canceled
        => hist[u].refreshed = Due(hist[u].poked)

\* An update that succeeds tells the user of every header below the size limit
\* that arrived while it watched the folder, the ones that arrived for another
\* update or for a window included; and of nothing else.
TellsWhatItSaw ==
    \A u \in Updates :
        phase[u] = "ended" /\ op[u].status = "SUCCESS"
          => reply[u].headers = hist[u].seen \intersect Small

\* Every update ends.
UpdatesEnd == \A u \in Updates : phase[u] = "running" ~> phase[u] = "ended"

\* The header of the account manager documents modest_account_mgr_account_is_busy
\* as returning "If the account is currently busy or not".
BusyWhileUpdating == (\E u \in Updates : phase[u] = "running") => busy
=============================================================================
