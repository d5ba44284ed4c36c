----------------------------- MODULE DBusService ------------------------------
(***************************************************************************)
(* The two D-Bus requests that walk over the folders of all accounts and   *)
(* reply when the last answer of tinymail has come: Search                 *)
(* (dbus_api/modest-dbus-callbacks.c and modest-search.c) and              *)
(* GetUnreadMessages (dbus_api/modest-dbus-callbacks.c).                   *)
(*                                                                         *)
(* Each has a helper, freed with the reply, that counts the listings of    *)
(* folders still out.  A search takes the folders of all accounts and      *)
(* reads their headers one by one.  A request for unread messages takes    *)
(* the accounts one by one and holds an operation in the queue, so that    *)
(* the program does not quit under it.                                     *)
(***************************************************************************)
EXTENDS Naturals, Sequences, FiniteSets, SequencesExt, Functions

CONSTANTS
    StoreAccounts,   \* the store accounts, in the order of the account store
    LocalAccount,    \* that of the local folders, where there are some
    Multi,           \* accounts of multi-mailbox protocols
    Provider,        \* accounts of plug-ins
    TnyFolders,      \* the folders of all accounts
    Under,           \* the folders in each account and in each folder, a forest
    FolderStores,    \* folders that may have folders in them
    Inboxes,         \* folders of type inbox
    MaxTries,        \* 20: further attempts at the headers of one inbox
    NoFolder

Accounts   == Range(StoreAccounts)
Containers == Accounts \union TnyFolders

ASSUME DBusAssumption ==
    /\ StoreAccounts \in Seq(Accounts) /\ IsInjective(StoreAccounts)
    /\ IsFiniteSet(TnyFolders)
    /\ Accounts \intersect TnyFolders = {}
    /\ FolderStores \subseteq TnyFolders
    /\ Multi \subseteq Accounts
    /\ Under \in [Containers -> SUBSET TnyFolders]
    /\ \A c, d \in Containers : c # d => Under[c] \intersect Under[d] = {}
    /\ NoFolder \notin TnyFolders
    /\ MaxTries \in Nat

VARIABLES
    search,   \* the SearchHelper of modest-search.c and what it was asked for
    unread,   \* the GetUnreadMessagesHelper
    listing,  \* of each helper, the listings of folders tinymail has to answer
    reading,  \* of each helper, the folder whose headers it waits for
    retry,    \* tmp_folder_ptr, while the timeout of 200 ms runs
    seen,     \* of each helper, the folders that tinymail has listed
    lost      \* folders whose headers were not read

dbusVars == <<search, unread, listing, reading, retry, seen, lost>>

-----------------------------------------------------------------------------
Helpers == {"search", "unread"}

(* "asked" is the idle source of GetUnreadMessages; a helper that is        *)
(* "answered" has been freed.                                               *)
HelperStages == {"free", "asked", "alive", "answered"}

\* wanted are the folders the argument "folder" allows.
SearchHelper == [stage : HelperStages, pending : Nat, folders : Seq(TnyFolders),
                 wanted : SUBSET TnyFolders, hits : SUBSET TnyFolders]

\* An AccountHits: the inboxes whose unread messages it counts.
AccountHits == [account : Accounts, counted : Seq(TnyFolders)]

GetUnreadMessagesHelper ==
    [stage : HelperStages, accounts : Seq(Accounts), inboxes : Seq(TnyFolders),
     done : Nat, total : Nat, tries : Nat, hits : Seq(AccountHits),
     queued : BOOLEAN]

NoListing == [c \in Containers |-> 0]

\* tny_folder_store_get_folders_async for those of a list at some positions.
AskAll(calls, cs, at) ==
    [c \in Containers |-> calls[c] + Cardinality({i \in at : cs[i] = c})]

\* The argument "folder": none, one that is there, or one that is not.
Criteria == { {f} : f \in TnyFolders } \union {TnyFolders, {}}

Answered(calls, c) == [calls EXCEPT ![c] = @ - 1]

\* What a listing answers: the folders in any order, nothing if it failed or was
\* canceled, and "NMS account sometimes doubles the number of folder".
FoldersIn(c) ==
    LET all == SetToSeqs(Under[c])
    IN  all \union (IF c = LocalAccount THEN {} ELSE {<<>>})
            \union (IF c \in Multi THEN {fs \o fs : fs \in all} ELSE {})

\* Where in an answer there are folders that may have folders in them.
StoresAt(fs) == {i \in DOMAIN fs : fs[i] \in FolderStores}

-----------------------------------------------------------------------------
(* Searching.                                                              *)

\* _search_folder, for the first folder: one that is not wanted has its
\* callback called at once, as canceled, which goes on with the next.  After
\* the last the reply is sent and the helper freed.
SearchFrom(h, fs) ==
    LET i == SelectInSeq(fs, LAMBDA f : f \in h.wanted)
    IN  IF i = 0
        THEN /\ search' = [h EXCEPT !.folders = <<>>, !.stage = "answered"]
             /\ reading' = [reading EXCEPT !["search"] = NoFolder]
        ELSE /\ search' = [h EXCEPT !.folders = SubSeq(fs, i, Len(fs))]
             /\ reading' = [reading EXCEPT !["search"] = fs[i]]

\* modest_search_all_accounts: it asks for the folders of every account before
\* tinymail can answer.
Search(wanted) ==
    /\ search.stage = "free"
    /\ search' = [search EXCEPT !.stage = "alive", !.wanted = wanted,
                                !.pending = Len(StoreAccounts)]
    /\ listing' = [listing EXCEPT !["search"] =
                    AskAll(@, StoreAccounts, DOMAIN StoreAccounts)]
    /\ UNCHANGED <<unread, reading, retry, seen, lost>>

\* Mutant: pending_calls is not incremented for the folders in folders.
PendingAccounts(h, fs) == h.pending - 1

PendingAfter(h, fs) == h.pending + Cardinality(StoresAt(fs)) - 1

\* modest_search_account_get_folders_cb.
SearchListed(c, fs) ==
    LET n    == PendingAfter(search, fs)
        all  == search.folders \o fs
        next == [search EXCEPT !.pending = n, !.folders = all]
    IN  /\ listing["search"][c] > 0
        /\ listing' = [listing EXCEPT !["search"] =
                         AskAll(Answered(@, c), fs, StoresAt(fs))]
        /\ IF n = 0 THEN SearchFrom(next, all)
                    ELSE search' = next /\ UNCHANGED reading
        /\ seen' = [seen EXCEPT !["search"] = @ \union Range(fs)]
        /\ UNCHANGED <<unread, retry, lost>>

\* modest_search_folder_get_headers_cb: headers that could not be read, or that
\* the listing of another folder canceled, are left out.
SearchRead(ok) ==
    LET f == reading["search"]
    IN  /\ f # NoFolder
        /\ SearchFrom([search EXCEPT !.hits = IF ok THEN @ \union {f} ELSE @],
                      Tail(search.folders))
        /\ lost' = IF ok THEN lost ELSE lost \union {f}
        /\ UNCHANGED <<unread, listing, retry, seen>>

-----------------------------------------------------------------------------
(* Unread messages.                                                        *)

\* return_results: the operation leaves the queue after the reply.
ReturnResults(h) ==
    /\ unread' = [h EXCEPT !.stage = "answered", !.queued = FALSE]
    /\ reading' = [reading EXCEPT !["unread"] = NoFolder]

\* get_unread_messages_get_account, with these calls out.
GetAccount(h, calls) ==
    IF h.accounts = <<>>
    THEN ReturnResults(h) /\ listing' = [listing EXCEPT !["unread"] = calls]
    ELSE /\ unread' = [h EXCEPT !.inboxes = <<>>, !.done = 0, !.total = 1]
         /\ listing' = [listing EXCEPT !["unread"] =
                          AskAll(calls, h.accounts, {1})]
         /\ reading' = [reading EXCEPT !["unread"] = NoFolder]

\* get_unread_messages_get_headers: of the first inbox, or on to the next
\* account.
GetHeaders(h, calls) ==
    IF h.inboxes = <<>>
    THEN GetAccount([h EXCEPT !.accounts = Tail(@)], calls)
    ELSE /\ unread' = [h EXCEPT !.inboxes = Tail(@), !.tries = MaxTries]
         /\ listing' = [listing EXCEPT !["unread"] = calls]
         /\ reading' = [reading EXCEPT !["unread"] = Head(h.inboxes)]

Hit(h, fs) ==
    [h EXCEPT !.hits = <<[account |-> Head(h.accounts), counted |-> fs]>> \o @]

\* on_dbus_method_get_unread_messages: the operation is queued before the idle
\* source is added and is never started.
GetUnreadMessages ==
    /\ unread.stage = "free"
    /\ unread' = [unread EXCEPT !.stage = "asked", !.queued = TRUE]
    /\ UNCHANGED <<search, listing, reading, retry, seen, lost>>

\* on_idle_get_unread_messages.
OnIdleGetUnreadMessages ==
    /\ unread.stage = "asked"
    /\ GetAccount([unread EXCEPT !.stage = "alive",
                     !.accounts = RemoveFirst(StoreAccounts, LocalAccount)],
                  listing["unread"])
    /\ UNCHANGED <<search, retry, seen, lost>>

\* get_account_folders_cb: the first inbox; an account that has none yet is
\* reported without messages.
AccountListed(c, fs) ==
    LET calls == Answered(listing["unread"], c)
        i     == SelectInSeq(fs, LAMBDA f : f \in Inboxes)
    IN  /\ listing["unread"][c] > 0 /\ Head(unread.accounts) \notin Multi
        /\ IF i = 0 THEN GetHeaders(Hit(unread, <<>>), calls)
                    ELSE GetHeaders([unread EXCEPT !.inboxes = <<fs[i]>> \o @],
                                    calls)
        /\ seen' = [seen EXCEPT !["unread"] = @ \union Range(fs)]
        /\ UNCHANGED <<search, retry, lost>>

\* Each inbox once, the last one first.
AddInboxes(inboxes, fs) ==
    LET after[i \in 0..Len(fs)] == \* the list after the first i folders
          IF i = 0 THEN inboxes
          ELSE LET l == after[i-1]
               IN  IF fs[i] \in Inboxes \ Range(l) THEN <<fs[i]>> \o l ELSE l
    IN  after[Len(fs)]

\* get_multi_mailbox_account_folders_cb.
MultiListed(c, fs) ==
    LET calls == AskAll(Answered(listing["unread"], c), fs, StoresAt(fs))
        next  == [unread EXCEPT !.done = @ + 1,
                                !.total = @ + Cardinality(StoresAt(fs)),
                                !.inboxes = AddInboxes(@, fs)]
    IN  /\ listing["unread"][c] > 0 /\ Head(unread.accounts) \in Multi
        /\ IF next.done = next.total
           THEN GetAccount([Hit(next, next.inboxes) EXCEPT !.accounts = Tail(@)],
                           calls)
           ELSE /\ unread' = next /\ UNCHANGED reading
                /\ listing' = [listing EXCEPT !["unread"] = calls]
        /\ seen' = [seen EXCEPT !["unread"] = @ \union Range(fs)]
        /\ UNCHANGED <<search, retry, lost>>

\* Mutant: get_headers_tries_left is not decremented.
TriesKept(h) == [h EXCEPT !.tries = @]

\* get_headers_tries_left--, when there are some.
TriesTaken(h) == [h EXCEPT !.tries = @ - 1]

\* get_unread_messages_get_headers_cb: differ is that the headers of a plug-in
\* account and the count of its folder do not agree.
UnreadRead(differ) ==
    LET f     == reading["unread"]
        waits == differ /\ unread.tries > 0
    IN  /\ f # NoFolder
        /\ differ => Head(unread.accounts) \in Provider
        /\ IF waits
           THEN /\ unread' = TriesTaken(unread) /\ retry' = f
                /\ reading' = [reading EXCEPT !["unread"] = NoFolder]
                /\ UNCHANGED listing
           ELSE /\ GetHeaders(Hit(unread, IF differ THEN <<>> ELSE <<f>>),
                              listing["unread"])
                /\ UNCHANGED retry
        /\ UNCHANGED <<search, seen, lost>>

\* send_get_headers_request, after 200 ms.
SendGetHeadersRequest ==
    /\ retry # NoFolder
    /\ reading' = [reading EXCEPT !["unread"] = retry]
    /\ retry' = NoFolder
    /\ UNCHANGED <<search, unread, listing, seen, lost>>

-----------------------------------------------------------------------------
\* One request of each kind: two share nothing but tinymail, whose answers are
\* free.
DBusInit ==
    /\ search = [stage |-> "free", pending |-> 0, folders |-> <<>>,
                 wanted |-> {}, hits |-> {}]
    /\ unread = [stage |-> "free", accounts |-> <<>>, inboxes |-> <<>>, done |-> 0,
                 total |-> 0, tries |-> 0, hits |-> <<>>, queued |-> FALSE]
    /\ listing = [h \in Helpers |-> NoListing]
    /\ reading = [h \in Helpers |-> NoFolder]
    /\ retry = NoFolder
    /\ seen = [h \in Helpers |-> {}] /\ lost = {}

Called == { c \in Containers : \E h \in Helpers : listing[h][c] > 0 }

FoldersAnswered ==
    \E c \in Called : \E fs \in FoldersIn(c) :
        SearchListed(c, fs) \/ AccountListed(c, fs) \/ MultiListed(c, fs)

HeadersAnswered == \E b \in BOOLEAN : SearchRead(b) \/ UnreadRead(b)

DBusNext ==
    \/ \E wanted \in Criteria : Search(wanted)
    \/ GetUnreadMessages \/ OnIdleGetUnreadMessages
    \/ FoldersAnswered \/ HeadersAnswered \/ SendGetHeadersRequest

\* tinymail answers every call, and GLib runs idle sources and timeouts.  (The
\* two helpers end, so that neither keeps the other from its answers.)
DBusFairness ==
    /\ WF_dbusVars(FoldersAnswered) /\ WF_dbusVars(HeadersAnswered)
    /\ WF_dbusVars(OnIdleGetUnreadMessages)
    /\ WF_dbusVars(SendGetHeadersRequest)

DBusSpec == DBusInit /\ [][DBusNext]_dbusVars /\ DBusFairness

-----------------------------------------------------------------------------
(* Properties.                                                             *)

\* A helper that has been freed, or is not there yet, has no callback to come:
\* the counters reach zero, or each other, with the last answer.
NothingLeft(h, stage) ==
    stage # "alive" => listing[h] = NoListing /\ reading[h] = NoFolder

\* Every folder listed that was asked for was searched, but for headers that
\* could not be read.
SearchIsComplete ==
    search.stage = "answered" =>
        seen["search"] \intersect search.wanted \subseteq search.hits \union lost

\* Each remote account is reported once, a multi-mailbox account with every
\* inbox that was listed, however deep and however often, counted once.
UnreadIsComplete ==
    LET hits == Range(unread.hits)
        of(a) == { h \in hits : h.account = a }
        plain == (Accounts \ Multi) \ {LocalAccount}
        several == Multi \ {LocalAccount}
    IN  unread.stage = "answered" =>
          /\ \A h \in hits : IsInjective(h.counted)
          /\ \A a \in plain \union several :
               Cardinality({i \in DOMAIN unread.hits :
                              unread.hits[i].account = a}) = 1
          /\ \A a \in plain : \A h \in of(a) : Range(h.counted) \subseteq Under[a]
          /\ UNION { Range(h.counted) : h \in UNION { of(a) : a \in several } }
               = (seen["unread"] \intersect Inboxes)
                   \ UNION { Under[a] : a \in plain }

\* The reply to Search and the one to GetUnreadMessages are complete, and with
\* them nothing is left that would use the freed helper, in whatever order the
\* folders of the accounts are listed, fail or are listed twice.
AnswersAreComplete ==
    /\ NothingLeft("search", search.stage) /\ SearchIsComplete
    /\ NothingLeft("unread", unread.stage) /\ UnreadIsComplete
    /\ unread.stage # "alive" => retry = NoFolder

\* Both requests are answered in the end, and the operation queued for the
\* second leaves the queue, or the program would never quit.
RequestsAnswered ==
    /\ search.stage = "alive" ~> search.stage = "answered"
    /\ unread.queued ~> ~unread.queued
=============================================================================
