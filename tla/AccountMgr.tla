------------------------------ MODULE AccountMgr ------------------------------
(***************************************************************************)
(* The accounts in the configuration (modest-account-mgr.c and             *)
(* modest-account-mgr-helpers.c).                                          *)
(*                                                                         *)
(* An account is a directory of keys that refers to two server accounts,   *)
(* each a directory of its own.  Adding an account and removing one write  *)
(* many keys, one after the other: the program may die after any of them   *)
(* and the next session starts from what was written.  A write may also    *)
(* fail, and so may a removal of keys; both go on with the next part then. *)
(***************************************************************************)
EXTENDS Naturals, FiniteSets

CONSTANTS
    Names,    \* names of accounts
    NoName    \* no default account

ASSUME AccountMgrAssumption == NoName \notin Names

VARIABLES
    entry,      \* the keys of each account
    server,     \* the keys of its two server accounts
    default,    \* the key MODEST_CONF_DEFAULT_ACCOUNT
    hasCache,   \* priv->has_accounts and priv->has_enabled_accounts
    saveFailed, \* history: accounts saved with a write that failed
    lost        \* history: server accounts whose reference was not written, or
                \* whose keys could not be removed before it was

confVars == <<entry, server, default, hasCache, saveFailed, lost>>

ServerTypes == {"store", "transport"}

\* key: the account has some key; refs: the server accounts it refers to.
NoEntry   == [key |-> FALSE, refs |-> {}, enabled |-> FALSE]
\* "partial": it has keys, but not all that load_server_settings needs.
ServerKeys == {"none", "partial", "complete"}

NoServers == [t \in ServerTypes |-> "none"]

AccountMgrInit ==
    /\ entry = [n \in Names |-> NoEntry]
    /\ server = [n \in Names |-> NoServers]
    /\ default = NoName
    /\ hasCache = [c \in {"any", "enabled"} |-> FALSE]
    /\ saveFailed = {} /\ lost = {}

-----------------------------------------------------------------------------
\* modest_account_mgr_account_names: accounts that refer to a server account
\* that does not exist are left out.
AccountNamesIn(e, s, onlyEnabled) ==
    {n \in Names : /\ e[n].key
                   /\ onlyEnabled => e[n].enabled
                   /\ \A t \in e[n].refs : s[n][t] # "none"}

AccountNames(onlyEnabled) == AccountNamesIn(entry, server, onlyEnabled)

\* modest_account_mgr_load_account_settings and load_server_settings: whether
\* the settings of an account with both its servers can be loaded.
Loads(e, s, n) ==
    /\ e[n].key
    /\ e[n].refs = ServerTypes
    /\ \A t \in ServerTypes : s[n][t] = "complete"

\* Mutant: the account is enabled first.
EnabledFirst == 1

\* The write of MODEST_ACCOUNT_ENABLED, the last one of save_account_settings.
EnabledAt == 8

\* What of an account could be written: its references, what there is of its
\* servers, and that it is enabled.
AllWritten == [refs |-> ServerTypes, servers |-> [t \in ServerTypes |-> "complete"],
               enabled |-> TRUE]

\* No result of a write is looked at.  One part may fail: a reference, a server
\* account with or without keys written before, or that it is enabled.
WriteResults ==
    {AllWritten, [AllWritten EXCEPT !.enabled = FALSE]}
      \union {[AllWritten EXCEPT !.refs = @ \ {t}] : t \in ServerTypes}
      \union {[AllWritten EXCEPT !.servers[t] = k] : t \in ServerTypes, k \in ServerKeys}

\* save_account_settings in its order: the account and its reference to each
\* server before the keys of that server.  The keys of an account after the
\* first k of these writes.
SavedEntry(k, written) ==
    [key     |-> k >= 1,
     refs    |-> written.refs \intersect ((IF k >= 2 THEN {"store"} ELSE {})
                                            \union (IF k >= 5 THEN {"transport"} ELSE {})),
     enabled |-> k >= EnabledAt /\ written.enabled]

\* save_server_settings for both: a server with a failed write gets no more.
SavedServers(k, written) ==
    [t \in ServerTypes |->
       LET first == IF t = "store" THEN 3 ELSE 6
       IN  IF k < first \/ written.servers[t] = "none" THEN "none"
           ELSE IF k = first \/ written.servers[t] = "partial" THEN "partial"
           ELSE "complete"]

\* modest_account_mgr_get_unused_account_name gives such a name.
Unused(n) == ~entry[n].key

\* The configuration after k writes of add_account_from_settings for n.  The
\* names of its servers are unused too: keys that an earlier account of the name
\* lost are not those of its servers.
Saved(n, k, written) ==
    /\ entry' = [entry EXCEPT ![n] = SavedEntry(k, written)]
    /\ server' = [server EXCEPT ![n] = SavedServers(k, written)]
    /\ saveFailed' = IF written = AllWritten THEN saveFailed \ {n}
                     ELSE saveFailed \union {n}
    /\ lost' = (lost \ ({n} \X ServerTypes)) \union ({n} \X (ServerTypes \ written.refs))

\* modest_account_mgr_has_accounts.
HasAccounts(cache, e, s) ==
    [cache EXCEPT !["any"] = @ \/ AccountNamesIn(e, s, FALSE) # {}]

\* modest_account_mgr_add_account_from_settings, without its observers.
MgrAdd(n, written) ==
    /\ Unused(n)
    /\ Saved(n, EnabledAt, written)
    /\ hasCache' = HasAccounts(hasCache, entry', server')
    /\ default' = IF default # NoName /\ entry[default].key THEN default ELSE n

-----------------------------------------------------------------------------
\* What may stay in the configuration when an account is removed.
Keepable == ServerTypes \union {"entry"}

\* Mutant: the account goes before its servers.
EntryFirst == 2

\* modest_account_mgr_remove_account in its order: the default is unset, the
\* store, the transport and the account go, another default is picked.
UnsetAt      == 1
EntryGoneAt  == 4
RemoveWrites == 5

\* Mutant: no other default account is picked.
NoFirst(e, s) == {NoName}

\* set_first_account_as_default: some account that is enabled, the first by
\* title.
FirstAccounts(e, s) ==
    LET names == AccountNamesIn(e, s, TRUE)
    IN  IF names = {} THEN {NoName} ELSE names

\* The configuration after k writes of the removal of n, where these keys could
\* not be removed: an error of real_remove_account is only logged.
Removed(n, k, kept) ==
    LET gone == k >= EntryGoneAt /\ "entry" \notin kept
    IN  /\ entry' = IF gone THEN [entry EXCEPT ![n] = NoEntry] ELSE entry
        /\ server' = [server EXCEPT ![n] =
                        [t \in ServerTypes |->
                           IF /\ t \in entry[n].refs \ kept
                              /\ k >= (IF t = "store" THEN 2 ELSE 3)
                             THEN "none" ELSE server[n][t]]]
        /\ saveFailed' = IF gone THEN saveFailed \ {n} ELSE saveFailed
        /\ lost' = IF gone THEN lost \union ({n} \X (ServerTypes \intersect kept)) ELSE lost
        /\ IF default = n /\ k >= UnsetAt
             THEN IF k = RemoveWrites THEN default' \in FirstAccounts(entry', server')
                                      ELSE default' = NoName
             ELSE UNCHANGED default

\* Mutant: only what is remembered of enabled accounts is reset.
ForgetHalf(cache) == [cache EXCEPT !["enabled"] = FALSE]

\* Nothing is known of there being accounts.
ForgetAll(cache) == [c \in DOMAIN cache |-> FALSE]

\* Without its observers.
MgrRemove(n, kept) ==
    /\ entry[n].key
    /\ Removed(n, RemoveWrites, kept)
    /\ hasCache' = IF AccountNamesIn(entry', server', TRUE) = {}
                     THEN ForgetAll(hasCache) ELSE hasCache

\* modest_account_mgr_has_accounts, asked by whoever wants to know: always for
\* the enabled ones.
AskHasAccounts ==
    /\ ~hasCache["enabled"]
    /\ hasCache' = [hasCache EXCEPT !["enabled"] = AccountNames(TRUE) # {}]
    /\ UNCHANGED <<entry, server, default, saveFailed, lost>>

\* The settings dialog saves an account that loads and its server accounts are
\* notified: modest_account_mgr_notify_account_update.
NotifyAccountUpdate(n) ==
    /\ n \in AccountNames(TRUE)
    /\ Loads(entry, server, n)
    /\ hasCache' = ForgetAll(hasCache)
    /\ UNCHANGED <<entry, server, default, saveFailed, lost>>

\* modest_account_mgr_set_default_account.
SetDefault(n) ==
    /\ n \in AccountNames(TRUE)
    /\ default' = n
    /\ UNCHANGED <<entry, server, hasCache, saveFailed, lost>>
=============================================================================
