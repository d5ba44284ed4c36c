------------------------- MODULE AccountStoreProofs -------------------------
(***************************************************************************)
(* Proofs about modules AccountMgr and AccountStore: for any names of      *)
(* accounts, any accounts of single connections and any number of account  *)
(* objects, deaths and failures, the configuration, the lists of accounts, *)
(* the global outbox, the send queues and the mail on disk agree, and      *)
(* AccountStore implements AtomicAccounts.                                 *)
(***************************************************************************)
EXTENDS AccountStore, FiniteSetTheorems, TLAPS

\* The configuration.
Entries == [key : BOOLEAN, refs : SUBSET ServerTypes, enabled : BOOLEAN]

ConfTypeOK ==
    /\ entry \in [Names -> Entries]
    /\ server \in [Names -> [ServerTypes -> ServerKeys]]
    /\ default \in Names \union {NoName}
    /\ hasCache \in [{"any", "enabled"} -> BOOLEAN]
    /\ saveFailed \subseteq Names
    /\ lost \subseteq Names \X ServerTypes

\* An account saved with a failed write is there until it is removed.
FailedIsThere == \A n \in saveFailed : entry[n].key

\* "enabled" is written last and goes with the account, after its servers: what
\* is enabled refers to both servers, each of them complete or gone.
EnabledIsWhole ==
    \A n \in Names :
        entry[n].enabled /\ n \notin saveFailed =>
            /\ entry[n].key
            /\ entry[n].refs = ServerTypes
            /\ \A t \in ServerTypes : server[n][t] \in {"none", "complete"}

DefaultIsListed ==
    default # NoName => default \in AccountNames(TRUE) \union saveFailed

ConfInv ==
    /\ ConfTypeOK
    /\ NoOrphanServers
    /\ FailedIsThere
    /\ EnabledIsWhole
    /\ DefaultIsListed
    /\ HasAccountsIsTrue

\* The objects the session made.
MadeObjects == {o \in (Names \union Specifics) \X Nat : o[2] <= made[o[1]]}

Histories(made_objects) ==
    [early : SUBSET made_objects, unlisted : SUBSET made_objects,
     left : SUBSET Names, outlived : SUBSET made_objects, failed : BOOLEAN]

StoreTypeOK ==
    /\ made \in [Names \union Specifics -> Nat]
    /\ stores \subseteq MadeObjects
    /\ transports \subseteq MadeObjects
    /\ boxes \subseteq MadeObjects
    /\ listing \subseteq MadeObjects
    /\ outboxOf \subseteq MadeObjects
    /\ merged \subseteq MadeObjects
    /\ queues \subseteq MadeObjects
    /\ leaving \subseteq MadeObjects
    /\ making \subseteq MadeObjects
    /\ sending \subseteq MadeObjects
    /\ mail \subseteq Names
    /\ faults \in Nat
    /\ history \in Histories(MadeObjects)

\* The two lists agree, and what they hold of the configuration loads.
ListsAgree ==
    /\ stores = {o \in transports : NameOf(o) \in Names}
    /\ \A o \in stores : Loads(entry, server, NameOf(o))

\* An outbox is in one of three stages: listed now, not listed, merged.
OutboxStages ==
    /\ OutboxMatchesAccounts
    /\ listing \subseteq boxes
    /\ listing \intersect merged = {}
    /\ history.unlisted \intersect (listing \union merged) = {}
    /\ listing \ transports \subseteq history.early

\* Mail is in the outbox of an account that is there: of one in the list of the
\* session, if it can be removed.
MailHasAccount ==
    \A n \in mail : \/ n \in history.left
                    \/ /\ entry[n].key
                       /\ n \in AccountNames(TRUE) => \E o \in stores : NameOf(o) = n

\* The transport accounts of a name.
Named(n) == {o \in transports : NameOf(o) = n}

SpecificsOnce ==
    ~history.failed =>
        \A s \in Specifics : IF stores = {} THEN Named(s) = {}
                                            ELSE \E o \in Named(s) : Named(s) = {o}

\* Mail is sent with accounts of the list or with those that were removed since.
\* An outbox in the list is in one of the stages above.  What is in the list under
\* the name of an account that was removed while mail was sent was made later.
SendStages ==
    /\ making \union sending \subseteq transports \union history.outlived
    /\ boxes \subseteq listing \union merged \union history.unlisted
    /\ \A o \in history.outlived, b \in transports :
         NameOf(b) = NameOf(o) => o[2] < b[2]

\* The inductive invariant.
IInv ==
    /\ ConfInv
    /\ StoreTypeOK
    /\ ListsAgree
    /\ OutboxStages
    /\ SendStages
    /\ QueueHasAccount
    /\ MailHasAccount
    /\ SpecificsOnce

-----------------------------------------------------------------------------
(* The configuration.                                                      *)

Results == [refs : SUBSET ServerTypes, servers : [ServerTypes -> ServerKeys],
            enabled : BOOLEAN]

LEMMA WhatIsWritten == WriteResults \subseteq Results /\ AllWritten \in WriteResults
  <1>1. AllWritten \in Results
    BY DEF AllWritten, Results, ServerTypes, ServerKeys
  <1>2. [AllWritten EXCEPT !.enabled = FALSE] \in Results
    BY <1>1 DEF Results
  <1>3. ASSUME NEW t \in ServerTypes
        PROVE  [AllWritten EXCEPT !.refs = @ \ {t}] \in Results
    BY <1>1 DEF Results
  <1>4. ASSUME NEW t \in ServerTypes, NEW k \in ServerKeys
        PROVE  [AllWritten EXCEPT !.servers[t] = k] \in Results
    BY <1>1 DEF Results
  <1>5. ASSUME NEW w \in WriteResults PROVE w \in Results
    <2> DEFINE Reffed  == {[AllWritten EXCEPT !.refs = @ \ {t}] : t \in ServerTypes}
               Servers == {[AllWritten EXCEPT !.servers[t] = k] :
                             t \in ServerTypes, k \in ServerKeys}
    <2>1. \/ w = AllWritten \/ w = [AllWritten EXCEPT !.enabled = FALSE]
          \/ w \in Reffed \/ w \in Servers
      BY DEF WriteResults
    <2>2. Reffed \subseteq Results
      BY <1>3
    <2>3. Servers \subseteq Results
      BY <1>4
    <2> HIDE DEF Reffed, Servers
    <2> QED
      BY <1>1, <1>2, <2>1, <2>2, <2>3
  <1>6. AllWritten \in WriteResults
    BY DEF WriteResults
  <1> QED
    BY <1>5, <1>6

\* The keys of an account after k writes of it are keys of an account, and what
\* is written of a server is referred to if the reference could be written; the
\* last write enables an account that refers to both servers, which are complete,
\* when no write failed.
LEMMA WhatIsSaved ==
    ASSUME NEW k \in Nat, NEW written \in WriteResults
    PROVE  /\ SavedEntry(k, written) \in Entries
           /\ SavedServers(k, written) \in [ServerTypes -> ServerKeys]
           /\ \A t \in ServerTypes : SavedServers(k, written)[t] # "none" =>
                /\ SavedEntry(k, written).key
                /\ t \in SavedEntry(k, written).refs \/ t \notin written.refs
           /\ k >= 1 <=> SavedEntry(k, written).key
           /\ SavedEntry(k, written).enabled => k >= EnabledAt
           /\ k >= EnabledAt /\ written = AllWritten =>
                /\ SavedEntry(k, written).enabled
                /\ SavedEntry(k, written).refs = ServerTypes
                /\ \A t \in ServerTypes : SavedServers(k, written)[t] = "complete"
  <1>0. /\ written.refs \subseteq ServerTypes /\ written.enabled \in BOOLEAN
        /\ written.servers \in [ServerTypes -> ServerKeys]
    BY WhatIsWritten DEF Results
  <1>1. SavedServers(k, written) \in [ServerTypes -> ServerKeys]
    BY DEF SavedServers, ServerTypes, ServerKeys
  <1>2. /\ SavedServers(k, written)["store"] # "none" => k >= 3
        /\ SavedServers(k, written)["transport"] # "none" => k >= 6
    BY DEF SavedServers, ServerTypes
  <1>3. /\ SavedEntry(k, written).key <=> k >= 1
        /\ SavedEntry(k, written).enabled => k >= EnabledAt
        /\ "store" \in SavedEntry(k, written).refs <=> k >= 2 /\ "store" \in written.refs
        /\ "transport" \in SavedEntry(k, written).refs
             <=> k >= 5 /\ "transport" \in written.refs
    BY DEF SavedEntry
  <1>4. ASSUME written = AllWritten, k >= EnabledAt
        PROVE  /\ SavedEntry(k, written).enabled
               /\ SavedEntry(k, written).refs = ServerTypes
               /\ \A t \in ServerTypes : SavedServers(k, written)[t] = "complete"
    <2>1. /\ written.enabled /\ written.refs = ServerTypes
          /\ \A t \in ServerTypes : written.servers[t] = "complete"
      BY <1>4 DEF AllWritten
    <2>2. k >= 8
      BY <1>4 DEF EnabledAt
    <2>3. \A t \in ServerTypes : SavedServers(k, written)[t] = "complete"
      BY <2>1, <2>2 DEF SavedServers, ServerTypes
    <2>4. SavedEntry(k, written).refs = ServerTypes
      BY <2>1, <2>2 DEF SavedEntry, ServerTypes
    <2>5. SavedEntry(k, written).enabled
      BY <2>1, <2>2 DEF SavedEntry, EnabledAt
    <2> QED
      BY <2>3, <2>4, <2>5
  <1>5. SavedEntry(k, written) \in Entries
    BY <1>0 DEF SavedEntry, Entries, ServerTypes
  <1>6. ASSUME NEW t \in ServerTypes, SavedServers(k, written)[t] # "none"
        PROVE  /\ SavedEntry(k, written).key
               /\ t \in SavedEntry(k, written).refs \/ t \notin written.refs
    <2>1. CASE t = "store"
      BY <1>6, <2>1, <1>2, <1>3
    <2>2. CASE t = "transport"
      BY <1>6, <2>2, <1>2, <1>3
    <2> QED
      BY <2>1, <2>2 DEF ServerTypes
  <1> QED
    BY <1>1, <1>3, <1>4, <1>5, <1>6

\* The part of ConfInv about entry, server, saveFailed and lost.
Keys ==
    /\ entry \in [Names -> Entries]
    /\ server \in [Names -> [ServerTypes -> ServerKeys]]
    /\ saveFailed \subseteq Names
    /\ lost \subseteq Names \X ServerTypes
    /\ NoOrphanServers
    /\ FailedIsThere
    /\ EnabledIsWhole

\* The other accounts stay as they are.
OthersStay(n) ==
    \A m \in Names \ {n} :
        /\ entry'[m] = entry[m]
        /\ server'[m] = server[m]
        /\ m \in saveFailed' <=> m \in saveFailed
        /\ \A t \in ServerTypes : <<m, t>> \in lost => <<m, t>> \in lost'

\* Writing an account that was not there keeps the keys in order, and it is
\* listed or known to be saved with a failed write once it is enabled.
LEMMA SavedKeeps ==
    ASSUME Keys, NEW n \in Names, NEW k \in Nat, NEW written \in WriteResults,
           k >= 1, Unused(n), Saved(n, k, written)
    PROVE  /\ Keys'
           /\ OthersStay(n)
           /\ entry'[n] = SavedEntry(k, written)
           /\ server'[n] = SavedServers(k, written)
           /\ n \notin saveFailed' <=> written = AllWritten
  <1>0. written.refs \subseteq ServerTypes
    BY WhatIsWritten DEF Results
  <1>1. /\ entry' \in [Names -> Entries]
        /\ server' \in [Names -> [ServerTypes -> ServerKeys]]
        /\ saveFailed' \subseteq Names
    BY WhatIsSaved DEF Keys, Saved
  <1>2. entry'[n] = SavedEntry(k, written) /\ server'[n] = SavedServers(k, written)
    BY DEF Keys, Saved
  <1>3. n \notin saveFailed' <=> written = AllWritten
    BY DEF Saved
  <1>4. /\ lost' \subseteq Names \X ServerTypes
        /\ \A t \in ServerTypes : <<n, t>> \in lost' <=> t \notin written.refs
        /\ \A m \in Names \ {n}, t \in ServerTypes : <<m, t>> \in lost' <=> <<m, t>> \in lost
    BY DEF Keys, Saved
  <1>5. OthersStay(n)
    BY <1>4 DEF Keys, Saved, OthersStay
  <1>6. NoOrphanServers'
    <2> SUFFICES ASSUME NEW m \in Names, NEW t \in ServerTypes, server'[m][t] # "none"
                 PROVE  (entry'[m].key /\ t \in entry'[m].refs) \/ <<m, t>> \in lost'
      BY DEF NoOrphanServers
    <2>1. CASE m = n
      BY <1>2, <1>4, <2>1, WhatIsSaved
    <2>2. CASE m # n
      BY <1>5, <2>2 DEF Keys, NoOrphanServers, OthersStay
    <2> QED
      BY <2>1, <2>2
  <1>7. FailedIsThere'
    BY <1>1, <1>2, <1>5, WhatIsSaved DEF Keys, FailedIsThere, OthersStay
  <1>8. EnabledIsWhole'
    <2>1. ASSUME entry'[n].enabled, n \notin saveFailed'
          PROVE  /\ entry'[n].key
                 /\ entry'[n].refs = ServerTypes
                 /\ \A t \in ServerTypes : server'[n][t] \in {"none", "complete"}
      BY <2>1, <1>2, <1>3, WhatIsSaved
    <2> QED
      BY <2>1, <1>5 DEF Keys, EnabledIsWhole, OthersStay
  <1> QED
    BY <1>1, <1>2, <1>3, <1>4, <1>5, <1>6, <1>7, <1>8 DEF Keys

\* After k writes of its removal an account is as it was, without a server, or
\* gone with both, but for what could not be removed.
LEMMA RemovedKeeps ==
    ASSUME Keys, NEW n \in Names, NEW k \in Nat, k >= 1, NEW kept \in SUBSET Keepable,
           n \in AccountNames(TRUE), Removed(n, k, kept)
    PROVE  /\ Keys'
           /\ OthersStay(n)
           /\ \/ /\ k >= EntryGoneAt /\ "entry" \notin kept
                 /\ entry'[n] = NoEntry /\ n \notin saveFailed'
              \/ /\ k < EntryGoneAt \/ "entry" \in kept
                 /\ entry' = entry /\ saveFailed' = saveFailed
           /\ k = 1 => server' = server
           /\ \A t \in ServerTypes : server'[n][t] \in {"none", server[n][t]}
           /\ kept = {} /\ k >= 2 /\ entry[n].refs = ServerTypes =>
                server'[n]["store"] = "none"
  <1> DEFINE gone == k >= EntryGoneAt /\ "entry" \notin kept
  <1>1. /\ entry' \in [Names -> Entries]
        /\ server' \in [Names -> [ServerTypes -> ServerKeys]]
        /\ saveFailed' \subseteq Names
        /\ lost' \subseteq Names \X ServerTypes
    BY DEF Keys, Removed, NoEntry, Entries, ServerKeys, ServerTypes, EntryGoneAt
  <1>2. /\ ~gone => entry' = entry /\ saveFailed' = saveFailed /\ lost' = lost
        /\ gone => /\ entry'[n] = NoEntry /\ n \notin saveFailed'
                   /\ lost' = lost \union ({n} \X (ServerTypes \intersect kept))
    BY DEF Keys, Removed, EntryGoneAt
  <1>3. \A t \in ServerTypes :
          server'[n][t] = IF t \in entry[n].refs \ kept /\ k >= (IF t = "store" THEN 2 ELSE 3)
                            THEN "none" ELSE server[n][t]
    BY DEF Keys, Removed
  <1>4. OthersStay(n)
    BY DEF Keys, Removed, OthersStay, EntryGoneAt
  <1>5. ASSUME k = 1 PROVE server' = server
    <2>1. \A t \in ServerTypes : server'[n][t] = server[n][t]
      BY <1>3, <1>5
    <2>2. server'[n] = server[n]
      BY <1>1, <2>1 DEF Keys
    <2>3. \A m \in Names : server'[m] = server[m]
      BY <1>4, <2>2 DEF OthersStay
    <2> QED
      BY <1>1, <2>3 DEF Keys
  <1>6. NoOrphanServers'
    <2> SUFFICES ASSUME NEW m \in Names, NEW t \in ServerTypes, server'[m][t] # "none"
                 PROVE  (entry'[m].key /\ t \in entry'[m].refs) \/ <<m, t>> \in lost'
      BY DEF NoOrphanServers
    <2>1. CASE m # n
      BY <1>4, <2>1 DEF Keys, NoOrphanServers, OthersStay
    <2>2. CASE m = n
      <3>1. server[n][t] # "none"
        BY <1>3, <2>2
      <3>2. (entry[n].key /\ t \in entry[n].refs) \/ <<n, t>> \in lost
        BY <3>1 DEF Keys, NoOrphanServers
      <3>3. CASE ~gone
        BY <1>2, <2>2, <3>2, <3>3
      <3>4. CASE gone
        <4>1. t \in kept \/ t \notin entry[n].refs
          BY <1>3, <2>2, <3>4 DEF EntryGoneAt, ServerTypes
        <4> QED
          BY <1>2, <2>2, <3>2, <3>4, <4>1
      <3> QED
        BY <3>3, <3>4
    <2> QED
      BY <2>1, <2>2
  <1>7. FailedIsThere'
    BY <1>1, <1>2, <1>4 DEF Keys, FailedIsThere, OthersStay
  <1>8. EnabledIsWhole'
    <2>1. ASSUME entry'[n].enabled, n \notin saveFailed'
          PROVE  /\ entry'[n].key
                 /\ entry'[n].refs = ServerTypes
                 /\ \A t \in ServerTypes : server'[n][t] \in {"none", "complete"}
      <3>1. entry' = entry /\ saveFailed' = saveFailed
        BY <1>2, <2>1 DEF NoEntry
      <3> QED
        BY <1>3, <2>1, <3>1 DEF Keys, EnabledIsWhole
    <2> QED
      BY <1>4, <2>1 DEF Keys, EnabledIsWhole, OthersStay
  <1>9. kept = {} /\ k >= 2 /\ entry[n].refs = ServerTypes => server'[n]["store"] = "none"
    BY <1>3 DEF ServerTypes
  <1>10. \A t \in ServerTypes : server'[n][t] \in {"none", server[n][t]}
    BY <1>3
  <1>11. \/ gone
         \/ k < EntryGoneAt \/ "entry" \in kept
    BY DEF EntryGoneAt
  <1> HIDE DEF gone
  <1>12. Keys'
    BY <1>1, <1>6, <1>7, <1>8 DEF Keys
  <1> QED
    BY <1>2, <1>4, <1>5, <1>9, <1>10, <1>11, <1>12 DEF gone

\* What an enabled account lists is listed when all accounts are.
LEMMA EnabledNames ==
    ASSUME NEW e, NEW s, NEW b \in BOOLEAN
    PROVE  AccountNamesIn(e, s, TRUE) \subseteq AccountNamesIn(e, s, b)
  BY DEF AccountNamesIn

\* Whether one of the other accounts is listed does not change.
LEMMA OthersListed ==
    ASSUME NEW n \in Names, OthersStay(n), NEW m \in Names \ {n}, NEW b \in BOOLEAN
    PROVE  m \in AccountNamesIn(entry', server', b)
             <=> m \in AccountNamesIn(entry, server, b)
  BY DEF OthersStay, AccountNamesIn

\* An account that is not there is not listed.
LEMMA UnusedNotListed ==
    ASSUME NEW n \in Names, Unused(n), NEW b \in BOOLEAN
    PROVE  n \notin AccountNamesIn(entry, server, b)
  BY DEF Unused, AccountNamesIn

\* An account that is enabled after it was saved is listed, if no write failed.
LEMMA SavedIsListed ==
    ASSUME NEW n \in Names,
           entry'[n] = SavedEntry(EnabledAt, AllWritten),
           server'[n] = SavedServers(EnabledAt, AllWritten)
    PROVE  n \in AccountNamesIn(entry', server', TRUE) /\ Loads(entry', server', n)
  <1>1. /\ AllWritten \in WriteResults
        /\ EnabledAt \in Nat /\ EnabledAt >= EnabledAt /\ EnabledAt >= 1
    BY WhatIsWritten DEF EnabledAt
  <1>2. /\ entry'[n].key /\ entry'[n].enabled /\ entry'[n].refs = ServerTypes
        /\ \A t \in ServerTypes : server'[n][t] = "complete"
    BY <1>1, WhatIsSaved
  <1> QED
    BY <1>2 DEF AccountNamesIn, Loads

\* HasAccountsIsTrue, for each of the two that are remembered.
LEMMA HasAccountsOf ==
    HasAccountsIsTrue
      <=> /\ hasCache["enabled"] => AccountNamesIn(entry, server, TRUE) # {}
          /\ hasCache["any"] => AccountNamesIn(entry, server, FALSE) # {}
  <1>1. ("any" = "enabled") = FALSE /\ ("enabled" = "enabled") = TRUE
    OBVIOUS
  <1> QED
    BY <1>1 DEF HasAccountsIsTrue, AccountNames

LEMMA ConfInvKeys == ConfInv => Keys
  BY DEF ConfInv, ConfTypeOK, Keys

\* Adding an account keeps the configuration in order.
LEMMA ConfAfterAdd ==
    ASSUME ConfInv, NEW n \in Names, NEW written \in WriteResults, MgrAdd(n, written)
    PROVE  ConfInv' /\ OthersStay(n) /\ entry'[n].key
  <1>1. EnabledAt \in Nat /\ EnabledAt >= 1
    BY DEF EnabledAt
  <1>2. /\ Keys'
        /\ OthersStay(n)
        /\ entry'[n] = SavedEntry(EnabledAt, written)
        /\ server'[n] = SavedServers(EnabledAt, written)
        /\ n \notin saveFailed' <=> written = AllWritten
    BY <1>1, ConfInvKeys, SavedKeeps DEF MgrAdd
  <1>3. /\ default' \in Names \union {NoName}
        /\ hasCache' \in [{"any", "enabled"} -> BOOLEAN]
    BY DEF MgrAdd, ConfInv, ConfTypeOK, HasAccounts
  <1>4. n \in AccountNames(TRUE)' \union saveFailed'
    BY <1>2, SavedIsListed DEF AccountNames
  <1>5. \A m \in Names, b \in BOOLEAN :
          m \in AccountNamesIn(entry, server, b) => m \in AccountNamesIn(entry', server', b)
    BY <1>2, OthersListed, UnusedNotListed DEF MgrAdd
  <1>6. saveFailed \subseteq saveFailed' \union {n}
    BY DEF MgrAdd, Saved
  <1>7. DefaultIsListed'
    BY <1>4, <1>5, <1>6 DEF MgrAdd, ConfInv, ConfTypeOK, DefaultIsListed, AccountNames
  <1>8. HasAccountsIsTrue'
    <2> DEFINE some == AccountNamesIn(entry', server', FALSE) # {}
    <2>1. hasCache' = [hasCache EXCEPT !["any"] = hasCache["any"] \/ some]
      BY DEF MgrAdd, HasAccounts
    <2>2. ASSUME NEW b \in BOOLEAN, AccountNamesIn(entry, server, b) # {}
          PROVE  AccountNamesIn(entry', server', b) # {}
      <3>1. AccountNamesIn(entry, server, b) \subseteq Names
        BY DEF AccountNamesIn
      <3> QED
        BY <2>2, <3>1, <1>5
    <2>3. /\ hasCache["enabled"] => AccountNamesIn(entry, server, TRUE) # {}
          /\ hasCache["any"] => AccountNamesIn(entry, server, FALSE) # {}
      BY HasAccountsOf DEF ConfInv
    <2>4. hasCache'["enabled"] => AccountNamesIn(entry', server', TRUE) # {}
      <3> HIDE DEF some
      <3>1. hasCache'["enabled"] = hasCache["enabled"]
        BY <2>1 DEF ConfInv, ConfTypeOK
      <3> QED
        BY <3>1, <2>2, <2>3
    <2>5. hasCache'["any"] => some
      <3> HIDE DEF some
      <3>1. hasCache'["any"] = (hasCache["any"] \/ some)
        BY <2>1 DEF ConfInv, ConfTypeOK
      <3>2. hasCache["any"] => some
        BY <2>2, <2>3 DEF some
      <3> QED
        BY <3>1, <3>2
    <2> QED
      BY <2>4, <2>5 DEF HasAccountsIsTrue, AccountNames
  <1>9. entry'[n].key
    BY <1>1, <1>2, WhatIsSaved
  <1> QED
    BY <1>2, <1>3, <1>7, <1>8, <1>9 DEF ConfInv, ConfTypeOK, Keys

\* The default account after k writes of a removal is listed or there is none.
LEMMA DefaultAfterRemoved ==
    ASSUME ConfInv, NEW n \in Names, NEW k \in Nat, k >= 1, NEW kept \in SUBSET Keepable,
           n \in AccountNames(TRUE), Removed(n, k, kept)
    PROVE  default' \in Names \union {NoName} /\ DefaultIsListed'
  <1>1. OthersStay(n)
    BY ConfInvKeys, RemovedKeeps
  <1>2. CASE default = n
    <2>1. \/ default' = NoName
          \/ default' \in FirstAccounts(entry', server')
      BY <1>2 DEF Removed, UnsetAt
    <2> QED
      BY <2>1 DEF FirstAccounts, DefaultIsListed, AccountNames, AccountNamesIn
  <1>3. CASE default # n
    <2>1. default' = default /\ default \in Names \union {NoName}
      BY <1>3 DEF Removed, ConfInv, ConfTypeOK
    <2>2. CASE default = NoName
      BY <2>1, <2>2 DEF DefaultIsListed
    <2>3. CASE default # NoName
      <3>1. default \in AccountNamesIn(entry, server, TRUE) \union saveFailed
        BY <2>3 DEF ConfInv, DefaultIsListed, AccountNames
      <3>2. default \in Names \ {n}
        BY <1>3, <2>1, <2>3
      <3>3. default \in AccountNamesIn(entry', server', TRUE) \union saveFailed'
        BY <1>1, <3>1, <3>2, OthersListed DEF OthersStay
      <3> QED
        BY <2>1, <3>3 DEF DefaultIsListed, AccountNames
    <2> QED
      BY <2>2, <2>3
  <1> QED
    BY <1>2, <1>3

\* Removing an account keeps the configuration in order.
LEMMA ConfAfterRemove ==
    ASSUME ConfInv, NEW n \in Names, n \in AccountNames(TRUE),
           NEW kept \in SUBSET Keepable, MgrRemove(n, kept)
    PROVE  ConfInv' /\ OthersStay(n)
  <1>1. /\ RemoveWrites \in Nat /\ RemoveWrites >= 1
        /\ RemoveWrites >= EntryGoneAt
    BY DEF RemoveWrites, EntryGoneAt
  <1>2. Keys' /\ OthersStay(n)
    BY <1>1, ConfInvKeys, RemovedKeeps DEF MgrRemove
  <1>3. default' \in Names \union {NoName} /\ DefaultIsListed'
    BY <1>1, DefaultAfterRemoved DEF MgrRemove
  <1>4. hasCache' \in [{"any", "enabled"} -> BOOLEAN]
    BY DEF MgrRemove, ForgetAll, ConfInv, ConfTypeOK
  <1>5. HasAccountsIsTrue'
    <2>1. CASE AccountNamesIn(entry', server', TRUE) = {}
      BY <2>1 DEF MgrRemove, ForgetAll, HasAccountsIsTrue, ConfInv, ConfTypeOK
    <2>2. CASE AccountNamesIn(entry', server', TRUE) # {}
      BY <2>2, EnabledNames DEF HasAccountsIsTrue, AccountNames
    <2> QED
      BY <2>1, <2>2
  <1> QED
    BY <1>2, <1>3, <1>4, <1>5 DEF ConfInv, ConfTypeOK, Keys

\* Asking whether there are accounts, notifying a change of one or choosing the
\* default account keeps the configuration in order.
LEMMA ConfAfterOthers ==
    ASSUME ConfInv,
           \/ AskHasAccounts
           \/ \E n \in Names : NotifyAccountUpdate(n) \/ SetDefault(n)
    PROVE  ConfInv' /\ entry' = entry /\ server' = server
  <1>1. CASE AskHasAccounts
    <2> DEFINE listed == AccountNames(TRUE) # {}
    <2>1. /\ hasCache' = [hasCache EXCEPT !["enabled"] = listed]
          /\ UNCHANGED <<entry, server, default, saveFailed, lost>>
      BY <1>1 DEF AskHasAccounts
    <2>2. hasCache'["enabled"] = listed /\ hasCache'["any"] = hasCache["any"]
      <3> HIDE DEF listed
      <3> QED
        BY <2>1 DEF ConfInv, ConfTypeOK
    <2>3. hasCache' \in [{"any", "enabled"} -> BOOLEAN]
      BY <2>1 DEF ConfInv, ConfTypeOK
    <2>4. Keys' /\ default' \in Names \union {NoName} /\ DefaultIsListed'
      BY <2>1 DEF ConfInv, ConfTypeOK, Keys, NoOrphanServers, FailedIsThere,
         EnabledIsWhole, DefaultIsListed, AccountNames
    <2>5. HasAccountsIsTrue'
      <3>1. hasCache["any"] => AccountNamesIn(entry, server, FALSE) # {}
        BY HasAccountsOf DEF ConfInv
      <3>2. /\ hasCache'["enabled"] => AccountNamesIn(entry', server', TRUE) # {}
            /\ hasCache'["any"] => AccountNamesIn(entry', server', FALSE) # {}
        BY <2>1, <2>2, <3>1 DEF AccountNames
      <3> QED
        BY <3>2 DEF HasAccountsIsTrue, AccountNames
    <2> QED
      BY <2>1, <2>3, <2>4, <2>5 DEF ConfInv, ConfTypeOK, Keys
  <1>2. ASSUME NEW n \in Names, NotifyAccountUpdate(n)
        PROVE  ConfInv' /\ entry' = entry /\ server' = server
    BY <1>2 DEF NotifyAccountUpdate, ForgetAll, ConfInv, ConfTypeOK, NoOrphanServers,
       FailedIsThere, EnabledIsWhole, DefaultIsListed, HasAccountsIsTrue, AccountNames
  <1>3. ASSUME NEW n \in Names, SetDefault(n)
        PROVE  ConfInv' /\ entry' = entry /\ server' = server
    BY <1>3 DEF SetDefault, ConfInv, ConfTypeOK, NoOrphanServers,
       FailedIsThere, EnabledIsWhole, DefaultIsListed, HasAccountsIsTrue, AccountNames
  <1> QED
    BY <1>1, <1>2, <1>3

\* A new session remembers nothing of there being accounts.
LEMMA NothingRemembered ==
    ASSUME hasCache' = [c \in {"any", "enabled"} |-> FALSE]
    PROVE  hasCache' \in [{"any", "enabled"} -> BOOLEAN] /\ HasAccountsIsTrue'
  BY DEF HasAccountsIsTrue

\* Dying while an account is added keeps the configuration in order.
LEMMA ConfAfterDieInAdd ==
    ASSUME ConfInv, NEW n \in Names, NEW k \in 1..EnabledAt, DieInAdd(n, k)
    PROVE  ConfInv' /\ OthersStay(n)
  <1>1. k \in Nat /\ k >= 1 /\ AllWritten \in WriteResults
    BY WhatIsWritten DEF EnabledAt
  <1>2. Keys' /\ OthersStay(n)
    BY <1>1, ConfInvKeys, SavedKeeps DEF DieInAdd
  <1>3. DefaultIsListed'
    <2>1. CASE default = NoName
      BY <2>1 DEF DieInAdd, DefaultIsListed
    <2>2. CASE default # NoName
      <3>1. default \in AccountNamesIn(entry, server, TRUE) \union saveFailed
        BY <2>2 DEF ConfInv, DefaultIsListed, AccountNames
      <3>2. entry[default].key /\ default \in Names
        BY <3>1 DEF ConfInv, ConfTypeOK, FailedIsThere, AccountNamesIn
      <3>3. default \in Names \ {n}
        BY <3>2 DEF DieInAdd, Unused
      <3>4. default \in AccountNamesIn(entry', server', TRUE) \union saveFailed'
        BY <1>2, <3>1, <3>3, OthersListed DEF OthersStay
      <3> QED
        BY <3>4 DEF DieInAdd, DefaultIsListed, AccountNames
    <2> QED
      BY <2>1, <2>2
  <1>4. default' \in Names \union {NoName}
    BY DEF DieInAdd, ConfInv, ConfTypeOK
  <1>5. hasCache' \in [{"any", "enabled"} -> BOOLEAN] /\ HasAccountsIsTrue'
    BY NothingRemembered DEF DieInAdd, NewSession
  <1> QED
    BY <1>2, <1>3, <1>4, <1>5 DEF ConfInv, ConfTypeOK, Keys

\* So does dying while one is removed.
LEMMA ConfAfterDieInRemove ==
    ASSUME ConfInv, NEW n \in Names, NEW k \in 1..RemoveWrites, DieInRemove(n, k)
    PROVE  ConfInv' /\ OthersStay(n)
  <1>1. k \in Nat /\ k >= 1 /\ {} \in SUBSET Keepable
    BY DEF RemoveWrites
  <1>2. Keys' /\ OthersStay(n)
    BY <1>1, ConfInvKeys, RemovedKeeps DEF DieInRemove
  <1>3. default' \in Names \union {NoName} /\ DefaultIsListed'
    BY <1>1, DefaultAfterRemoved DEF DieInRemove
  <1>4. hasCache' \in [{"any", "enabled"} -> BOOLEAN] /\ HasAccountsIsTrue'
    BY NothingRemembered DEF DieInRemove, NewSession
  <1> QED
    BY <1>2, <1>3, <1>4 DEF ConfInv, ConfTypeOK, Keys

LEMMA ConfAfterRestart ==
    ASSUME ConfInv, Restart
    PROVE  ConfInv' /\ entry' = entry /\ server' = server
  <1>1. hasCache' \in [{"any", "enabled"} -> BOOLEAN] /\ HasAccountsIsTrue'
    BY NothingRemembered DEF Restart, NewSession
  <1> QED
    BY <1>1 DEF Restart, ConfInv, ConfTypeOK, NoOrphanServers, FailedIsThere,
       EnabledIsWhole, DefaultIsListed, AccountNames

LEMMA ConfUnchanged ==
    ASSUME ConfInv, UNCHANGED confVars
    PROVE  ConfInv' /\ entry' = entry /\ server' = server
  BY DEF confVars, ConfInv, ConfTypeOK, NoOrphanServers, FailedIsThere,
     EnabledIsWhole, DefaultIsListed, HasAccountsIsTrue, AccountNames

-----------------------------------------------------------------------------
(* The lists of a session.                                                 *)

Tags == Names \union Specifics

\* A new object is none of those the session made, and has its name.
LEMMA NewOnes ==
    ASSUME StoreTypeOK, NEW S \in SUBSET Tags
    PROVE  /\ NewObjects(S) \intersect MadeObjects = {}
           /\ \A o \in NewObjects(S) : NameOf(o) \in S
           /\ \A n \in S : /\ <<n, made[n] + 1>> \in NewObjects(S)
                           /\ NameOf(<<n, made[n] + 1>>) = n
           /\ \A n \in S : \A o \in NewObjects(S) :
                NameOf(o) = n => o = <<n, made[n] + 1>>
  BY DEF StoreTypeOK, NewObjects, NameOf, MadeObjects, Tags

\* What the session made stays made when it makes more.
LEMMA MoreMade ==
    ASSUME StoreTypeOK, NEW A \in SUBSET Names, NEW S \in SUBSET Specifics,
           Insert(A, S)
    PROVE  /\ made' \in [Tags -> Nat]
           /\ MadeObjects \subseteq MadeObjects'
           /\ NewObjects(A \union S) \subseteq MadeObjects'
           /\ NewObjects(A) \subseteq NewObjects(A \union S)
  <1>1. made' \in [Tags -> Nat]
    BY DEF Insert, StoreTypeOK, Tags
  <1>2. \A n \in Tags : made'[n] = IF n \in A \union S THEN made[n] + 1 ELSE made[n]
    BY DEF Insert, Tags
  <1>3. \A n \in Tags : made[n] \in Nat
    BY DEF StoreTypeOK, Tags
  <1>4. MadeObjects \subseteq MadeObjects'
    BY <1>2, <1>3 DEF MadeObjects, Tags
  <1>5. NewObjects(A \union S) \subseteq MadeObjects'
    BY <1>2, <1>3 DEF MadeObjects, NewObjects, Tags
  <1> QED
    BY <1>1, <1>4, <1>5 DEF NewObjects

\* Accounts and those of single connections have different names.
LEMMA NamesDiffer == Names \intersect Specifics = {}
  BY AccountStoreAssumption

\* The part of the inductive invariant about the session and its mail.
ListInv ==
    /\ StoreTypeOK
    /\ ListsAgree
    /\ OutboxStages
    /\ SendStages
    /\ QueueHasAccount
    /\ MailHasAccount
    /\ SpecificsOnce

\* What AddAccount inserts: the account if it loads, with it the accounts of
\* single connections if it is the first.
Added(n)  == IF Loads(entry', server', n) THEN {n} ELSE {}
AddedToo  == IF OnlyLocalAccounts THEN Specifics ELSE {}

LEMMA AddAccountFacts ==
    ASSUME NEW n \in Names, NEW written \in WriteResults, AddAccount(n, written)
    PROVE  /\ Added(n) \in SUBSET Names /\ AddedToo \in SUBSET Specifics
           /\ MgrAdd(n, written)
           /\ Insert(Added(n), AddedToo)
           /\ stores' = stores \union NewObjects(Added(n))
           /\ transports' = transports \union NewObjects(Added(n) \union AddedToo)
           /\ boxes' = boxes \union NewObjects(Added(n) \union AddedToo)
           /\ listing' = listing \union NewObjects(Added(n) \union AddedToo)
           /\ queues' \in {queues, queues \union NewObjects(Added(n))}
           /\ history' = [history EXCEPT !.failed = @ \/ ~Loads(entry', server', n)]
           /\ UNCHANGED <<outboxOf, merged, leaving, making, sending, mail>>
           /\ written # AllWritten => faults' = faults + 1
           /\ faults' \in {faults, faults + 1}
  BY DEF AddAccount, Insert, Added, AddedToo, Fault, sendVars

LEMMA TypeAfterAdd ==
    ASSUME StoreTypeOK, NEW n \in Names, NEW written \in WriteResults,
           AddAccount(n, written)
    PROVE  /\ StoreTypeOK'
           /\ history'.early = history.early
           /\ history'.unlisted = history.unlisted
           /\ history'.left = history.left
           /\ history'.outlived = history.outlived
           /\ ~history'.failed => ~history.failed /\ Loads(entry', server', n)
  <1>1. /\ made' \in [Tags -> Nat]
        /\ MadeObjects \subseteq MadeObjects'
        /\ NewObjects(Added(n) \union AddedToo) \subseteq MadeObjects'
        /\ NewObjects(Added(n)) \subseteq MadeObjects'
    BY AddAccountFacts, MoreMade
  <1>2. /\ stores' \subseteq MadeObjects' /\ transports' \subseteq MadeObjects'
        /\ boxes' \subseteq MadeObjects' /\ listing' \subseteq MadeObjects'
        /\ outboxOf' \subseteq MadeObjects' /\ merged' \subseteq MadeObjects'
        /\ queues' \subseteq MadeObjects' /\ leaving' \subseteq MadeObjects'
        /\ making' \subseteq MadeObjects' /\ sending' \subseteq MadeObjects'
        /\ mail' \subseteq Names
    BY <1>1, AddAccountFacts DEF StoreTypeOK
  <1>8. faults' \in Nat
    <2>1. faults' \in {faults, faults + 1}
      BY AddAccountFacts
    <2> QED
      BY <2>1 DEF StoreTypeOK
  <1> DEFINE failed == ~Loads(entry', server', n)
  <1>3. history' = [history EXCEPT !.failed = history.failed \/ failed]
    BY AddAccountFacts
  <1>4. /\ history.early \subseteq MadeObjects /\ history.unlisted \subseteq MadeObjects
        /\ history.left \subseteq Names /\ history.outlived \subseteq MadeObjects
        /\ history = [early |-> history.early, unlisted |-> history.unlisted,
                      left |-> history.left, outlived |-> history.outlived,
                      failed |-> history.failed]
    BY DEF StoreTypeOK, Histories
  <1>5. history' = [early |-> history.early, unlisted |-> history.unlisted,
                    left |-> history.left, outlived |-> history.outlived,
                    failed |-> history.failed \/ failed]
    <2> HIDE DEF failed
    <2> QED
      BY <1>3, <1>4
  <1>6. history'.failed = (history.failed \/ failed)
    BY <1>5
  <1>7. history' \in Histories(MadeObjects')
    BY <1>1, <1>4, <1>5 DEF Histories
  <1> QED
    BY <1>1, <1>2, <1>5, <1>6, <1>7, <1>8 DEF StoreTypeOK, Tags

\* The list of store accounts has the new account, if it loads, and the list of
\* transport accounts those of single connections besides.
LEMMA ListsAfterAdd ==
    ASSUME ConfInv, ListInv, NEW n \in Names, NEW written \in WriteResults,
           AddAccount(n, written)
    PROVE  ListsAgree'
  <1>1. /\ Added(n) \in SUBSET Names /\ AddedToo \in SUBSET Specifics
        /\ MgrAdd(n, written)
        /\ stores' = stores \union NewObjects(Added(n))
        /\ transports' = transports \union NewObjects(Added(n) \union AddedToo)
    BY AddAccountFacts
  <1>2. OthersStay(n)
    BY <1>1, ConfAfterAdd
  <1>3. NewObjects(Added(n))
          = {o \in NewObjects(Added(n) \union AddedToo) : NameOf(o) \in Names}
    BY <1>1, NamesDiffer DEF NewObjects, NameOf
  <1>4. stores' = {o \in transports' : NameOf(o) \in Names}
    BY <1>1, <1>3 DEF ListInv, ListsAgree
  <1>5. ASSUME NEW o \in stores PROVE Loads(entry', server', NameOf(o))
    <2>1. Loads(entry, server, NameOf(o)) /\ NameOf(o) \in Names
      BY DEF ListInv, ListsAgree
    <2>2. NameOf(o) # n
      BY <1>1, <2>1 DEF MgrAdd, Unused, Loads
    <2> QED
      BY <1>2, <2>1, <2>2 DEF OthersStay, Loads
  <1>6. ASSUME NEW o \in NewObjects(Added(n)) PROVE Loads(entry', server', NameOf(o))
    BY <1>1, NewOnes DEF ListInv, Added, Tags
  <1> QED
    BY <1>1, <1>4, <1>5, <1>6 DEF ListsAgree

LEMMA OutboxesAfterAdd ==
    ASSUME ListInv, NEW n \in Names, NEW written \in WriteResults,
           AddAccount(n, written)
    PROVE  OutboxStages'
  <1> DEFINE new == NewObjects(Added(n) \union AddedToo)
  <1>1. /\ transports' = transports \union new
        /\ boxes' = boxes \union new
        /\ listing' = listing \union new
        /\ UNCHANGED <<outboxOf, merged>>
    BY AddAccountFacts
  <1>2. history'.early = history.early /\ history'.unlisted = history.unlisted
    BY TypeAfterAdd DEF ListInv
  <1>3. new \intersect MadeObjects = {}
    BY AddAccountFacts, NewOnes DEF ListInv, Tags
  <1>4. /\ merged \subseteq MadeObjects /\ listing \subseteq MadeObjects
        /\ history.unlisted \subseteq MadeObjects /\ transports \subseteq MadeObjects
    BY DEF ListInv, StoreTypeOK, Histories
  <1> HIDE DEF new
  <1> QED
    BY <1>1, <1>2, <1>3, <1>4 DEF ListInv, OutboxStages, OutboxMatchesAccounts

\* What is added is made later than what was removed.
LEMMA SendsAfterAdd ==
    ASSUME ListInv, NEW n \in Names, NEW written \in WriteResults,
           AddAccount(n, written)
    PROVE  SendStages'
  <1> DEFINE new == NewObjects(Added(n) \union AddedToo)
  <1>1. /\ transports' = transports \union new
        /\ boxes' = boxes \union new
        /\ listing' = listing \union new
        /\ UNCHANGED <<merged, making, sending>>
        /\ history'.unlisted = history.unlisted /\ history'.outlived = history.outlived
    BY AddAccountFacts, TypeAfterAdd DEF ListInv
  <1>2. ASSUME NEW o \in history.outlived, NEW b \in new, NameOf(b) = NameOf(o)
        PROVE  o[2] < b[2]
    <2>1. PICK m \in Tags : b = <<m, made[m] + 1>>
      BY AddAccountFacts DEF NewObjects, Tags
    <2>2. o \in MadeObjects
      BY DEF ListInv, StoreTypeOK, Histories
    <2>3. o[1] = m /\ o[2] \in Nat /\ o[2] <= made[m] /\ made[m] \in Nat
      BY <1>2, <2>1, <2>2 DEF MadeObjects, NameOf, ListInv, StoreTypeOK, Tags
    <2> QED
      BY <2>1, <2>3
  <1> HIDE DEF new
  <1> QED
    BY <1>1, <1>2 DEF ListInv, SendStages

\* For which accounts an outbox stays does not become less.
LEMMA StayedAfterAdd ==
    ASSUME ListInv, NEW n \in Names, NEW written \in WriteResults,
           AddAccount(n, written),
           NEW o \in MadeObjects, OutboxStayed(o)
    PROVE  OutboxStayed(o)'
  <1>1. history'.early = history.early /\ history'.unlisted = history.unlisted
    BY TypeAfterAdd DEF ListInv
  <1>2. /\ NameOf(o) \in Tags /\ o[2] \in Nat
        /\ made[NameOf(o)] \in Nat /\ made'[NameOf(o)] \in {made[NameOf(o)], made[NameOf(o)] + 1}
    BY AddAccountFacts DEF MadeObjects, NameOf, ListInv, StoreTypeOK, Tags, Insert
  <1>3. o[2] < made[NameOf(o)] => o[2] < made'[NameOf(o)]
    BY <1>2
  <1> QED
    BY <1>1, <1>3 DEF OutboxStayed, NameOf

LEMMA QueuesAfterAdd ==
    ASSUME ListInv, NEW n \in Names, NEW written \in WriteResults,
           AddAccount(n, written)
    PROVE  QueueHasAccount'
  <1>1. NewObjects(Added(n)) \subseteq NewObjects(Added(n) \union AddedToo)
    BY DEF NewObjects
  <1>2. /\ queues' \in {queues, queues \union NewObjects(Added(n))}
        /\ transports' = transports \union NewObjects(Added(n) \union AddedToo)
        /\ leaving' = leaving /\ history'.outlived = history.outlived
    BY AddAccountFacts, TypeAfterAdd DEF ListInv
  <1>3. \A o \in queues : OutboxStayed(o) => OutboxStayed(o)'
    BY StayedAfterAdd DEF ListInv, StoreTypeOK
  <1> QED
    BY <1>1, <1>2, <1>3 DEF ListInv, QueueHasAccount

LEMMA MailAfterAdd ==
    ASSUME ConfInv, ListInv, NEW n \in Names, NEW written \in WriteResults,
           AddAccount(n, written)
    PROVE  MailHasAccount'
  <1>1. MgrAdd(n, written) /\ stores \subseteq stores' /\ mail' = mail
    BY AddAccountFacts
  <1>2. history'.left = history.left
    BY TypeAfterAdd DEF ListInv
  <1>3. OthersStay(n)
    BY <1>1, ConfAfterAdd
  <1>4. SUFFICES ASSUME NEW m \in mail, m \notin history.left
                 PROVE  /\ entry'[m].key
                        /\ m \in AccountNamesIn(entry', server', TRUE)
                             => \E o \in stores' : NameOf(o) = m
    BY <1>1, <1>2 DEF MailHasAccount, AccountNames
  <1>5. /\ entry[m].key /\ m \in Names
        /\ m \in AccountNamesIn(entry, server, TRUE) => \E o \in stores : NameOf(o) = m
    BY <1>4 DEF ListInv, StoreTypeOK, MailHasAccount, AccountNames
  <1>6. m # n
    BY <1>1, <1>5 DEF MgrAdd, Unused
  <1>7. m \in AccountNamesIn(entry', server', TRUE)
          <=> m \in AccountNamesIn(entry, server, TRUE)
    BY <1>3, <1>5, <1>6, OthersListed
  <1> QED
    BY <1>1, <1>3, <1>5, <1>6, <1>7 DEF OthersStay

LEMMA SpecificsAfterAdd ==
    ASSUME ListInv, NEW n \in Names, NEW written \in WriteResults,
           AddAccount(n, written)
    PROVE  SpecificsOnce'
  <1>1. SUFFICES ASSUME ~history'.failed, NEW s \in Specifics
                 PROVE  IF stores' = {} THEN Named(s)' = {}
                                        ELSE \E o \in Named(s)' : Named(s)' = {o}
    BY DEF SpecificsOnce
  <1>2. ~history.failed /\ Loads(entry', server', n)
    BY <1>1, TypeAfterAdd DEF ListInv
  <1>3. /\ Added(n) = {n}
        /\ stores' = stores \union NewObjects({n})
        /\ transports' = transports \union NewObjects({n} \union AddedToo)
        /\ n # s
    BY <1>2, AddAccountFacts, NamesDiffer DEF Added
  <1>4. stores' # {}
    <2>1. {n} \in SUBSET Tags
      BY DEF Tags
    <2>2. <<n, made[n] + 1>> \in NewObjects({n})
      BY <2>1, NewOnes DEF ListInv
    <2> QED
      BY <1>3, <2>2
  <1>5. IF stores = {} THEN Named(s) = {} ELSE \E o \in Named(s) : Named(s) = {o}
    BY <1>2 DEF ListInv, SpecificsOnce
  <1>6. CASE stores = {}
    <2>1. AddedToo = Specifics
      BY <1>6 DEF AddedToo, OnlyLocalAccounts
    <2> DEFINE o == <<s, made[s] + 1>>
    <2>2. {n} \union Specifics \in SUBSET Tags /\ s \in {n} \union Specifics
      BY DEF Tags
    <2>3. /\ o \in NewObjects({n} \union Specifics) /\ NameOf(o) = s
          /\ \A p \in NewObjects({n} \union Specifics) : NameOf(p) = s => p = o
      BY <2>2, NewOnes DEF ListInv
    <2> HIDE DEF o
    <2>4. Named(s)' = {o}
      BY <1>3, <1>5, <1>6, <2>1, <2>3 DEF Named
    <2> QED
      BY <1>4, <2>4
  <1>7. CASE stores # {}
    <2>1. NewObjects({n} \union AddedToo) = NewObjects({n})
      BY <1>7 DEF AddedToo, OnlyLocalAccounts
    <2>2. \A p \in NewObjects({n}) : NameOf(p) # s
      BY <1>3, NewOnes DEF ListInv, Tags
    <2>3. Named(s)' = Named(s)
      BY <1>3, <2>1, <2>2 DEF Named
    <2> QED
      BY <1>4, <1>5, <1>7, <2>3
  <1> QED
    BY <1>6, <1>7

-----------------------------------------------------------------------------
(* Removing an account.                                                    *)

\* The account objects that go with an account of this name, and those of single
\* connections if no remote account remains.
Gone(n)    == {o \in stores : NameOf(o) = n}
GoneToo(n) ==
    IF stores \ Gone(n) # {} THEN {}
    ELSE {o \in transports : /\ NameOf(o) \in Specifics
                             /\ \A p \in transports : NameOf(p) = NameOf(o) => p[2] >= o[2]}
Out(n)     == Gone(n) \union GoneToo(n)
KnownOut(n) == Out(n) \intersect outboxOf

LEMMA RemoveAccountFacts ==
    ASSUME ListInv, NEW n \in Names,
           NEW kept \in SUBSET Keepable, RemoveAccount(n, kept)
    PROVE  /\ n \in AccountNames(TRUE)
           /\ MgrRemove(n, kept)
           /\ stores' = stores \ Gone(n)
           /\ transports' = transports \ Out(n)
           /\ boxes' = boxes \ KnownOut(n)
           /\ outboxOf' = outboxOf \ KnownOut(n)
           /\ merged' = merged \ KnownOut(n)
           /\ mail' = mail \ {NameOf(o) : o \in KnownOut(n)}
           /\ leaving' = leaving \union Out(n)
           /\ UNCHANGED <<made, listing, queues, making, sending>>
           /\ faults' = IF kept = {} THEN faults ELSE faults + 1
           /\ history'.early = history.early \union (Out(n) \intersect listing)
           /\ history'.unlisted = history.unlisted
           /\ history'.failed = history.failed
           /\ history'.left
                = (history.left \ {NameOf(o) : o \in KnownOut(n)})
                    \union (mail \intersect {NameOf(o) : o \in Out(n) \ KnownOut(n)})
           /\ history'.outlived
                = history.outlived \union (Out(n) \intersect (making \union sending))
           /\ history' = [early |-> history'.early, unlisted |-> history'.unlisted,
                          left |-> history'.left, outlived |-> history'.outlived,
                          failed |-> history'.failed]
           /\ Out(n) \subseteq transports
  <1>1. history = [early |-> history.early, unlisted |-> history.unlisted,
                   left |-> history.left, outlived |-> history.outlived,
                   failed |-> history.failed]
    BY DEF ListInv, StoreTypeOK, Histories
  <1>2. /\ n \in AccountNames(TRUE) /\ MgrRemove(n, kept)
        /\ stores' = stores \ Gone(n)
        /\ RemoveTransports(Out(n))
        /\ leaving' = leaving \union Out(n)
        /\ UNCHANGED <<made, listing, queues, making, sending>>
        /\ faults' = IF kept = {} THEN faults ELSE faults + 1
    BY DEF RemoveAccount, Out, Gone, GoneToo, Fault, sendVars
  <1>3. Out(n) \subseteq transports
    BY DEF Out, Gone, GoneToo, ListInv, ListsAgree
  <1> DEFINE gone  == Out(n)
             early == history.early \union (gone \intersect listing)
             left  == (history.left \ {NameOf(o) : o \in KnownOut(n)})
                        \union (mail \intersect {NameOf(o) : o \in gone \ KnownOut(n)})
             outlived == history.outlived \union (gone \intersect (making \union sending))
  <1>4. history' = [history EXCEPT !.early = early, !.outlived = outlived, !.left = left]
    BY <1>2 DEF RemoveTransports, KnownOut
  <1>5. history' = [early |-> early, unlisted |-> history.unlisted,
                    left |-> left, outlived |-> outlived, failed |-> history.failed]
    <2> HIDE DEF early, left, outlived
    <2> QED
      BY <1>1, <1>4
  <1>6. /\ transports' = transports \ Out(n)
        /\ boxes' = boxes \ KnownOut(n)
        /\ outboxOf' = outboxOf \ KnownOut(n)
        /\ merged' = merged \ KnownOut(n)
        /\ mail' = mail \ {NameOf(o) : o \in KnownOut(n)}
    BY <1>2 DEF RemoveTransports, MergedWithout, MailWithout, KnownOut
  <1> QED
    BY <1>2, <1>3, <1>5, <1>6

LEMMA TypeAfterRemove ==
    ASSUME ListInv, NEW n \in Names,
           NEW kept \in SUBSET Keepable, RemoveAccount(n, kept)
    PROVE  StoreTypeOK'
  <1>1. made' = made /\ MadeObjects' = MadeObjects
    BY RemoveAccountFacts DEF MadeObjects
  <1>2. /\ made \in [Names \union Specifics -> Nat] /\ faults \in Nat
        /\ stores \subseteq MadeObjects /\ transports \subseteq MadeObjects
        /\ boxes \subseteq MadeObjects /\ listing \subseteq MadeObjects
        /\ outboxOf \subseteq MadeObjects /\ merged \subseteq MadeObjects
        /\ queues \subseteq MadeObjects /\ leaving \subseteq MadeObjects
        /\ making \subseteq MadeObjects /\ sending \subseteq MadeObjects
        /\ mail \subseteq Names
        /\ history.early \subseteq MadeObjects /\ history.unlisted \subseteq MadeObjects
        /\ history.outlived \subseteq MadeObjects
        /\ history.left \subseteq Names /\ history.failed \in BOOLEAN
    BY DEF ListInv, StoreTypeOK, Histories
  <1>3. /\ history'.early \subseteq MadeObjects /\ history'.unlisted \subseteq MadeObjects
        /\ history'.outlived \subseteq MadeObjects
        /\ history'.left \subseteq Names /\ history'.failed \in BOOLEAN
    BY <1>2, RemoveAccountFacts
  <1>4. history' \in Histories(MadeObjects)
    <2>1. history' = [early |-> history'.early, unlisted |-> history'.unlisted,
                      left |-> history'.left, outlived |-> history'.outlived,
                      failed |-> history'.failed]
      BY RemoveAccountFacts
    <2> QED
      BY <1>3, <2>1 DEF Histories
  <1>5. /\ stores' \subseteq MadeObjects /\ transports' \subseteq MadeObjects
        /\ boxes' \subseteq MadeObjects /\ listing' \subseteq MadeObjects
        /\ outboxOf' \subseteq MadeObjects /\ merged' \subseteq MadeObjects
        /\ queues' \subseteq MadeObjects /\ leaving' \subseteq MadeObjects
        /\ making' \subseteq MadeObjects /\ sending' \subseteq MadeObjects
        /\ mail' \subseteq Names
    BY <1>2, RemoveAccountFacts
  <1>6. faults' \in Nat
    <2>1. faults' = IF kept = {} THEN faults ELSE faults + 1
      BY RemoveAccountFacts
    <2> QED
      BY <1>2, <2>1
  <1> QED
    BY <1>1, <1>2, <1>4, <1>5, <1>6 DEF StoreTypeOK

LEMMA ListsAfterRemove ==
    ASSUME ConfInv, ListInv, NEW n \in Names,
           NEW kept \in SUBSET Keepable, RemoveAccount(n, kept)
    PROVE  ListsAgree'
  <1>1. /\ stores' = stores \ Gone(n)
        /\ transports' = transports \ Out(n)
        /\ MgrRemove(n, kept) /\ n \in AccountNames(TRUE)
    BY RemoveAccountFacts
  <1>2. OthersStay(n)
    BY <1>1, ConfAfterRemove
  <1>3. Gone(n) = {o \in Out(n) : NameOf(o) \in Names}
    BY NamesDiffer DEF Gone, GoneToo, Out
  <1>4. stores' = {o \in transports' : NameOf(o) \in Names}
    BY <1>1, <1>3 DEF ListInv, ListsAgree
  <1>5. ASSUME NEW o \in stores' PROVE Loads(entry', server', NameOf(o))
    <2>1. Loads(entry, server, NameOf(o)) /\ NameOf(o) \in Names \ {n}
      BY <1>1 DEF ListInv, ListsAgree, Gone
    <2> QED
      BY <1>2, <2>1 DEF OthersStay, Loads
  <1> QED
    BY <1>4, <1>5 DEF ListsAgree

LEMMA OutboxesAfterRemove ==
    ASSUME ListInv, NEW n \in Names,
           NEW kept \in SUBSET Keepable, RemoveAccount(n, kept)
    PROVE  OutboxStages'
  <1>1. /\ transports' = transports \ Out(n)
        /\ boxes' = boxes \ KnownOut(n)
        /\ outboxOf' = outboxOf \ KnownOut(n)
        /\ merged' = merged \ KnownOut(n)
        /\ listing' = listing
        /\ history'.early = history.early \union (Out(n) \intersect listing)
        /\ history'.unlisted = history.unlisted
    BY RemoveAccountFacts
  <1>2. KnownOut(n) = Out(n) \intersect merged
    BY DEF KnownOut, ListInv, OutboxStages, OutboxMatchesAccounts
  <1> QED
    BY <1>1, <1>2 DEF ListInv, OutboxStages, OutboxMatchesAccounts

\* An account that goes while mail is sent with it is older than those of its
\* name that stay: all of a name in the configuration go, of those of single
\* connections the oldest one.
LEMMA SendsAfterRemove ==
    ASSUME ListInv, NEW n \in Names,
           NEW kept \in SUBSET Keepable, RemoveAccount(n, kept)
    PROVE  SendStages'
  <1>1. /\ transports' = transports \ Out(n)
        /\ boxes' = boxes \ KnownOut(n)
        /\ merged' = merged \ KnownOut(n)
        /\ UNCHANGED <<listing, making, sending>>
        /\ history'.unlisted = history.unlisted
        /\ history'.outlived
             = history.outlived \union (Out(n) \intersect (making \union sending))
    BY RemoveAccountFacts
  <1>2. ASSUME NEW o \in Out(n), NEW b \in transports \ Out(n), NameOf(b) = NameOf(o)
        PROVE  o[2] < b[2]
    <2>1. o \in transports
      BY RemoveAccountFacts
    <2>2. /\ o = <<NameOf(o), o[2]>> /\ b = <<NameOf(b), b[2]>>
          /\ o[2] \in Nat /\ b[2] \in Nat
      BY <2>1 DEF ListInv, StoreTypeOK, MadeObjects, NameOf
    <2>3. CASE o \in Gone(n)
      BY <1>2, <2>3 DEF Out, Gone, ListInv, ListsAgree
    <2>4. CASE o \in GoneToo(n)
      <3>1. b[2] >= o[2]
        BY <1>2, <2>4 DEF GoneToo
      <3>2. b # o
        OBVIOUS
      <3>3. b[2] # o[2]
        BY <1>2, <2>2, <3>2
      <3> QED
        BY <2>2, <3>1, <3>3
    <2> QED
      BY <2>3, <2>4 DEF Out
  <1>3. making' \union sending' \subseteq transports' \union history'.outlived
    BY <1>1 DEF ListInv, SendStages
  <1>4. boxes' \subseteq listing' \union merged' \union history'.unlisted
    BY <1>1 DEF ListInv, SendStages
  <1>5. \A o \in history'.outlived, b \in transports' : NameOf(b) = NameOf(o) => o[2] < b[2]
    BY <1>1, <1>2 DEF ListInv, SendStages
  <1> QED
    BY <1>3, <1>4, <1>5 DEF SendStages

\* For which accounts an outbox stays does not become less.
LEMMA StillStayed ==
    ASSUME NEW o, OutboxStayed(o), made' = made,
           history.early \subseteq history'.early,
           history.unlisted \subseteq history'.unlisted
    PROVE  OutboxStayed(o)'
  BY DEF OutboxStayed, NameOf

LEMMA QueuesAfterRemove ==
    ASSUME ListInv, NEW n \in Names,
           NEW kept \in SUBSET Keepable, RemoveAccount(n, kept)
    PROVE  QueueHasAccount'
  <1>1. /\ queues' = queues /\ transports' = transports \ Out(n)
        /\ leaving' = leaving \union Out(n)
        /\ made' = made
        /\ history.early \subseteq history'.early
        /\ history.unlisted \subseteq history'.unlisted
        /\ history.outlived \subseteq history'.outlived
    BY RemoveAccountFacts
  <1>2. \A o \in queues : OutboxStayed(o) => OutboxStayed(o)'
    BY <1>1, StillStayed
  <1> QED
    BY <1>1, <1>2 DEF ListInv, QueueHasAccount

\* Mail of the account that is removed: its outbox goes with the mail if it is
\* known, and if not the history has it.
LEMMA MailAfterRemove ==
    ASSUME ConfInv, ListInv, NEW n \in Names,
           NEW kept \in SUBSET Keepable, RemoveAccount(n, kept)
    PROVE  MailHasAccount'
  <1>1. /\ stores' = stores \ Gone(n)
        /\ mail' = mail \ {NameOf(o) : o \in KnownOut(n)}
        /\ history'.left
             = (history.left \ {NameOf(o) : o \in KnownOut(n)})
                 \union (mail \intersect {NameOf(o) : o \in Out(n) \ KnownOut(n)})
        /\ MgrRemove(n, kept) /\ n \in AccountNames(TRUE)
    BY RemoveAccountFacts
  <1>2. OthersStay(n)
    BY <1>1, ConfAfterRemove
  <1>3. SUFFICES ASSUME NEW m \in mail', m \notin history'.left
                 PROVE  /\ entry'[m].key
                        /\ m \in AccountNamesIn(entry', server', TRUE)
                             => \E o \in stores' : NameOf(o) = m
    BY DEF MailHasAccount, AccountNames
  <1>4. /\ m \in mail /\ m \in Names /\ m \notin history.left
        /\ \A o \in Out(n) : NameOf(o) # m
    BY <1>1, <1>3 DEF ListInv, StoreTypeOK
  <1>5. /\ entry[m].key
        /\ m \in AccountNamesIn(entry, server, TRUE) => \E o \in stores : NameOf(o) = m
    BY <1>4 DEF ListInv, MailHasAccount, AccountNames
  <1>6. m # n
    BY <1>1, <1>4, <1>5 DEF Out, Gone, AccountNames
  <1>7. m \in AccountNamesIn(entry', server', TRUE)
          <=> m \in AccountNamesIn(entry, server, TRUE)
    BY <1>2, <1>4, <1>6, OthersListed
  <1>8. \A o \in stores : NameOf(o) = m => o \in stores'
    BY <1>1, <1>6 DEF Gone
  <1> QED
    BY <1>2, <1>4, <1>5, <1>6, <1>7, <1>8 DEF OthersStay

\* Those of single connections are listed once each: all of them go.
LEMMA SpecificsAfterRemove ==
    ASSUME ListInv, NEW n \in Names,
           NEW kept \in SUBSET Keepable, RemoveAccount(n, kept)
    PROVE  SpecificsOnce'
  <1>1. /\ stores' = stores \ Gone(n)
        /\ transports' = transports \ Out(n)
        /\ history'.failed = history.failed
    BY RemoveAccountFacts
  <1>2. SUFFICES ASSUME ~history.failed, NEW s \in Specifics
                 PROVE  IF stores' = {} THEN Named(s)' = {}
                                        ELSE \E o \in Named(s)' : Named(s)' = {o}
    BY <1>1 DEF SpecificsOnce
  <1>3. IF stores = {} THEN Named(s) = {} ELSE \E o \in Named(s) : Named(s) = {o}
    BY <1>2 DEF ListInv, SpecificsOnce
  <1>4. \A o \in Gone(n) : NameOf(o) # s
    BY NamesDiffer DEF Gone
  <1>5. CASE stores' # {}
    <2>1. Out(n) = Gone(n)
      BY <1>1, <1>5 DEF Out, GoneToo
    <2>2. Named(s)' = Named(s)
      BY <1>1, <1>4, <2>1 DEF Named
    <2> QED
      BY <1>1, <1>3, <1>5, <2>2
  <1>6. CASE stores' = {}
    <2>1. Named(s)' \subseteq Named(s)
      BY <1>1 DEF Named
    <2>2. ASSUME NEW o \in Named(s), Named(s) = {o} PROVE o \in Out(n)
      <3>1. o \in transports /\ NameOf(o) \in Specifics /\ o[2] \in Nat
        BY DEF Named, ListInv, StoreTypeOK, MadeObjects
      <3>2. \A p \in transports : NameOf(p) = NameOf(o) => p[2] >= o[2]
        BY <2>2, <3>1 DEF Named
      <3> QED
        BY <1>1, <1>6, <3>1, <3>2 DEF Out, GoneToo
    <2>3. \A o \in Named(s)' : o \notin Out(n)
      BY <1>1 DEF Named
    <2> QED
      BY <1>3, <1>6, <2>1, <2>2, <2>3
  <1> QED
    BY <1>5, <1>6

-----------------------------------------------------------------------------
(* A new session.                                                          *)

\* What is inserted when the program starts on a configuration.
LoadedNames(e, s) == {n \in AccountNamesIn(e, s, TRUE) : Loads(e, s, n)}
LoadedToo(e, s)   == IF LoadedNames(e, s) = {} THEN {} ELSE Specifics

LEMMA NewSessionFacts ==
    ASSUME ListInv, NewSession(entry', server')
    PROVE  /\ made' = [n \in Tags |->
                 IF n \in LoadedNames(entry', server') \union LoadedToo(entry', server')
                   THEN 1 ELSE 0]
           /\ stores' = LoadedNames(entry', server') \X {1}
           /\ transports' = (LoadedNames(entry', server')
                              \union LoadedToo(entry', server')) \X {1}
           /\ boxes' = transports' /\ listing' = transports'
           /\ outboxOf' = {} /\ merged' = {} /\ queues' = {} /\ leaving' = {}
           /\ making' = {} /\ sending' = {}
           /\ mail' = mail
           /\ history'.early = {} /\ history'.unlisted = {} /\ history'.outlived = {}
           /\ history'.failed = FALSE
           /\ history'.left = history.left \union {n \in mail : entry[n].key /\ ~entry'[n].key}
           /\ history' = [early |-> history'.early, unlisted |-> history'.unlisted,
                          outlived |-> history'.outlived, failed |-> history'.failed,
                          left |-> history'.left]
           /\ LoadedNames(entry', server') \subseteq Names
           /\ LoadedToo(entry', server') \subseteq Specifics
           /\ LoadedNames(entry', server') = {} <=> stores' = {}
  <1>1. /\ LoadedNames(entry', server') \subseteq Names
        /\ LoadedToo(entry', server') \subseteq Specifics
    BY DEF LoadedNames, LoadedToo, AccountNamesIn
  <1>2. stores' = LoadedNames(entry', server') \X {1}
    BY DEF NewSession, LoadedNames
  <1>3. LoadedNames(entry', server') = {} <=> stores' = {}
    <2>1. ASSUME NEW n \in LoadedNames(entry', server') PROVE <<n, 1>> \in stores'
      BY <1>2
    <2> QED
      BY <1>2, <2>1
  <1> DEFINE left == history.left \union {n \in mail : entry[n].key /\ ~entry'[n].key}
  <1>4. history' = [early |-> {}, unlisted |-> {}, outlived |-> {}, failed |-> FALSE,
                    left |-> left]
    BY DEF NewSession
  <1>5. /\ history'.early = {} /\ history'.unlisted = {} /\ history'.outlived = {}
        /\ history'.failed = FALSE
        /\ history'.left = left
        /\ history' = [early |-> history'.early, unlisted |-> history'.unlisted,
                       outlived |-> history'.outlived, failed |-> history'.failed,
                       left |-> history'.left]
    <2> HIDE DEF left
    <2> QED
      BY <1>4
  <1> QED
    BY <1>1, <1>2, <1>3, <1>5 DEF NewSession, LoadedNames, LoadedToo, Tags

\* Whatever the configuration, the lists of a new session are in order.  The
\* mail is if it was that of accounts of the configuration before.
LEMMA ListsOfNewSession ==
    ASSUME ListInv, faults' \in Nat, NewSession(entry', server')
    PROVE  /\ StoreTypeOK' /\ ListsAgree' /\ OutboxStages' /\ SendStages'
           /\ QueueHasAccount' /\ SpecificsOnce'
  <1> DEFINE Ns == LoadedNames(entry', server')
             Ss == LoadedToo(entry', server')
  <1>1. /\ Ns \subseteq Names /\ Ss \subseteq Specifics
        /\ made' = [n \in Tags |-> IF n \in Ns \union Ss THEN 1 ELSE 0]
        /\ stores' = Ns \X {1} /\ transports' = (Ns \union Ss) \X {1}
        /\ boxes' = transports' /\ listing' = transports'
        /\ outboxOf' = {} /\ merged' = {} /\ queues' = {} /\ leaving' = {}
        /\ making' = {} /\ sending' = {} /\ mail' = mail
    BY NewSessionFacts
  <1>2. /\ history'.early = {} /\ history'.unlisted = {} /\ history'.outlived = {}
        /\ history'.failed = FALSE
        /\ history'.left \subseteq history.left \union mail
        /\ history' = [early |-> history'.early, unlisted |-> history'.unlisted,
                       outlived |-> history'.outlived, failed |-> history'.failed,
                       left |-> history'.left]
    BY NewSessionFacts
  <1>3. StoreTypeOK'
    <2>1. (Ns \union Ss) \X {1} \subseteq MadeObjects'
      <3> HIDE DEF Ns, Ss
      <3> QED
        BY <1>1 DEF MadeObjects, Tags
    <2>2. made' \in [Names \union Specifics -> Nat]
      <3> HIDE DEF Ns, Ss
      <3> QED
        BY <1>1 DEF Tags
    <2>3. stores' \subseteq transports'
      BY <1>1
    <2>4. history'.left \subseteq Names /\ mail' \subseteq Names
      BY <1>1, <1>2 DEF ListInv, StoreTypeOK, Histories
    <2>5. history' \in Histories(MadeObjects')
      BY <1>2, <2>4 DEF Histories
    <2> QED
      BY <1>1, <2>1, <2>2, <2>3, <2>4, <2>5 DEF StoreTypeOK
  <1>4. ListsAgree'
    <2>1. stores' = {o \in transports' : NameOf(o) \in Names}
      <3> HIDE DEF Ns, Ss
      <3> QED
        BY <1>1, NamesDiffer DEF NameOf
    <2>2. \A o \in stores' : Loads(entry', server', NameOf(o))
      BY <1>1 DEF NameOf, LoadedNames
    <2> QED
      BY <2>1, <2>2 DEF ListsAgree
  <1>5. OutboxStages' /\ SendStages'
    BY <1>1, <1>2 DEF OutboxStages, OutboxMatchesAccounts, SendStages
  <1>6. QueueHasAccount'
    BY <1>1 DEF QueueHasAccount
  <1>7. SpecificsOnce'
    <2> SUFFICES ASSUME NEW s \in Specifics
                 PROVE  IF stores' = {} THEN Named(s)' = {}
                                        ELSE \E o \in Named(s)' : Named(s)' = {o}
      BY DEF SpecificsOnce
    <2>1. Ns = {} <=> stores' = {}
      BY NewSessionFacts
    <2>2. Ss = IF Ns = {} THEN {} ELSE Specifics
      BY DEF LoadedToo
    <2>3. s \notin Ns
      BY <1>1, NamesDiffer
    <2> HIDE DEF Ns, Ss
    <2>4. CASE Ns = {}
      BY <1>1, <2>1, <2>2, <2>4 DEF Named
    <2>5. CASE Ns # {}
      <3>1. Named(s)' = {<<s, 1>>}
        BY <1>1, <2>2, <2>3, <2>5 DEF Named, NameOf
      <3> QED
        BY <2>1, <2>5, <3>1
    <2> QED
      BY <2>4, <2>5
  <1> QED
    BY <1>3, <1>4, <1>5, <1>6, <1>7

\* Mail of an account whose keys stay is in the outbox of an account that is in
\* the list of the new session, if it can be removed.
LEMMA MailOfNewSession ==
    ASSUME ListInv, NewSession(entry', server'),
           \A m \in mail \ history.left :
             /\ entry'[m].key /\ m \in AccountNamesIn(entry', server', TRUE)
             => Loads(entry', server', m)
    PROVE  MailHasAccount'
  <1>1. /\ stores' = LoadedNames(entry', server') \X {1} /\ mail' = mail
        /\ history'.left = history.left \union {n \in mail : entry[n].key /\ ~entry'[n].key}
        /\ \A m \in mail \ history.left : entry[m].key
    BY NewSessionFacts DEF ListInv, MailHasAccount
  <1>2. SUFFICES ASSUME NEW m \in mail, m \notin history'.left,
                        m \in AccountNamesIn(entry', server', TRUE)
                 PROVE  \E o \in stores' : NameOf(o) = m
    BY <1>1 DEF MailHasAccount, AccountNames
  <1>3. m \in LoadedNames(entry', server')
    BY <1>1, <1>2 DEF LoadedNames
  <1>4. <<m, 1>> \in stores' /\ NameOf(<<m, 1>>) = m
    BY <1>1, <1>3 DEF NameOf
  <1> QED
    BY <1>4

\* Mail of an account that could be removed is that of one that loads.
LEMMA MailLoads ==
    ASSUME ListInv, NEW m \in mail \ history.left
    PROVE  /\ m \in Names /\ entry[m].key
           /\ m \in AccountNamesIn(entry, server, TRUE) => Loads(entry, server, m)
  BY DEF ListInv, StoreTypeOK, MailHasAccount, ListsAgree, AccountNames

LEMMA MailAfterRestart ==
    ASSUME ListInv, Restart
    PROVE  MailHasAccount'
  <1>1. entry' = entry /\ server' = server /\ NewSession(entry', server')
    BY DEF Restart
  <1> QED
    BY <1>1, MailLoads, MailOfNewSession

LEMMA MailAfterDieInAdd ==
    ASSUME ConfInv, ListInv, NEW n \in Names, NEW k \in 1..EnabledAt, DieInAdd(n, k)
    PROVE  MailHasAccount'
  <1>1. NewSession(entry', server') /\ Unused(n)
    BY DEF DieInAdd
  <1>2. OthersStay(n)
    BY ConfAfterDieInAdd
  <1>3. ASSUME NEW m \in mail \ history.left, m \in AccountNamesIn(entry', server', TRUE)
        PROVE  Loads(entry', server', m)
    <2>1. m \in Names \ {n}
      BY <1>1, MailLoads DEF Unused
    <2>2. Loads(entry, server, m)
      BY <1>2, <1>3, <2>1, MailLoads, OthersListed
    <2> QED
      BY <1>2, <2>1, <2>2 DEF OthersStay, Loads
  <1> QED
    BY <1>1, <1>3, MailOfNewSession

LEMMA MailAfterDieInRemove ==
    ASSUME ConfInv, ListInv, NEW n \in Names, NEW k \in 1..RemoveWrites,
           DieInRemove(n, k)
    PROVE  MailHasAccount'
  <1>1. NewSession(entry', server') /\ n \in AccountNames(TRUE) /\ Removed(n, k, {})
    BY DEF DieInRemove
  <1>2. k \in Nat /\ k >= 1 /\ {} \in SUBSET Keepable
    BY DEF RemoveWrites
  <1>3. OthersStay(n)
    BY ConfAfterDieInRemove
  <1>4. ASSUME NEW m \in mail \ history.left,
               entry'[m].key, m \in AccountNamesIn(entry', server', TRUE)
        PROVE  Loads(entry', server', m)
    <2>1. CASE m # n
      <3>1. Loads(entry, server, m)
        BY <1>3, <1>4, <2>1, MailLoads, OthersListed
      <3> QED
        BY <1>3, <2>1, <3>1, MailLoads DEF OthersStay, Loads
    <2>2. CASE m = n
      <3>1. Loads(entry, server, n)
        BY <1>1, <2>2, MailLoads DEF AccountNames
      <3>2. k < EntryGoneAt
        <4>1. k < EntryGoneAt \/ entry'[n] = NoEntry
          BY <1>1, <1>2, ConfInvKeys, RemovedKeeps
        <4> QED
          BY <1>2, <1>4, <2>2, <4>1 DEF NoEntry, EntryGoneAt
      <3>3. entry' = entry
        <4>1. \/ k >= EntryGoneAt
              \/ entry' = entry
          BY <1>1, <1>2, ConfInvKeys, RemovedKeeps
        <4> QED
          BY <1>2, <3>2, <4>1 DEF EntryGoneAt
      <3>4. k = 1
        <4>1. CASE k >= 2
          <5>1. server'[n]["store"] = "none" /\ entry'[n].refs = ServerTypes
            BY <1>1, <1>2, <3>1, <3>3, <4>1, ConfInvKeys, RemovedKeeps DEF Loads
          <5> QED
            BY <1>4, <2>2, <5>1 DEF AccountNamesIn, ServerTypes
        <4> QED
          BY <1>2, <4>1
      <3>5. server' = server
        BY <1>1, <1>2, <3>4, ConfInvKeys, RemovedKeeps
      <3> QED
        BY <2>2, <3>1, <3>3, <3>5
    <2> QED
      BY <2>1, <2>2
  <1> QED
    BY <1>1, <1>4, MailOfNewSession

-----------------------------------------------------------------------------
(* The other operations.                                                   *)

\* The part that reads the configuration is kept with it and the lists.
LEMMA SameLists ==
    ASSUME ListInv, UNCHANGED <<entry, server, stores, transports>>,
           history'.failed = history.failed
    PROVE  ListsAgree' /\ SpecificsOnce'
  BY DEF ListInv, ListsAgree, SpecificsOnce, Named, Loads

LEMMA ListsUnchanged ==
    ASSUME ListInv, UNCHANGED <<entry, server, storeVars>>
    PROVE  ListInv'
  <1>1. MadeObjects' = MadeObjects
    BY DEF storeVars, listVars, MadeObjects
  <1>2. StoreTypeOK'
    BY <1>1 DEF ListInv, StoreTypeOK, storeVars, listVars, boxVars, sendVars
  <1>3. ListsAgree' /\ SpecificsOnce'
    BY SameLists DEF storeVars, listVars
  <1>4. OutboxStages' /\ SendStages' /\ MailHasAccount'
    BY DEF ListInv, storeVars, listVars, boxVars, sendVars, OutboxStages,
       OutboxMatchesAccounts, SendStages, MailHasAccount, AccountNames
  <1>5. QueueHasAccount'
    BY DEF ListInv, storeVars, listVars, QueueHasAccount, OutboxStayed
  <1> QED
    BY <1>2, <1>3, <1>4, <1>5 DEF ListInv

\* The fields of the history.
LEMMA HistoryFields ==
    ASSUME ListInv
    PROVE  /\ history = [early |-> history.early, unlisted |-> history.unlisted,
                         left |-> history.left, outlived |-> history.outlived,
                         failed |-> history.failed]
           /\ history.early \subseteq MadeObjects /\ history.unlisted \subseteq MadeObjects
           /\ history.left \subseteq Names /\ history.outlived \subseteq MadeObjects
           /\ history.failed \in BOOLEAN
  BY DEF ListInv, StoreTypeOK, Histories

\* A queue is cached as before, while the lists stay and the history does.
LEMMA QueuesKept ==
    ASSUME ListInv, queues' \subseteq queues,
           UNCHANGED <<made, transports>>,
           \A o \in leaving \ leaving' : o \notin queues',
           history.early \subseteq history'.early,
           history.unlisted \subseteq history'.unlisted,
           history.outlived \subseteq history'.outlived
    PROVE  QueueHasAccount'
  <1>1. \A o \in queues : OutboxStayed(o) => OutboxStayed(o)'
    BY StillStayed
  <1> QED
    BY <1>1 DEF ListInv, QueueHasAccount

\* A listed outbox is merged: it leaves one stage for the other.
LEMMA ListInvOutboxListed ==
    ASSUME ListInv, NEW o \in Objects, OutboxListed(o)
    PROVE  ListInv'
  <1>1. /\ o \in listing /\ listing' = listing \ {o}
        /\ outboxOf' = outboxOf \union {o} /\ merged' = merged \union {o}
        /\ UNCHANGED <<entry, server, made, stores, transports, boxes, queues,
                       leaving, making, sending, mail, faults, history>>
    BY DEF OutboxListed, confVars, listVars, sendVars
  <1>2. StoreTypeOK'
    BY <1>1 DEF ListInv, StoreTypeOK, MadeObjects
  <1>3. ListsAgree' /\ SpecificsOnce'
    BY <1>1, SameLists
  <1>4. OutboxStages' /\ SendStages'
    BY <1>1 DEF ListInv, OutboxStages, OutboxMatchesAccounts, SendStages
  <1>5. QueueHasAccount'
    BY <1>1, QueuesKept
  <1>6. MailHasAccount'
    BY <1>1 DEF ListInv, MailHasAccount, AccountNames
  <1> QED
    BY <1>2, <1>3, <1>4, <1>5, <1>6 DEF ListInv

LEMMA ListInvOutboxNotListed ==
    ASSUME ListInv, NEW o \in Objects, OutboxNotListed(o)
    PROVE  ListInv'
  <1>1. /\ o \in listing /\ listing' = listing \ {o}
        /\ faults' = faults + 1
        /\ history' = [history EXCEPT !.unlisted = history.unlisted \union {o}]
        /\ UNCHANGED <<entry, server, made, stores, transports, boxes, outboxOf,
                       merged, queues, leaving, making, sending, mail>>
    BY DEF OutboxNotListed, Fault, confVars, listVars, sendVars
  <1>2. history' = [early |-> history.early, unlisted |-> history.unlisted \union {o},
                    left |-> history.left, outlived |-> history.outlived,
                    failed |-> history.failed]
    BY <1>1, HistoryFields
  <1>3. StoreTypeOK'
    <2>1. MadeObjects' = MadeObjects /\ o \in MadeObjects /\ faults' \in Nat
      BY <1>1 DEF ListInv, StoreTypeOK, MadeObjects
    <2>2. history' \in Histories(MadeObjects)
      BY <1>2, <2>1, HistoryFields DEF Histories
    <2> QED
      BY <1>1, <2>1, <2>2 DEF ListInv, StoreTypeOK
  <1>4. ListsAgree' /\ SpecificsOnce'
    BY <1>1, <1>2, SameLists
  <1>5. OutboxStages' /\ SendStages'
    BY <1>1, <1>2 DEF ListInv, OutboxStages, OutboxMatchesAccounts, SendStages
  <1>6. QueueHasAccount'
    BY <1>1, <1>2, QueuesKept
  <1>7. MailHasAccount'
    BY <1>1, <1>2 DEF ListInv, MailHasAccount, AccountNames
  <1> QED
    BY <1>3, <1>4, <1>5, <1>6, <1>7 DEF ListInv

\* Mail that leaves an outbox is neither there nor left there.
LEMMA MailThatGoes ==
    ASSUME ListInv, NEW o \in Objects,
           \/ UNCHANGED <<mail, history>>
           \/ MailGone(o),
           UNCHANGED <<entry, server, made, stores>>
    PROVE  /\ mail' \subseteq Names
           /\ history' \in Histories(MadeObjects')
           /\ history'.early = history.early /\ history'.unlisted = history.unlisted
           /\ history'.outlived = history.outlived /\ history'.failed = history.failed
           /\ MailHasAccount'
  <1>1. MadeObjects' = MadeObjects
    BY DEF MadeObjects
  <1>2. CASE UNCHANGED <<mail, history>>
    BY <1>1, <1>2 DEF ListInv, StoreTypeOK, MailHasAccount, AccountNames
  <1>3. CASE MailGone(o)
    <2> DEFINE left == history.left \ {NameOf(o)}
    <2>1. mail' = mail \ {NameOf(o)} /\ history' = [history EXCEPT !.left = left]
      BY <1>3 DEF MailGone
    <2>2. history' = [early |-> history.early, unlisted |-> history.unlisted,
                      left |-> left, outlived |-> history.outlived,
                      failed |-> history.failed]
      <3> HIDE DEF left
      <3> QED
        BY <2>1, HistoryFields
    <2>3. history' \in Histories(MadeObjects')
      BY <1>1, <2>2, HistoryFields DEF Histories
    <2>4. MailHasAccount'
      BY <2>1, <2>2 DEF ListInv, MailHasAccount, AccountNames
    <2> QED
      BY <2>1, <2>2, <2>3, <2>4 DEF ListInv, StoreTypeOK
  <1> QED
    BY <1>2, <1>3

LEMMA ListInvDisconnected ==
    ASSUME ListInv, NEW o \in Objects, Disconnected(o)
    PROVE  ListInv'
  <1>1. /\ leaving' = leaving \ {o} /\ queues' = queues \ {o}
        /\ UNCHANGED <<mail, history>> \/ MailGone(o)
        /\ UNCHANGED <<entry, server, made, stores, transports, boxes, listing,
                       outboxOf, merged, making, sending, faults>>
    BY DEF Disconnected, QueuesWithout, confVars, listVars, boxVars, sendVars
  <1>2. /\ mail' \subseteq Names
        /\ history' \in Histories(MadeObjects')
        /\ history'.early = history.early /\ history'.unlisted = history.unlisted
        /\ history'.outlived = history.outlived /\ history'.failed = history.failed
        /\ MailHasAccount'
    BY <1>1, MailThatGoes
  <1>3. StoreTypeOK'
    BY <1>1, <1>2 DEF ListInv, StoreTypeOK, MadeObjects
  <1>4. ListsAgree' /\ SpecificsOnce'
    BY <1>1, <1>2, SameLists
  <1>5. OutboxStages' /\ SendStages'
    BY <1>1, <1>2 DEF ListInv, OutboxStages, OutboxMatchesAccounts, SendStages
  <1>6. QueueHasAccount'
    BY <1>1, <1>2, QueuesKept
  <1> QED
    BY <1>2, <1>3, <1>4, <1>5, <1>6 DEF ListInv

LEMMA ListInvDelivered ==
    ASSUME ListInv, NEW o \in Objects, Delivered(o)
    PROVE  ListInv'
  <1>1. /\ MailGone(o)
        /\ UNCHANGED <<entry, server, made, stores, transports, boxes, listing,
                       outboxOf, merged, queues, leaving, making, sending, faults>>
    BY DEF Delivered, confVars, listVars, boxVars, sendVars
  <1>2. /\ mail' \subseteq Names
        /\ history' \in Histories(MadeObjects')
        /\ history'.early = history.early /\ history'.unlisted = history.unlisted
        /\ history'.outlived = history.outlived /\ history'.failed = history.failed
        /\ MailHasAccount'
    BY <1>1, MailThatGoes
  <1>3. StoreTypeOK'
    BY <1>1, <1>2 DEF ListInv, StoreTypeOK, MadeObjects
  <1>4. ListsAgree' /\ SpecificsOnce'
    BY <1>1, <1>2, SameLists
  <1>5. OutboxStages' /\ SendStages'
    BY <1>1, <1>2 DEF ListInv, OutboxStages, OutboxMatchesAccounts, SendStages
  <1>6. QueueHasAccount'
    BY <1>1, <1>2, QueuesKept
  <1> QED
    BY <1>2, <1>3, <1>4, <1>5, <1>6 DEF ListInv

\* Only accounts of the list get a send queue.
LEMMA ListInvStartSendQueues ==
    ASSUME ListInv, StartSendQueues
    PROVE  ListInv'
  <1>1. /\ queues' \subseteq queues \union transports
        /\ faults' \in {faults, faults + 1}
        /\ UNCHANGED <<entry, server, made, stores, transports, boxes, listing,
                       outboxOf, merged, leaving, making, sending, mail, history>>
    BY DEF StartSendQueues, Fault, confVars, listVars, boxVars, sendVars
  <1>2. StoreTypeOK'
    BY <1>1 DEF ListInv, StoreTypeOK, MadeObjects
  <1>3. ListsAgree' /\ SpecificsOnce'
    BY <1>1, SameLists
  <1>4. OutboxStages' /\ SendStages' /\ MailHasAccount'
    BY <1>1 DEF ListInv, OutboxStages, OutboxMatchesAccounts, SendStages,
       MailHasAccount, AccountNames
  <1>5. \A o \in queues : OutboxStayed(o) => OutboxStayed(o)'
    BY <1>1, StillStayed
  <1>6. QueueHasAccount'
    BY <1>1, <1>5 DEF ListInv, QueueHasAccount
  <1> QED
    BY <1>2, <1>3, <1>4, <1>6 DEF ListInv

\* What a mail operation changes of its stages, and whether it asks for the send
\* queue, concerns nothing else.
LEMMA SendingOnly ==
    ASSUME ListInv,
           making' \subseteq MadeObjects, sending' \subseteq MadeObjects,
           making' \union sending' \subseteq transports \union history.outlived,
           queues' \subseteq MadeObjects, faults' \in Nat,
           UNCHANGED <<entry, server, made, stores, transports, boxes, listing,
                       outboxOf, merged, leaving, mail, history>>
    PROVE  /\ StoreTypeOK' /\ ListsAgree' /\ OutboxStages' /\ SendStages'
           /\ MailHasAccount' /\ SpecificsOnce'
  <1>1. StoreTypeOK'
    BY DEF ListInv, StoreTypeOK, MadeObjects
  <1>2. ListsAgree' /\ SpecificsOnce'
    BY SameLists
  <1>3. OutboxStages' /\ SendStages' /\ MailHasAccount'
    BY DEF ListInv, OutboxStages, OutboxMatchesAccounts, SendStages, MailHasAccount,
       AccountNames
  <1> QED
    BY <1>1, <1>2, <1>3

LEMMA ListInvSend ==
    ASSUME ListInv, NEW o \in Objects, Send(o)
    PROVE  ListInv'
  <1>1. /\ o \in transports /\ making' = making \union {o}
        /\ UNCHANGED <<entry, server, made, stores, transports, boxes, listing,
                       outboxOf, merged, queues, leaving, sending, mail, faults, history>>
    BY DEF Send, confVars, listVars, boxVars
  <1>2. /\ making' \subseteq MadeObjects /\ sending' \subseteq MadeObjects
        /\ making' \union sending' \subseteq transports \union history.outlived
        /\ queues' \subseteq MadeObjects /\ faults' \in Nat
    BY <1>1 DEF ListInv, StoreTypeOK, SendStages
  <1>3. QueueHasAccount'
    BY <1>1, QueuesKept
  <1> QED
    BY <1>1, <1>2, <1>3, SendingOnly DEF ListInv

\* Whoever asks for the send queue of an account after the account went finds an
\* outbox only if one of its name stayed or came back: each outbox in the list is
\* that of a later account, or of one removed before its outbox was known, or one
\* that could not be listed.
LEMMA QueueAsked ==
    ASSUME ListInv, NEW o \in making \union sending, GetQueue(o),
           UNCHANGED <<made, transports, leaving, history>>
    PROVE  /\ QueueHasAccount'
           /\ queues' \subseteq MadeObjects
           /\ faults' \in Nat
  <1>1. o \in MadeObjects
    BY DEF ListInv, StoreTypeOK
  <1>2. /\ \/ queues' = queues
           \/ HasOutbox(o) /\ queues' = queues \union {o}
        /\ faults' \in {faults, faults + 1}
    <2>1. CASE UNCHANGED faults
      BY <2>1 DEF GetQueue
    <2>2. CASE UNCHANGED queues /\ Fault
      BY <2>2 DEF Fault
    <2> QED
      BY <2>1, <2>2 DEF GetQueue
  <1>3. queues' \subseteq MadeObjects /\ faults' \in Nat
    BY <1>1, <1>2 DEF ListInv, StoreTypeOK
  <1>4. ASSUME o \notin transports, HasOutbox(o)
        PROVE  o \in history.outlived /\ OutboxStayed(o)
    <2>1. o \in history.outlived
      BY <1>4 DEF ListInv, SendStages
    <2>2. PICK b \in boxes : NameOf(b) = NameOf(o)
      BY <1>4 DEF HasOutbox
    <2>3. b \in listing \union merged \union history.unlisted
      BY DEF ListInv, SendStages
    <2>4. CASE b \in transports
      <3>1. o[2] < b[2]
        BY <2>1, <2>2, <2>4 DEF ListInv, SendStages
      <3>2. b \in MadeObjects
        BY <2>4 DEF ListInv, StoreTypeOK
      <3>3. b[2] <= made[NameOf(o)] /\ b[2] \in Nat /\ made[NameOf(o)] \in Nat
        BY <2>2, <3>2 DEF MadeObjects, NameOf, ListInv, StoreTypeOK
      <3>4. o[2] \in Nat
        BY <1>1 DEF MadeObjects
      <3> QED
        BY <2>1, <3>1, <3>3, <3>4 DEF OutboxStayed
    <2>5. CASE b \notin transports
      <3>1. b \in history.early \union history.unlisted
        BY <2>3, <2>5 DEF ListInv, OutboxStages, OutboxMatchesAccounts
      <3> QED
        BY <2>1, <2>2, <3>1 DEF OutboxStayed
    <2> QED
      BY <2>4, <2>5
  <1>5. /\ \A q \in queues : OutboxStayed(q) => OutboxStayed(q)'
        /\ OutboxStayed(o) => OutboxStayed(o)'
    BY StillStayed
  <1>6. QueueHasAccount'
    BY <1>2, <1>4, <1>5 DEF ListInv, QueueHasAccount
  <1> QED
    BY <1>3, <1>6

LEMMA ListInvSendMade ==
    ASSUME ListInv, NEW o \in Objects, SendMade(o) \/ AskQueueAgain(o)
    PROVE  ListInv'
  <1>1. /\ o \in making \union sending /\ GetQueue(o)
        /\ making' \subseteq making
        /\ sending' \subseteq sending \union {o}
        /\ UNCHANGED <<entry, server, made, stores, transports, boxes, listing,
                       outboxOf, merged, leaving, mail, history>>
    BY DEF SendMade, AskQueueAgain, confVars, listVars, boxVars, sendVars
  <1>2. QueueHasAccount' /\ queues' \subseteq MadeObjects /\ faults' \in Nat
    BY <1>1, QueueAsked
  <1>3. /\ making' \subseteq MadeObjects /\ sending' \subseteq MadeObjects
        /\ making' \union sending' \subseteq transports \union history.outlived
    BY <1>1 DEF ListInv, StoreTypeOK, SendStages
  <1> QED
    BY <1>1, <1>2, <1>3, SendingOnly DEF ListInv

LEMMA ListInvSendEnds ==
    ASSUME ListInv, NEW o \in Objects, SendEnds(o)
    PROVE  ListInv'
  <1>1. /\ making' \subseteq making /\ sending' \subseteq sending
        /\ UNCHANGED <<entry, server, made, stores, transports, boxes, listing,
                       outboxOf, merged, queues, leaving, mail, faults, history>>
    BY DEF SendEnds, confVars, listVars, boxVars
  <1>2. /\ making' \subseteq MadeObjects /\ sending' \subseteq MadeObjects
        /\ making' \union sending' \subseteq transports \union history.outlived
        /\ queues' \subseteq MadeObjects /\ faults' \in Nat
    BY <1>1 DEF ListInv, StoreTypeOK, SendStages
  <1>3. QueueHasAccount'
    BY <1>1, QueuesKept
  <1> QED
    BY <1>1, <1>2, <1>3, SendingOnly DEF ListInv

\* Mail is put in the outbox of an account of the list, one that is there, or the
\* history has it.
LEMMA ListInvMailStored ==
    ASSUME ListInv, NEW o \in Objects, MailStored(o)
    PROVE  ListInv'
  <1> DEFINE names == {NameOf(o)} \intersect Names
             left  == history.left \union names
  <1>1. /\ mail' = mail \union names
        /\ history' = IF o \in transports THEN history ELSE [history EXCEPT !.left = left]
        /\ UNCHANGED <<entry, server, made, stores, transports, boxes, listing,
                       outboxOf, merged, queues, leaving, making, sending, faults>>
    BY DEF MailStored, confVars, listVars, boxVars, sendVars
  <1>2. /\ history' = [early |-> history.early, unlisted |-> history.unlisted,
                       left |-> history'.left, outlived |-> history.outlived,
                       failed |-> history.failed]
        /\ history'.left = IF o \in transports THEN history.left ELSE left
    <2> HIDE DEF left
    <2> QED
      BY <1>1, HistoryFields
  <1>3. StoreTypeOK'
    <2>1. MadeObjects' = MadeObjects /\ mail' \subseteq Names
      BY <1>1 DEF ListInv, StoreTypeOK, MadeObjects
    <2>2. history' \in Histories(MadeObjects)
      BY <1>2, HistoryFields DEF Histories
    <2> QED
      BY <1>1, <2>1, <2>2 DEF ListInv, StoreTypeOK
  <1>4. /\ history'.early = history.early /\ history'.unlisted = history.unlisted
        /\ history'.outlived = history.outlived /\ history'.failed = history.failed
    BY <1>2
  <1>5. ListsAgree' /\ SpecificsOnce'
    BY <1>1, <1>4, SameLists
  <1>6. OutboxStages' /\ SendStages'
    BY <1>1, <1>4 DEF ListInv, OutboxStages, OutboxMatchesAccounts, SendStages
  <1>7. QueueHasAccount'
    BY <1>1, <1>4, QueuesKept
  <1>8. o \in transports /\ NameOf(o) \in Names => o \in stores /\ entry[NameOf(o)].key
    BY DEF ListInv, ListsAgree, Loads
  <1>9. MailHasAccount'
    BY <1>1, <1>2, <1>8 DEF ListInv, MailHasAccount, AccountNames
  <1> QED
    BY <1>3, <1>5, <1>6, <1>7, <1>9 DEF ListInv

-----------------------------------------------------------------------------
(* The theorems.                                                           *)

LEMMA IInvParts == IInv <=> ConfInv /\ ListInv
  BY DEF IInv, ListInv

LEMMA IInvInit == AccountsInit => IInv
  <1> SUFFICES ASSUME AccountsInit PROVE IInv
    OBVIOUS
  <1>1. ConfInv
    BY DEF AccountsInit, AccountMgrInit, ConfInv, ConfTypeOK, NoOrphanServers,
       FailedIsThere, EnabledIsWhole, DefaultIsListed, HasAccountsIsTrue,
       NoEntry, NoServers, Entries, ServerTypes, ServerKeys
  <1>2. StoreTypeOK
    BY DEF AccountsInit, StoreTypeOK, Histories
  <1>3. /\ ListsAgree /\ OutboxStages /\ SendStages /\ QueueHasAccount
        /\ MailHasAccount /\ SpecificsOnce
    BY DEF AccountsInit, ListsAgree, OutboxStages, OutboxMatchesAccounts, SendStages,
       QueueHasAccount, MailHasAccount, SpecificsOnce, Named
  <1> QED
    BY <1>1, <1>2, <1>3 DEF IInv

LEMMA IInvAddAccount ==
    ASSUME IInv, NEW n \in Names, NEW written \in WriteResults, AddAccount(n, written)
    PROVE  IInv'
  <1>1. ConfInv /\ ListInv /\ StoreTypeOK
    BY IInvParts DEF ListInv
  <1>2. ConfInv'
    BY <1>1, AddAccountFacts, ConfAfterAdd
  <1> QED
    BY <1>1, <1>2, TypeAfterAdd, ListsAfterAdd, OutboxesAfterAdd, SendsAfterAdd,
       QueuesAfterAdd, MailAfterAdd, SpecificsAfterAdd DEF IInv

LEMMA IInvRemoveAccount ==
    ASSUME IInv, NEW n \in Names,
           NEW kept \in SUBSET Keepable, RemoveAccount(n, kept)
    PROVE  IInv'
  <1>1. ConfInv /\ ListInv
    BY IInvParts
  <1>2. ConfInv'
    BY <1>1, RemoveAccountFacts, ConfAfterRemove
  <1> QED
    BY <1>1, <1>2, TypeAfterRemove, ListsAfterRemove, OutboxesAfterRemove,
       SendsAfterRemove, QueuesAfterRemove, MailAfterRemove, SpecificsAfterRemove
       DEF IInv

LEMMA IInvDeath ==
    ASSUME IInv, Death
    PROVE  IInv'
  <1>1. ConfInv /\ ListInv
    BY IInvParts
  <1>2. faults' \in Nat
    BY <1>1 DEF Death, Fault, ListInv, StoreTypeOK
  <1>3. CASE Restart
    <2>1. NewSession(entry', server')
      BY <1>3 DEF Restart
    <2> QED
      BY <1>1, <1>2, <1>3, <2>1, ConfAfterRestart, ListsOfNewSession,
         MailAfterRestart DEF IInv
  <1>4. ASSUME NEW n \in Names, NEW k \in 1..EnabledAt, DieInAdd(n, k) PROVE IInv'
    <2>1. NewSession(entry', server')
      BY <1>4 DEF DieInAdd
    <2> QED
      BY <1>1, <1>2, <1>4, <2>1, ConfAfterDieInAdd, ListsOfNewSession,
         MailAfterDieInAdd DEF IInv
  <1>5. ASSUME NEW n \in Names, NEW k \in 1..RemoveWrites, DieInRemove(n, k) PROVE IInv'
    <2>1. NewSession(entry', server')
      BY <1>5 DEF DieInRemove
    <2> QED
      BY <1>1, <1>2, <1>5, <2>1, ConfAfterDieInRemove, ListsOfNewSession,
         MailAfterDieInRemove DEF IInv
  <1> QED
    BY <1>3, <1>4, <1>5 DEF Death

LEMMA IInvUser ==
    ASSUME IInv, User
    PROVE  IInv'
  <1>1. ConfInv /\ ListInv
    BY IInvParts
  <1>2. CASE /\ \/ AskHasAccounts
                \/ \E n \in Names : NotifyAccountUpdate(n) \/ SetDefault(n)
             /\ UNCHANGED storeVars
    BY <1>1, <1>2, ConfAfterOthers, ListsUnchanged DEF IInv, ListInv
  <1>3. ASSUME NEW o \in Objects, Send(o) PROVE IInv'
    BY <1>1, <1>3, ConfUnchanged, ListInvSend DEF Send, IInv, ListInv
  <1> QED
    BY <1>2, <1>3, IInvAddAccount, IInvRemoveAccount DEF User

LEMMA IInvSystem ==
    ASSUME IInv, System
    PROVE  IInv'
  <1>1. ConfInv /\ ListInv
    BY IInvParts
  <1>2. ConfInv'
    BY <1>1, ConfUnchanged DEF System, OutboxListed, OutboxNotListed, Disconnected,
       SendMade, MailStored, AskQueueAgain, SendEnds, Delivered, StartSendQueues
  <1>3. ListInv'
    BY <1>1, ListInvOutboxListed, ListInvOutboxNotListed, ListInvDisconnected,
       ListInvSendMade, ListInvMailStored, ListInvSendEnds, ListInvDelivered,
       ListInvStartSendQueues DEF System
  <1> QED
    BY <1>2, <1>3 DEF IInv, ListInv

LEMMA IInvStep == IInv /\ [AccountsNext]_accountVars => IInv'
  <1> SUFFICES ASSUME IInv, [AccountsNext]_accountVars PROVE IInv'
    OBVIOUS
  <1>1. CASE UNCHANGED accountVars
    <2>1. ConfInv' /\ entry' = entry /\ server' = server
      BY <1>1, IInvParts, ConfUnchanged DEF accountVars
    <2>2. ListInv'
      BY <1>1, <2>1, IInvParts, ListsUnchanged DEF accountVars
    <2> QED
      BY <2>1, <2>2 DEF IInv, ListInv
  <1> QED
    BY <1>1, IInvUser, IInvSystem, IInvDeath DEF AccountsNext

\* The configuration, the lists of the session and the mail on disk agree in
\* every state the program reaches, deaths between any two writes included.
THEOREM AccountsAreInOrder == AccountsSpec => []IInv
  BY IInvInit, IInvStep, PTL DEF AccountsSpec

\* Whatever is listed as enabled can be loaded, and the default account is
\* listed, but for accounts saved with a failed write.
THEOREM WhatIsEnabledLoads == AccountsSpec => []AccountsLoad
  <1>1. IInv => AccountsLoad
    <2> SUFFICES ASSUME IInv PROVE AccountsLoad
      OBVIOUS
    <2>1. ASSUME NEW n \in AccountNames(TRUE), n \notin saveFailed
          PROVE  Loads(entry, server, n)
      <3>1. /\ n \in Names /\ entry[n].key /\ entry[n].enabled
            /\ \A t \in entry[n].refs : server[n][t] # "none"
        BY DEF AccountNames, AccountNamesIn
      <3>2. /\ entry[n].refs = ServerTypes
            /\ \A t \in ServerTypes : server[n][t] \in {"none", "complete"}
        BY <2>1, <3>1 DEF IInv, ConfInv, EnabledIsWhole
      <3> QED
        BY <3>1, <3>2 DEF Loads
    <2>2. DefaultIsListed
      BY DEF IInv, ConfInv
    <2> QED
      BY <2>1, <2>2 DEF AccountsLoad, DefaultIsListed
  <1> QED
    BY AccountsAreInOrder, <1>1, PTL

\* What is remembered of there being accounts is true whenever it is read.
THEOREM CacheIsTrue == AccountsSpec => []HasAccountsIsTrue
  <1>1. IInv => HasAccountsIsTrue
    BY DEF IInv, ConfInv
  <1> QED
    BY AccountsAreInOrder, <1>1, PTL

\* No keys of a server are without an account that refers to them, but for a
\* reference that was not written and keys that could not be removed.
THEOREM NoServerIsOrphaned == AccountsSpec => []NoOrphanServers
  <1>1. IInv => NoOrphanServers
    BY DEF IInv, ConfInv
  <1> QED
    BY AccountsAreInOrder, <1>1, PTL

\* The global outbox has the outboxes of the accounts there are.
THEOREM OutboxIsThatOfAccounts == AccountsSpec => []OutboxMatchesAccounts
  <1>1. IInv => OutboxMatchesAccounts
    BY DEF IInv, OutboxStages
  <1> QED
    BY AccountsAreInOrder, <1>1, PTL

\* No send queue is cached for an account that is gone, although mail operations
\* ask for queues long after they looked at the account, unless an outbox of its
\* name stayed or came back.
THEOREM NoQueueIsLeft == AccountsSpec => []QueueHasAccount
  <1>1. IInv => QueueHasAccount
    BY DEF IInv
  <1> QED
    BY AccountsAreInOrder, <1>1, PTL

\* No mail waits in the outbox of an account that is gone, but for what the
\* history names: mail of an outbox not listed in time, of a removal the program
\* died in, or put there by an operation that outlived the account.
THEOREM NoMailIsStray == AccountsSpec => []NoStrayMail
  <1>1. IInv => NoStrayMail
    BY DEF IInv, MailHasAccount, NoStrayMail
  <1> QED
    BY AccountsAreInOrder, <1>1, PTL

\* Accounts of single connections are listed once each, and only while there is
\* a remote account, unless an insertion failed.
THEOREM SpecificsFollowRemote == AccountsSpec => []SpecificsWithRemote
  <1>1. IInv => SpecificsWithRemote
    <2> SUFFICES ASSUME IInv, ~history.failed, NEW s \in Specifics
                 PROVE  Cardinality(Named(s)) = IF stores = {} THEN 0 ELSE 1
      BY DEF SpecificsWithRemote, Named
    <2>1. IF stores = {} THEN Named(s) = {} ELSE \E o \in Named(s) : Named(s) = {o}
      BY DEF IInv, SpecificsOnce
    <2> QED
      BY <2>1, FS_EmptySet, FS_Singleton
  <1> QED
    BY AccountsAreInOrder, <1>1, PTL

-----------------------------------------------------------------------------
(* AccountStore implements AtomicAccounts: each of its steps is one of     *)
(* those or changes nothing of them.                                       *)

AtomicStep == Atomic!Next \/ UNCHANGED <<WholeAccounts, saveFailed, default, faults>>

\* What is listed is whole, if no write of it failed; so it is after a step.
LEMMA ListedIsWhole ==
    ASSUME Keys
    PROVE  WholeAccounts = AccountNames(TRUE) \ saveFailed
  BY DEF Keys, EnabledIsWhole, WholeAccounts, AccountNames, AccountNamesIn, Loads

LEMMA ListedStaysWhole ==
    ASSUME Keys'
    PROVE  WholeAccounts' = AccountNames(TRUE)' \ saveFailed'
  BY DEF Keys, EnabledIsWhole, WholeAccounts, AccountNames, AccountNamesIn, Loads

\* Which accounts are whole is decided by the keys alone.
LEMMA WholeSame ==
    ASSUME entry' = entry, server' = server, saveFailed' = saveFailed
    PROVE  WholeAccounts' = WholeAccounts
  BY DEF WholeAccounts, AccountNames, Loads

\* Of the other accounts none becomes whole or stops to be.
LEMMA WholeOthers ==
    ASSUME ConfInv, NEW n \in Names, OthersStay(n), saveFailed' \subseteq Names
    PROVE  /\ WholeAccounts' \ {n} = WholeAccounts \ {n}
           /\ saveFailed' \ {n} = saveFailed \ {n}
  <1>1. /\ WholeAccounts \subseteq Names /\ WholeAccounts' \subseteq Names
        /\ saveFailed \subseteq Names
    BY DEF WholeAccounts, AccountNames, AccountNamesIn, ConfInv, ConfTypeOK
  <1>2. ASSUME NEW m \in Names \ {n} PROVE m \in WholeAccounts' <=> m \in WholeAccounts
    BY OthersListed DEF OthersStay, WholeAccounts, AccountNames, Loads
  <1> QED
    BY <1>1, <1>2 DEF OthersStay

\* What is not there is neither whole nor broken.
LEMMA UnusedNotThere ==
    ASSUME ConfInv, NEW n \in Names, Unused(n)
    PROVE  n \notin WholeAccounts /\ n \notin saveFailed
  BY UnusedNotListed DEF WholeAccounts, AccountNames, ConfInv, FailedIsThere, Unused

\* The default account has keys.
LEMMA DefaultHasKeys ==
    ASSUME ConfInv, default # NoName
    PROVE  default \in Names /\ entry[default].key
  BY DEF ConfInv, ConfTypeOK, DefaultIsListed, FailedIsThere, AccountNames,
     AccountNamesIn

\* An account that is added is whole, if every write succeeded, or broken, and
\* the default one if there was none.
LEMMA AtomicAdd ==
    ASSUME ConfInv, NEW n \in Names, NEW written \in WriteResults,
           AddAccount(n, written)
    PROVE  AtomicStep
  <1>0. /\ MgrAdd(n, written)
        /\ written # AllWritten => faults' = faults + 1
        /\ faults' \in {faults, faults + 1}
    BY AddAccountFacts
  <1>1. EnabledAt \in Nat /\ EnabledAt >= 1
    BY DEF EnabledAt
  <1>2. /\ Keys'
        /\ OthersStay(n)
        /\ entry'[n] = SavedEntry(EnabledAt, written)
        /\ server'[n] = SavedServers(EnabledAt, written)
        /\ n \notin saveFailed' <=> written = AllWritten
    BY <1>0, <1>1, ConfInvKeys, SavedKeeps DEF MgrAdd
  <1>3. n \notin WholeAccounts /\ n \notin saveFailed
    BY <1>0, UnusedNotThere DEF MgrAdd
  <1>4. /\ WholeAccounts' \ {n} = WholeAccounts \ {n}
        /\ saveFailed' \ {n} = saveFailed \ {n}
    BY <1>2, WholeOthers DEF Keys
  <1>5. default' = Atomic!Chosen(n)
    BY <1>0, DefaultHasKeys DEF MgrAdd, Atomic!Chosen
  <1>6. CASE written = AllWritten
    <2>1. n \in WholeAccounts' /\ n \notin saveFailed'
      BY <1>2, <1>6, SavedIsListed DEF WholeAccounts, AccountNames
    <2>2. WholeAccounts' = WholeAccounts \union {n} /\ saveFailed' = saveFailed
      BY <1>3, <1>4, <2>1
    <2>3. Atomic!Add(n)
      BY <1>0, <1>3, <1>5, <1>6, <2>2
       DEF Atomic!Add, Atomic!There, Atomic!NoFault, Atomic!Fault
    <2> QED
      BY <2>3 DEF AtomicStep, Atomic!Next
  <1>7. CASE written # AllWritten
    <2>1. n \notin WholeAccounts' /\ n \in saveFailed'
      BY <1>2, <1>7 DEF WholeAccounts
    <2>2. WholeAccounts' = WholeAccounts /\ saveFailed' = saveFailed \union {n}
      BY <1>3, <1>4, <2>1
    <2>3. Atomic!AddBroken(n)
      BY <1>0, <1>3, <1>5, <1>7, <2>2
       DEF Atomic!AddBroken, Atomic!There, Atomic!Fault
    <2> QED
      BY <2>3 DEF AtomicStep, Atomic!Next
  <1> QED
    BY <1>6, <1>7

\* What an account is after k writes of its removal: as it was, or gone from the
\* accounts that are whole, and gone altogether after the last one if all could be
\* removed.
LEMMA AfterRemoved ==
    ASSUME ConfInv, NEW n \in Names, NEW k \in Nat, k >= 1, NEW kept \in SUBSET Keepable,
           n \in AccountNames(TRUE), Removed(n, k, kept)
    PROVE  /\ n \in Atomic!There
           /\ WholeAccounts' \in {WholeAccounts, WholeAccounts \ {n}}
           /\ saveFailed' \in {saveFailed, saveFailed \ {n}}
           /\ k >= EntryGoneAt /\ kept = {} =>
                WholeAccounts' = WholeAccounts \ {n} /\ saveFailed' = saveFailed \ {n}
  <1>1. /\ Keys' /\ OthersStay(n)
        /\ \/ /\ k >= EntryGoneAt /\ "entry" \notin kept
              /\ entry'[n] = NoEntry /\ n \notin saveFailed'
           \/ /\ k < EntryGoneAt \/ "entry" \in kept
              /\ entry' = entry /\ saveFailed' = saveFailed
        /\ \A t \in ServerTypes : server'[n][t] \in {"none", server[n][t]}
    BY ConfInvKeys, RemovedKeeps
  <1>2. /\ WholeAccounts' \ {n} = WholeAccounts \ {n}
        /\ saveFailed' \ {n} = saveFailed \ {n}
    BY <1>1, WholeOthers DEF Keys
  <1>3. n \in Atomic!There
    BY ConfInvKeys, ListedIsWhole DEF Atomic!There
  <1>4. saveFailed' \in {saveFailed, saveFailed \ {n}}
    BY <1>1, <1>2
  <1>5. entry'[n] = NoEntry => n \notin WholeAccounts'
    BY DEF WholeAccounts, AccountNames, AccountNamesIn, NoEntry
  <1>6. ASSUME n \in WholeAccounts' PROVE n \in WholeAccounts
    <2>1. entry' = entry /\ saveFailed' = saveFailed
      BY <1>1, <1>5, <1>6
    <2>2. Loads(entry', server', n) /\ n \notin saveFailed
      BY <1>6, <2>1 DEF WholeAccounts
    <2>3. Loads(entry, server, n)
      BY <1>1, <2>1, <2>2 DEF Loads
    <2> QED
      BY <2>2, <2>3 DEF WholeAccounts
  <1>7. WholeAccounts' \in {WholeAccounts, WholeAccounts \ {n}}
    BY <1>2, <1>6
  <1>8. ASSUME k >= EntryGoneAt, kept = {}
        PROVE  WholeAccounts' = WholeAccounts \ {n} /\ saveFailed' = saveFailed \ {n}
    <2>1. entry'[n] = NoEntry /\ n \notin saveFailed'
      BY <1>1, <1>8 DEF EntryGoneAt
    <2> QED
      BY <1>2, <1>5, <2>1
  <1> QED
    BY <1>3, <1>4, <1>7, <1>8

\* A removal that comes to its end picks another default account while there is
\* one that is whole.
LEMMA PicksDefault ==
    ASSUME ConfInv, NEW n \in Names, NEW kept \in SUBSET Keepable,
           n \in AccountNames(TRUE), Removed(n, RemoveWrites, kept)
    PROVE  /\ default # n => default' = default
           /\ default = n => \/ default' \in Atomic!There'
                             \/ default' = NoName /\ WholeAccounts' = {}
  <1>1. RemoveWrites \in Nat /\ RemoveWrites >= 1 /\ RemoveWrites >= UnsetAt
    BY DEF RemoveWrites, UnsetAt
  <1>2. default # n => default' = default
    BY DEF Removed
  <1>3. ASSUME default = n
        PROVE  \/ default' \in Atomic!There'
               \/ default' = NoName /\ WholeAccounts' = {}
    <2>1. default' \in FirstAccounts(entry', server')
      BY <1>1, <1>3 DEF Removed
    <2>2. WholeAccounts' = AccountNamesIn(entry', server', TRUE) \ saveFailed'
      BY <1>1, ConfInvKeys, RemovedKeeps, ListedStaysWhole DEF AccountNames
    <2> QED
      BY <2>1, <2>2 DEF FirstAccounts, Atomic!There
  <1> QED
    BY <1>2, <1>3

LEMMA RemovalEnds ==
    /\ RemoveWrites \in Nat /\ RemoveWrites >= 1 /\ RemoveWrites >= EntryGoneAt
    /\ {} \in SUBSET Keepable
  BY DEF RemoveWrites, EntryGoneAt

\* A removal is complete, or something of the account could not be removed: it
\* may be there as before then, or no longer be listed.
LEMMA AtomicRemove ==
    ASSUME ConfInv, NEW n \in Names, NEW kept \in SUBSET Keepable,
           n \in AccountNames(TRUE), Removed(n, RemoveWrites, kept),
           faults' = IF kept = {} THEN faults ELSE faults + 1
    PROVE  AtomicStep
  <1>1. CASE kept = {}
    <2>1. Atomic!Remove(n)
      BY <1>1, RemovalEnds, AfterRemoved, PicksDefault
       DEF Atomic!Remove, Atomic!NoFault
    <2> QED
      BY <2>1 DEF AtomicStep, Atomic!Next
  <1>2. CASE kept # {}
    <2>1. Atomic!FaultInRemove(n)
      BY <1>2, RemovalEnds, AfterRemoved, PicksDefault
       DEF Atomic!FaultInRemove, Atomic!Fault
    <2> QED
      BY <2>1 DEF AtomicStep, Atomic!Next
  <1> QED
    BY <1>1, <1>2

\* Dying while an account is added leaves nothing of it that is listed, or all
\* but the choice of a default account.
LEMMA AtomicDieInAdd ==
    ASSUME ConfInv, NEW n \in Names, NEW k \in 1..EnabledAt, DieInAdd(n, k), Fault
    PROVE  AtomicStep
  <1>1. k \in Nat /\ k >= 1 /\ AllWritten \in WriteResults /\ EnabledAt \in Nat
    BY DEF EnabledAt, WriteResults
  <1>2. /\ Keys' /\ OthersStay(n)
        /\ entry'[n] = SavedEntry(k, AllWritten)
        /\ server'[n] = SavedServers(k, AllWritten)
        /\ n \notin saveFailed'
    BY <1>1, ConfInvKeys, SavedKeeps DEF DieInAdd
  <1>3. n \notin WholeAccounts /\ n \notin saveFailed
    BY UnusedNotThere DEF DieInAdd
  <1>4. /\ WholeAccounts' \ {n} = WholeAccounts \ {n}
        /\ saveFailed' \ {n} = saveFailed \ {n}
    BY <1>2, WholeOthers DEF Keys
  <1>5. default' = default /\ saveFailed' = saveFailed
    BY <1>2, <1>3, <1>4 DEF DieInAdd
  <1>6. CASE k < EnabledAt
    <2>1. n \notin WholeAccounts'
      BY <1>1, <1>2, <1>6, WhatIsSaved DEF WholeAccounts, AccountNames, AccountNamesIn
    <2>2. WholeAccounts' = WholeAccounts
      BY <1>3, <1>4, <2>1
    <2>3. Atomic!OtherFault
      BY <1>5, <2>2 DEF Atomic!OtherFault, Atomic!Fault, Fault
    <2> QED
      BY <2>3 DEF AtomicStep, Atomic!Next
  <1>7. CASE k = EnabledAt
    <2>1. n \in WholeAccounts'
      BY <1>2, <1>7, SavedIsListed DEF WholeAccounts, AccountNames
    <2>2. WholeAccounts' = WholeAccounts \union {n} /\ default = NoName
      BY <1>4, <1>7, <2>1 DEF DieInAdd
    <2>3. Atomic!DieInAdd(n)
      BY <1>3, <1>5, <2>2 DEF Atomic!DieInAdd, Atomic!There, Atomic!Fault, Fault
    <2> QED
      BY <2>3 DEF AtomicStep, Atomic!Next
  <1> QED
    BY <1>1, <1>6, <1>7

\* Dying in a removal: it has happened or not, and the default account, if it was
\* the one, is chosen or to be chosen.
LEMMA AtomicDieInRemove ==
    ASSUME ConfInv, NEW n \in Names, NEW k \in 1..RemoveWrites, DieInRemove(n, k), Fault
    PROVE  AtomicStep
  <1>1. k \in Nat /\ k >= 1 /\ k >= UnsetAt
    BY DEF RemoveWrites, UnsetAt
  <1>2. n \in AccountNames(TRUE) /\ Removed(n, k, {}) /\ {} \in SUBSET Keepable
    BY DEF DieInRemove
  <1>3. IF default = n THEN default' \in Atomic!There' \union {NoName}
                       ELSE default' = default
    <2>1. CASE k = RemoveWrites
      BY <1>2, <2>1, PicksDefault
    <2>2. CASE k # RemoveWrites
      BY <1>1, <1>2, <2>2 DEF Removed
    <2> QED
      BY <2>1, <2>2
  <1>4. Atomic!FaultInRemove(n)
    BY <1>1, <1>2, <1>3, AfterRemoved DEF Atomic!FaultInRemove, Atomic!Fault, Fault
  <1> QED
    BY <1>4 DEF AtomicStep, Atomic!Next

LEMMA AtomicOthers ==
    ASSUME ConfInv,
           \/ AskHasAccounts
           \/ \E n \in Names : NotifyAccountUpdate(n) \/ SetDefault(n),
           faults' = faults
    PROVE  AtomicStep
  <1>1. CASE \/ AskHasAccounts
             \/ \E n \in Names : NotifyAccountUpdate(n)
    BY <1>1, WholeSame DEF AskHasAccounts, NotifyAccountUpdate, AtomicStep
  <1>2. ASSUME NEW n \in Names, SetDefault(n)
        PROVE  AtomicStep
    <2>1. WholeAccounts' = WholeAccounts /\ saveFailed' = saveFailed /\ default' = n
      BY <1>2, WholeSame DEF SetDefault
    <2>2. n \in Atomic!There
      BY <1>2, ConfInvKeys, ListedIsWhole DEF SetDefault, Atomic!There
    <2>3. Atomic!SetDefault(n)
      BY <2>1, <2>2 DEF Atomic!SetDefault, Atomic!NoFault
    <2> QED
      BY <2>3 DEF AtomicStep, Atomic!Next
  <1> QED
    BY <1>1, <1>2

\* What does not touch the configuration changes nothing or fails.
LEMMA AtomicUnchanged ==
    ASSUME entry' = entry, server' = server, default' = default,
           saveFailed' = saveFailed, faults' = faults \/ Fault
    PROVE  AtomicStep
  <1>1. WholeAccounts' = WholeAccounts
    BY WholeSame
  <1>2. CASE Fault
    <2>1. Atomic!OtherFault
      BY <1>1, <1>2 DEF Atomic!OtherFault, Atomic!Fault, Fault
    <2> QED
      BY <2>1 DEF AtomicStep, Atomic!Next
  <1> QED
    BY <1>1, <1>2 DEF AtomicStep

LEMMA StepIsAtomic == IInv /\ [AccountsNext]_accountVars => AtomicStep
  <1> SUFFICES ASSUME IInv, [AccountsNext]_accountVars PROVE AtomicStep
    OBVIOUS
  <1>1. ConfInv /\ ListInv
    BY IInvParts
  <1>2. CASE User
    <2>1. ASSUME NEW n \in Names, NEW written \in WriteResults, AddAccount(n, written)
          PROVE  AtomicStep
      BY <1>1, <2>1, AtomicAdd
    <2>2. ASSUME NEW n \in Names, NEW kept \in SUBSET Keepable, RemoveAccount(n, kept)
          PROVE  AtomicStep
      BY <1>1, <2>2, RemoveAccountFacts, AtomicRemove DEF MgrRemove
    <2>3. ASSUME NEW o \in Objects, Send(o) PROVE AtomicStep
      BY <2>3, AtomicUnchanged DEF Send, confVars
    <2> QED
      BY <1>1, <1>2, <2>1, <2>2, <2>3, AtomicOthers DEF User, storeVars
  <1>3. CASE System
    BY <1>3, AtomicUnchanged DEF System, OutboxListed, OutboxNotListed,
       Disconnected, GetQueue, SendMade, MailStored, AskQueueAgain, SendEnds,
       Delivered, StartSendQueues, confVars
  <1>4. CASE Death
    <2>1. CASE Restart
      BY <1>4, <2>1, AtomicUnchanged DEF Restart, Death
    <2> QED
      BY <1>1, <1>4, <2>1, AtomicDieInAdd, AtomicDieInRemove DEF Death
  <1>5. CASE UNCHANGED accountVars
    BY <1>5, AtomicUnchanged DEF accountVars, confVars, storeVars
  <1> QED
    BY <1>2, <1>3, <1>4, <1>5 DEF AccountsNext

\* Adding and removing an account is atomic, whatever the program died in.
THEOREM AccountsChangeAtomically == AccountsSpec => AccountsAreAtomic
  <1>1. AccountsInit => Atomic!Init
    BY DEF AccountsInit, AccountMgrInit, NoEntry, AccountNames, AccountNamesIn,
       WholeAccounts, Atomic!Init
  <1>2. IInv /\ [AccountsNext]_accountVars => [Atomic!Next]_(Atomic!vars)
    BY StepIsAtomic DEF AtomicStep, Atomic!vars
  <1> QED
    BY AccountsAreInOrder, <1>1, <1>2, PTL
       DEF AccountsSpec, AccountsAreAtomic, Atomic!Safety
=============================================================================
