------------------------- MODULE UpdateAccountProofs -------------------------
(***************************************************************************)
(* Proofs about module UpdateAccount: for any folder tree, any messages    *)
(* and any number of updates of the account at once, the helper of an      *)
(* update is alive exactly while a callback that uses it is due.           *)
(***************************************************************************)
EXTENDS UpdateAccount, FiniteSetTheorems, TLAPS

\* An update that lists folders: pending counts the listings; what is listed
\* is known, and nothing in it; what is known was found in something known.
Listing(u) ==
    /\ listings[u] # {} /\ refreshing[u] = {} /\ gets[u] = {}
    /\ info[u].pending = Cardinality(listings[u])
    /\ \A s \in listings[u] : /\ s = Root \/ s \in info[u].folders
                              /\ Children(s) \intersect info[u].folders = {}
    /\ \A f \in info[u].folders : Parent[f] = Root \/ Parent[f] \in info[u].folders
    /\ info[u].observed = {} /\ info[u].newHeaders = {} /\ hist[u].seen = {}

\* An update that refreshes folders.
Refreshing(u) ==
    /\ listings[u] = {} /\ refreshing[u] # {} /\ gets[u] = {}
    /\ info[u].newHeaders = hist[u].seen

\* An update that fetches messages: done and total count them.
Fetching(u) ==
    /\ listings[u] = {} /\ refreshing[u] = {} /\ gets[u] # {}
    /\ op[u].done + Cardinality(gets[u]) = op[u].total
    /\ info[u].observed = {}
    /\ info[u].newHeaders = hist[u].seen \intersect Small

\* An update with a helper.
Running(u) ==
    /\ phase[u] = "running"
    /\ op[u].status # "SUCCESS"
    /\ Listing(u) \/ Refreshing(u) \/ Fetching(u)

\* An update without one.
Resting(u) ==
    /\ phase[u] # "running"
    /\ listings[u] = {} /\ refreshing[u] = {} /\ gets[u] = {}
    /\ info[u] = NoInfo
    /\ phase[u] = "new" => hist[u].seen = {} /\ op[u].status # "SUCCESS"
    /\ phase[u] = "ended" /\ op[u].status = "SUCCESS"
         => reply[u].headers = hist[u].seen \intersect Small

Stage(u) == Running(u) \/ Resting(u)

\* The inductive invariant.
IInv ==
    /\ TypeOK
    /\ BusyOnlyWhileUpdating
    /\ \A u \in Updates : Stage(u)

-----------------------------------------------------------------------------
\* No folder is in itself.
LEMMA NotInItself == \A f \in Folders : Parent[f] # f
  <1> SUFFICES ASSUME NEW f \in Folders PROVE Parent[f] # f
    OBVIOUS
  <1>1. {f} \in SUBSET Folders /\ {f} # {}
    OBVIOUS
  <1>2. \E g \in {f} : Parent[g] \notin {f}
    BY <1>1, UpdateAssumption
  <1> QED
    BY <1>2

\* A set of folders that has what is in the account and what is in its folders
\* has them all.
LEMMA AllBelowRoot ==
    ASSUME NEW S \in SUBSET Folders, Children(Root) \subseteq S,
           \A f \in S : Children(f) \subseteq S
    PROVE  S = Folders
  <1>1. Folders \ S # {} => \E f \in Folders \ S : Parent[f] \notin Folders \ S
    BY UpdateAssumption
  <1>2. ASSUME NEW f \in Folders \ S, Parent[f] \notin Folders \ S PROVE FALSE
    <2>1. Parent[f] = Root \/ Parent[f] \in S
      BY <1>2, UpdateAssumption
    <2> QED
      BY <2>1, <1>2 DEF Children
  <1> QED
    BY <1>1, <1>2

\* The folder stores are finitely many, and so are the sets of them.
LEMMA StoresFinite ==
    ASSUME NEW S \in SUBSET (Folders \union {Root})
    PROVE  IsFiniteSet(S) /\ Cardinality(S) \in Nat
  <1>1. IsFiniteSet(Folders \union {Root})
    BY UpdateAssumption, FS_AddElement
  <1>2. IsFiniteSet(S)
    BY <1>1, FS_Subset
  <1> QED
    BY <1>2, FS_CardinalityType

\* Taking a listing out takes one from their number.
LEMMA OneListingLess ==
    ASSUME NEW S \in SUBSET (Folders \union {Root}), NEW s \in S
    PROVE  Cardinality(S \ {s}) = Cardinality(S) - 1
  BY StoresFinite, FS_RemoveElement

\* Taking a listing out and the listings of what it found in.
LEMMA MoreListings ==
    ASSUME NEW S \in SUBSET (Folders \union {Root}), NEW s \in S,
           NEW T \in SUBSET Folders, S \intersect T = {}
    PROVE  Cardinality((S \ {s}) \union T) = Cardinality(S) - 1 + Cardinality(T)
  <1>1. IsFiniteSet(S \ {s}) /\ IsFiniteSet(T) /\ Cardinality(T) \in Nat
    BY StoresFinite
  <1>2. (S \ {s}) \intersect T = {}
    OBVIOUS
  <1>3. Cardinality((S \ {s}) \intersect T) = 0
    BY <1>2, FS_EmptySet
  <1>4. Cardinality(S \ {s}) = Cardinality(S) - 1 /\ Cardinality(S) \in Nat
    BY OneListingLess, StoresFinite
  <1> QED
    BY <1>1, <1>3, <1>4, FS_Union

\* No listing is left when none is counted.
LEMMA NoListingLeft ==
    ASSUME NEW S \in SUBSET (Folders \union {Root})
    PROVE  Cardinality(S) = 0 <=> S = {}
  BY StoresFinite, FS_EmptySet

\* The same for messages.
LEMMA MessagesCounted ==
    ASSUME NEW S \in SUBSET Msgs
    PROVE  /\ IsFiniteSet(S)
           /\ Cardinality(S) \in Nat
           /\ Cardinality(S) = 0 <=> S = {}
           /\ \A m \in S : Cardinality(S \ {m}) = Cardinality(S) - 1
  <1>1. IsFiniteSet(S)
    BY UpdateAssumption, FS_Subset
  <1> QED
    BY <1>1, FS_CardinalityType, FS_EmptySet, FS_RemoveElement

-----------------------------------------------------------------------------
\* The invariant holds when no update was started.
LEMMA InvariantInit == Init => IInv
  <1> SUFFICES ASSUME Init PROVE IInv
    OBVIOUS
  <1>1. TypeOK
    <2>1. op \in [Updates -> Operation]
      BY DEF Init, Operation, Types, Statuses
    <2>2. info \in [Updates -> Info]
      BY DEF Init, Info, NoInfo
    <2>3. reply \in [Updates -> Reply]
      BY DEF Init, Reply
    <2>4. hist \in [Updates -> History]
      BY DEF Init, History
    <2>5. /\ phase \in [Updates -> {"new", "running", "ended"}]
          /\ listings \in [Updates -> SUBSET (Folders \union {Root})]
          /\ refreshing \in [Updates -> SUBSET Folders]
          /\ gets \in [Updates -> SUBSET Msgs]
          /\ busy \in BOOLEAN
          /\ known \subseteq Msgs
      BY DEF Init
    <2> QED
      BY <2>1, <2>2, <2>3, <2>4, <2>5 DEF TypeOK
  <1>2. BusyOnlyWhileUpdating
    BY DEF Init, BusyOnlyWhileUpdating
  <1>3. \A u \in Updates : Resting(u)
    BY DEF Init, Resting
  <1> QED
    BY <1>1, <1>2, <1>3 DEF IInv, Stage

\* An update nothing happens to stays at its stage.
LEMMA OthersStay ==
    ASSUME IInv, NEW v \in Updates,
           phase'[v] = phase[v], op'[v] = op[v], info'[v] = info[v],
           listings'[v] = listings[v], refreshing'[v] = refreshing[v],
           gets'[v] = gets[v], reply'[v] = reply[v], hist'[v] = hist[v]
    PROVE  Stage(v)'
  <1>1. Stage(v)
    BY DEF IInv
  <1>2. CASE Running(v)
    BY <1>2 DEF Stage, Running, Listing, Refreshing, Fetching, Children
  <1>3. CASE Resting(v)
    BY <1>3 DEF Stage, Resting
  <1> QED
    BY <1>1, <1>2, <1>3 DEF Stage

\* A step of update u alone: what the others have stays.
Only(u) ==
    \A v \in Updates \ {u} :
        /\ phase'[v] = phase[v] /\ op'[v] = op[v] /\ info'[v] = info[v]
        /\ listings'[v] = listings[v] /\ refreshing'[v] = refreshing[v]
        /\ gets'[v] = gets[v] /\ reply'[v] = reply[v] /\ hist'[v] = hist[v]

\* Such a step keeps the invariant if u gets to a stage of its own, and the
\* account is busy only if it was or if u runs, and not busy if u ended.
LEMMA OneUpdateSteps ==
    ASSUME IInv, NEW u \in Updates, TypeOK', Only(u), Stage(u)',
           busy' => phase'[u] = "running" \/ (phase' = phase /\ busy' = busy)
    PROVE  IInv'
  <1>1. BusyOnlyWhileUpdating'
    BY DEF IInv, BusyOnlyWhileUpdating
  <1>2. ASSUME NEW v \in Updates \ {u} PROVE Stage(v)'
    BY OthersStay DEF Only
  <1> QED
    BY <1>1, <1>2 DEF IInv

\* What the end of an update gives.
LEMMA Ending ==
    ASSUME TypeOK, NEW u \in Updates, NEW headers \in SUBSET Msgs,
           NEW wakeups \in Nat, NotifyAndFree(u, headers, wakeups)
    PROVE  /\ phase' \in [Updates -> {"new", "running", "ended"}]
           /\ info' \in [Updates -> Info]
           /\ reply' \in [Updates -> Reply]
           /\ busy' = FALSE
           /\ phase'[u] = "ended" /\ info'[u] = NoInfo
           /\ reply'[u].headers = headers
           /\ \A v \in Updates \ {u} : /\ phase'[v] = phase[v]
                                       /\ info'[v] = info[v]
                                       /\ reply'[v] = reply[v]
  <1>1. NoInfo \in Info
    BY DEF NoInfo, Info
  <1>2. reply'[u] = [headers |-> headers, wakeups |-> reply[u].wakeups + wakeups]
    BY DEF TypeOK, Reply, NotifyAndFree
  <1>3. reply'[u] \in Reply
    BY <1>2 DEF TypeOK, Reply
  <1>4. reply' \in [Updates -> Reply]
    BY <1>3 DEF TypeOK, NotifyAndFree
  <1> QED
    BY <1>1, <1>2, <1>4 DEF TypeOK, NotifyAndFree

\* What an update that got that far gives, its operation being o.
LEMMA Succeeding ==
    ASSUME TypeOK, NEW u \in Updates, NEW headers \in SUBSET Msgs,
           NEW o \in Operation, Succeeds(u, o, headers)
    PROVE  /\ op' \in [Updates -> Operation]
           /\ \A v \in Updates \ {u} : op'[v] = op[v]
           /\ \E wakeups \in Nat : NotifyAndFree(u, headers, wakeups)
  <1>1. [o EXCEPT !.status = IF o.error THEN @ ELSE "SUCCESS"] \in Operation
    BY DEF Operation, Statuses
  <1>2. PICK wakeups \in Wakeups(u) : NotifyAndFree(u, headers, wakeups)
    BY DEF Succeeds
  <1>3. wakeups \in Nat
    BY DEF Wakeups
  <1> QED
    BY <1>1, <1>2, <1>3 DEF TypeOK, Succeeds

\* A call of tinymail that is outstanding tells the stage of an update.
LEMMA StageKnown ==
    ASSUME IInv, NEW u \in Updates
    PROVE  /\ phase[u] = "running" => Running(u)
           /\ phase[u] = "new" => Resting(u)
           /\ listings[u] # {} => Running(u) /\ Listing(u)
           /\ refreshing[u] # {} => Running(u) /\ Refreshing(u)
           /\ gets[u] # {} => Running(u) /\ Fetching(u)
  <1>1. Running(u) \/ Resting(u)
    BY DEF IInv, Stage
  <1> QED
    BY <1>1 DEF Running, Resting, Listing, Refreshing, Fetching

\* An update that ended has nothing outstanding and has told what it saw.
LEMMA EndedRests ==
    ASSUME NEW u \in Updates,
           listings'[u] = {}, refreshing'[u] = {}, gets'[u] = {},
           phase'[u] = "ended", info'[u] = NoInfo,
           op'[u].status = "SUCCESS"
             => reply'[u].headers = hist'[u].seen \intersect Small
    PROVE  Stage(u)'
  BY DEF Stage, Resting, NoInfo

\* The step that ends an update keeps the invariant, whatever it does to the
\* calls and the operation of that update, if nothing is outstanding afterwards.
LEMMA EndKeeps ==
    ASSUME IInv, NEW u \in Updates, NEW headers \in SUBSET Msgs,
           NEW wakeups \in Nat, NotifyAndFree(u, headers, wakeups),
           op' \in [Updates -> Operation],
           listings' \in [Updates -> SUBSET (Folders \union {Root})],
           refreshing' \in [Updates -> SUBSET Folders],
           gets' \in [Updates -> SUBSET Msgs],
           hist' \in [Updates -> History], UNCHANGED known,
           \A v \in Updates \ {u} :
               /\ op'[v] = op[v] /\ listings'[v] = listings[v]
               /\ refreshing'[v] = refreshing[v] /\ gets'[v] = gets[v]
               /\ hist'[v] = hist[v],
           listings'[u] = {}, refreshing'[u] = {}, gets'[u] = {},
           op'[u].status = "SUCCESS" => headers = hist'[u].seen \intersect Small
    PROVE  IInv'
  <1>1. TypeOK
    BY DEF IInv
  <1>2. /\ phase' \in [Updates -> {"new", "running", "ended"}]
        /\ info' \in [Updates -> Info]
        /\ reply' \in [Updates -> Reply]
        /\ busy' = FALSE
        /\ phase'[u] = "ended" /\ info'[u] = NoInfo
        /\ reply'[u].headers = headers
        /\ \A v \in Updates \ {u} : /\ phase'[v] = phase[v]
                                    /\ info'[v] = info[v]
                                    /\ reply'[v] = reply[v]
    BY <1>1, Ending
  <1>3. TypeOK'
    BY <1>1, <1>2 DEF TypeOK
  <1>4. Only(u)
    BY <1>2 DEF Only
  <1>5. Stage(u)'
    BY <1>2, EndedRests
  <1> QED
    BY <1>2, <1>3, <1>4, <1>5, OneUpdateSteps

-----------------------------------------------------------------------------
(* One lemma for each action.                                              *)

LEMMA ListFoldersKeeps ==
    ASSUME IInv, NEW u \in Updates, NEW type \in Types, NEW pokeAll \in BOOLEAN,
           ListFolders(u, type, pokeAll)
    PROVE  IInv'
  <1>1. TypeOK /\ Resting(u)
    BY StageKnown DEF IInv, ListFolders
  <1>2. info'[u] = [NoInfo EXCEPT !.pokeAll = pokeAll, !.pending = 1, !.retries = 1]
    BY <1>1 DEF TypeOK, ListFolders
  <1>3. info' \in [Updates -> Info]
    <2>1. info'[u] = [pokeAll |-> pokeAll, pending |-> 1, retries |-> 1,
                      folders |-> {}, folders2 |-> {}, observed |-> {},
                      newHeaders |-> {}]
      BY <1>2 DEF NoInfo
    <2>2. info'[u] \in Info
      BY <2>1 DEF Info
    <2> QED
      BY <1>1, <2>2 DEF TypeOK, ListFolders
  <1>4. op' \in [Updates -> Operation] /\ op'[u].status = "IN_PROGRESS"
    <2>1. op[u] \in Operation
      BY <1>1 DEF TypeOK
    <2>2. op'[u] = [op[u] EXCEPT !.type = type, !.status = "IN_PROGRESS"]
      BY <1>1 DEF TypeOK, ListFolders
    <2>3. op'[u] \in Operation /\ op'[u].status = "IN_PROGRESS"
      BY <2>1, <2>2 DEF Operation, Statuses
    <2> QED
      BY <1>1, <2>3 DEF TypeOK, ListFolders
  <1>5. hist'[u].seen = hist[u].seen /\ hist' \in [Updates -> History]
    <2>1. hist[u] \in History
      BY <1>1 DEF TypeOK
    <2>2. hist'[u] = [hist[u] EXCEPT !.poked = pokeAll]
      BY <1>1 DEF TypeOK, ListFolders
    <2>3. hist'[u] \in History /\ hist'[u].seen = hist[u].seen
      BY <2>1, <2>2 DEF History
    <2> QED
      BY <1>1, <2>3 DEF TypeOK, ListFolders
  <1>6. TypeOK'
    BY <1>1, <1>3, <1>4, <1>5 DEF TypeOK, ListFolders
  <1>7. Listing(u)'
    <2>1. listings'[u] = {Root} /\ Cardinality({Root}) = 1
      BY <1>1, FS_Singleton DEF TypeOK, ListFolders
    <2>2. hist[u].seen = {} /\ refreshing'[u] = {} /\ gets'[u] = {}
      BY <1>1 DEF Resting, ListFolders
    <2>3. /\ info'[u].pending = 1 /\ info'[u].folders = {}
          /\ info'[u].observed = {} /\ info'[u].newHeaders = {}
      BY <1>2 DEF NoInfo
    <2> QED
      BY <1>5, <2>1, <2>2, <2>3 DEF Listing
  <1>8. phase'[u] = "running" /\ Stage(u)'
    BY <1>1, <1>4, <1>7 DEF TypeOK, ListFolders, Stage, Running
  <1>9. Only(u)
    BY <1>1 DEF TypeOK, ListFolders, Only
  <1> QED
    BY <1>6, <1>8, <1>9, OneUpdateSteps

LEMMA NoAccountKeeps ==
    ASSUME IInv, NEW u \in Updates, NEW type \in Types, NoAccount(u, type)
    PROVE  IInv'
  <1>1. TypeOK /\ Resting(u)
    BY StageKnown DEF IInv, NoAccount
  <1>2. op'[u] \in Operation /\ op'[u].status # "SUCCESS"
    <2> DEFINE o == [op[u] EXCEPT !.type = type]
    <2>1. o \in Operation /\ o.status # "SUCCESS"
      BY <1>1 DEF TypeOK, Operation, Resting, NoAccount
    <2>2. op'[u] = Failed(o)
      BY <1>1 DEF TypeOK, NoAccount
    <2> HIDE DEF o
    <2> QED
      BY <2>1, <2>2 DEF Failed, Operation, Statuses
  <1>3. TypeOK'
    BY <1>1, <1>2 DEF TypeOK, NoAccount, callVars
  <1>4. phase'[u] = "ended" /\ Stage(u)'
    BY <1>1, <1>2 DEF TypeOK, NoAccount, Stage, Resting, callVars
  <1>5. Only(u)
    BY <1>1 DEF TypeOK, NoAccount, Only, callVars
  <1>6. BusyOnlyWhileUpdating'
    BY <1>1, <1>5 DEF IInv, BusyOnlyWhileUpdating, NoAccount, TypeOK
  <1>7. ASSUME NEW v \in Updates \ {u} PROVE Stage(v)'
    BY <1>5, OthersStay DEF Only
  <1> QED
    BY <1>3, <1>4, <1>6, <1>7 DEF IInv

LEMMA CancelKeeps ==
    ASSUME IInv, NEW u \in Updates, Cancel(u)
    PROVE  IInv'
  <1>1. TypeOK /\ Running(u)
    BY StageKnown DEF IInv, Cancel
  <1>2. /\ op' \in [Updates -> Operation]
        /\ op'[u].status = "CANCELED"
        /\ op'[u].done = op[u].done /\ op'[u].total = op[u].total
    <2>1. op[u] \in Operation
      BY <1>1 DEF TypeOK
    <2>2. op'[u] = [op[u] EXCEPT !.status = "CANCELED"]
      BY <1>1 DEF TypeOK, Cancel
    <2>3. /\ op'[u] \in Operation /\ op'[u].status = "CANCELED"
          /\ op'[u].done = op[u].done /\ op'[u].total = op[u].total
      BY <2>1, <2>2 DEF Operation, Statuses
    <2> QED
      BY <1>1, <2>3 DEF TypeOK, Cancel
  <1>3. hist' \in [Updates -> History] /\ hist'[u].seen = hist[u].seen
    <2>1. hist[u] \in History
      BY <1>1 DEF TypeOK
    <2>2. hist'[u] = [hist[u] EXCEPT !.canceled = TRUE]
      BY <1>1 DEF TypeOK, Cancel
    <2>3. hist'[u] \in History /\ hist'[u].seen = hist[u].seen
      BY <2>1, <2>2 DEF History
    <2> QED
      BY <1>1, <2>3 DEF TypeOK, Cancel
  <1>4. TypeOK'
    BY <1>1, <1>2, <1>3 DEF TypeOK, Cancel, callVars
  <1>5. Stage(u)'
    BY <1>1, <1>2, <1>3
    DEF Cancel, callVars, Stage, Running, Listing, Refreshing, Fetching, Children
  <1>6. Only(u)
    BY <1>1 DEF TypeOK, Cancel, callVars, Only
  <1> QED
    BY <1>4, <1>5, <1>6, OneUpdateSteps DEF Cancel

LEMMA ProgressKeeps ==
    ASSUME IInv, NEW u \in Updates, NEW done \in Nat, NEW total \in Nat,
           Progress(u, done, total)
    PROVE  IInv'
  <1>1. TypeOK /\ Running(u) /\ Refreshing(u)
    BY StageKnown DEF IInv, Progress
  <1>2. op' \in [Updates -> Operation] /\ op'[u].status = op[u].status
    <2>1. op[u] \in Operation
      BY <1>1 DEF TypeOK
    <2>2. op'[u] = [op[u] EXCEPT !.done = done, !.total = total]
      BY <1>1 DEF TypeOK, Progress
    <2>3. op'[u] \in Operation /\ op'[u].status = op[u].status
      BY <2>1, <2>2 DEF Operation
    <2> QED
      BY <1>1, <2>3 DEF TypeOK, Progress
  <1>3. TypeOK'
    BY <1>1, <1>2 DEF TypeOK, Progress, callVars
  <1>4. Stage(u)'
    BY <1>1, <1>2 DEF Progress, callVars, Stage, Running, Refreshing
  <1>5. Only(u)
    BY <1>1 DEF TypeOK, Progress, callVars, Only
  <1> QED
    BY <1>3, <1>4, <1>5, OneUpdateSteps DEF Progress

\* A new header is collected and seen alike.
LEMMA NewHeaderKeeps ==
    ASSUME IInv, NEW m \in Msgs, NewHeader(m)
    PROVE  IInv'
  <1> DEFINE watching == {u \in Updates : Home[m] \in info[u].observed}
  <1>1. TypeOK
    BY DEF IInv
  <1>2. ASSUME NEW u \in watching
        PROVE  /\ info'[u] = [info[u] EXCEPT !.newHeaders = @ \union {m}]
               /\ hist'[u] = [hist[u] EXCEPT !.seen = @ \union {m}]
    BY <1>1 DEF NewHeader
  <1>3. ASSUME NEW u \in Updates \ watching
        PROVE  info'[u] = info[u] /\ hist'[u] = hist[u]
    BY <1>1 DEF NewHeader
  <1>4. /\ info' \in [Updates -> Info]
        /\ hist' \in [Updates -> History]
    <2>1. ASSUME NEW u \in Updates PROVE info'[u] \in Info /\ hist'[u] \in History
      <3>1. CASE u \in watching
        <4>1. info[u] \in Info /\ hist[u] \in History
          BY <1>1 DEF TypeOK
        <4>2. /\ info'[u] = [info[u] EXCEPT !.newHeaders = @ \union {m}]
              /\ hist'[u] = [hist[u] EXCEPT !.seen = @ \union {m}]
          BY <1>2, <3>1
        <4>3. info'[u] \in Info
          BY <4>1, <4>2 DEF Info
        <4>4. hist'[u] \in History
          BY <4>1, <4>2 DEF History
        <4> QED
          BY <4>3, <4>4
      <3>2. CASE u \notin watching
        BY <1>1, <1>3, <3>2 DEF TypeOK
      <3> QED
        BY <3>1, <3>2
    <2> QED
      BY <1>1, <2>1 DEF TypeOK, NewHeader
  <1>5. TypeOK'
    BY <1>1, <1>4 DEF TypeOK, NewHeader, callVars
  <1>6. ASSUME NEW u \in Updates PROVE Stage(u)'
    <2>1. CASE u \in watching
      <3>1. Refreshing(u) /\ Running(u)
        BY <2>1 DEF IInv, Stage, Running, Resting, Listing, Fetching, NoInfo
      <3>2. info[u] \in Info /\ hist[u] \in History
        BY <1>1 DEF TypeOK
      <3>3. /\ info'[u].newHeaders = info[u].newHeaders \union {m}
            /\ hist'[u].seen = hist[u].seen \union {m}
        BY <1>2, <2>1, <3>2 DEF Info, History
      <3>4. info'[u].newHeaders = hist'[u].seen
        BY <3>1, <3>3 DEF Refreshing
      <3> QED
        BY <3>1, <3>4 DEF Stage, Running, Refreshing, NewHeader, callVars
    <2>2. CASE u \notin watching
      BY <1>3, <2>2, OthersStay DEF NewHeader, callVars
    <2> QED
      BY <2>1, <2>2
  <1>7. BusyOnlyWhileUpdating'
    BY DEF IInv, BusyOnlyWhileUpdating, NewHeader
  <1> QED
    BY <1>5, <1>6, <1>7 DEF IInv

\* With all folders listed, the update ends or refreshes.
LEMMA AllListedGoesOn ==
    ASSUME IInv, NEW u \in Updates, NEW i \in Info, listings[u] # {},
           i.newHeaders = {}, AllListed(u, i),
           listings' = [listings EXCEPT ![u] = {}],
           UNCHANGED <<gets, known, hist>>
    PROVE  IInv'
  <1>1. TypeOK /\ Running(u) /\ Listing(u)
    BY StageKnown DEF IInv
  <1>2. /\ listings'[u] = {} /\ gets'[u] = {} /\ hist'[u].seen = {}
        /\ listings' \in [Updates -> SUBSET (Folders \union {Root})]
        /\ \A v \in Updates \ {u} : listings'[v] = listings[v]
    BY <1>1 DEF TypeOK, Listing
  <1>3. CASE op[u].error
    <2>1. NotifyAndFree(u, {}, 0) /\ UNCHANGED <<op, refreshing>>
      BY <1>3 DEF AllListed
    <2>2. refreshing'[u] = {} /\ op'[u].status # "SUCCESS"
      BY <1>1, <2>1 DEF Running, Listing
    <2> QED
      BY <1>1, <1>2, <2>1, <2>2, EndKeeps DEF TypeOK
  <1>4. CASE ~op[u].error
    <2> DEFINE chosen == ToRefresh(u, i.folders)
    <2>1. chosen \in SUBSET Folders
      BY DEF ToRefresh, Info
    <2>2. CASE Succeeds(u, op[u], {}) /\ UNCHANGED refreshing
      <3>1. op[u] \in Operation
        BY <1>1 DEF TypeOK
      <3>2. PICK wakeups \in Nat : NotifyAndFree(u, {}, wakeups)
        BY <1>1, <2>2, <3>1, Succeeding
      <3>3. op' \in [Updates -> Operation] /\ \A v \in Updates \ {u} : op'[v] = op[v]
        BY <1>1, <2>2, <3>1, Succeeding
      <3>4. refreshing'[u] = {}
        BY <1>1, <2>2 DEF Listing
      <3> QED
        BY <1>1, <1>2, <2>2, <3>2, <3>3, <3>4, EndKeeps DEF TypeOK
    <2>3. ASSUME NEW first \in chosen,
                 refreshing' = [refreshing EXCEPT ![u] = {first}],
                 info' = [info EXCEPT ![u] =
                            [i EXCEPT !.observed = chosen,
                                      !.folders2 = chosen \ {first}]],
                 UNCHANGED <<phase, op, busy, reply>>
          PROVE  IInv'
      <3>1. [i EXCEPT !.observed = chosen, !.folders2 = chosen \ {first}] \in Info
        BY <2>1 DEF Info
      <3>2. TypeOK'
        BY <1>1, <1>2, <2>1, <2>3, <3>1 DEF TypeOK
      <3>3. info'[u].newHeaders = {}
        BY <1>1, <2>3 DEF TypeOK, Info
      <3>4. Stage(u)'
        BY <1>1, <1>2, <2>3, <3>3 DEF TypeOK, Stage, Running, Refreshing
      <3>5. Only(u)
        BY <1>1, <1>2, <2>3 DEF TypeOK, Only
      <3> QED
        BY <2>3, <3>2, <3>4, <3>5, OneUpdateSteps
    <2>4. \/ Succeeds(u, op[u], {}) /\ UNCHANGED refreshing
          \/ \E first \in chosen :
                /\ refreshing' = [refreshing EXCEPT ![u] = {first}]
                /\ info' = [info EXCEPT ![u] =
                              [i EXCEPT !.observed = chosen,
                                        !.folders2 = chosen \ {first}]]
                /\ UNCHANGED <<phase, op, busy, reply>>
      BY <1>4 DEF AllListed
    <2> QED
      BY <2>2, <2>3, <2>4
  <1> QED
    BY <1>3, <1>4

\* A store is listed: the calls for what it holds are counted for its own.
LEMMA ListedKeeps ==
    ASSUME IInv, NEW u \in Updates, NEW s \in Folders \union {Root}, Listed(u, s)
    PROVE  IInv'
  <1> DEFINE found == Children(s)
             more  == IF info[u].pokeAll THEN found ELSE {}
             left  == (listings[u] \ {s}) \union more
             i     == [info[u] EXCEPT !.folders = @ \union found,
                                      !.pending = @ + Cardinality(more) - 1]
  <1>1. TypeOK /\ Running(u) /\ Listing(u)
    BY StageKnown DEF IInv, Listed
  <1>2. /\ s \in listings[u] /\ listings[u] \in SUBSET (Folders \union {Root})
        /\ info[u] \in Info
        /\ found \in SUBSET Folders /\ more \in SUBSET found /\ more \in SUBSET Folders
        /\ left \in SUBSET (Folders \union {Root})
    BY <1>1 DEF TypeOK, Listed, Children
  <1>3. found \intersect info[u].folders = {} /\ (s = Root \/ s \in info[u].folders)
    BY <1>1, <1>2 DEF Listing
  <1>4. listings[u] \intersect more = {}
    BY <1>1, <1>2, <1>3, UpdateAssumption, NotInItself DEF Listing
  <1>5. Cardinality(more) \in Nat /\ Cardinality(listings[u]) \in Nat
    BY <1>2, StoresFinite
  <1>6. /\ i.folders = info[u].folders \union found
        /\ i.pending = info[u].pending + Cardinality(more) - 1
        /\ i.newHeaders = info[u].newHeaders /\ i.observed = info[u].observed
        /\ i \in Info
    <2>1. info[u].pending + Cardinality(more) - 1 \in Int
      BY <1>2, <1>5 DEF Info
    <2>2. info[u].folders \union found \in SUBSET Folders
      BY <1>2 DEF Info
    <2> HIDE DEF found, more
    <2> QED
      BY <1>2, <2>1, <2>2 DEF Info
  <1>7. i.pending = Cardinality(left)
    <2>1. Cardinality(left) = Cardinality(listings[u]) - 1 + Cardinality(more)
      BY <1>2, <1>4, MoreListings
    <2> QED
      BY <1>1, <1>5, <1>6, <2>1 DEF Listing
  <1>8. listings' = [listings EXCEPT ![u] = left] /\ UNCHANGED <<gets, known, hist>>
    BY DEF Listed
  <1>9. CASE i.pending = 0
    <2>1. left = {}
      BY <1>2, <1>7, <1>9, NoListingLeft
    <2>2. AllListed(u, i)
      BY <1>9 DEF Listed
    <2>3. i.newHeaders = {} /\ listings[u] # {}
      BY <1>1, <1>6 DEF Listing
    <2>4. listings' = [listings EXCEPT ![u] = {}]
      BY <1>8, <2>1
    <2> HIDE DEF i
    <2> QED
      BY <1>6, <1>8, <2>2, <2>3, <2>4, AllListedGoesOn
  <1>10. CASE i.pending # 0
    <2>1. info' = [info EXCEPT ![u] = i] /\ UNCHANGED <<phase, op, refreshing, busy, reply>>
      BY <1>10 DEF Listed
    <2> HIDE DEF i
    <2>2. TypeOK'
      BY <1>1, <1>2, <1>6, <1>8, <2>1 DEF TypeOK
    <2>3. info'[u] = i /\ listings'[u] = left
      BY <1>1, <1>8, <2>1 DEF TypeOK
    <2>4. left # {}
      BY <1>2, <1>7, <1>10, NoListingLeft
    <2>5. ASSUME NEW t \in left
          PROVE  /\ t = Root \/ t \in i.folders
                 /\ Children(t) \intersect i.folders = {}
      <3>1. CASE t \in listings[u] /\ t # s
        BY <1>1, <1>6, <3>1 DEF Listing, Children
      <3>2. CASE t \in more
        <4>1. t \in Folders /\ Parent[t] = s /\ t \notin info[u].folders /\ t # Root
          BY <1>2, <1>3, <3>2, UpdateAssumption DEF Children
        <4>2. Children(t) \intersect info[u].folders = {}
          BY <1>1, <4>1 DEF Listing, Children
        <4>3. Children(t) \intersect found = {}
          BY <4>1, NotInItself DEF Children
        <4>4. t \in i.folders
          BY <1>2, <1>6, <3>2
        <4> QED
          BY <1>6, <4>2, <4>3, <4>4
      <3> QED
        BY <3>1, <3>2
    <2>6. \A f \in i.folders : Parent[f] = Root \/ Parent[f] \in i.folders
      BY <1>1, <1>3, <1>6 DEF Listing, Children
    <2>7. Listing(u)'
      <3>1. /\ refreshing'[u] = {} /\ gets'[u] = {} /\ hist'[u].seen = {}
            /\ i.observed = {} /\ i.newHeaders = {}
        BY <1>1, <1>6, <1>8, <2>1 DEF Listing
      <3> HIDE DEF left
      <3> QED
        BY <1>7, <2>3, <2>4, <2>5, <2>6, <3>1 DEF Listing, Children
    <2>8. Stage(u)'
      BY <1>1, <2>1, <2>7 DEF Stage, Running
    <2>9. Only(u)
      BY <1>1, <1>8, <2>1 DEF TypeOK, Only
    <2> QED
      BY <2>1, <2>2, <2>8, <2>9, OneUpdateSteps
  <1> QED
    BY <1>9, <1>10

\* A listing that is made again is counted as before.
LEMMA ListAgainKeeps ==
    ASSUME IInv, NEW u \in Updates, NEW s \in Folders \union {Root}, ListAgain(u, s)
    PROVE  IInv'
  <1> DEFINE i == Relist(info[u])
  <1>1. TypeOK /\ Running(u) /\ Listing(u) /\ info[u] \in Info /\ info[u].retries > 0
    BY StageKnown DEF IInv, ListAgain, TypeOK, MayRelist
  <1>2. listings[u] \in SUBSET (Folders \union {Root}) /\ s \in listings[u]
    BY <1>1 DEF TypeOK, ListAgain
  <1>3. info[u].pending # 0 /\ info[u].pending \in Int
    BY <1>1, <1>2, NoListingLeft DEF Listing, Info
  <1>4. /\ i.pending = info[u].pending /\ i.folders = info[u].folders
        /\ i.observed = info[u].observed /\ i.newHeaders = info[u].newHeaders
        /\ i \in Info
    <2>1. info[u].retries - 1 \in Nat /\ (info[u].pending + 1) - 1 = info[u].pending
      BY <1>1, <1>3 DEF Info
    <2> QED
      BY <1>1, <1>3, <2>1 DEF Relist, Info
  <1>5. /\ info' = [info EXCEPT ![u] = i]
        /\ UNCHANGED <<phase, op, refreshing, busy, reply, listings, gets, known, hist>>
    BY <1>3, <1>4 DEF ListAgain
  <1> HIDE DEF i
  <1>6. TypeOK'
    BY <1>1, <1>4, <1>5 DEF TypeOK
  <1>7. info'[u] = i
    BY <1>1, <1>5 DEF TypeOK
  <1>8. Stage(u)'
    BY <1>1, <1>4, <1>5, <1>7 DEF Stage, Running, Listing, Children
  <1>9. Only(u)
    BY <1>1, <1>5 DEF TypeOK, Only
  <1> QED
    BY <1>5, <1>6, <1>8, <1>9, OneUpdateSteps

\* A listing that fails is counted off, and the last one ends the update.
LEMMA ListFailsKeeps ==
    ASSUME IInv, NEW u \in Updates, NEW s \in Folders \union {Root},
           NEW err \in BOOLEAN, ListFails(u, s, err)
    PROVE  IInv'
  <1>1. TypeOK /\ Running(u) /\ Listing(u) /\ info[u] \in Info
    BY StageKnown DEF IInv, ListFails, TypeOK
  <1>2. listings[u] \in SUBSET (Folders \union {Root}) /\ s \in listings[u]
    BY <1>1 DEF TypeOK, ListFails
  <1>3. /\ op' \in [Updates -> Operation] /\ op'[u].status # "SUCCESS"
        /\ \A v \in Updates \ {u} : op'[v] = op[v]
    <2>1. op[u] \in Operation /\ op[u].status # "SUCCESS"
      BY <1>1 DEF TypeOK, Running
    <2>2. Failed(op[u]) \in Operation /\ Failed(op[u]).status # "SUCCESS"
      BY <2>1 DEF Failed, Operation, Statuses
    <2>3. op' = [op EXCEPT ![u] = Failed(op[u])]
      BY DEF ListFails
    <2> QED
      BY <1>1, <2>2, <2>3 DEF TypeOK
  <1>4. /\ listings'[u] = listings[u] \ {s}
        /\ listings' \in [Updates -> SUBSET (Folders \union {Root})]
        /\ \A v \in Updates \ {u} : listings'[v] = listings[v]
        /\ UNCHANGED <<refreshing, gets, known, hist>>
    BY <1>1 DEF TypeOK, ListFails
  <1>5. /\ info[u].pending \in Int
        /\ Cardinality(listings[u] \ {s}) = info[u].pending - 1
        /\ Cardinality(listings[u] \ {s}) = 0 <=> listings[u] \ {s} = {}
    BY <1>1, <1>2, OneListingLess, NoListingLeft DEF Listing, Info
  <1>6. CASE info[u].pending = 1
    <2>1. NotifyAndFree(u, {}, 0)
      BY <1>6 DEF ListFails
    <2>2. listings'[u] = {} /\ refreshing'[u] = {} /\ gets'[u] = {}
      BY <1>1, <1>4, <1>5, <1>6 DEF Listing
    <2> QED
      BY <1>1, <1>3, <1>4, <2>1, <2>2, EndKeeps DEF TypeOK
  <1>7. CASE info[u].pending # 1
    <2>1. info' = [info EXCEPT ![u].pending = @ - 1] /\ UNCHANGED <<phase, busy, reply>>
      BY <1>7 DEF ListFails
    <2>2. info'[u] = [info[u] EXCEPT !.pending = @ - 1]
      BY <1>1, <2>1 DEF TypeOK
    <2>3. /\ info'[u] \in Info /\ info'[u].pending = info[u].pending - 1
          /\ info'[u].folders = info[u].folders /\ info'[u].observed = info[u].observed
          /\ info'[u].newHeaders = info[u].newHeaders
      BY <1>1, <1>5, <2>2 DEF Info
    <2>4. TypeOK'
      BY <1>1, <1>3, <1>4, <2>1, <2>3 DEF TypeOK
    <2>5. Stage(u)'
      BY <1>1, <1>3, <1>4, <1>5, <1>7, <2>1, <2>3
      DEF Stage, Running, Listing, Children
    <2>6. Only(u)
      BY <1>1, <1>3, <1>4, <2>1 DEF TypeOK, Only
    <2> QED
      BY <2>1, <2>4, <2>5, <2>6, OneUpdateSteps
  <1> QED
    BY <1>6, <1>7

\* A refresh that failed ends the update as a failure.
LEMMA RefreshFailsKeeps ==
    ASSUME IInv, NEW u \in Updates, RefreshFails(u)
    PROVE  IInv'
  <1>1. TypeOK /\ Running(u) /\ Refreshing(u)
    BY StageKnown DEF IInv, RefreshFails
  <1>2. /\ op' \in [Updates -> Operation] /\ op'[u].status = "FAILED"
        /\ \A v \in Updates \ {u} : op'[v] = op[v]
    <2>1. op[u] \in Operation
      BY <1>1 DEF TypeOK
    <2>2. op'[u] = [op[u] EXCEPT !.error = TRUE, !.status = "FAILED"]
      BY <1>1 DEF TypeOK, RefreshFails
    <2>3. op'[u] \in Operation /\ op'[u].status = "FAILED"
      BY <2>1, <2>2 DEF Operation, Statuses
    <2> QED
      BY <1>1, <2>3 DEF TypeOK, RefreshFails
  <1>3. NotifyAndFree(u, {}, 0) /\ UNCHANGED <<listings, gets, known, hist>>
    BY DEF RefreshFails
  <1>4. /\ refreshing' \in [Updates -> SUBSET Folders] /\ refreshing'[u] = {}
        /\ \A v \in Updates \ {u} : refreshing'[v] = refreshing[v]
    BY <1>1 DEF TypeOK, RefreshFails
  <1>5. listings'[u] = {} /\ gets'[u] = {}
    BY <1>1, <1>3 DEF Refreshing
  <1> QED
    BY <1>1, <1>2, <1>3, <1>4, <1>5, EndKeeps DEF TypeOK

\* At least one message is fetched if there are any.
LEMMA SomeAreFetched ==
    ASSUME NEW headers \in SUBSET Msgs, headers # {},
           NEW fetched \in kSubset(Retrieved(headers), headers)
    PROVE  /\ fetched \in SUBSET Msgs /\ fetched # {}
           /\ Cardinality(fetched) \in Nat
  <1>1. Cardinality(headers) \in Nat /\ Cardinality(headers) # 0
    BY MessagesCounted
  <1>2. Retrieved(headers) # 0
    BY <1>1, UpdateAssumption DEF Retrieved
  <1>3. fetched \in SUBSET Msgs /\ Cardinality(fetched) = Retrieved(headers)
    BY DEF kSubset
  <1> QED
    BY <1>2, <1>3, MessagesCounted

\* A refreshed folder is followed by the next, by the messages or by the end.
LEMMA FolderRefreshedKeeps ==
    ASSUME IInv, NEW u \in Updates, FolderRefreshed(u)
    PROVE  IInv'
  <1> DEFINE headers == info[u].newHeaders \intersect Small
  <1>1. TypeOK /\ Running(u) /\ Refreshing(u) /\ info[u] \in Info
    BY StageKnown DEF IInv, FolderRefreshed, TypeOK
  <1>2. /\ hist' \in [Updates -> History] /\ hist'[u].seen = hist[u].seen
        /\ \A v \in Updates \ {u} : hist'[v] = hist[v]
    <2>1. hist[u] \in History /\ refreshing[u] \in SUBSET Folders
      BY <1>1 DEF TypeOK
    <2>2. /\ hist' = [hist EXCEPT ![u] = hist'[u]]
          /\ hist'[u] = [hist[u] EXCEPT !.refreshed = @ \union refreshing[u]]
      BY <1>1 DEF TypeOK, FolderRefreshed
    <2>3. hist'[u] \in History /\ hist'[u].seen = hist[u].seen
      BY <2>1, <2>2 DEF History
    <2> QED
      BY <1>1, <2>2, <2>3 DEF TypeOK
  <1>3. UNCHANGED <<listings, known>> /\ listings[u] = {} /\ gets[u] = {}
    BY <1>1 DEF FolderRefreshed, Refreshing
  <1>4. headers \in SUBSET Msgs /\ headers = hist[u].seen \intersect Small
    BY <1>1, UpdateAssumption DEF Info, Refreshing
  <1>5. ASSUME NEW next \in info[u].folders2,
               refreshing' = [refreshing EXCEPT ![u] = {next}],
               info' = [info EXCEPT ![u].folders2 = @ \ {next}],
               UNCHANGED <<phase, op, gets, busy, reply>>
        PROVE  IInv'
    <2>1. info'[u] = [info[u] EXCEPT !.folders2 = @ \ {next}]
      BY <1>1, <1>5 DEF TypeOK
    <2>2. info'[u] \in Info /\ info'[u].newHeaders = info[u].newHeaders /\ next \in Folders
      BY <1>1, <2>1 DEF Info
    <2>3. TypeOK'
      BY <1>1, <1>2, <1>3, <1>5, <2>2 DEF TypeOK
    <2>4. Stage(u)'
      BY <1>1, <1>2, <1>3, <1>5, <2>2 DEF TypeOK, Stage, Running, Refreshing
    <2>5. Only(u)
      BY <1>1, <1>2, <1>3, <1>5 DEF TypeOK, Only
    <2> QED
      BY <1>5, <2>3, <2>4, <2>5, OneUpdateSteps
  <1>6. ASSUME refreshing' = [refreshing EXCEPT ![u] = {}],
               Succeeds(u, op[u], headers), UNCHANGED gets
        PROVE  IInv'
    <2>1. op[u] \in Operation
      BY <1>1 DEF TypeOK
    <2>2. PICK wakeups \in Nat : NotifyAndFree(u, headers, wakeups)
      BY <1>1, <1>4, <1>6, <2>1, Succeeding
    <2>3. op' \in [Updates -> Operation] /\ \A v \in Updates \ {u} : op'[v] = op[v]
      BY <1>1, <1>4, <1>6, <2>1, Succeeding
    <2>4. /\ refreshing' \in [Updates -> SUBSET Folders] /\ refreshing'[u] = {}
          /\ \A v \in Updates \ {u} : refreshing'[v] = refreshing[v]
          /\ gets' = gets /\ listings' = listings /\ known' = known
          /\ listings'[u] = {} /\ gets'[u] = {}
      BY <1>1, <1>3, <1>6 DEF TypeOK
    <2> HIDE DEF headers
    <2> QED
      BY <1>1, <1>2, <1>4, <2>2, <2>3, <2>4, EndKeeps DEF TypeOK
  <1>7. ASSUME refreshing' = [refreshing EXCEPT ![u] = {}],
               headers # {}, Retrieve(u, headers)
        PROVE  IInv'
    <2>1. PICK fetched \in kSubset(Retrieved(headers), headers) :
             /\ gets' = [gets EXCEPT ![u] = fetched]
             /\ op' = [op EXCEPT ![u].done = 0, ![u].total = Cardinality(fetched)]
             /\ info' = [info EXCEPT ![u].observed = {}, ![u].newHeaders = headers]
             /\ UNCHANGED <<phase, busy, reply>>
      BY <1>7 DEF Retrieve
    <2>2. /\ fetched \in SUBSET Msgs /\ fetched # {}
          /\ Cardinality(fetched) \in Nat
      BY <1>4, <1>7, SomeAreFetched
    <2> HIDE DEF headers
    <2>3. /\ op' \in [Updates -> Operation] /\ op'[u].status = op[u].status
          /\ op'[u].done = 0 /\ op'[u].total = Cardinality(fetched)
      <3>1. op[u] \in Operation
        BY <1>1 DEF TypeOK
      <3>2. op'[u] = [op[u] EXCEPT !.done = 0, !.total = Cardinality(fetched)]
        BY <1>1, <2>1 DEF TypeOK
      <3> DEFINE n == Cardinality(fetched)
                 zeroed == [op[u] EXCEPT !.done = 0]
      <3>3. n \in Nat
        BY <2>2
      <3>4. op'[u] = [zeroed EXCEPT !.total = n]
        BY <3>2
      <3>5. /\ zeroed \in Operation /\ zeroed.status = op[u].status
            /\ zeroed.done = 0
        BY <3>1 DEF Operation
      <3> HIDE DEF n, zeroed
      <3>6. /\ op'[u] \in Operation /\ op'[u].status = zeroed.status
            /\ op'[u].done = zeroed.done /\ op'[u].total = n
        BY <3>3, <3>4, <3>5 DEF Operation
      <3>7. op' \in [Updates -> Operation]
        BY <1>1, <2>1, <3>6 DEF TypeOK
      <3> QED
        BY <3>5, <3>6, <3>7 DEF n
    <2>4. info'[u] = [info[u] EXCEPT !.observed = {}, !.newHeaders = headers]
      BY <1>1, <2>1 DEF TypeOK
    <2>5. /\ info'[u] \in Info /\ info'[u].observed = {}
          /\ info'[u].newHeaders = headers
      BY <1>1, <1>4, <2>4 DEF Info
    <2>6. TypeOK'
      BY <1>1, <1>2, <1>3, <1>7, <2>1, <2>2, <2>3, <2>5 DEF TypeOK
    <2>7. Stage(u)'
      BY <1>1, <1>2, <1>3, <1>4, <1>7, <2>1, <2>2, <2>3, <2>5
      DEF TypeOK, Stage, Running, Fetching
    <2>8. Only(u)
      BY <1>1, <1>2, <1>3, <1>7, <2>1 DEF TypeOK, Only
    <2> QED
      BY <2>1, <2>6, <2>7, <2>8, OneUpdateSteps
  <1> QED
    BY <1>5, <1>6, <1>7 DEF FolderRefreshed, LastRefreshed

\* A message counts as done, and the last one ends the update.
LEMMA GotMsgKeeps ==
    ASSUME IInv, NEW u \in Updates, NEW m \in Msgs, GotMsg(u, m)
    PROVE  IInv'
  <1> DEFINE o == [op[u] EXCEPT !.done = @ + 1]
             headers == info[u].newHeaders
  <1>1. TypeOK /\ Running(u) /\ Fetching(u) /\ info[u] \in Info
    BY StageKnown DEF IInv, GotMsg, TypeOK
  <1>2. /\ gets'[u] = gets[u] \ {m} /\ gets' \in [Updates -> SUBSET Msgs]
        /\ \A v \in Updates \ {u} : gets'[v] = gets[v]
        /\ UNCHANGED <<listings, refreshing, known, hist>>
        /\ listings[u] = {} /\ refreshing[u] = {}
    BY <1>1 DEF TypeOK, GotMsg, Fetching
  <1>3. /\ o \in Operation /\ o.done = op[u].done + 1
        /\ o.total = op[u].total /\ o.status = op[u].status
        /\ op[u].done \in Nat /\ op[u].total \in Nat
    BY <1>1 DEF TypeOK, Operation
  <1>4. /\ Cardinality(gets[u] \ {m}) \in Nat
        /\ Cardinality(gets[u] \ {m}) = Cardinality(gets[u]) - 1
        /\ Cardinality(gets[u]) \in Nat
        /\ Cardinality(gets[u] \ {m}) = 0 <=> gets[u] \ {m} = {}
    <2>1. gets[u] \in SUBSET Msgs /\ gets[u] \ {m} \in SUBSET Msgs /\ m \in gets[u]
      BY <1>1 DEF TypeOK, GotMsg
    <2> QED
      BY <2>1, MessagesCounted
  <1>5. headers \in SUBSET Msgs /\ headers = hist[u].seen \intersect Small
    BY <1>1 DEF Info, Fetching
  <1>6. CASE o.done = o.total
    <2>1. Succeeds(u, o, headers)
      BY <1>6 DEF GotMsg
    <2>2. gets'[u] = {}
      BY <1>1, <1>2, <1>3, <1>4, <1>6 DEF Fetching
    <2> HIDE DEF o, headers
    <2>3. PICK wakeups \in Nat : NotifyAndFree(u, headers, wakeups)
      BY <1>1, <1>3, <1>5, <2>1, Succeeding
    <2>4. op' \in [Updates -> Operation] /\ \A v \in Updates \ {u} : op'[v] = op[v]
      BY <1>1, <1>3, <1>5, <2>1, Succeeding
    <2> QED
      BY <1>1, <1>2, <1>5, <2>2, <2>3, <2>4, EndKeeps DEF TypeOK
  <1>7. CASE o.done # o.total
    <2>1. op' = [op EXCEPT ![u] = o] /\ UNCHANGED <<phase, info, busy, reply>>
      BY <1>7 DEF GotMsg
    <2> HIDE DEF o
    <2>2. TypeOK' /\ op'[u] = o
      BY <1>1, <1>2, <1>3, <2>1 DEF TypeOK
    <2>3. gets'[u] # {} /\ op'[u].done + Cardinality(gets'[u]) = op'[u].total
      BY <1>1, <1>2, <1>3, <1>4, <1>7, <2>2 DEF Fetching
    <2>4. Stage(u)'
      BY <1>1, <1>2, <1>3, <2>1, <2>2, <2>3 DEF Stage, Running, Fetching
    <2>5. Only(u)
      BY <1>1, <1>2, <2>1 DEF TypeOK, Only
    <2> QED
      BY <2>1, <2>2, <2>4, <2>5, OneUpdateSteps
  <1> QED
    BY <1>6, <1>7

-----------------------------------------------------------------------------
\* Every step keeps the invariant.
LEMMA InvariantStep == IInv /\ [Next]_vars => IInv'
  <1> SUFFICES ASSUME IInv, [Next]_vars PROVE IInv'
    OBVIOUS
  <1>1. ASSUME NEW m \in Msgs, NewHeader(m) PROVE IInv'
    BY <1>1, NewHeaderKeeps
  <1>2. ASSUME NEW u \in Updates, NEW type \in Types, NEW pokeAll \in BOOLEAN,
               ListFolders(u, type, pokeAll)
        PROVE  IInv'
    BY <1>2, ListFoldersKeeps
  <1>3. ASSUME NEW u \in Updates, NEW type \in Types, NoAccount(u, type) PROVE IInv'
    BY <1>3, NoAccountKeeps
  <1>4. ASSUME NEW u \in Updates, Cancel(u) PROVE IInv'
    BY <1>4, CancelKeeps
  <1>5. ASSUME NEW u \in Updates, NEW n \in 0..MaxPosition,
               Progress(u, n, MaxPosition)
        PROVE  IInv'
    BY <1>5, ProgressKeeps, UpdateAssumption
  <1>6. ASSUME NEW u \in Updates, Answer(u) PROVE IInv'
    BY <1>6, ListedKeeps, ListAgainKeeps, ListFailsKeeps, RefreshFailsKeeps,
       FolderRefreshedKeeps, GotMsgKeeps DEF Answer
  <1>7. CASE UNCHANGED vars
    <2>1. TypeOK' /\ BusyOnlyWhileUpdating'
      BY <1>7 DEF IInv, TypeOK, BusyOnlyWhileUpdating, vars, callVars
    <2>2. \A u \in Updates : Stage(u)'
      BY <1>7, OthersStay DEF vars, callVars
    <2> QED
      BY <2>1, <2>2 DEF IInv
  <1>8. "SEND_AND_RECEIVE" \in Types /\ "UPDATE_FOLDER_COUNTS" \in Types /\ TRUE \in BOOLEAN
    BY DEF Types
  <1> QED
    BY <1>1, <1>2, <1>3, <1>4, <1>5, <1>6, <1>7, <1>8
    DEF Next, UpdateAccount, UpdateFolderCounts

\* The inductive invariant: what is counted in a helper is what is outstanding.
THEOREM Invariant == Safety => []IInv
  <1> QED
    BY InvariantInit, InvariantStep, PTL DEF Safety

\* Every variable keeps its type in every behaviour.
THEOREM TypeCorrect == Safety => []TypeOK
  <1>1. IInv => TypeOK
    BY DEF IInv
  <1> QED
    BY <1>1, Invariant, PTL

\* For any folder tree and any number of updates, the helper of an update is
\* there exactly as long as a callback that uses it is due: none of the
\* callbacks of recurse_folders, of the refreshes and of the retrieval finds it
\* freed, and it is freed by the last.
THEOREM HelperAlive == Safety => []HelperHasCaller
  <1>1. IInv => HelperHasCaller
    BY DEF IInv, HelperHasCaller, Stage, Running, Resting, Listing, Refreshing, Fetching
  <1> QED
    BY <1>1, Invariant, PTL

\* However many updates of the account overlap and however each of them ends,
\* the account is left busy by none.
THEOREM BusyEnds == Safety => []BusyOnlyWhileUpdating
  <1>1. IInv => BusyOnlyWhileUpdating
    BY DEF IInv
  <1> QED
    BY <1>1, Invariant, PTL

\* An update that succeeds has told of all the headers it saw arrive, below the
\* size limit, and of no others.
THEOREM ToldAll == Safety => []TellsWhatItSaw
  <1>1. IInv => TellsWhatItSaw
    BY DEF IInv, TellsWhatItSaw, Stage, Running, Resting
  <1> QED
    BY <1>1, Invariant, PTL

-----------------------------------------------------------------------------
(* What an update has found, has refreshed and has still to refresh.       *)

\* The stores whose contents are known are those not being listed, of all that
\* have to be listed.
FoundAll(u) ==
    /\ info[u].pokeAll = hist[u].poked
    /\ \A s \in {Root} \union (IF hist[u].poked THEN info[u].folders ELSE {}) :
          s \in listings[u] \/ Children(s) \subseteq info[u].folders
    /\ ~hist[u].poked => /\ info[u].folders \subseteq Children(Root)
                         /\ listings[u] \subseteq {Root}

\* An update that neither failed nor was canceled so far: what it refreshed, is
\* refreshing and has left to refresh are the folders it is for.
OnItsWay(u) ==
    /\ op[u].status = "IN_PROGRESS"
    /\ listings[u] # {} => hist[u].refreshed = {} /\ FoundAll(u)
    /\ op[u].type = "SEND_AND_RECEIVE" =>
         /\ refreshing[u] # {} =>
              hist[u].refreshed \union refreshing[u] \union info[u].folders2
                = Due(hist[u].poked)
         /\ gets[u] # {} => hist[u].refreshed = Due(hist[u].poked)

\* What an update did that ended as a success.
DidIt(u) ==
    op[u].type = "SEND_AND_RECEIVE" /\ op[u].status = "SUCCESS" /\ ~hist[u].canceled
      => hist[u].refreshed = Due(hist[u].poked)

Completing(u) ==
    /\ phase[u] = "new" => hist[u].refreshed = {} /\ ~hist[u].canceled
    /\ phase[u] = "running" /\ ~hist[u].canceled /\ ~op[u].error => OnItsWay(u)
    /\ phase[u] = "ended" => DidIt(u)

\* The second inductive invariant.
CInv ==
    /\ IInv
    /\ \A u \in Updates : Completing(u)

\* A step of one update leaves the others where they are.
LEMMA OthersComplete ==
    ASSUME NEW v \in Updates, Completing(v),
           phase'[v] = phase[v], op'[v] = op[v], info'[v] = info[v],
           listings'[v] = listings[v], refreshing'[v] = refreshing[v],
           gets'[v] = gets[v], hist'[v] = hist[v]
    PROVE  Completing(v)'
  BY DEF Completing, OnItsWay, FoundAll, DidIt, Due, Children

LEMMA OneCompletes ==
    ASSUME CInv, NEW u \in Updates, Only(u), Completing(u)', IInv'
    PROVE  CInv'
  <1>1. ASSUME NEW v \in Updates \ {u} PROVE Completing(v)'
    BY OthersComplete DEF Only, CInv
  <1> QED
    BY <1>1 DEF CInv

\* An update that ends without success has nothing to show.
LEMMA FailureCompletes ==
    ASSUME NEW u \in Updates, phase'[u] = "ended", op'[u].status # "SUCCESS"
    PROVE  Completing(u)'
  BY DEF Completing, DidIt

\* How a step that ends an update, perhaps as a success, leaves it.
LEMMA SuccessIs ==
    ASSUME TypeOK, NEW u \in Updates, NEW headers \in SUBSET Msgs,
           NEW o \in Operation, Succeeds(u, o, headers)
    PROVE  /\ phase'[u] = "ended"
           /\ op'[u].type = o.type
           /\ op'[u].status = IF o.error THEN o.status ELSE "SUCCESS"
           /\ \A v \in Updates \ {u} : /\ phase'[v] = phase[v]
                                       /\ info'[v] = info[v]
                                       /\ reply'[v] = reply[v]
                                       /\ op'[v] = op[v]
  <1>1. PICK wakeups \in Nat : NotifyAndFree(u, headers, wakeups)
    BY Succeeding
  <1>2. /\ phase'[u] = "ended"
        /\ \A v \in Updates \ {u} : /\ phase'[v] = phase[v]
                                    /\ info'[v] = info[v]
                                    /\ reply'[v] = reply[v]
    BY <1>1, Ending
  <1>3. op' = [op EXCEPT ![u] = [o EXCEPT !.status = IF o.error THEN @ ELSE "SUCCESS"]]
    BY DEF Succeeds
  <1>4. op'[u] = [o EXCEPT !.status = IF o.error THEN o.status ELSE "SUCCESS"]
    BY <1>3 DEF TypeOK
  <1>5. /\ op'[u].type = o.type
        /\ op'[u].status = IF o.error THEN o.status ELSE "SUCCESS"
    BY <1>4 DEF Operation
  <1>6. \A v \in Updates \ {u} : op'[v] = op[v]
    BY <1>3 DEF TypeOK
  <1> QED
    BY <1>2, <1>5, <1>6

LEMMA ListFoldersCompletes ==
    ASSUME CInv, NEW u \in Updates, NEW type \in Types, NEW pokeAll \in BOOLEAN,
           ListFolders(u, type, pokeAll)
    PROVE  CInv'
  <1>1. TypeOK /\ Resting(u) /\ Completing(u) /\ IInv
    BY StageKnown DEF CInv, IInv, ListFolders
  <1>2. /\ info'[u].pokeAll = pokeAll /\ info'[u].folders = {}
    BY <1>1 DEF TypeOK, ListFolders, NoInfo
  <1>3. op'[u].status = "IN_PROGRESS"
    <2>1. op[u] \in Operation
      BY <1>1 DEF TypeOK
    <2>2. op'[u] = [op[u] EXCEPT !.type = type, !.status = "IN_PROGRESS"]
      BY <1>1 DEF TypeOK, ListFolders
    <2> QED
      BY <2>1, <2>2 DEF Operation
  <1>4. /\ hist'[u].poked = pokeAll /\ hist'[u].canceled = hist[u].canceled
        /\ hist'[u].refreshed = hist[u].refreshed
    <2>1. hist[u] \in History
      BY <1>1 DEF TypeOK
    <2>2. hist'[u] = [hist[u] EXCEPT !.poked = pokeAll]
      BY <1>1 DEF TypeOK, ListFolders
    <2> QED
      BY <2>1, <2>2 DEF History
  <1>5. /\ listings'[u] = {Root} /\ refreshing'[u] = {} /\ gets'[u] = {}
        /\ phase'[u] = "running"
    BY <1>1 DEF TypeOK, ListFolders, Resting
  <1>6. hist[u].refreshed = {}
    BY <1>1 DEF Completing, ListFolders
  <1>7. Completing(u)'
    BY <1>2, <1>3, <1>4, <1>5, <1>6 DEF Completing, OnItsWay, FoundAll
  <1>8. Only(u)
    BY <1>1 DEF TypeOK, ListFolders, Only
  <1> QED
    BY <1>1, <1>7, <1>8, ListFoldersKeeps, OneCompletes

LEMMA NoAccountCompletes ==
    ASSUME CInv, NEW u \in Updates, NEW type \in Types, NoAccount(u, type)
    PROVE  CInv'
  <1>1. TypeOK /\ Resting(u) /\ IInv
    BY StageKnown DEF CInv, IInv, NoAccount
  <1>2. IInv'
    BY <1>1, NoAccountKeeps
  <1>3. op'[u].status # "SUCCESS"
    <2> DEFINE o == [op[u] EXCEPT !.type = type]
    <2>1. o \in Operation /\ o.status # "SUCCESS"
      BY <1>1 DEF TypeOK, Operation, Resting, NoAccount
    <2>2. op'[u] = Failed(o)
      BY <1>1 DEF TypeOK, NoAccount
    <2> HIDE DEF o
    <2> QED
      BY <2>1, <2>2 DEF Failed, Operation, Statuses
  <1>4. phase'[u] = "ended"
    BY <1>1 DEF TypeOK, NoAccount
  <1>5. Only(u)
    BY <1>1 DEF TypeOK, NoAccount, Only, callVars
  <1> QED
    BY <1>2, <1>3, <1>4, <1>5, FailureCompletes, OneCompletes

\* Nothing is asked of an update that was canceled.
LEMMA CancelCompletes ==
    ASSUME CInv, NEW u \in Updates, Cancel(u)
    PROVE  CInv'
  <1>1. TypeOK /\ IInv
    BY DEF CInv, IInv
  <1>2. IInv'
    BY <1>1, CancelKeeps
  <1>3. hist'[u].canceled
    BY <1>1 DEF TypeOK, History, Cancel
  <1>4. phase'[u] = "running"
    BY DEF Cancel
  <1>5. Only(u)
    BY <1>1 DEF TypeOK, Cancel, callVars, Only
  <1> QED
    BY <1>2, <1>3, <1>4, <1>5, OneCompletes DEF Completing

LEMMA ProgressCompletes ==
    ASSUME CInv, NEW u \in Updates, NEW done \in Nat, NEW total \in Nat,
           Progress(u, done, total)
    PROVE  CInv'
  <1>1. TypeOK /\ IInv /\ Completing(u)
    BY DEF CInv, IInv
  <1>2. IInv'
    BY <1>1, ProgressKeeps
  <1>3. /\ op'[u].status = op[u].status /\ op'[u].type = op[u].type
        /\ op'[u].error = op[u].error
    <2>1. op[u] \in Operation
      BY <1>1 DEF TypeOK
    <2>2. op'[u] = [op[u] EXCEPT !.done = done, !.total = total]
      BY <1>1 DEF TypeOK, Progress
    <2> QED
      BY <2>1, <2>2 DEF Operation
  <1>4. Completing(u)'
    BY <1>1, <1>3
    DEF Completing, OnItsWay, FoundAll, DidIt, Due, Children, Progress, callVars
  <1>5. Only(u)
    BY <1>1 DEF TypeOK, Progress, callVars, Only
  <1> QED
    BY <1>2, <1>4, <1>5, OneCompletes

LEMMA NewHeaderCompletes ==
    ASSUME CInv, NEW m \in Msgs, NewHeader(m)
    PROVE  CInv'
  <1>1. TypeOK /\ IInv
    BY DEF CInv, IInv
  <1>2. IInv'
    BY <1>1, NewHeaderKeeps
  <1>3. ASSUME NEW u \in Updates PROVE Completing(u)'
    <2>1. info[u] \in Info /\ hist[u] \in History /\ Completing(u)
      BY <1>1 DEF TypeOK, CInv
    <2>2. \/ info'[u] = info[u]
          \/ info'[u] = [info[u] EXCEPT !.newHeaders = @ \union {m}]
      BY <1>1 DEF TypeOK, NewHeader
    <2>3. \/ hist'[u] = hist[u]
          \/ hist'[u] = [hist[u] EXCEPT !.seen = @ \union {m}]
      BY <1>1 DEF TypeOK, NewHeader
    <2>4. /\ info'[u].pokeAll = info[u].pokeAll /\ info'[u].folders = info[u].folders
          /\ info'[u].folders2 = info[u].folders2
      BY <2>1, <2>2 DEF Info
    <2>5. /\ hist'[u].refreshed = hist[u].refreshed
          /\ hist'[u].canceled = hist[u].canceled /\ hist'[u].poked = hist[u].poked
      BY <2>1, <2>3 DEF History
    <2> QED
      BY <2>1, <2>4, <2>5
      DEF Completing, OnItsWay, FoundAll, DidIt, Due, Children, NewHeader, callVars
  <1> QED
    BY <1>2, <1>3 DEF CInv

\* The folders an update has found when no listing is left, of those it is for.
LEMMA ChosenIsDue ==
    ASSUME NEW u \in Updates, NEW folders \in SUBSET Folders, NEW poked \in BOOLEAN,
           op[u].type = "SEND_AND_RECEIVE", op[u].status = "IN_PROGRESS",
           \A s \in {Root} \union (IF poked THEN folders ELSE {}) :
               Children(s) \subseteq folders,
           ~poked => folders \subseteq Children(Root)
    PROVE  ToRefresh(u, folders) = Due(poked)
  <1>1. CASE poked
    <2>1. folders = Folders
      BY <1>1, AllBelowRoot
    <2> QED
      BY <1>1, <2>1 DEF ToRefresh, Due
  <1>2. CASE ~poked
    <2>1. folders = Children(Root)
      BY <1>2
    <2> QED
      BY <1>2, <2>1 DEF ToRefresh, Due, Children
  <1> QED
    BY <1>1, <1>2

\* With all folders listed, those the update is for are the ones to refresh.
LEMMA AllListedCompletes ==
    ASSUME CInv, NEW u \in Updates, NEW i \in Info, listings[u] # {},
           AllListed(u, i), IInv',
           listings' = [listings EXCEPT ![u] = {}],
           UNCHANGED <<gets, known, hist>>,
           ~hist[u].canceled /\ ~op[u].error =>
               /\ \A s \in {Root} \union (IF hist[u].poked THEN i.folders ELSE {}) :
                     Children(s) \subseteq i.folders
               /\ ~hist[u].poked => i.folders \subseteq Children(Root)
    PROVE  CInv'
  <1>1. TypeOK /\ Running(u) /\ Listing(u) /\ Completing(u) /\ op[u] \in Operation
    BY StageKnown DEF CInv, IInv, TypeOK
  <1>2. listings'[u] = {} /\ gets'[u] = {} /\ hist'[u] = hist[u]
    BY <1>1 DEF TypeOK, Listing
  <1>3. i.folders \in SUBSET Folders /\ hist[u].poked \in BOOLEAN
    BY <1>1 DEF Info, TypeOK, History
  <1> DEFINE chosen == ToRefresh(u, i.folders)
  <1>4. ASSUME ~hist[u].canceled, ~op[u].error
        PROVE  /\ hist[u].refreshed = {} /\ op[u].status = "IN_PROGRESS"
               /\ op[u].type = "SEND_AND_RECEIVE" => chosen = Due(hist[u].poked)
    <2>1. OnItsWay(u)
      BY <1>1, <1>4 DEF Completing, Running
    <2>2. hist[u].refreshed = {} /\ op[u].status = "IN_PROGRESS"
      BY <2>1 DEF OnItsWay
    <2> QED
      BY <1>3, <1>4, <2>2, ChosenIsDue
  <1>5. CASE op[u].error
    <2>1. NotifyAndFree(u, {}, 0) /\ UNCHANGED <<op, refreshing>>
      BY <1>5 DEF AllListed
    <2>2. phase'[u] = "ended" /\ op'[u].status # "SUCCESS"
      BY <1>1, <2>1 DEF Running, NotifyAndFree, TypeOK
    <2>3. Only(u)
      BY <1>1, <2>1, Ending DEF TypeOK, Only
    <2> QED
      BY <2>2, <2>3, FailureCompletes, OneCompletes
  <1>6. CASE chosen = {} /\ Succeeds(u, op[u], {}) /\ UNCHANGED refreshing
    <2>1. /\ phase'[u] = "ended" /\ op'[u].type = op[u].type
          /\ op'[u].status = IF op[u].error THEN op[u].status ELSE "SUCCESS"
      BY <1>1, <1>6, SuccessIs
    <2>2. Only(u)
      BY <1>1, <1>6, SuccessIs DEF TypeOK, Only
    <2>3. Completing(u)'
      BY <1>1, <1>2, <1>4, <1>6, <2>1 DEF Completing, DidIt, Running, Due
    <2> QED
      BY <2>2, <2>3, OneCompletes
  <1>7. ASSUME ~op[u].error, NEW first \in chosen,
               refreshing' = [refreshing EXCEPT ![u] = {first}],
               info' = [info EXCEPT ![u] =
                          [i EXCEPT !.observed = chosen,
                                    !.folders2 = chosen \ {first}]],
               UNCHANGED <<phase, op, busy, reply>>
        PROVE  CInv'
    <2>1. info'[u].folders2 = chosen \ {first} /\ refreshing'[u] = {first}
      BY <1>1, <1>7 DEF TypeOK, Info
    <2>2. Completing(u)'
      <3>1. {first} \union (chosen \ {first}) = chosen
        BY <1>7
      <3> HIDE DEF chosen
      <3> QED
        BY <1>1, <1>2, <1>4, <1>7, <2>1, <3>1 DEF Completing, OnItsWay, Running, Due
    <2>3. Only(u)
      BY <1>1, <1>7 DEF TypeOK, Only
    <2> QED
      BY <2>2, <2>3, OneCompletes
  <1> QED
    BY <1>5, <1>6, <1>7 DEF AllListed

\* What a listing finds is found, and is listed in turn.
LEMMA ListedCompletes ==
    ASSUME CInv, NEW u \in Updates, NEW s \in Folders \union {Root}, Listed(u, s)
    PROVE  CInv'
  <1> DEFINE found == Children(s)
             more  == IF info[u].pokeAll THEN found ELSE {}
             left  == (listings[u] \ {s}) \union more
             i     == [info[u] EXCEPT !.folders = @ \union found,
                                      !.pending = @ + Cardinality(more) - 1]
  <1>1. /\ IInv /\ TypeOK /\ Running(u) /\ Listing(u) /\ Completing(u)
        /\ s \in listings[u]
        /\ info[u] \in Info /\ listings[u] \in SUBSET (Folders \union {Root})
    BY StageKnown DEF CInv, IInv, Listed, TypeOK
  <1>2. IInv'
    BY <1>1, ListedKeeps
  <1>3. /\ more \in SUBSET Folders /\ left \in SUBSET (Folders \union {Root})
        /\ listings[u] \intersect more = {}
        /\ s = Root \/ s \in info[u].folders
    BY <1>1, UpdateAssumption, NotInItself DEF Listing, Children
  <1>4. /\ i.folders = info[u].folders \union found
        /\ i.pending = info[u].pending + Cardinality(more) - 1
        /\ i.pokeAll = info[u].pokeAll /\ i \in Info
    <2>1. info[u].pending + Cardinality(more) - 1 \in Int
      BY <1>1, <1>3, StoresFinite DEF Info
    <2>2. info[u].folders \union found \in SUBSET Folders
      BY <1>1 DEF Info, Children
    <2> HIDE DEF found, more
    <2> QED
      BY <1>1, <2>1, <2>2 DEF Info
  <1>5. i.pending = Cardinality(left)
    <2>1. Cardinality(left) = Cardinality(listings[u]) - 1 + Cardinality(more)
      BY <1>1, <1>3, MoreListings
    <2>2. Cardinality(more) \in Nat /\ Cardinality(listings[u]) \in Nat
      BY <1>1, <1>3, StoresFinite
    <2> QED
      BY <1>1, <1>4, <2>1, <2>2 DEF Listing
  <1>6. ASSUME ~hist[u].canceled, ~op[u].error
        PROVE  /\ \A t \in {Root} \union (IF hist[u].poked THEN i.folders ELSE {}) :
                     t \in left \/ Children(t) \subseteq i.folders
               /\ ~hist[u].poked => i.folders \subseteq Children(Root) /\ left = {}
               /\ i.pokeAll = hist[u].poked /\ hist[u].refreshed = {}
               /\ op[u].status = "IN_PROGRESS"
    <2>1. OnItsWay(u) /\ FoundAll(u)
      BY <1>1, <1>6 DEF Completing, OnItsWay, Running
    <2>2. ASSUME NEW t \in {Root} \union (IF hist[u].poked THEN i.folders ELSE {})
          PROVE  t \in left \/ Children(t) \subseteq i.folders
      <3>1. CASE t = s
        BY <1>4, <3>1
      <3>2. CASE t # s /\ (t = Root \/ t \in info[u].folders)
        BY <1>4, <2>1, <2>2, <3>2 DEF FoundAll
      <3>3. CASE t # Root /\ t \notin info[u].folders
        BY <1>4, <2>1, <2>2, <3>3 DEF FoundAll
      <3> QED
        BY <3>1, <3>2, <3>3
    <2>3. ~hist[u].poked => i.folders \subseteq Children(Root) /\ left = {}
      <3>1. ~hist[u].poked => /\ info[u].folders \subseteq Children(Root)
                              /\ listings[u] = {Root} /\ s = Root /\ more = {}
        BY <1>1, <2>1 DEF FoundAll
      <3> QED
        BY <1>4, <3>1
    <2> QED
      BY <1>1, <1>4, <2>1, <2>2, <2>3 DEF FoundAll, OnItsWay
  <1>7. /\ listings' = [listings EXCEPT ![u] = left] /\ UNCHANGED <<gets, known, hist>>
        /\ listings'[u] = left
    BY <1>1 DEF Listed, TypeOK
  <1>8. CASE i.pending = 0
    <2>1. left = {}
      BY <1>3, <1>5, <1>8, NoListingLeft
    <2>2. AllListed(u, i) /\ listings[u] # {}
      BY <1>1, <1>8 DEF Listed
    <2>3. listings' = [listings EXCEPT ![u] = {}]
      BY <1>7, <2>1
    <2>4. ~hist[u].canceled /\ ~op[u].error =>
               /\ \A t \in {Root} \union (IF hist[u].poked THEN i.folders ELSE {}) :
                     Children(t) \subseteq i.folders
               /\ ~hist[u].poked => i.folders \subseteq Children(Root)
      <3> HIDE DEF i, left
      <3> QED
        BY <1>6, <2>1
    <2> HIDE DEF i
    <2> QED
      BY <1>2, <1>4, <1>7, <2>2, <2>3, <2>4, AllListedCompletes
  <1>9. CASE i.pending # 0
    <2>1. info' = [info EXCEPT ![u] = i] /\ UNCHANGED <<phase, op, refreshing, busy, reply>>
      BY <1>9 DEF Listed
    <2> HIDE DEF i, left
    <2>2. info'[u] = i /\ hist'[u] = hist[u] /\ op'[u] = op[u]
          /\ refreshing'[u] = {} /\ gets'[u] = {} /\ phase'[u] = "running"
      BY <1>1, <1>7, <2>1 DEF TypeOK, Listing, Running
    <2>3. Completing(u)'
      BY <1>6, <1>7, <2>2 DEF Completing, OnItsWay, FoundAll, Children
    <2>4. Only(u)
      BY <1>1, <1>7, <2>1 DEF TypeOK, Only
    <2> QED
      BY <1>2, <2>3, <2>4, OneCompletes
  <1> QED
    BY <1>8, <1>9

LEMMA ListAgainCompletes ==
    ASSUME CInv, NEW u \in Updates, NEW s \in Folders \union {Root}, ListAgain(u, s)
    PROVE  CInv'
  <1> DEFINE i == Relist(info[u])
  <1>1. /\ IInv /\ TypeOK /\ Running(u) /\ Listing(u) /\ Completing(u)
        /\ info[u] \in Info /\ info[u].retries > 0
        /\ s \in listings[u] /\ listings[u] \in SUBSET (Folders \union {Root})
    BY StageKnown DEF CInv, IInv, ListAgain, TypeOK, MayRelist
  <1>2. IInv'
    BY <1>1, ListAgainKeeps
  <1>3. info[u].pending # 0 /\ info[u].pending \in Int
    BY <1>1, NoListingLeft DEF Listing, Info
  <1>4. /\ i.pending = info[u].pending /\ i.folders = info[u].folders
        /\ i.pokeAll = info[u].pokeAll /\ i.folders2 = info[u].folders2
    <2>1. (info[u].pending + 1) - 1 = info[u].pending
      BY <1>3
    <2> QED
      BY <1>1, <2>1 DEF Relist, Info
  <1>5. /\ info' = [info EXCEPT ![u] = i]
        /\ UNCHANGED <<phase, op, refreshing, busy, reply, listings, gets, known, hist>>
    BY <1>3, <1>4 DEF ListAgain
  <1> HIDE DEF i
  <1>6. info'[u] = i
    BY <1>1, <1>5 DEF TypeOK
  <1>7. Completing(u)'
    BY <1>1, <1>4, <1>5, <1>6
    DEF Completing, OnItsWay, FoundAll, DidIt, Due, Children
  <1>8. Only(u)
    BY <1>1, <1>5 DEF TypeOK, Only
  <1> QED
    BY <1>2, <1>7, <1>8, OneCompletes

\* A listing that failed for good leaves an error.
LEMMA ListFailsCompletes ==
    ASSUME CInv, NEW u \in Updates, NEW s \in Folders \union {Root},
           NEW err \in BOOLEAN, ListFails(u, s, err)
    PROVE  CInv'
  <1>1. IInv /\ TypeOK /\ Running(u) /\ op[u] \in Operation
    BY StageKnown DEF CInv, IInv, ListFails, TypeOK
  <1>2. IInv'
    BY <1>1, ListFailsKeeps
  <1>3. op'[u].error /\ op'[u].status # "SUCCESS"
    <2>1. op'[u] = Failed(op[u])
      BY <1>1 DEF TypeOK, ListFails
    <2>2. op[u].status # "SUCCESS"
      BY <1>1 DEF Running
    <2> QED
      BY <1>1, <2>1, <2>2 DEF Failed, Operation
  <1>4. /\ phase'[u] \in {"running", "ended"}
        /\ \A v \in Updates \ {u} : /\ phase'[v] = phase[v] /\ info'[v] = info[v]
                                    /\ reply'[v] = reply[v]
    BY <1>1, Ending DEF ListFails, TypeOK, Running
  <1>5. Completing(u)'
    BY <1>3, <1>4 DEF Completing, DidIt
  <1>6. Only(u)
    BY <1>1, <1>4 DEF ListFails, TypeOK, Only
  <1> QED
    BY <1>2, <1>5, <1>6, OneCompletes

LEMMA RefreshFailsCompletes ==
    ASSUME CInv, NEW u \in Updates, RefreshFails(u)
    PROVE  CInv'
  <1>1. IInv /\ TypeOK /\ op[u] \in Operation
    BY DEF CInv, IInv, TypeOK
  <1>2. IInv'
    BY <1>1, RefreshFailsKeeps
  <1>3. op'[u].status # "SUCCESS" /\ phase'[u] = "ended"
    BY <1>1 DEF RefreshFails, TypeOK, Operation, NotifyAndFree
  <1>4. Only(u)
    BY <1>1, Ending DEF RefreshFails, TypeOK, Only
  <1> QED
    BY <1>2, <1>3, <1>4, FailureCompletes, OneCompletes

\* The last folder to refresh is refreshed when no other is left.
LEMMA FolderRefreshedCompletes ==
    ASSUME CInv, NEW u \in Updates, FolderRefreshed(u)
    PROVE  CInv'
  <1> DEFINE headers == info[u].newHeaders \intersect Small
  <1>1. /\ IInv /\ TypeOK /\ Running(u) /\ Refreshing(u) /\ Completing(u)
        /\ info[u] \in Info /\ op[u] \in Operation
    BY StageKnown DEF CInv, IInv, FolderRefreshed, TypeOK
  <1>2. IInv'
    BY <1>1, FolderRefreshedKeeps
  <1>3. /\ hist'[u].refreshed = hist[u].refreshed \union refreshing[u]
        /\ hist'[u].canceled = hist[u].canceled /\ hist'[u].poked = hist[u].poked
        /\ \A v \in Updates \ {u} : hist'[v] = hist[v]
    <2>1. hist[u] \in History
      BY <1>1 DEF TypeOK
    <2>2. /\ hist' = [hist EXCEPT ![u] = hist'[u]]
          /\ hist'[u] = [hist[u] EXCEPT !.refreshed = @ \union refreshing[u]]
      BY <1>1 DEF TypeOK, FolderRefreshed
    <2> QED
      BY <1>1, <2>1, <2>2 DEF TypeOK, History
  <1>4. /\ UNCHANGED <<listings, known>> /\ listings'[u] = {} /\ gets[u] = {}
        /\ headers \in SUBSET Msgs
    BY <1>1 DEF FolderRefreshed, Refreshing, Info
  <1>5. ASSUME ~hist[u].canceled, ~op[u].error
        PROVE  /\ op[u].status = "IN_PROGRESS"
               /\ op[u].type = "SEND_AND_RECEIVE" =>
                    hist'[u].refreshed \union info[u].folders2 = Due(hist[u].poked)
    BY <1>1, <1>3, <1>5 DEF Completing, OnItsWay, Running, Refreshing
  <1>6. ASSUME NEW next \in info[u].folders2,
               refreshing' = [refreshing EXCEPT ![u] = {next}],
               info' = [info EXCEPT ![u].folders2 = @ \ {next}],
               UNCHANGED <<phase, op, gets, busy, reply>>
        PROVE  CInv'
    <2>1. info'[u].folders2 = info[u].folders2 \ {next} /\ refreshing'[u] = {next}
      BY <1>1, <1>6 DEF TypeOK, Info
    <2>2. {next} \union (info[u].folders2 \ {next}) = info[u].folders2
      BY <1>6
    <2>3. Completing(u)'
      BY <1>1, <1>3, <1>4, <1>5, <1>6, <2>1, <2>2 DEF Completing, OnItsWay, Running, Due
    <2>4. Only(u)
      BY <1>1, <1>3, <1>4, <1>6 DEF TypeOK, Only
    <2> QED
      BY <1>2, <2>3, <2>4, OneCompletes
  <1>7. ASSUME info[u].folders2 = {}, refreshing' = [refreshing EXCEPT ![u] = {}],
               Succeeds(u, op[u], headers), UNCHANGED gets
        PROVE  CInv'
    <2> HIDE DEF headers
    <2>1. /\ phase'[u] = "ended" /\ op'[u].type = op[u].type
          /\ op'[u].status = IF op[u].error THEN op[u].status ELSE "SUCCESS"
      BY <1>1, <1>4, <1>7, SuccessIs
    <2>2. Only(u)
      <3>1. \A v \in Updates \ {u} : /\ phase'[v] = phase[v] /\ info'[v] = info[v]
                                     /\ reply'[v] = reply[v] /\ op'[v] = op[v]
        BY <1>1, <1>4, <1>7, SuccessIs
      <3> QED
        BY <1>1, <1>3, <1>4, <1>7, <3>1 DEF TypeOK, Only
    <2>3. Completing(u)'
      BY <1>1, <1>3, <1>5, <1>7, <2>1 DEF Completing, DidIt, Running, Due
    <2> QED
      BY <1>2, <2>2, <2>3, OneCompletes
  <1>8. ASSUME info[u].folders2 = {}, refreshing' = [refreshing EXCEPT ![u] = {}],
               headers # {}, Retrieve(u, headers)
        PROVE  CInv'
    <2>1. PICK fetched \in kSubset(Retrieved(headers), headers) :
             /\ gets' = [gets EXCEPT ![u] = fetched]
             /\ op' = [op EXCEPT ![u].done = 0, ![u].total = Cardinality(fetched)]
             /\ info' = [info EXCEPT ![u].observed = {}, ![u].newHeaders = headers]
             /\ UNCHANGED <<phase, busy, reply>>
      BY <1>8 DEF Retrieve
    <2> HIDE DEF headers
    <2>2. /\ op'[u].status = op[u].status /\ op'[u].type = op[u].type
          /\ op'[u].error = op[u].error
      <3> DEFINE n == Cardinality(fetched)
      <3>1. op'[u] = [op[u] EXCEPT !.done = 0, !.total = n]
        BY <1>1, <2>1 DEF TypeOK
      <3> HIDE DEF n
      <3> QED
        BY <1>1, <3>1 DEF Operation
    <2>3. refreshing'[u] = {}
      BY <1>1, <1>8 DEF TypeOK
    <2>4. Completing(u)'
      BY <1>1, <1>3, <1>4, <1>5, <1>8, <2>1, <2>2, <2>3
      DEF Completing, OnItsWay, Running, Due
    <2>5. Only(u)
      BY <1>1, <1>3, <1>4, <1>8, <2>1 DEF TypeOK, Only
    <2> QED
      BY <1>2, <2>4, <2>5, OneCompletes
  <1> QED
    BY <1>6, <1>7, <1>8 DEF FolderRefreshed, LastRefreshed

LEMMA GotMsgCompletes ==
    ASSUME CInv, NEW u \in Updates, NEW m \in Msgs, GotMsg(u, m)
    PROVE  CInv'
  <1> DEFINE o == [op[u] EXCEPT !.done = @ + 1]
             headers == info[u].newHeaders
  <1>1. /\ IInv /\ TypeOK /\ Running(u) /\ Fetching(u) /\ Completing(u)
        /\ info[u] \in Info /\ op[u] \in Operation /\ gets[u] # {}
    BY StageKnown DEF CInv, IInv, GotMsg, TypeOK
  <1>2. IInv'
    BY <1>1, GotMsgKeeps
  <1>3. /\ o \in Operation /\ o.type = op[u].type /\ o.status = op[u].status
        /\ o.error = op[u].error
    BY <1>1 DEF Operation
  <1>4. /\ UNCHANGED <<listings, refreshing, known, hist>>
        /\ listings'[u] = {} /\ refreshing'[u] = {}
        /\ \A v \in Updates \ {u} : gets'[v] = gets[v]
        /\ headers \in SUBSET Msgs
    BY <1>1 DEF TypeOK, GotMsg, Fetching, Info
  <1>5. ASSUME ~hist[u].canceled, ~op[u].error
        PROVE  /\ op[u].status = "IN_PROGRESS"
               /\ op[u].type = "SEND_AND_RECEIVE" =>
                    hist[u].refreshed = Due(hist[u].poked)
    BY <1>1, <1>5 DEF Completing, OnItsWay, Running
  <1>6. CASE o.done = o.total
    <2>1. Succeeds(u, o, headers)
      BY <1>6 DEF GotMsg
    <2> HIDE DEF o, headers
    <2>2. /\ phase'[u] = "ended" /\ op'[u].type = o.type
          /\ op'[u].status = IF o.error THEN o.status ELSE "SUCCESS"
      BY <1>1, <1>3, <1>4, <2>1, SuccessIs
    <2>3. Only(u)
      BY <1>1, <1>3, <1>4, <2>1, SuccessIs DEF Only
    <2>4. Completing(u)'
      BY <1>1, <1>3, <1>4, <1>5, <2>2 DEF Completing, DidIt, Running, Due
    <2> QED
      BY <1>2, <2>3, <2>4, OneCompletes
  <1>7. CASE o.done # o.total
    <2>1. op' = [op EXCEPT ![u] = o] /\ UNCHANGED <<phase, info, busy, reply>>
      BY <1>7 DEF GotMsg
    <2> HIDE DEF o
    <2>2. op'[u] = o
      BY <1>1, <2>1 DEF TypeOK
    <2>3. Completing(u)'
      BY <1>1, <1>3, <1>4, <1>5, <2>1, <2>2 DEF Completing, OnItsWay, Running, Due
    <2>4. Only(u)
      BY <1>1, <1>4, <2>1 DEF TypeOK, Only
    <2> QED
      BY <1>2, <2>3, <2>4, OneCompletes
  <1> QED
    BY <1>6, <1>7

LEMMA CompletingInit == Init => CInv
  BY InvariantInit DEF Init, CInv, Completing

LEMMA CompletingStep == CInv /\ [Next]_vars => CInv'
  <1> SUFFICES ASSUME CInv, [Next]_vars PROVE CInv'
    OBVIOUS
  <1>1. ASSUME NEW m \in Msgs, NewHeader(m) PROVE CInv'
    BY <1>1, NewHeaderCompletes
  <1>2. ASSUME NEW u \in Updates, NEW type \in Types, NEW pokeAll \in BOOLEAN,
               ListFolders(u, type, pokeAll)
        PROVE  CInv'
    BY <1>2, ListFoldersCompletes
  <1>3. ASSUME NEW u \in Updates, NEW type \in Types, NoAccount(u, type) PROVE CInv'
    BY <1>3, NoAccountCompletes
  <1>4. ASSUME NEW u \in Updates, Cancel(u) PROVE CInv'
    BY <1>4, CancelCompletes
  <1>5. ASSUME NEW u \in Updates, NEW n \in 0..MaxPosition,
               Progress(u, n, MaxPosition)
        PROVE  CInv'
    BY <1>5, ProgressCompletes, UpdateAssumption
  <1>6. ASSUME NEW u \in Updates, Answer(u) PROVE CInv'
    BY <1>6, ListedCompletes, ListAgainCompletes, ListFailsCompletes,
       RefreshFailsCompletes, FolderRefreshedCompletes, GotMsgCompletes DEF Answer
  <1>7. CASE UNCHANGED vars
    <2>1. IInv'
      BY <1>7, InvariantStep DEF CInv
    <2>2. \A u \in Updates : Completing(u)'
      BY <1>7, OthersComplete DEF vars, callVars, CInv
    <2> QED
      BY <2>1, <2>2 DEF CInv
  <1>8. "SEND_AND_RECEIVE" \in Types /\ "UPDATE_FOLDER_COUNTS" \in Types /\ TRUE \in BOOLEAN
    BY DEF Types
  <1> QED
    BY <1>1, <1>2, <1>3, <1>4, <1>5, <1>6, <1>7, <1>8
    DEF Next, UpdateAccount, UpdateFolderCounts

\* In any tree of folders, whatever the order its listings come back in and
\* whichever of them had to be made again, an update that ends as a success and
\* was not canceled has refreshed every folder it is for.
THEOREM RefreshedAll == Safety => []SuccessIsComplete
  <1>1. CInv => SuccessIsComplete
    BY DEF CInv, Completing, DidIt, SuccessIsComplete
  <1> QED
    BY <1>1, CompletingInit, CompletingStep, PTL DEF Safety
=============================================================================
