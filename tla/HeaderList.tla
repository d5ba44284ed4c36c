----------------------------- MODULE HeaderList ------------------------------
(* The list of a folder's messages: the header view                         *)
(* (widgets/modest-header-view.c) and the window around it, which shows     *)
(* either the list or "no messages" (widgets/modest-header-window.c).       *)
(*                                                                          *)
(* Nothing here happens at once.  The headers arrive some time after they   *)
(* are asked for, the folder is refreshed by a mail operation and tells of  *)
(* changes later still, the model adds and drops rows in batches, a new     *)
(* search is applied to the rows chunk by chunk, and the window learns that *)
(* all or not all are hidden one second after.  A reload after a            *)
(* synchronisation starts all of that again over what is still pending.     *)
EXTENDS Naturals, Sequences, FiniteSets

CONSTANTS
    MaxDate,    \* the messages, by date: 1 to MaxDate
    Latest,     \* SHOW_LATEST_SIZE: the rows of a limited list
    MaxChanges, \* bound of the messages that come or go
    MaxModels   \* bound of the models made: one, and one for each reload

ASSUME HeaderListAssumption ==
    {MaxDate, Latest, MaxChanges, MaxModels} \subseteq Nat \ {0}

Dates == 1..MaxDate

VARIABLES
    inFolder,  \* messages of the folder
    deleted,   \* messages with a DELETED flag, which the list hides
    happened,  \* changes of the folder so far
    changes,   \* changes the folder has not told its observers of
    limited,   \* limit_headers: the account asks for a limited list
    list,      \* the header view
    contents,  \* contents_state of the window
    refreshes, \* refreshes pending: whether each has the window's callback
    listings,  \* models that wait for their headers
    reloads    \* synchronisations pending, each to be followed by a reload

headerListVars ==
    <<inFolder, deleted, happened, changes, limited, list, contents,
      refreshes, listings, reloads>>

NoSearch == Dates  \* no filter_string: every message matches

(* model is the number of the model shown and made the last one made; the   *)
(* monitor feeds the changes of the folder to one of them.  Of the model    *)
(* shown: listed are its headers, rows those already in it (sorted by       *)
(* date), shown the rows the filter lets through.  refilter walks the rows  *)
(* of a model from position at, while iterator says that it still can.      *)
(* History: failed says that the last listing did, quiet that the last      *)
(* refresh ended with no callback, since when nothing updated the window.   *)
NoWalk == [on |-> FALSE, model |-> 0, at |-> 0, iterator |-> FALSE]

NoList ==
    [folder |-> FALSE, made |-> 0, model |-> 0, monitor |-> 0,
     listed |-> {}, rows |-> {}, shown |-> {}, status |-> "INIT",
     timer |-> FALSE, notify |-> TRUE, observing |-> FALSE,
     latest |-> 0, search |-> NoSearch,
     refilter |-> NoWalk,
     failed |-> FALSE, quiet |-> FALSE]

HeaderListInit ==
    /\ inFolder \in SUBSET Dates /\ deleted \in SUBSET Dates
    /\ limited \in BOOLEAN
    /\ happened = 0 /\ changes = <<>>
    /\ list = NoList /\ contents = "NONE"
    /\ refreshes = <<>> /\ listings = <<>> /\ reloads = 0

Visible(v, d) == d \notin deleted /\ d \in v.search

\* Mutant: only a list with nothing to show is told of.
FilteredTellsEmpty(v, ds) ==
    LET seen == {d \in ds : Visible(v, d)}
        status == IF v.status = "NON_EMPTY" \/ seen # {} THEN "NON_EMPTY"
                  ELSE IF ds = {} THEN v.status ELSE "EMPTY"
    IN [v EXCEPT !.shown = (@ \ ds) \cup seen, !.status = status,
                 !.timer = @ \/ (v.notify /\ v.status = "INIT" /\ seen = {})]

(* filter_row for these rows.  The status goes from INIT to EMPTY or        *)
(* NON_EMPTY and from EMPTY to NON_EMPTY, and never back.                   *)
Filtered(v, ds) ==
    LET seen == {d \in ds : Visible(v, d)}
        status == IF v.status = "NON_EMPTY" \/ seen # {} THEN "NON_EMPTY"
                  ELSE IF ds = {} THEN v.status ELSE "EMPTY"
    IN [v EXCEPT !.shown = (@ \ ds) \cup seen, !.status = status,
                 !.timer = @ \/ (v.notify /\ status # v.status)]

\* refilter_by_chunks
Walk(v) ==
    [v EXCEPT !.refilter =
        IF v.rows = {} THEN NoWalk
        ELSE [on |-> TRUE, model |-> v.model, at |-> 1, iterator |-> TRUE]]

Refiltered(v) == IF v.model = 0 THEN v ELSE Walk([v EXCEPT !.status = "INIT"])

Cleared(v) ==
    [v EXCEPT !.folder = FALSE, !.observing = FALSE,
              !.timer = @ /\ ~v.folder, !.monitor = 0, !.model = 0,
              !.listed = {}, !.rows = {}, !.shown = {}]

FolderSet(v) ==
    [v EXCEPT !.folder = TRUE, !.made = @ + 1, !.model = v.made + 1,
              !.listed = {}, !.rows = {}, !.shown = {},
              !.status = "INIT", !.notify = FALSE,
              !.observing = @ /\ ~v.folder, !.timer = @ /\ ~v.folder,
              !.failed = FALSE]

(* update_view for a folder that has this many messages; refilter is set    *)
(* by a change that removes some.  A list without a folder stays as it is.  *)
UpdateView(v, count, refilter) ==
    IF v.folder
    THEN /\ contents' = IF count = 0 \/ v.status = "EMPTY" THEN "EMPTY"
                        ELSE "HEADERS"
         /\ list' = [IF refilter THEN Refiltered(v) ELSE v
                        EXCEPT !.quiet = FALSE]
    ELSE list' = v /\ UNCHANGED contents

AllCount == Cardinality(inFolder)

folderVars == <<inFolder, deleted, happened, changes, limited>>
askedVars  == <<refreshes, listings, reloads>>

-----------------------------------------------------------------------------
\* modest_header_window_new
OpenWindow ==
    /\ contents = "NONE"
    /\ LET v == [NoList EXCEPT !.latest = IF limited THEN Latest ELSE 0]
       IN UpdateView(FolderSet(v), AllCount, FALSE)
    /\ refreshes' = <<TRUE>> /\ listings' = <<1>>
    /\ UNCHANGED <<folderVars, reloads>>

\* Mutant: a monitor that is there is kept.
KeepMonitor ==
    /\ listings # <<>>
    /\ LET m == Head(listings)
       IN list' = [list EXCEPT !.monitor = IF @ = 0 THEN m ELSE @,
                               !.listed = IF m = list.model THEN inFolder
                                          ELSE @]
    /\ listings' = Tail(listings)
    /\ UNCHANGED <<folderVars, contents, refreshes, reloads>>

(* The headers of a model, as the folder is now: from here on the monitor    *)
(* feeds that model.  tinymail may have read them earlier; what it does with *)
(* the changes in between is not in this repository.                         *)
HeadersListed ==
    /\ listings # <<>>
    /\ LET m == Head(listings)
       IN list' = [list EXCEPT !.monitor = m,
                               !.listed = IF m = list.model THEN inFolder
                                          ELSE @]
    /\ listings' = Tail(listings)
    /\ UNCHANGED <<folderVars, contents, refreshes, reloads>>

ListingFails ==
    /\ listings # <<>>
    /\ list' = [list EXCEPT !.failed = @ \/ Head(listings) = list.model]
    /\ listings' = Tail(listings)
    /\ UNCHANGED <<folderVars, contents, refreshes, reloads>>

\* A message comes to the folder or is expunged from it.
FolderChanges(d) ==
    /\ happened < MaxChanges
    /\ happened' = happened + 1
    /\ inFolder' = IF d \in inFolder THEN inFolder \ {d} ELSE inFolder \cup {d}
    /\ changes' = Append(changes,
                         [date |-> d, added |-> d \notin inFolder,
                          count |-> Cardinality(inFolder')])
    /\ UNCHANGED <<deleted, limited, list, contents>> /\ UNCHANGED askedVars

(* The observers of the folder are told of a change: the monitor and, from  *)
(* the end of the refresh on, the view (folder_monitor_update).  A change   *)
(* of the number of messages carries it or leaves it to be asked for.       *)
ChangeTold ==
    /\ changes # <<>>
    /\ LET c == Head(changes)
           v == IF list.model = 0 \/ list.monitor # list.model THEN list
                ELSE [list EXCEPT !.listed = IF c.added THEN @ \cup {c.date}
                                             ELSE @ \ {c.date}]
       IN IF list.observing
          THEN \E count \in {c.count, AllCount} :
                  UpdateView(v, count, ~c.added)
          ELSE list' = v /\ UNCHANGED contents
    /\ changes' = Tail(changes)
    /\ UNCHANGED <<inFolder, deleted, happened, limited>>
    /\ UNCHANGED askedVars

(* The model shows the newest of its headers, or all of them, and brings    *)
(* its rows up to date in batches.  A new row may move the others so that   *)
(* an iterator is not valid any more; a removed one always does.            *)
Wanted(v) ==
    IF v.latest = 0 THEN v.listed
    ELSE {d \in v.listed :
            Cardinality({e \in v.listed : e > d}) < v.latest}

InsertRow(d) ==
    /\ d \in Wanted(list) \ list.rows
    /\ \E valid \in {list.refilter.iterator, FALSE} :
          list' = [Filtered([list EXCEPT !.rows = @ \cup {d}], {d})
                      EXCEPT !.refilter.iterator = valid]
    /\ UNCHANGED folderVars /\ UNCHANGED contents /\ UNCHANGED askedVars

DeleteRow(d) ==
    /\ d \in list.rows \ Wanted(list)
    /\ list' = [list EXCEPT !.rows = @ \ {d}, !.shown = @ \ {d},
                            !.refilter.iterator = FALSE]
    /\ UNCHANGED folderVars /\ UNCHANGED contents /\ UNCHANGED askedVars

\* Mutant: the walk ends where its iterator is not valid any more.
WalkEnds ==
    LET r == list.refilter
        here == {d \in list.rows :
                    Cardinality({e \in list.rows : e > d}) = r.at - 1}
        more == r.at < Cardinality(list.rows)
    IN /\ r.on
       /\ list' = IF r.model # list.model \/ ~r.iterator
                  THEN [list EXCEPT !.refilter = NoWalk]
                  ELSE [Filtered(list, here) EXCEPT !.refilter =
                           IF more THEN [r EXCEPT !.at = @ + 1] ELSE NoWalk]
       /\ UNCHANGED folderVars /\ UNCHANGED contents /\ UNCHANGED askedVars

(* refilter_idle_handler, one row at a time (a chunk is 100 rows).          *)
RefilterIdle ==
    LET r == list.refilter
        here == {d \in list.rows :
                    Cardinality({e \in list.rows : e > d}) = r.at - 1}
        more == r.at < Cardinality(list.rows)
    IN /\ r.on
       /\ list' = IF r.model # list.model
                  THEN [list EXCEPT !.refilter = NoWalk]
                  ELSE IF ~r.iterator THEN Walk(list)
                  ELSE [Filtered(list, here) EXCEPT !.refilter =
                           IF more THEN [r EXCEPT !.at = @ + 1] ELSE NoWalk]
       /\ UNCHANGED folderVars /\ UNCHANGED contents /\ UNCHANGED askedVars

(* notify_filter_change, a second after the status changed.                 *)
StatusTimeout ==
    /\ list.timer
    /\ UpdateView([list EXCEPT !.timer = FALSE], AllCount, FALSE)
    /\ UNCHANGED folderVars /\ UNCHANGED askedVars

(* folder_refreshed_cb: the window's callback, if the refresh has it, then  *)
(* the view observes the folder and tells of what its filter does.          *)
RefreshEnds(i) ==
    /\ i \in 1..Len(refreshes)
    /\ LET v == [list EXCEPT !.observing = TRUE,
                             !.notify = @ \/ list.folder]
       IN IF refreshes[i]
          THEN UpdateView(v, AllCount, FALSE)
          ELSE list' = [v EXCEPT !.quiet = TRUE] /\ UNCHANGED contents
    /\ refreshes' = SubSeq(refreshes, 1, i - 1) \o
                    SubSeq(refreshes, i + 1, Len(refreshes))
    /\ UNCHANGED folderVars /\ UNCHANGED <<listings, reloads>>

(* isearch_toolbar_search: all messages are searched, not the latest.       *)
Search(found) ==
    /\ contents # "NONE"
    /\ UpdateView(Refiltered([list EXCEPT !.search = found, !.latest = 0]),
                  AllCount, FALSE)
    /\ UNCHANGED folderVars /\ UNCHANGED askedVars

(* isearch_toolbar_close, or a search for nothing.                          *)
SearchEnds ==
    /\ contents # "NONE"
    /\ LET v == [list EXCEPT !.search = NoSearch,
                             !.latest = IF limited THEN Latest ELSE 0]
       IN UpdateView(Refiltered(v), AllCount, FALSE)
    /\ UNCHANGED folderVars /\ UNCHANGED askedVars

(* idle_refresh_folder, after new mail came: the folder is synchronised.    *)
IdleRefreshFolder ==
    /\ list.folder /\ list.made + reloads < MaxModels
    /\ reloads' = reloads + 1
    /\ UNCHANGED folderVars /\ UNCHANGED <<list, contents>>
    /\ UNCHANGED <<refreshes, listings>>

(* sync_folder_cb: the same folder is cleared and set again, refreshed with *)
(* no callback.                                                             *)
SyncSucceeds ==
    /\ reloads > 0 /\ reloads' = reloads - 1
    /\ list' = FolderSet(Cleared(list))
    /\ refreshes' = Append(refreshes, FALSE)
    /\ listings' = Append(listings, list'.model)
    /\ UNCHANGED folderVars /\ UNCHANGED contents

SyncFails ==
    /\ reloads > 0 /\ reloads' = reloads - 1
    /\ UNCHANGED folderVars /\ UNCHANGED <<list, contents>>
    /\ UNCHANGED <<refreshes, listings>>

\* on_account_removed, for the account of the folder.
ListAccountRemoved ==
    /\ list.folder
    /\ list' = Cleared(list)
    /\ UNCHANGED folderVars /\ UNCHANGED contents /\ UNCHANGED askedVars

HeaderListNext ==
    \/ OpenWindow \/ HeadersListed \/ ListingFails \/ ChangeTold
    \/ \E d \in Dates : FolderChanges(d) \/ InsertRow(d) \/ DeleteRow(d)
    \/ RefilterIdle \/ StatusTimeout
    \/ \E i \in 1..MaxModels : RefreshEnds(i)
    \/ \E found \in SUBSET Dates : Search(found)
    \/ SearchEnds
    \/ IdleRefreshFolder \/ SyncSucceeds \/ SyncFails \/ ListAccountRemoved

HeaderListSpec == HeaderListInit /\ [][HeaderListNext]_headerListVars

-----------------------------------------------------------------------------
\* Nothing that was asked for, told of or put off is left to come.
ListSettled ==
    /\ list.folder
    /\ changes = <<>> /\ refreshes = <<>> /\ listings = <<>> /\ reloads = 0
    /\ ~list.timer /\ ~list.refilter.on /\ list.rows = Wanted(list)

(* A window that says there are no messages hides none: once everything has *)
(* settled no message the filter lets through waits behind it               *)
(* (set_contents_state, filter_row).  The exception is a reload after a     *)
(* synchronisation: its refresh has no callback, so the window keeps what   *)
(* it said before until the next change.                                    *)
NoMessageHidden ==
    ListSettled /\ contents = "EMPTY" /\ ~list.quiet => list.shown = {}

(* With no refilter under way each row is shown or hidden as the present    *)
(* search says, whatever rows came and went while the last one walked       *)
(* through them (refilter_idle_handler).                                    *)
RowsMatchSearch ==
    ~list.refilter.on => list.shown = {d \in list.rows : Visible(list, d)}

(* Once everything has settled the model has the headers of the folder,     *)
(* however the listings of a folder set twice, its changes and its reloads  *)
(* interleave (set_folder_intern_get_headers_async_cb), unless its own      *)
(* listing failed.                                                          *)
ListFollowsFolder ==
    ListSettled /\ ~list.failed => list.listed = inFolder
=============================================================================
