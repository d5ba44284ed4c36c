------------------------------- MODULE Viewers -------------------------------
(* Reading mail: opening a message from the list of a folder, the windows   *)
(* that show messages, moving from one to the next, and the registry of     *)
(* messages being opened (modest-ui-actions.c,                              *)
(* widgets/modest-msg-view-window.c, widgets/modest-window-mgr.c,           *)
(* gtk/modest-gtk-window-mgr.c).                                            *)
(*                                                                          *)
(* A window holds a reference to the row of its message and acts (deletes,  *)
(* replies) on what that row holds.  While it waits for a connection or for *)
(* a message the list changes, or is replaced by a refresh, and the window  *)
(* may be closed.                                                           *)
EXTENDS Naturals, FiniteSets

CONSTANTS
    Headers,    \* the messages of a folder
    NoHeader,   \* none of them
    MaxViewers, \* bound of the windows: one open, others with requests left
    MaxFetches  \* bound of the requests pending at a time

ASSUME ViewersAssumption ==
    NoHeader \notin Headers /\ {MaxViewers, MaxFetches} \subseteq Nat

Viewers == 1..MaxViewers
Fetches == 1..MaxFetches

VARIABLES
    drafts,     \* the folder is Drafts: its messages are opened in an editor
    rows,       \* the messages in the list's model
    viewers,    \* the windows
    fetches,    \* requests waiting for a connection or for a message
    registered, \* preregistered_uids: the messages being opened
    abandoned   \* history: those left registered with nothing pending

viewersVars == <<drafts, rows, viewers, fetches, registered, abandoned>>

(* A row reference: none (NULL), lost (its row was removed), of the model   *)
(* the list shows (here), or of one it showed before (old), which is still  *)
(* valid as long as somebody refers to it.                                  *)
Row(at, h) == [at |-> at, of |-> h]
NoRow   == Row("none", NoHeader)
LostRow == Row("lost", NoHeader)
Valid(row) == row.at \in {"here", "old"}

\* uid is msg_uid, shown the message in the view.
NoViewer == [phase |-> "none", edits |-> FALSE, row |-> NoRow,
             uid |-> NoHeader, shown |-> NoHeader]
NoFetch  == [kind |-> "none", by |-> 0, header |-> NoHeader, row |-> NoRow,
             stage |-> "none", cut |-> FALSE]

ViewersInit ==
    /\ drafts \in BOOLEAN
    /\ rows = Headers
    /\ viewers = [v \in Viewers |-> NoViewer]
    /\ fetches = [f \in Fetches |-> NoFetch]
    /\ registered = {} /\ abandoned = {}

OpenViewers == {v \in Viewers : viewers[v].phase = "open"}

FreeFetch(f) ==
    /\ fetches[f].kind = "none"
    /\ \A g \in Fetches : g < f => fetches[g].kind # "none"

FreeViewer(v) ==
    LET Free(u) == /\ viewers[u].phase # "open"
                   /\ \A f \in Fetches : fetches[f].by # u
    IN Free(v) /\ \A u \in Viewers : u < v => ~Free(u)

Getting(v) == {f \in Fetches : fetches[f].by = v
                               /\ fetches[f].stage = "getting"}

(* Closing windows cancels the operations they started; fs are the requests *)
(* otherwise.                                                               *)
Canceled(fs, vs) ==
    [f \in Fetches |-> IF fs[f].by \in vs /\ fs[f].stage = "getting"
                       THEN [fs[f] EXCEPT !.cut = TRUE] ELSE fs[f]]

Closed(ws, vs) ==
    [v \in Viewers |-> IF v \in vs THEN [NoViewer EXCEPT !.phase = "closed"]
                       ELSE ws[v]]

Drop(f) == [fetches EXCEPT ![f] = NoFetch]

SetRegistered(headers) ==
    registered' = headers /\ abandoned' = abandoned \intersect headers

-----------------------------------------------------------------------------
(* open_msg_from_header: not a message that is being opened or has a        *)
(* window.  open_msg_performer follows at once when no connection is        *)
(* needed.                                                                  *)
OpenMsg(h) ==
    \E f \in Fetches :
       /\ h \in rows /\ h \notin registered /\ FreeFetch(f)
       /\ \A v \in OpenViewers : viewers[v].uid # h
       /\ registered' = registered \union {h}
       /\ fetches' = [fetches EXCEPT ![f] =
             [NoFetch EXCEPT !.kind = "open", !.header = h,
                             !.row = Row("here", h), !.stage = "connecting"]]
       /\ UNCHANGED <<drafts, rows, viewers, abandoned>>

(* open_msg_performer without a connection, without the list's window, or   *)
(* for a message of the outbox that is not FAILED.                          *)
OpenRefused(f) ==
    /\ fetches[f].kind = "open" /\ fetches[f].stage = "connecting"
    /\ fetches' = Drop(f)
    /\ SetRegistered(registered \ {fetches[f].header})
    /\ UNCHANGED <<drafts, rows, viewers>>

(* modest_platform_connect_and_perform calls nobody when the device is      *)
(* online and the account is not.                                           *)
NeverConnected(f) ==
    /\ fetches[f].kind = "open" /\ fetches[f].stage = "connecting"
    /\ fetches' = Drop(f)
    /\ abandoned' = abandoned \union ({fetches[f].header} \intersect registered)
    /\ UNCHANGED <<drafts, rows, viewers, registered>>

(* register_window for a new window w, with the messages reg registered and *)
(* the requests fs: shown, with the window on top closed; refused, because  *)
(* of a dialog or a window with this message, which leaves the message      *)
(* registered; or refused because the window on top would not close.        *)
RegisterWindow(v, w, reg, fs) ==
    \/ /\ \A u \in OpenViewers : viewers[u].uid # w.uid
       /\ viewers' = [Closed(viewers, OpenViewers) EXCEPT ![v] = w]
       /\ fetches' = Canceled(fs, OpenViewers)
       /\ SetRegistered(reg \ {w.uid})
    \/ /\ viewers' = Closed(viewers, {v}) /\ fetches' = fs
       /\ registered' = reg
       /\ abandoned' = abandoned \union ({w.uid} \intersect reg)
    \/ /\ OpenViewers # {} /\ \A u \in OpenViewers : viewers[u].uid # w.uid
       /\ viewers' = Closed(viewers, {v}) /\ fetches' = fs
       /\ SetRegistered(reg \ {w.uid})

(* message_reader: the user declines the download, a connection is asked    *)
(* for, or the message, which is then registered; with the requests fs      *)
(* before.                                                                  *)
Reads(v, h, row, f, fs) ==
    LET Request(stage) ==
          [fs EXCEPT ![f] = [NoFetch EXCEPT !.kind = "view", !.by = v,
                               !.header = h, !.row = row, !.stage = stage]]
    IN {[reg |-> registered, fs |-> fs],
        [reg |-> registered, fs |-> Request("connecting")],
        [reg |-> registered \union {h}, fs |-> Request("getting")]}

(* open_msg_performer opens a window on the list's model of now, at the row *)
(* of the request.  If that is a row of an older model its path finds any   *)
(* message, or none, in this one.                                           *)
OpenPerformed(f) ==
    LET open == fetches[f]
        row  == IF Valid(open.row) THEN open.row ELSE NoRow
        w    == [NoViewer EXCEPT !.phase = "open", !.row = row,
                                 !.uid = open.header]
        at   == CASE row.at = "here" -> {row.of} [] row.at = "old" -> rows
                  [] OTHER -> {}
    IN \E v \in Viewers :
       /\ ~drafts /\ open.kind = "open" /\ open.stage = "connecting"
       /\ FreeViewer(v)
       /\ \/ /\ row.at # "here"
             /\ RegisterWindow(v, w, registered, Drop(f))
          \/ \E h \in at : \E r \in Reads(v, h, row, f, Drop(f)) :
                RegisterWindow(v, w, r.reg, r.fs)
       /\ UNCHANGED <<drafts, rows>>

\* A draft is retrieved first.
OpenDraftPerformed(f) ==
    /\ drafts /\ fetches[f].kind = "open" /\ fetches[f].stage = "connecting"
    /\ fetches' = [fetches EXCEPT ![f].stage = "getting"]
    /\ UNCHANGED <<drafts, rows, viewers, registered, abandoned>>

(* open_msg_cb: not retrieved, or no account to edit it with.               *)
DraftNotOpened(f) ==
    /\ fetches[f].kind = "open" /\ fetches[f].stage = "getting"
    /\ fetches' = Drop(f)
    /\ SetRegistered(registered \ {fetches[f].header})
    /\ UNCHANGED <<drafts, rows, viewers>>

DraftOpened(f) ==
    /\ fetches[f].kind = "open" /\ fetches[f].stage = "getting"
    /\ \E v \in Viewers :
          /\ FreeViewer(v)
          /\ RegisterWindow(v, [NoViewer EXCEPT !.phase = "open",
                                   !.edits = TRUE, !.uid = fetches[f].header,
                                   !.shown = fetches[f].header],
                            registered, Drop(f))
    /\ UNCHANGED <<drafts, rows>>

-----------------------------------------------------------------------------
(* select_next_message and select_previous_message, dimmed while the window *)
(* retrieves a message.                                                     *)
Select(v) ==
    \E h \in rows, f \in Fetches :
       /\ viewers[v].phase = "open" /\ viewers[v].row # NoRow
       /\ Getting(v) = {} /\ FreeFetch(f)
       /\ viewers[v].row # Row("here", h)
       /\ \E r \in Reads(v, h, Row("here", h), f, fetches) :
             registered' = r.reg /\ fetches' = r.fs
       /\ UNCHANGED <<drafts, rows, viewers, abandoned>>

\* Without a valid row there is no previous message.
NoPrevious(v) ==
    /\ viewers[v].phase = "open" /\ viewers[v].row = LostRow
    /\ viewers' = [viewers EXCEPT ![v].row = NoRow]
    /\ UNCHANGED <<drafts, rows, fetches, registered, abandoned>>

(* message_reader_performer, also for a window closed meanwhile.            *)
ReaderConnected(f) ==
    /\ fetches[f].kind = "view" /\ fetches[f].stage = "connecting"
    /\ registered' = registered \union {fetches[f].header}
    /\ fetches' = [fetches EXCEPT ![f].stage = "getting"]
    /\ UNCHANGED <<drafts, rows, viewers, abandoned>>

\* modest_msg_view_window_get_header: the row's message, or the one shown.
HeaderOf(w) == IF Valid(w.row) THEN w.row.of ELSE w.shown

\* The window that a request is for, if it is still open.
Asker(f) == {fetches[f].by} \intersect OpenViewers

ReaderNotConnected(f) ==
    /\ fetches[f].kind = "view" /\ fetches[f].stage = "connecting"
    /\ viewers' = Closed(viewers, Asker(f))
    /\ fetches' = Canceled(Drop(f), Asker(f))
    /\ UNCHANGED <<drafts, rows, registered, abandoned>>

\* Mutants: a retrieval that fails leaves its message registered; the window
\* keeps the identity of the message it was opened with.
ReleasedIfShown(f, ok) == IF ok THEN registered \ {fetches[f].header}
                          ELSE registered
UidKept(w, fetch) ==
    [w EXCEPT !.row = IF @ = NoRow THEN @
                      ELSE IF Valid(fetch.row) THEN fetch.row ELSE NoRow,
              !.shown = fetch.header]

\* view_msg_cb unregisters the message first of all.
Released(f, ok) == registered \ {fetches[f].header}

(* Then the window changes to the message and its row; a window detached    *)
(* from the list stays so.                                                  *)
Displaying(w, fetch) ==
    [w EXCEPT !.row = IF @ = NoRow THEN @
                      ELSE IF Valid(fetch.row) THEN fetch.row ELSE NoRow,
              !.shown = fetch.header, !.uid = fetch.header]

MsgShown(f) ==
    LET v == fetches[f].by IN
    /\ fetches[f].kind = "view" /\ fetches[f].stage = "getting"
    /\ ~fetches[f].cut /\ v \in OpenViewers
    /\ viewers' = [viewers EXCEPT ![v] = Displaying(viewers[v], fetches[f])]
    /\ fetches' = Drop(f)
    /\ SetRegistered(Released(f, TRUE))
    /\ UNCHANGED <<drafts, rows>>

(* Canceled or failed: the window closes, if it has not been closed before. *)
MsgNotShown(f) ==
    /\ fetches[f].kind = "view" /\ fetches[f].stage = "getting"
    /\ viewers' = Closed(viewers, Asker(f))
    /\ fetches' = Canceled(Drop(f), Asker(f))
    /\ SetRegistered(Released(f, FALSE))
    /\ UNCHANGED <<drafts, rows>>

(* The user closes the window; also after the last message was deleted.     *)
CloseViewer(v) ==
    /\ v \in OpenViewers
    /\ viewers' = Closed(viewers, {v})
    /\ fetches' = Canceled(fetches, {v})
    /\ UNCHANGED <<drafts, rows, registered, abandoned>>

-----------------------------------------------------------------------------
(* The list changes: row references of its model follow.                    *)
Follow(row, removed) ==
    IF row.at = "here" /\ row.of \in removed THEN LostRow ELSE row

RowRemoved(h) ==
    /\ h \in rows
    /\ rows' = rows \ {h}
    /\ viewers' = [v \in Viewers |->
          [viewers[v] EXCEPT !.row = Follow(@, {h})]]
    /\ fetches' = [f \in Fetches |->
          [fetches[f] EXCEPT !.row = Follow(@, {h})]]
    /\ UNCHANGED <<drafts, registered, abandoned>>

(* on_row_inserted: a window of this message gets the row, attached or not. *)
RowInserted(h) ==
    /\ h \notin rows
    /\ rows' = rows \union {h}
    /\ viewers' = [v \in Viewers |->
          IF v \in OpenViewers /\ ~viewers[v].edits /\ viewers[v].uid = h
          THEN [viewers[v] EXCEPT !.row = Row("here", h)] ELSE viewers[v]]
    /\ UNCHANGED <<drafts, fetches, registered, abandoned>>

(* modest_header_view_set_folder with the same folder: a new model, which   *)
(* the rows are inserted into later; update_model_replaced detaches the     *)
(* windows from the old one.                                                *)
ModelReplaced ==
    /\ rows' = {}
    /\ viewers' = [v \in Viewers |-> [viewers[v] EXCEPT !.row = NoRow]]
    /\ fetches' = [f \in Fetches |->
          IF fetches[f].row.at = "here"
          THEN [fetches[f] EXCEPT !.row.at = "old"] ELSE fetches[f]]
    /\ UNCHANGED <<drafts, registered, abandoned>>

ViewersNext ==
    \/ \E h \in Headers : OpenMsg(h) \/ RowRemoved(h) \/ RowInserted(h)
    \/ \E f \in Fetches :
          \/ OpenRefused(f) \/ NeverConnected(f)
          \/ OpenPerformed(f) \/ OpenDraftPerformed(f)
          \/ DraftNotOpened(f) \/ DraftOpened(f)
          \/ ReaderConnected(f) \/ ReaderNotConnected(f)
          \/ MsgShown(f) \/ MsgNotShown(f)
    \/ \E v \in Viewers : Select(v) \/ NoPrevious(v) \/ CloseViewer(v)
    \/ ModelReplaced

ViewersSpec == ViewersInit /\ [][ViewersNext]_viewersVars

-----------------------------------------------------------------------------
(* Types: what the variables may hold. *)
ViewersTypeOK ==
    LET Rows == [at : {"none", "lost", "here", "old"},
                 of : Headers \union {NoHeader}]
    IN /\ drafts \in BOOLEAN /\ rows \subseteq Headers
       /\ viewers \in [Viewers ->
             [phase : {"none", "open", "closed"}, edits : BOOLEAN, row : Rows,
              uid : Headers \union {NoHeader},
              shown : Headers \union {NoHeader}]]
       /\ fetches \in [Fetches ->
             [kind : {"none", "open", "view"}, by : Viewers \union {0},
              header : Headers \union {NoHeader}, row : Rows,
              stage : {"none", "connecting", "getting"}, cut : BOOLEAN]]
       /\ abandoned \subseteq registered /\ registered \subseteq Headers

(* What a window would delete, answer or move, which get_header finds by    *)
(* its row, is what it shows, whatever arrived late and however the list    *)
(* changed in between.  The code's exception is a row of a model that was   *)
(* replaced while the message was on its way: view_msg_cb takes it over and *)
(* get_header looks its path up in the new model.                           *)
RowIsShown ==
    \A v \in OpenViewers :
       LET w == viewers[v] IN
       w.shown # NoHeader /\ w.row.at # "old" => HeaderOf(w) = w.shown

(* A message stays registered as being opened, and so cannot be opened      *)
(* again, only while a request for it is pending.  The code's exceptions    *)
(* are abandoned: the platform never called back, or register_window        *)
(* refused the window before it looked at the registry.                     *)
RegistryIsFreed ==
    \A h \in registered :
       \/ h \in abandoned
       \/ \E f \in Fetches :
             /\ fetches[f].header = h
             /\ fetches[f].kind = "open" \/ fetches[f].stage = "getting"
=============================================================================
