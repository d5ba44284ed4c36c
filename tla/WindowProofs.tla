---------------------------- MODULE WindowProofs -----------------------------
(***************************************************************************)
(* The windows of the program: proofs about Viewers, Attachments and       *)
(* Composer, which have no state in common, for any number of windows, of  *)
(* messages and of requests.                                               *)
(*                                                                         *)
(* Viewers: the row of a window is that of the message it shows, and no    *)
(* message stays registered as being opened.                               *)
(* Attachments: what the user is told of a saving of attachments fits the  *)
(* files there are; the worker of a saving visits the attachments in their *)
(* order, so that the ones left are those after its position.              *)
(* Composer: what is written in an editor is in a message that exists, or  *)
(* will be, or in the editor, or was given up by the user; a mail has one  *)
(* copy.  Both need each message to remember the editor and the older      *)
(* draft it was made from: the drafts of an editor form a chain of which   *)
(* only the newest may stay.                                               *)
(***************************************************************************)
EXTENDS Viewers, Attachments, Composer, FiniteSetTheorems,
        WellFoundedInduction, TLAPS

-----------------------------------------------------------------------------
(* The windows that show a message.                                        *)

Rows == [at : {"none", "lost", "here", "old"}, of : Headers \union {NoHeader}]

Windows ==
    [phase : {"none", "open", "closed"}, edits : BOOLEAN, row : Rows,
     uid : Headers \union {NoHeader}, shown : Headers \union {NoHeader}]

Requests ==
    [kind : {"none", "open", "view"}, by : Viewers \union {0},
     header : Headers \union {NoHeader}, row : Rows,
     stage : {"none", "connecting", "getting"}, cut : BOOLEAN]

\* A window is identified by the message it shows and so is its row.
WindowFits(w) ==
    w.phase = "open" /\ w.shown # NoHeader =>
        w.uid = w.shown /\ (w.row.at = "here" => w.row.of = w.shown)

\* A request has a message, and its row is that of the message.
RequestFits(r) ==
    /\ r.kind = "none" => r.stage = "none"
    /\ r.kind # "none" => r.header \in Headers
    /\ r.kind # "none" /\ r.row.at = "here" => r.row.of = r.header

ViewersFit(ws) ==
    ws \in [Viewers -> Windows] /\ \A v \in Viewers : WindowFits(ws[v])

RequestsFit(fs) ==
    fs \in [Fetches -> Requests] /\ \A f \in Fetches : RequestFits(fs[f])

Holds(r) == r.kind = "open" \/ r.stage = "getting"

Held(fs) == {fs[f].header : f \in {g \in Fetches : Holds(fs[g])}}

RegistryFits(reg, given, fs) ==
    given \subseteq reg /\ reg \subseteq Headers /\ reg \subseteq given \union Held(fs)

IInv ==
    /\ drafts \in BOOLEAN /\ rows \subseteq Headers
    /\ ViewersFit(viewers) /\ RequestsFit(fetches)
    /\ RegistryFits(registered, abandoned, fetches)

-----------------------------------------------------------------------------
(* The parts of the steps. *)

LEMMA RowType ==
    /\ NoRow \in Rows /\ LostRow \in Rows
    /\ NoRow.at = "none" /\ LostRow.at = "lost"
    /\ \A h \in Headers : /\ Row("here", h) \in Rows
                          /\ Row("here", h).at = "here" /\ Row("here", h).of = h
  BY DEF Row, NoRow, LostRow, Rows

LEMMA NoWindow ==
    /\ NoViewer \in Windows /\ NoViewer.phase = "none"
    /\ [NoViewer EXCEPT !.phase = "closed"] \in Windows
    /\ WindowFits([NoViewer EXCEPT !.phase = "closed"])
  BY RowType DEF NoViewer, Windows, WindowFits

LEMMA NoRequest ==
    /\ NoFetch \in Requests /\ RequestFits(NoFetch) /\ ~Holds(NoFetch)
  BY RowType DEF NoFetch, Requests, RequestFits, Holds

\* Closing windows leaves the others as they are.
LEMMA ClosedFits ==
    ASSUME NEW ws, NEW vs, ViewersFit(ws)
    PROVE  ViewersFit(Closed(ws, vs))
  BY NoWindow DEF ViewersFit, Closed

\* Canceling changes what the requests will answer, not what they hold.
LEMMA CanceledFits ==
    ASSUME NEW fs, NEW vs, RequestsFit(fs)
    PROVE  RequestsFit(Canceled(fs, vs)) /\ Held(Canceled(fs, vs)) = Held(fs)
<1> DEFINE cs == Canceled(fs, vs)
<1>1. ASSUME NEW f \in Fetches
      PROVE  /\ cs[f] \in Requests /\ RequestFits(cs[f])
             /\ cs[f].header = fs[f].header /\ (Holds(cs[f]) <=> Holds(fs[f]))
  <2>1. fs[f] \in Requests /\ RequestFits(fs[f])
    BY DEF RequestsFit
  <2>2. cs[f] = fs[f] \/ cs[f] = [fs[f] EXCEPT !.cut = TRUE]
    BY DEF Canceled
  <2> QED  BY <2>1, <2>2 DEF Requests, RequestFits, Holds
<1>2. cs \in [Fetches -> Requests]
  BY <1>1 DEF Canceled
<1>3. Held(cs) = Held(fs)
  BY <1>1 DEF Held
<1> QED  BY <1>1, <1>2, <1>3 DEF RequestsFit

\* A new request, or none, in the place of one.
LEMMA PlacedFits ==
    ASSUME NEW fs, NEW f \in Fetches, NEW r \in Requests,
           RequestsFit(fs), RequestFits(r)
    PROVE  LET ps == [fs EXCEPT ![f] = r] IN
           /\ RequestsFit(ps)
           /\ Holds(r) => r.header \in Held(ps)
           /\ Held(fs) \subseteq {fs[f].header} \union Held(ps)
           /\ ~Holds(fs[f]) => Held(fs) \subseteq Held(ps)
<1> DEFINE ps == [fs EXCEPT ![f] = r]
<1>1. ps \in [Fetches -> Requests] /\ ps[f] = r
      /\ \A g \in Fetches : g # f => ps[g] = fs[g]
  BY DEF RequestsFit
<1> QED  BY <1>1 DEF RequestsFit, Held

LEMMA DropFits ==
    ASSUME NEW f \in Fetches, RequestsFit(fetches)
    PROVE  /\ RequestsFit(Drop(f))
           /\ Held(fetches) \subseteq {fetches[f].header} \union Held(Drop(f))
           /\ ~Holds(fetches[f]) => Held(fetches) \subseteq Held(Drop(f))
           /\ ~Holds(Drop(f)[f])
  BY NoRequest, PlacedFits DEF Drop, RequestsFit

\* register_window, whatever it decides.
LEMMA RegisterFits ==
    ASSUME NEW v \in Viewers, NEW w \in Windows, NEW reg, NEW fs,
           ViewersFit(viewers), WindowFits(w), RequestsFit(fs),
           abandoned \subseteq reg, reg \subseteq Headers,
           reg \subseteq {w.uid} \union abandoned \union Held(fs),
           RegisterWindow(v, w, reg, fs)
    PROVE  /\ ViewersFit(viewers') /\ RequestsFit(fetches')
           /\ RegistryFits(registered', abandoned', fetches')
<1>1. ASSUME ViewersFit(Closed(viewers, OpenViewers))
      PROVE  ViewersFit([Closed(viewers, OpenViewers) EXCEPT ![v] = w])
  BY <1>1 DEF ViewersFit
<1>2. ViewersFit(viewers')
  BY <1>1, ClosedFits DEF RegisterWindow
<1>3. RequestsFit(fetches') /\ Held(fetches') = Held(fs)
  BY CanceledFits DEF RegisterWindow
<1>4. RegistryFits(registered', abandoned', fetches')
  BY <1>3 DEF RegisterWindow, SetRegistered, RegistryFits
<1> QED  BY <1>2, <1>3, <1>4

\* message_reader asks for a message whose row, if it is one of the list, fits.
LEMMA ReadsFit ==
    ASSUME NEW v \in Viewers, NEW h \in Headers, NEW row \in Rows,
           row.at = "here" => row.of = h, NEW f \in Fetches, NEW fs,
           RequestsFit(fs), ~Holds(fs[f]), NEW r \in Reads(v, h, row, f, fs)
    PROVE  /\ RequestsFit(r.fs) /\ Held(fs) \subseteq Held(r.fs)
           /\ registered \subseteq r.reg
           /\ r.reg \subseteq registered \union (Headers \intersect Held(r.fs))
<1> DEFINE Request(stage) ==
             [NoFetch EXCEPT !.kind = "view", !.by = v, !.header = h,
                             !.row = row, !.stage = stage]
<1>1. ASSUME NEW stage \in {"connecting", "getting"}
      PROVE  /\ Request(stage) \in Requests /\ RequestFits(Request(stage))
             /\ Request(stage).header = h
             /\ stage = "getting" => Holds(Request(stage))
  BY <1>1, RowType DEF NoFetch, Requests, RequestFits, Holds
<1>2. CASE r = [reg |-> registered, fs |-> fs]
  BY <1>2
<1>3. CASE r = [reg |-> registered,
                fs |-> [fs EXCEPT ![f] = Request("connecting")]]
  BY <1>1, <1>3, PlacedFits
<1>4. CASE r = [reg |-> registered \union {h},
                fs |-> [fs EXCEPT ![f] = Request("getting")]]
  <2> DEFINE q == Request("getting")
  <2>1. q \in Requests /\ RequestFits(q) /\ q.header = h /\ Holds(q)
    BY <1>1
  <2> HIDE DEF q
  <2>2. /\ RequestsFit([fs EXCEPT ![f] = q])
        /\ h \in Held([fs EXCEPT ![f] = q])
        /\ Held(fs) \subseteq Held([fs EXCEPT ![f] = q])
    BY <2>1, PlacedFits
  <2> QED  BY <1>4, <2>2 DEF q
<1> QED  BY <1>2, <1>3, <1>4 DEF Reads

-----------------------------------------------------------------------------
(* Every step keeps the invariant. *)

\* Steps that leave the windows and the list alone.
LEMMA RequestStep ==
    ASSUME IInv, UNCHANGED <<drafts, rows, viewers>>,
           RequestsFit(fetches'),
           RegistryFits(registered', abandoned', fetches')
    PROVE  IInv'
  BY DEF IInv

LEMMA OpenMsgStep ==
    ASSUME IInv, NEW h \in Headers, OpenMsg(h) PROVE IInv'
<1> DEFINE r == [NoFetch EXCEPT !.kind = "open", !.header = h,
                          !.row = Row("here", h), !.stage = "connecting"]
<1>1. r \in Requests /\ RequestFits(r) /\ Holds(r) /\ r.header = h
  BY RowType DEF NoFetch, Requests, RequestFits, Holds
<1> HIDE DEF r
<1>2. PICK f \in Fetches : /\ FreeFetch(f) /\ fetches' = [fetches EXCEPT ![f] = r]
                          /\ registered' = registered \union {h}
                          /\ UNCHANGED <<drafts, rows, viewers, abandoned>>
  BY DEF OpenMsg, r
<1>3. ~Holds(fetches[f])
  BY <1>2 DEF FreeFetch, Holds, IInv, RequestsFit, RequestFits
<1>4. /\ RequestsFit(fetches') /\ h \in Held(fetches')
      /\ Held(fetches) \subseteq Held(fetches')
  BY <1>1, <1>2, <1>3, PlacedFits DEF IInv
<1>5. RegistryFits(registered', abandoned', fetches')
  BY <1>2, <1>4 DEF IInv, RegistryFits
<1> QED  BY <1>2, <1>4, <1>5, RequestStep

\* The request of f is dropped and its message unregistered, or given up.
LEMMA DropStep ==
    ASSUME IInv, NEW f \in Fetches,
           OpenRefused(f) \/ NeverConnected(f) \/ DraftNotOpened(f)
    PROVE  IInv'
<1>1. /\ fetches' = Drop(f) /\ UNCHANGED <<drafts, rows, viewers>>
      /\ \/ SetRegistered(registered \ {fetches[f].header})
         \/ /\ registered' = registered
            /\ abandoned' = abandoned \union
                              ({fetches[f].header} \intersect registered)
  BY DEF OpenRefused, NeverConnected, DraftNotOpened
<1>2. /\ RequestsFit(fetches')
      /\ Held(fetches) \subseteq {fetches[f].header} \union Held(fetches')
  BY <1>1, DropFits DEF IInv
<1>3. RegistryFits(registered', abandoned', fetches')
  BY <1>1, <1>2 DEF IInv, RegistryFits, SetRegistered
<1> QED  BY <1>1, <1>2, <1>3, RequestStep

LEMMA OpenPerformedStep ==
    ASSUME IInv, NEW f \in Fetches, OpenPerformed(f) PROVE IInv'
<1> DEFINE open == fetches[f]
           row  == IF Valid(open.row) THEN open.row ELSE NoRow
           w    == [NoViewer EXCEPT !.phase = "open", !.row = row,
                                    !.uid = open.header]
           at   == CASE row.at = "here" -> {row.of} [] row.at = "old" -> rows
                     [] OTHER -> {}
<1>1. open \in Requests /\ RequestFits(open) /\ open.kind = "open"
  BY DEF IInv, RequestsFit, OpenPerformed
<1>2. row \in Rows /\ (row.at = "here" => row.of = open.header)
  BY <1>1, RowType DEF Requests, RequestFits
<1>3. w \in Windows /\ WindowFits(w) /\ w.uid = open.header
  BY <1>1, <1>2, NoWindow DEF Windows, WindowFits, NoViewer, Requests
<1>4. /\ RequestsFit(Drop(f)) /\ ~Holds(Drop(f)[f])
      /\ Held(fetches) \subseteq {open.header} \union Held(Drop(f))
  BY DropFits DEF IInv
<1>5. ASSUME NEW h \in at
      PROVE  h \in Headers /\ (row.at = "here" => row.of = h)
  BY <1>1, <1>2, <1>5 DEF IInv, RequestFits
<1>6. PICK v \in Viewers :
         \/ RegisterWindow(v, w, registered, Drop(f))
         \/ \E h \in at : \E r \in Reads(v, h, row, f, Drop(f)) :
                RegisterWindow(v, w, r.reg, r.fs)
  BY DEF OpenPerformed
<1>7. UNCHANGED <<drafts, rows>>
  BY DEF OpenPerformed
<1> HIDE DEF open, row, w, at
<1>8. /\ ViewersFit(viewers) /\ abandoned \subseteq registered
      /\ registered \subseteq Headers
      /\ registered \subseteq {w.uid} \union abandoned \union Held(Drop(f))
  BY <1>3, <1>4 DEF IInv, RegistryFits
<1>9. CASE RegisterWindow(v, w, registered, Drop(f))
  BY <1>3, <1>4, <1>7, <1>8, <1>9, RegisterFits DEF IInv
<1>10. ASSUME NEW h \in at, NEW r \in Reads(v, h, row, f, Drop(f)),
              RegisterWindow(v, w, r.reg, r.fs)
       PROVE  IInv'
  <2>1. /\ RequestsFit(r.fs) /\ Held(Drop(f)) \subseteq Held(r.fs)
        /\ registered \subseteq r.reg
        /\ r.reg \subseteq registered \union (Headers \intersect Held(r.fs))
    BY <1>2, <1>4, <1>5, ReadsFit
  <2>2. /\ abandoned \subseteq r.reg /\ r.reg \subseteq Headers
        /\ r.reg \subseteq {w.uid} \union abandoned \union Held(r.fs)
    BY <1>8, <2>1
  <2> QED  BY <1>3, <1>7, <1>8, <1>10, <2>1, <2>2, RegisterFits DEF IInv
<1> QED  BY <1>6, <1>9, <1>10

LEMMA OpenDraftPerformedStep ==
    ASSUME IInv, NEW f \in Fetches, OpenDraftPerformed(f) PROVE IInv'
<1> DEFINE r == [fetches[f] EXCEPT !.stage = "getting"]
<1>1. r \in Requests /\ RequestFits(r) /\ Holds(r)
      /\ r.header = fetches[f].header
  BY DEF IInv, RequestsFit, OpenDraftPerformed, Requests, RequestFits, Holds
<1>2. fetches' = [fetches EXCEPT ![f] = r]
      /\ UNCHANGED <<drafts, rows, viewers, registered, abandoned>>
  BY DEF OpenDraftPerformed
<1> HIDE DEF r
<1>3. RequestsFit(fetches') /\ Held(fetches) \subseteq Held(fetches')
  BY <1>1, <1>2, PlacedFits DEF IInv
<1>4. RegistryFits(registered', abandoned', fetches')
  BY <1>2, <1>3 DEF IInv, RegistryFits
<1> QED  BY <1>2, <1>3, <1>4, RequestStep

LEMMA DraftOpenedStep ==
    ASSUME IInv, NEW f \in Fetches, DraftOpened(f) PROVE IInv'
<1> DEFINE w == [NoViewer EXCEPT !.phase = "open", !.edits = TRUE,
                    !.uid = fetches[f].header, !.shown = fetches[f].header]
<1>1. w \in Windows /\ WindowFits(w) /\ w.uid = fetches[f].header
  BY RowType DEF NoViewer, Windows, WindowFits, IInv, RequestsFit, Requests
<1>2. PICK v \in Viewers : RegisterWindow(v, w, registered, Drop(f))
  BY DEF DraftOpened
<1> HIDE DEF w
<1>3. /\ RequestsFit(Drop(f))
      /\ Held(fetches) \subseteq {fetches[f].header} \union Held(Drop(f))
  BY DropFits DEF IInv
<1>4. /\ ViewersFit(viewers) /\ abandoned \subseteq registered
      /\ registered \subseteq Headers
      /\ registered \subseteq {w.uid} \union abandoned \union Held(Drop(f))
  BY <1>1, <1>3 DEF IInv, RegistryFits
<1>5. UNCHANGED <<drafts, rows>>
  BY DEF DraftOpened
<1> QED  BY <1>1, <1>2, <1>3, <1>4, <1>5, RegisterFits DEF IInv

LEMMA SelectStep ==
    ASSUME IInv, NEW v \in Viewers, Select(v) PROVE IInv'
<1>1. PICK h \in rows, f \in Fetches :
         /\ FreeFetch(f)
         /\ \E r \in Reads(v, h, Row("here", h), f, fetches) :
               registered' = r.reg /\ fetches' = r.fs
  BY DEF Select
<1>2. PICK r \in Reads(v, h, Row("here", h), f, fetches) :
         registered' = r.reg /\ fetches' = r.fs
  BY <1>1
<1>3. ~Holds(fetches[f])
  BY <1>1 DEF FreeFetch, Holds, IInv, RequestsFit, RequestFits
<1>4. /\ h \in Headers /\ Row("here", h) \in Rows
      /\ Row("here", h).at = "here" => Row("here", h).of = h
  BY RowType DEF IInv
<1>5. /\ RequestsFit(r.fs) /\ Held(fetches) \subseteq Held(r.fs)
      /\ registered \subseteq r.reg
      /\ r.reg \subseteq registered \union (Headers \intersect Held(r.fs))
  BY <1>3, <1>4, ReadsFit DEF IInv
<1>6. UNCHANGED <<drafts, rows, viewers, abandoned>>
  BY DEF Select
<1>7. RegistryFits(registered', abandoned', fetches')
  BY <1>2, <1>5, <1>6 DEF IInv, RegistryFits
<1> QED  BY <1>2, <1>5, <1>6, <1>7, RequestStep

LEMMA ReaderConnectedStep ==
    ASSUME IInv, NEW f \in Fetches, ReaderConnected(f) PROVE IInv'
<1> DEFINE r == [fetches[f] EXCEPT !.stage = "getting"]
<1>1. /\ r \in Requests /\ RequestFits(r) /\ Holds(r)
      /\ r.header = fetches[f].header /\ r.header \in Headers
  BY DEF IInv, RequestsFit, ReaderConnected, Requests, RequestFits, Holds
<1>2. /\ fetches' = [fetches EXCEPT ![f] = r]
      /\ registered' = registered \union {r.header}
      /\ UNCHANGED <<drafts, rows, viewers, abandoned>>
  BY DEF ReaderConnected
<1> HIDE DEF r
<1>3. /\ RequestsFit(fetches') /\ r.header \in Held(fetches')
      /\ Held(fetches) \subseteq Held(fetches')
  BY <1>1, <1>2, PlacedFits DEF IInv
<1>4. RegistryFits(registered', abandoned', fetches')
  BY <1>1, <1>2, <1>3 DEF IInv, RegistryFits
<1> QED  BY <1>2, <1>3, <1>4, RequestStep

\* The window that asked is closed, its message unregistered if it was asked
\* for.
LEMMA NotShownStep ==
    ASSUME IInv, NEW f \in Fetches, ReaderNotConnected(f) \/ MsgNotShown(f)
    PROVE  IInv'
<1>1. /\ viewers' = Closed(viewers, Asker(f))
      /\ fetches' = Canceled(Drop(f), Asker(f))
      /\ UNCHANGED <<drafts, rows>>
  BY DEF ReaderNotConnected, MsgNotShown
<1>2. ViewersFit(viewers')
  BY <1>1, ClosedFits DEF IInv
<1>3. RequestsFit(fetches') /\ Held(fetches') = Held(Drop(f))
  BY <1>1, CanceledFits, DropFits DEF IInv
<1>4. RegistryFits(registered', abandoned', fetches')
  <2>1. CASE ReaderNotConnected(f)
    <3>1. ~Holds(fetches[f]) /\ UNCHANGED <<registered, abandoned>>
      BY <2>1 DEF ReaderNotConnected, Holds
    <3> QED  BY <1>3, <3>1, DropFits DEF IInv, RegistryFits
  <2>2. CASE MsgNotShown(f)
    <3>1. SetRegistered(registered \ {fetches[f].header})
      BY <2>2 DEF MsgNotShown, Released
    <3> QED  BY <1>3, <3>1, DropFits DEF IInv, RegistryFits, SetRegistered
  <2> QED  BY <2>1, <2>2
<1> QED  BY <1>1, <1>2, <1>3, <1>4 DEF IInv

\* The row that comes with the message replaces the window's together with
\* what identifies it.
LEMMA MsgShownStep ==
    ASSUME IInv, NEW f \in Fetches, MsgShown(f) PROVE IInv'
<1> DEFINE v == fetches[f].by
           w == Displaying(viewers[v], fetches[f])
<1>1. /\ viewers' = [viewers EXCEPT ![v] = w] /\ v \in Viewers
      /\ fetches' = Drop(f) /\ UNCHANGED <<drafts, rows>>
      /\ SetRegistered(registered \ {fetches[f].header})
      /\ fetches[f].kind # "none"
  BY DEF MsgShown, OpenViewers, Released
<1>2. viewers[v] \in Windows /\ fetches[f] \in Requests /\ RequestFits(fetches[f])
  BY <1>1 DEF IInv, ViewersFit, RequestsFit
<1>3. w \in Windows /\ WindowFits(w)
  <2> DEFINE row == IF viewers[v].row = NoRow THEN viewers[v].row
                    ELSE IF Valid(fetches[f].row) THEN fetches[f].row ELSE NoRow
             h   == fetches[f].header
  <2>1. row \in Rows /\ (row.at = "here" => row.of = h)
    BY <1>1, <1>2, RowType DEF Windows, Requests, RequestFits
  <2>2. w = [viewers[v] EXCEPT !.row = row, !.shown = h, !.uid = h]
    BY <1>2 DEF Displaying, Windows
  <2>3. h \in Headers \union {NoHeader}
    BY <1>2 DEF Requests
  <2> HIDE DEF row, w, h
  <2> QED  BY <1>2, <2>1, <2>2, <2>3 DEF Windows, WindowFits
<1> HIDE DEF w
<1>4. ViewersFit(viewers')
  BY <1>1, <1>3 DEF IInv, ViewersFit
<1>5. RequestsFit(fetches') /\ RegistryFits(registered', abandoned', fetches')
  BY <1>1, DropFits DEF IInv, RegistryFits, SetRegistered
<1> QED  BY <1>1, <1>4, <1>5 DEF IInv

LEMMA CloseViewerStep ==
    ASSUME IInv, NEW v \in Viewers, CloseViewer(v) PROVE IInv'
<1>1. ViewersFit(viewers')
  BY ClosedFits DEF CloseViewer, IInv
<1>2. RequestsFit(fetches') /\ Held(fetches') = Held(fetches)
  BY CanceledFits DEF CloseViewer, IInv
<1>3. UNCHANGED <<drafts, rows, registered, abandoned>>
  BY DEF CloseViewer
<1> QED  BY <1>1, <1>2, <1>3 DEF IInv, RegistryFits

LEMMA NoPreviousStep ==
    ASSUME IInv, NEW v \in Viewers, NoPrevious(v) PROVE IInv'
<1>1. viewers[v] \in Windows /\ WindowFits(viewers[v])
  BY DEF IInv, ViewersFit
<1> DEFINE w == [viewers[v] EXCEPT !.row = NoRow]
<1>2. w \in Windows /\ WindowFits(w)
  BY <1>1, RowType DEF Windows, WindowFits
<1>3. /\ viewers' = [viewers EXCEPT ![v] = w]
      /\ UNCHANGED <<drafts, rows, fetches, registered, abandoned>>
  BY DEF NoPrevious
<1> HIDE DEF w
<1>4. ViewersFit(viewers')
  BY <1>2, <1>3 DEF IInv, ViewersFit
<1> QED  BY <1>3, <1>4 DEF IInv

-----------------------------------------------------------------------------
(* The list changes under windows and requests. *)

\* New rows for requests do not change what they hold.
LEMMA RowsFit ==
    ASSUME IInv, NEW fs, fs \in [Fetches -> Requests],
           \A f \in Fetches : /\ RequestFits(fs[f])
                              /\ fs[f].header = fetches[f].header
                              /\ fs[f].kind = fetches[f].kind
                              /\ fs[f].stage = fetches[f].stage
    PROVE  RequestsFit(fs) /\ RegistryFits(registered, abandoned, fs)
<1>1. Held(fs) = Held(fetches)
  BY DEF Held, Holds
<1> QED  BY <1>1 DEF IInv, RequestsFit, RegistryFits

LEMMA RowRemovedStep ==
    ASSUME IInv, NEW h \in Headers, RowRemoved(h) PROVE IInv'
<1>1. ASSUME NEW row \in Rows
      PROVE  /\ Follow(row, {h}) \in Rows
             /\ Follow(row, {h}).at = "here" => Follow(row, {h}) = row
  BY RowType DEF Follow
<1>2. ASSUME NEW v \in Viewers
      PROVE  viewers'[v] \in Windows /\ WindowFits(viewers'[v])
  <2>1. viewers[v] \in Windows /\ WindowFits(viewers[v])
    BY DEF IInv, ViewersFit
  <2>2. viewers'[v] = [viewers[v] EXCEPT !.row = Follow(viewers[v].row, {h})]
    BY <2>1 DEF RowRemoved, Windows
  <2>3. viewers[v].row \in Rows
    BY <2>1 DEF Windows
  <2> QED  BY <1>1, <2>1, <2>2, <2>3 DEF Windows, WindowFits
<1>3. ASSUME NEW f \in Fetches
      PROVE  /\ fetches'[f] \in Requests /\ RequestFits(fetches'[f])
             /\ fetches'[f].header = fetches[f].header
             /\ fetches'[f].kind = fetches[f].kind
             /\ fetches'[f].stage = fetches[f].stage
  <2>1. fetches[f] \in Requests /\ RequestFits(fetches[f])
    BY DEF IInv, RequestsFit
  <2>2. fetches'[f] = [fetches[f] EXCEPT !.row = Follow(fetches[f].row, {h})]
    BY <2>1 DEF RowRemoved, Requests
  <2>3. fetches[f].row \in Rows
    BY <2>1 DEF Requests
  <2> QED  BY <1>1, <2>1, <2>2, <2>3 DEF Requests, RequestFits
<1>4. fetches' \in [Fetches -> Requests] /\ viewers' \in [Viewers -> Windows]
  BY <1>2, <1>3 DEF RowRemoved
<1>5. rows' \subseteq Headers /\ UNCHANGED <<drafts, registered, abandoned>>
  BY DEF RowRemoved, IInv
<1> QED  BY <1>2, <1>3, <1>4, <1>5, RowsFit DEF IInv, ViewersFit

LEMMA RowInsertedStep ==
    ASSUME IInv, NEW h \in Headers, RowInserted(h) PROVE IInv'
<1>1. ASSUME NEW v \in Viewers
      PROVE  viewers'[v] \in Windows /\ WindowFits(viewers'[v])
  <2>1. viewers[v] \in Windows /\ WindowFits(viewers[v])
    BY DEF IInv, ViewersFit
  <2>2. \/ viewers'[v] = viewers[v]
        \/ /\ viewers'[v] = [viewers[v] EXCEPT !.row = Row("here", h)]
           /\ viewers[v].uid = h
    BY DEF RowInserted
  <2> QED  BY <2>1, <2>2, RowType DEF Windows, WindowFits
<1>2. viewers' \in [Viewers -> Windows]
  BY <1>1 DEF RowInserted
<1>3. /\ rows' \subseteq Headers
      /\ UNCHANGED <<drafts, fetches, registered, abandoned>>
  BY DEF RowInserted, IInv
<1> QED  BY <1>1, <1>2, <1>3 DEF IInv, ViewersFit

LEMMA ModelReplacedStep ==
    ASSUME IInv, ModelReplaced PROVE IInv'
<1>1. ASSUME NEW v \in Viewers
      PROVE  viewers'[v] \in Windows /\ WindowFits(viewers'[v])
  <2>1. viewers[v] \in Windows /\ WindowFits(viewers[v])
    BY DEF IInv, ViewersFit
  <2>2. viewers'[v] = [viewers[v] EXCEPT !.row = NoRow]
    BY DEF ModelReplaced
  <2> QED  BY <2>1, <2>2, RowType DEF Windows, WindowFits
<1>2. ASSUME NEW f \in Fetches
      PROVE  /\ fetches'[f] \in Requests /\ RequestFits(fetches'[f])
             /\ fetches'[f].header = fetches[f].header
             /\ fetches'[f].kind = fetches[f].kind
             /\ fetches'[f].stage = fetches[f].stage
  <2>1. fetches[f] \in Requests /\ RequestFits(fetches[f])
    BY DEF IInv, RequestsFit
  <2>2. CASE fetches[f].row.at = "here"
    <3>1. fetches'[f] = [fetches[f] EXCEPT !.row =
                             [fetches[f].row EXCEPT !.at = "old"]]
      BY <2>1, <2>2 DEF ModelReplaced, Requests
    <3>2. /\ [fetches[f].row EXCEPT !.at = "old"] \in Rows
          /\ [fetches[f].row EXCEPT !.at = "old"].at = "old"
      BY <2>1 DEF Requests, Rows
    <3> QED  BY <2>1, <3>1, <3>2 DEF Requests, RequestFits
  <2>3. CASE fetches[f].row.at # "here"
    BY <2>1, <2>3 DEF ModelReplaced
  <2> QED  BY <2>2, <2>3
<1>3. fetches' \in [Fetches -> Requests] /\ viewers' \in [Viewers -> Windows]
  BY <1>1, <1>2 DEF ModelReplaced
<1>4. rows' = {} /\ UNCHANGED <<drafts, registered, abandoned>>
  BY DEF ModelReplaced
<1> QED  BY <1>1, <1>2, <1>3, <1>4, RowsFit DEF IInv, ViewersFit

-----------------------------------------------------------------------------
(* The theorems. *)

LEMMA Initially == ViewersInit => IInv
<1> SUFFICES ASSUME ViewersInit PROVE IInv
  OBVIOUS
<1>1. ViewersFit(viewers)
  BY NoWindow DEF ViewersInit, ViewersFit, WindowFits
<1>2. RequestsFit(fetches)
  BY NoRequest DEF ViewersInit, RequestsFit
<1> QED  BY <1>1, <1>2 DEF ViewersInit, IInv, RegistryFits

LEMMA Inductive == IInv /\ [ViewersNext]_viewersVars => IInv'
<1> SUFFICES ASSUME IInv, [ViewersNext]_viewersVars PROVE IInv'
  OBVIOUS
<1>1. CASE UNCHANGED viewersVars
  BY <1>1 DEF viewersVars, IInv
<1>2. ASSUME NEW h \in Headers, OpenMsg(h) \/ RowRemoved(h) \/ RowInserted(h)
      PROVE  IInv'
  BY <1>2, OpenMsgStep, RowRemovedStep, RowInsertedStep
<1>3. ASSUME NEW f \in Fetches,
             \/ OpenRefused(f) \/ NeverConnected(f)
             \/ OpenPerformed(f) \/ OpenDraftPerformed(f)
             \/ DraftNotOpened(f) \/ DraftOpened(f)
             \/ ReaderConnected(f) \/ ReaderNotConnected(f)
             \/ MsgShown(f) \/ MsgNotShown(f)
      PROVE  IInv'
  BY <1>3, DropStep, OpenPerformedStep, OpenDraftPerformedStep,
     DraftOpenedStep, ReaderConnectedStep, NotShownStep, MsgShownStep
<1>4. ASSUME NEW v \in Viewers, Select(v) \/ NoPrevious(v) \/ CloseViewer(v)
      PROVE  IInv'
  BY <1>4, SelectStep, NoPreviousStep, CloseViewerStep
<1>5. CASE ModelReplaced
  BY <1>5, ModelReplacedStep
<1> QED  BY <1>1, <1>2, <1>3, <1>4, <1>5 DEF ViewersNext

THEOREM Invariant == ViewersSpec => []IInv
  BY Initially, Inductive, PTL DEF ViewersSpec

\* What a window acts on is what it shows (view_msg_cb, get_header and the
\* handlers of the list's signals), however many windows, requests and
\* messages there are.
THEOREM RowAlwaysShown == ViewersSpec => []RowIsShown
<1>1. IInv => RowIsShown
  BY DEF IInv, ViewersFit, WindowFits, Windows, RowIsShown, HeaderOf, Valid,
         OpenViewers
<1> QED  BY <1>1, Invariant, PTL

\* No message stays registered as being opened without a request for it, but
\* for those the code gives up (open_msg_from_header, message_reader,
\* view_msg_cb and register_window).
THEOREM RegistryAlwaysFreed == ViewersSpec => []RegistryIsFreed
<1>1. IInv => RegistryIsFreed
  BY DEF IInv, RegistryFits, Held, Holds, RegistryIsFreed
<1> QED  BY <1>1, Invariant, PTL

-----------------------------------------------------------------------------
(* The attachments.                                                        *)

\* A set of natural numbers has a least element.
LEMMA LeastNatural ==
    ASSUME NEW T \in SUBSET Nat, T # {}
    PROVE  \E x \in T : \A y \in T : x <= y
  <1>1. PICK x \in T : \A y \in T : ~ (<<y, x>> \in OpToRel(<, Nat))
    BY NatLessThanWellFounded, WFMin, Zenon
  <1>2. ASSUME NEW y \in T PROVE x <= y
    <2>1. y < x => <<y, x>> \in OpToRel(<, Nat)
      BY DEF OpToRel
    <2>2. ~ (y < x)
      BY <1>1, <2>1, Zenon
    <2> QED
      BY <2>2
  <1> QED
    BY <1>2

HasGreatest(T) == \E x \in T : \A y \in T : x >= y

\* A finite set of natural numbers has a greatest one: the last attachment
\* left to save exists.
LEMMA MaxInSet ==
    ASSUME NEW T \in SUBSET Nat, T # {}, IsFiniteSet(T)
    PROVE  Max(T) \in T /\ \A y \in T : Max(T) >= y
  <1> DEFINE Bad == {n \in Nat : \E S \in SUBSET T :
                         S # {} /\ ~ HasGreatest(S) /\ Cardinality(S) = n}
  <1>1. ASSUME NEW S \in SUBSET T PROVE IsFiniteSet(S) /\ Cardinality(S) \in Nat
    BY FS_Subset, FS_CardinalityType
  <1>2. Bad = {}
    <2> SUFFICES ASSUME Bad # {} PROVE FALSE
      OBVIOUS
    <2>1. PICK n \in Bad : \A k \in Bad : n <= k
      <3>1. Bad \in SUBSET Nat
        OBVIOUS
      <3> HIDE DEF Bad
      <3> QED
        BY <3>1, LeastNatural
    <2>2. PICK S \in SUBSET T : S # {} /\ ~ HasGreatest(S) /\ Cardinality(S) = n
      BY <2>1
    <2>3. PICK x \in S : TRUE
      BY <2>2
    <2>4. Cardinality(S \ {x}) = n - 1 /\ n \in Nat /\ n - 1 \in Nat
      <3>1. Cardinality(S \ {x}) = Cardinality(S) - 1
        BY <1>1, FS_RemoveElement
      <3>2. Cardinality(S \ {x}) \in Nat
        BY <1>1
      <3> QED
        BY <2>2, <3>1, <3>2
    <2>5. n - 1 \notin Bad
      <3> HIDE DEF Bad
      <3> QED
        BY <2>1, <2>4
    <2>6. S \ {x} = {} \/ HasGreatest(S \ {x})
      BY <2>4, <2>5
    <2>7. CASE S \ {x} = {}
      BY <2>2, <2>3, <2>7 DEF HasGreatest
    <2>8. CASE HasGreatest(S \ {x})
      <3>1. PICK m \in S \ {x} : \A y \in S \ {x} : m >= y
        BY <2>8 DEF HasGreatest
      <3>2. m \in Nat /\ x \in Nat /\ S \in SUBSET Nat
        OBVIOUS
      <3> QED
        BY <2>2, <3>1, <3>2 DEF HasGreatest
    <2> QED
      BY <2>6, <2>7, <2>8
  <1>3. HasGreatest(T)
    <2>1. T \in SUBSET T /\ Cardinality(T) \in Nat
      BY <1>1
    <2> QED
      BY <1>2, <2>1
  <1> QED
    BY <1>3 DEF HasGreatest, Max

\* The files of a saving that were tried.
Tried(v) == v.asked \ v.left

\* How a saving stands: files are tried from the last to the first, the result
\* is that of the one tried last, and there is one left until it is reported.
SaveFits(v) ==
    /\ v.left \subseteq v.asked
    /\ v.written \subseteq Tried(v)
    /\ \A p \in Tried(v), q \in v.left : p > q
    /\ v.stage \in {"ask", "thread", "connect", "connecting"} =>
         v.left # {} /\ v.result # "canceled"
    /\ v.stage # "free" => v.asked # {}
    /\ v.result = "unset" => v.written = {}
    /\ v.result \in {"ok", "failed"} =>
         /\ Tried(v) # {}
         /\ Min(Tried(v)) \in Tried(v)
         /\ v.result = "ok" <=> Min(Tried(v)) \in v.written
    /\ v.result = "canceled" => v.left # {}
    /\ v.stage = "told" =>
         v.told = IF v.result = "unset" THEN "failed" ELSE v.result

SavesFit(vs) ==
    /\ vs \in [Saves -> Save]
    /\ \A s \in Saves : SaveFits(vs[s])

\* No saving is under way at the start.
LEMMA NoSaveFits == NoSave \in Save /\ SaveFits(NoSave)
  BY DEF NoSave, Save, SaveFits, Stages, Threading, Results, Tried

\* A step of one saving.
LEMMA OneSaveSteps ==
    ASSUME NEW vs, NEW s \in Saves, NEW v \in Save, SavesFit(vs), SaveFits(v)
    PROVE  SavesFit([vs EXCEPT ![s] = v])
  BY DEF SavesFit

\* A saving that goes on to another step with a file left, or to its report.
LEMMA NextStage ==
    ASSUME NEW v \in Save, SaveFits(v), v.stage \notin {"free", "told"},
           NEW stage \in {"thread", "connect", "connecting", "report"},
           stage # "report" => v.left # {} /\ v.result # "canceled"
    PROVE  /\ [v EXCEPT !.stage = stage] \in Save
           /\ SaveFits([v EXCEPT !.stage = stage])
  BY DEF Save, SaveFits, Tried, Stages, Threading

\* The file tried last is the first of those that were tried.
LEMMA FileTried ==
    ASSUME NEW v \in Save, SaveFits(v), v.stage = "thread", NEW ok \in BOOLEAN
    PROVE  LET p == Max(v.left)
               left == v.left \ {p}
               w == [v EXCEPT !.left = left,
                              !.written = IF ok THEN @ \union {p} ELSE @,
                              !.result = IF ok THEN "ok" ELSE "failed",
                              !.stage = IF left = {} THEN "report" ELSE @]
           IN  w \in Save /\ SaveFits(w)
  <1> DEFINE p == Max(v.left)
             left == v.left \ {p}
             written == IF ok THEN v.written \union {p} ELSE v.written
             result == IF ok THEN "ok" ELSE "failed"
             stage == IF left = {} THEN "report" ELSE v.stage
             w == [v EXCEPT !.left = left, !.written = written,
                            !.result = result, !.stage = stage]
  <1>1. p \in v.left /\ \A q \in v.left : p >= q
    <2>1. v.left # {} /\ v.left \in SUBSET Nat /\ IsFiniteSet(v.left)
      BY AttachmentsAssumption, FS_Subset DEF SaveFits, Save
    <2> QED
      BY <2>1, MaxInSet
  <1>2. p \in Parts /\ v.left \in SUBSET Nat /\ v.asked \in SUBSET Nat
    BY <1>1, AttachmentsAssumption DEF Save
  <1> HIDE DEF p
  <1>3. left \in SUBSET Parts /\ written \in SUBSET Parts
    BY <1>2 DEF Save
  <1> HIDE DEF left, written, result, stage
  <1>4. stage \in Stages /\ result \in Results
    BY DEF Save, Stages, Threading, Results, stage, result
  <1>5. /\ w \in Save
        /\ w.stage = stage /\ w.asked = v.asked /\ w.left = left
        /\ w.written = written /\ w.result = result /\ w.told = v.told
    BY <1>3, <1>4 DEF Save
  <1> HIDE DEF w
  <1>6. Tried(w) = Tried(v) \union {p}
    BY <1>1, <1>5 DEF Tried, left, SaveFits
  <1>7. \A q \in Tried(v) : q > p /\ q \in Nat
    BY <1>1, <1>2 DEF SaveFits, Tried
  <1>8. Min(Tried(w)) = p
    <2> DEFINE T == Tried(w)
    <2>1. p \in T /\ \A q \in T : q \in Nat /\ p <= q
      BY <1>2, <1>6, <1>7, AttachmentsAssumption
    <2> HIDE DEF T
    <2>2. \A x \in T : (\A y \in T : x =< y) => x = p
      BY <2>1
    <2>3. \A y \in T : p =< y
      BY <2>1
    <2>4. Min(T) = p
      BY <2>1, <2>2, <2>3 DEF Min
    <2> QED
      BY <2>4 DEF T
  <1>9. \A q \in w.left : p > q
    BY <1>1, <1>2, <1>5 DEF left
  <1>10. v.written \subseteq Tried(v) /\ p \notin v.written
    BY <1>1 DEF SaveFits, Tried
  <1>11. /\ w.left \subseteq w.asked /\ w.asked # {}
         /\ w.written \subseteq Tried(w)
         /\ \A t \in Tried(w), q \in w.left : t > q
    <2>1. v.left \subseteq v.asked /\ \A t \in Tried(v), q \in v.left : t > q
      BY DEF SaveFits
    <2>2. w.left \subseteq v.left /\ w.asked = v.asked
      BY <1>5 DEF left
    <2>3. w.written \subseteq v.written \union {p}
      BY <1>5 DEF written
    <2> QED
      BY <1>1, <1>6, <1>9, <1>10, <2>1, <2>2, <2>3
  <1>12. /\ w.result = IF ok THEN "ok" ELSE "failed"
         /\ w.result = "ok" <=> p \in w.written
         /\ w.stage = IF w.left = {} THEN "report" ELSE "thread"
    BY <1>5, <1>10 DEF written, result, stage
  <1>13. SaveFits(w)
    BY <1>6, <1>8, <1>11, <1>12 DEF SaveFits
  <1> QED
    BY <1>5, <1>13 DEF w, p, left, written, result, stage

LEMMA SaveAttachmentsFits ==
    ASSUME SavesFit(saves), NEW s \in Saves, SaveAttachments(s)
    PROVE  SavesFit(saves')
  <1>1. PICK ps \in (SUBSET Parts) \ {{}}, stage \in {"ask", "thread"} :
           Launch(s, ps, stage)
    BY DEF SaveAttachments
  <1> DEFINE v == [NoSave EXCEPT !.stage = stage, !.asked = ps, !.left = ps]
  <1>2. saves' = [saves EXCEPT ![s] = v]
    BY <1>1 DEF Launch
  <1>3. /\ v \in Save
        /\ v.stage = stage /\ v.asked = ps /\ v.left = ps
        /\ v.written = {} /\ v.result = "unset"
    <2>1. NoSave \in Save /\ stage \in Stages
      BY NoSaveFits DEF Stages, Threading
    <2>2. NoSave.written = {} /\ NoSave.result = "unset"
      BY DEF NoSave
    <2> QED
      BY <2>1, <2>2 DEF Save
  <1> HIDE DEF v
  <1>4. SaveFits(v)
    BY <1>3 DEF SaveFits, Tried
  <1> HIDE DEF v
  <1> QED
    BY <1>2, <1>3, <1>4, OneSaveSteps

LEMMA ReplaceFits ==
    ASSUME SavesFit(saves), NEW s \in Saves, NEW yes \in BOOLEAN, Replace(s, yes)
    PROVE  SavesFit(saves')
  <1> DEFINE w == [saves[s] EXCEPT !.stage = "thread"]
  <1>1. saves[s] \in Save /\ SaveFits(saves[s]) /\ saves[s].stage = "ask"
    BY DEF SavesFit, Replace
  <1>2. w \in Save /\ SaveFits(w)
    <2>1. saves[s].left # {} /\ saves[s].result # "canceled"
      BY <1>1 DEF SaveFits
    <2> QED
      BY <1>1, <2>1, NextStage
  <1>3. saves' = [saves EXCEPT ![s] = IF yes THEN w ELSE NoSave]
    BY DEF Replace
  <1> HIDE DEF w
  <1> QED
    BY <1>2, <1>3, NoSaveFits, OneSaveSteps

LEMMA WriteFileFits ==
    ASSUME SavesFit(saves), NEW s \in Saves, NEW ok \in BOOLEAN, WriteFile(s, ok)
    PROVE  SavesFit(saves')
  <1> DEFINE v == saves[s]
             p == Max(v.left)
             left == v.left \ {p}
             w == [v EXCEPT !.left = left,
                            !.written = IF ok THEN v.written \union {p} ELSE v.written,
                            !.result = IF ok THEN "ok" ELSE "failed",
                            !.stage = IF left = {} THEN "report" ELSE v.stage]
  <1>1. saves[s] \in Save /\ SaveFits(saves[s]) /\ saves[s].stage = "thread"
    BY DEF SavesFit, WriteFile
  <1>2. w \in Save /\ SaveFits(w)
    BY <1>1, FileTried
  <1>3. saves' = [saves EXCEPT ![s] = w]
    BY Zenon DEF WriteFile
  <1> HIDE DEF w
  <1> QED
    BY <1>2, <1>3, OneSaveSteps

\* Asking for a connection and getting one changes the step only.
LEMMA ConnectingFits ==
    ASSUME SavesFit(saves), NEW s \in Saves,
           GiveUpThread(s) \/ ConnectIdle(s)
    PROVE  SavesFit(saves')
  <1>1. saves[s] \in Save /\ SaveFits(saves[s])
    BY DEF SavesFit
  <1>2. saves[s].stage \in {"thread", "connect"}
    BY DEF GiveUpThread, ConnectIdle
  <1>3. saves[s].left # {} /\ saves[s].result # "canceled"
    BY <1>1, <1>2 DEF SaveFits
  <1>4. PICK stage \in {"thread", "connect", "connecting"} :
           saves' = [saves EXCEPT ![s].stage = stage]
    BY DEF GiveUpThread, ConnectIdle
  <1>5. /\ [saves[s] EXCEPT !.stage = stage] \in Save
        /\ SaveFits([saves[s] EXCEPT !.stage = stage])
    BY <1>1, <1>2, <1>3, NextStage
  <1>6. saves' = [saves EXCEPT ![s] = [saves[s] EXCEPT !.stage = stage]]
    BY <1>4
  <1> QED
    BY <1>5, <1>6, OneSaveSteps

LEMMA ConnectedFits ==
    ASSUME SavesFit(saves), NEW s \in Saves, Connected(s)
    PROVE  SavesFit(saves')
  <1> DEFINE v == saves[s]
             canceled == [v EXCEPT !.stage = "report", !.result = "canceled"]
  <1>1. v \in Save /\ SaveFits(v) /\ v.stage = "connecting"
    BY DEF SavesFit, Connected
  <1>2. v.left # {} /\ v.result # "canceled"
    BY <1>1 DEF SaveFits
  <1>3. ASSUME NEW stage \in {"thread", "report"}
        PROVE  /\ [v EXCEPT !.stage = stage] \in Save
               /\ SaveFits([v EXCEPT !.stage = stage])
    BY <1>1, <1>2, NextStage
  <1>4. canceled \in Save /\ SaveFits(canceled)
    BY <1>1, <1>2 DEF Save, SaveFits, Tried, Stages, Threading, Results
  <1>5. \/ saves' = [saves EXCEPT ![s] = [v EXCEPT !.stage = "thread"]]
        \/ saves' = [saves EXCEPT ![s] = [v EXCEPT !.stage = "report"]]
        \/ saves' = [saves EXCEPT ![s] = canceled]
    BY DEF Connected
  <1> HIDE DEF v, canceled
  <1> QED
    BY <1>3, <1>4, <1>5, OneSaveSteps

LEMMA ShowResultFits ==
    ASSUME SavesFit(saves), NEW s \in Saves, ShowResult(s)
    PROVE  SavesFit(saves')
  <1> DEFINE v == saves[s]
             told == IF v.result = "unset" THEN "failed" ELSE v.result
             w == [v EXCEPT !.stage = "told", !.told = told]
  <1> HIDE DEF told
  <1>1. v \in Save /\ SaveFits(v) /\ v.stage = "report"
    BY DEF SavesFit, ShowResult
  <1>2. told \in Results
    BY <1>1 DEF Save, Results, told
  <1>3. /\ w \in Save
        /\ w.stage = "told" /\ w.asked = v.asked /\ w.left = v.left
        /\ w.written = v.written /\ w.result = v.result /\ w.told = told
    BY <1>1, <1>2 DEF Save, Stages
  <1>4. SaveFits(w)
    BY <1>1, <1>3 DEF SaveFits, Tried, told
  <1>5. saves' = [saves EXCEPT ![s] = w]
    BY Zenon DEF ShowResult, told
  <1> HIDE DEF w
  <1> QED
    BY <1>3, <1>4, <1>5, OneSaveSteps

\* For any attachments and any number of savings, the user is told "Saved" only
\* with the file that was tried last in place, and of a failure or nothing only
\* with a file missing.
THEOREM SavedIsTold == AttachSpec => []ReportFitsLastFile
  <1>1. AttachInit => SavesFit(saves)
    BY NoSaveFits DEF AttachInit, SavesFit
  <1>2. SavesFit(saves) /\ [AttachNext]_attachVars => SavesFit(saves)'
    <2> SUFFICES ASSUME SavesFit(saves), [AttachNext]_attachVars
                 PROVE  SavesFit(saves')
      BY DEF SavesFit
    <2>1. ASSUME UNCHANGED saves PROVE SavesFit(saves')
      BY <2>1
    <2>2. ASSUME NEW s \in Saves,
                 \/ SaveAttachments(s) \/ GiveUpThread(s) \/ ConnectIdle(s)
                 \/ Connected(s) \/ ShowResult(s)
                 \/ \E ok \in BOOLEAN : Replace(s, ok) \/ WriteFile(s, ok)
          PROVE  SavesFit(saves')
      BY <2>2, SaveAttachmentsFits, ConnectingFits, ConnectedFits,
         ShowResultFits, ReplaceFits, WriteFileFits
    <2>3. ASSUME NEW o, NEW ok,
                 ViewAttachment(o) \/ Decoded(o, ok) \/ OperationStarted(o)
                 \/ OperationFinished(o)
          PROVE  UNCHANGED saves
      BY <2>3 DEF ViewAttachment, Decoded, OperationStarted, OperationFinished
    <2>4. Close \/ LinkChanges => UNCHANGED saves
      BY DEF Close, LinkChanges
    <2>5. UNCHANGED attachVars => UNCHANGED saves
      BY DEF attachVars
    <2> QED
      BY <2>1, <2>2, <2>3, <2>4, <2>5 DEF AttachNext
  <1>3. SavesFit(saves) => ReportFitsLastFile
    <2> SUFFICES ASSUME SavesFit(saves), NEW s \in Saves, saves[s].stage = "told"
                 PROVE  /\ saves[s].told = "ok" =>
                             /\ saves[s].asked # saves[s].left
                             /\ Min(saves[s].asked \ saves[s].left) \in saves[s].written
                        /\ saves[s].told # "ok" => saves[s].written # saves[s].asked
      BY DEF ReportFitsLastFile
    <2> DEFINE v == saves[s]
    <2>1. v \in Save /\ SaveFits(v) /\ v.stage = "told"
      BY DEF SavesFit
    <2> HIDE DEF v
    <2>2. v.result \in Results /\ v.asked # {}
      BY <2>1 DEF Save, SaveFits
    <2>3. /\ v.told = "ok" => v.asked # v.left /\ Min(v.asked \ v.left) \in v.written
          /\ v.told # "ok" => v.written # v.asked
      BY <2>1, <2>2 DEF SaveFits, Tried, Results
    <2> QED
      BY <2>3 DEF v
  <1> QED
    BY <1>1, <1>2, <1>3, PTL DEF AttachSpec

-----------------------------------------------------------------------------
(* The editors.                                                            *)

\* A message that exists or is being made.
Made(n) == ops[n].kind # "none" \/ Stored(n)

\* A message as the operation that makes it has left it.
OpFits(n) ==
    LET o == ops[n] IN
    /\ o.kind = "none" => o.by = 0 /\ o.old = None /\ o.stage = "none" /\ ~o.amiss
    /\ o.kind # "none" => o.by # 0 /\ o.stage # "none"
    /\ o.kind # "none" /\ Stored(n) => o.stage \in {"done", "crashed"}
    /\ o.stage = "done" => Stored(n)
    /\ o.kind = "save" => where[n] \in {"none", "drafts", "gone"}
    /\ Made(n) => \A k \in Messages : k < n => Made(k)

\* The old draft of the operation that makes message n: it is an older message,
\* and gone when the new one is there, if the same editor made both.
OldFits(n) ==
    LET o == ops[n] IN
    o.old # None =>
        /\ o.old < n /\ Stored(o.old)
        /\ ops[o.old].by = o.by =>
             /\ ops[o.old].kind = "save"
             /\ o.kind = "save" /\ o.stage = "done" => where[o.old] = "gone"
             /\ o.kind = "send" /\ o.stage \in {"adding", "done"} /\ ~o.amiss
                  => o.old \in dropping \/ where[o.old] = "gone"

\* What became of a message that is gone or will be.
Kept(m) == \E n \in Messages : Replaces(n, m) /\ (Stored(n) \/ Unfinished(n))

KeptFits(m) == where[m] = "gone" \/ m \in dropping => Kept(m)

\* The old draft an editor came with: none, or one another editor had made.
Foreign(e, m) == m = None \/ ops[m].by # e

\* A message of the editor that a later one of it replaces.
Superseded(e, m) ==
    \E n \in Messages : ops[n].by = e /\ Stored(n) /\ ops[n].old = m

\* Two of its operations started from the same old draft.
Twins(e) ==
    \E a, b \in Messages :
        /\ a # b /\ ops[a].by = e /\ ops[b].by = e
        /\ ops[a].old = ops[b].old /\ Stored(a) /\ Stored(b)

Died(e) == \E a \in Messages : ops[a].by = e /\ ops[a].stage = "crashed"

\* The messages an editor has stored are one chain from the draft it came
\* with, as long as no two of its operations started from the same draft.
ChainFits(e) ==
    /\ \A a, b \in Messages :
         /\ ops[a].by = e /\ ops[b].by = e
         /\ Foreign(e, ops[a].old) /\ Foreign(e, ops[b].old)
         => ops[a].old = ops[b].old
    /\ ~Died(e) =>
         /\ \A s \in Messages : ops[s].by = e /\ Stored(s) =>
              \E r \in Messages :
                  ops[r].by = e /\ Stored(r) /\ Foreign(e, ops[r].old)
         /\ \A a, b \in Messages :
              /\ ops[a].by = e /\ Stored(a) /\ ~Superseded(e, a)
              /\ ops[b].by = e /\ Stored(b) /\ ~Superseded(e, b)
              => a = b \/ Twins(e)

Amiss(e) == \E n \in Messages : ops[n].by = e /\ ops[n].amiss

\* A window whose draft is one of its own saves.
HasOwn(e, w) ==
    w.phase = "open" /\ w.draft # None /\ ops[w.draft].by = e /\ ~Amiss(e)

\* Window w of editor e and the operations of that editor.
DraftStored(w) == /\ w.draft # None => Stored(w.draft)
                  /\ w.phase = "opening" => w.draft # None

OwnIsSave(e, w) == w.draft # None /\ ops[w.draft].by = e
                     => ops[w.draft].kind = "save"

FreshIdle(e, w) == w.phase \in {"none", "opening"}
                     => \A n \in Messages : ops[n].by # e

OpenUnsent(w) == w.phase \in {"opening", "open"} => ~w.sent

SendCloses(e, w) ==
    \A n \in Messages :
       ops[n].by = e /\ ops[n].kind = "send" /\ ops[n].stage # "failed"
         => w.phase # "open"

Handed(e, w) ==
    /\ w.phase = "closed" \/ (w.phase = "open" /\ ~Modified(w))
    /\ w.text # w.base
    => \E n \in Messages : ops[n].by = e /\ ops[n].text = w.text

SameStart(e, w) ==
    \A a \in Messages :
       ops[a].by = e /\ Foreign(e, ops[a].old) /\ Foreign(e, w.draft)
         => ops[a].old = w.draft

OwnLive(e, w) ==
    HasOwn(e, w) =>
      /\ where[w.draft] = "drafts" /\ w.draft \notin dropping
      /\ \A n \in Messages : ops[n].old = w.draft => ops[n].by = e

EditorFits(e, w) ==
    /\ DraftStored(w) /\ OwnIsSave(e, w) /\ FreshIdle(e, w) /\ OpenUnsent(w)
    /\ SendCloses(e, w) /\ Handed(e, w) /\ SameStart(e, w) /\ OwnLive(e, w)

\* No two windows have the same save.
OwnAlone(eds) ==
    \A e, d \in Editors :
        e # d /\ HasOwn(e, eds[e]) => eds[d].draft # eds[e].draft

WindowsFit(eds) == /\ \A e \in Editors : EditorFits(e, eds[e])
                   /\ OwnAlone(eds)

OpsFit ==
    /\ \A n \in Messages : OpFits(n) /\ OldFits(n) /\ KeptFits(n)
    /\ \A e \in Editors : ChainFits(e)

\* The inductive invariant.
ComposerInv == ComposerTypeOK /\ OpsFit /\ WindowsFit(editors)
-----------------------------------------------------------------------------
(* Facts the proofs keep needing.                                          *)

Window ==
    [phase : {"none", "opening", "open", "closed", "dropped", "crashed"},
     text : Texts, base : Texts, modified : BOOLEAN, sender : BOOLEAN,
     sent : BOOLEAN, draft : Messages \union {None}]

Operation ==
    [kind : {"none", "save", "send"}, by : Editors \union {0},
     text : Texts, old : Messages \union {None},
     stage : {"none", "creating", "adding", "done", "failed", "stuck",
              "lost", "crashed"},
     amiss : BOOLEAN]

LEMMA Numbers ==
    /\ Messages \subseteq Nat /\ Editors \subseteq Nat /\ Texts \subseteq Nat
    /\ None \notin Messages /\ 0 \notin Editors /\ 0 \in Texts
BY ComposerAssumption DEF Messages, Editors, Texts, None

\* An operation stays the same mail: kind, editor, text and old draft.
SameMail(n) == /\ ops'[n].kind = ops[n].kind /\ ops'[n].by = ops[n].by
               /\ ops'[n].text = ops[n].text /\ ops'[n].old = ops[n].old

\* A mail under way stays so until it is stored.
Underway(n) == /\ Stored(n) => Stored(n)'
               /\ Unfinished(n) => Stored(n)' \/ Unfinished(n)'

\* What a message that is gone was replaced by is not forgotten.
LEMMA KeptStable ==
    ASSUME NEW m \in Messages, Kept(m),
           \A n \in Messages : ops[n].kind # "none" => SameMail(n),
           \A n \in Messages : Underway(n)
    PROVE  Kept(m)'
BY DEF Kept, Replaces, SameMail, Underway

\* The next message is younger than all others.
LEMMA NewestMsg ==
    ASSUME NEW m \in Messages, NewMsg(m), NEW n \in Messages, Made(n),
           \A k \in Messages : OpFits(k)
    PROVE  n < m
<1>1. ~Made(m)
  BY DEF NewMsg, Made, Stored
<1>2. ~(m < n)
  BY <1>1 DEF OpFits
<1> QED
  BY <1>1, <1>2, Numbers

\* The facts that do not change when the folders and operations do not.
LEMMA WindowsStable ==
    ASSUME NEW eds, WindowsFit(eds), editors' = eds,
           UNCHANGED <<ops, where, dropping>>
    PROVE  WindowsFit(editors)'
BY DEF WindowsFit, EditorFits, DraftStored, OwnIsSave, FreshIdle, OpenUnsent,
       SendCloses, Handed, SameStart, OwnLive, HasOwn, Amiss, Foreign,
       OwnAlone, Stored, Modified

LEMMA OpsStable ==
    ASSUME OpsFit, UNCHANGED <<ops, where, dropping>>
    PROVE  OpsFit'
BY DEF OpsFit, OpFits, OldFits, KeptFits, ChainFits, Kept, Made, Stored,
       Replaces, Unfinished, Foreign, Superseded, Twins, Died

\* One window in place of another: it must fit, and nobody else has its draft.
LEMMA PutWindow ==
    ASSUME NEW eds \in [Editors -> Window], WindowsFit(eds),
           NEW e \in Editors, NEW w \in Window, EditorFits(e, w),
           HasOwn(e, w) => HasOwn(e, eds[e]) /\ w.draft = eds[e].draft,
           \A d \in Editors : d # e /\ HasOwn(d, eds[d])
                                => w.draft # eds[d].draft
    PROVE  /\ [eds EXCEPT ![e] = w] \in [Editors -> Window]
           /\ WindowsFit([eds EXCEPT ![e] = w])
<1> DEFINE new == [eds EXCEPT ![e] = w]
<1>1. new \in [Editors -> Window]
  OBVIOUS
<1>2. \A d \in Editors : new[d] = IF d = e THEN w ELSE eds[d]
  OBVIOUS
<1> HIDE DEF new
<1>3. \A d \in Editors : EditorFits(d, new[d])
  BY <1>2 DEF WindowsFit
<1>4. OwnAlone(new)
  BY <1>2 DEF WindowsFit, OwnAlone
<1> QED
  BY <1>1, <1>3, <1>4 DEF WindowsFit, new

\* A window as it was but for its text: its draft is the same.
LEMMA SameDraft ==
    ASSUME NEW eds \in [Editors -> Window], WindowsFit(eds),
           NEW e \in Editors, NEW w \in Window,
           w.draft = eds[e].draft, EditorFits(e, w),
           w.phase = "open" => eds[e].phase = "open" \/ eds[e].phase = "opening"
    PROVE  /\ [eds EXCEPT ![e] = w] \in [Editors -> Window]
           /\ WindowsFit([eds EXCEPT ![e] = w])
<1>1. HasOwn(e, w) => HasOwn(e, eds[e])
  BY Numbers DEF WindowsFit, EditorFits, FreshIdle, HasOwn, Window
<1>2. ASSUME NEW d \in Editors, d # e, HasOwn(d, eds[d])
      PROVE  w.draft # eds[d].draft
  BY <1>2 DEF WindowsFit, OwnAlone
<1> QED
  BY <1>1, <1>2, PutWindow
-----------------------------------------------------------------------------
(* A new operation.                                                        *)

NewOp(c, kind, stage) ==
    [kind |-> kind, by |-> c, text |-> editors[c].text,
     old |-> editors[c].draft, stage |-> stage, amiss |-> FALSE]

\* Message m is given to a new operation of an open window.
Starts(c, kind, stage, m) ==
    /\ editors[c].phase = "open"
    /\ NewMsg(m)
    /\ ops' = [ops EXCEPT ![m] = NewOp(c, kind, stage)]
    /\ UNCHANGED <<where, dropping>>

\* What a start leaves.
Started(c, kind, stage, m) ==
    /\ ops' \in [Messages -> Operation]
    /\ \A n \in Messages : n # m => ops'[n] = ops[n]
    /\ ops'[m].kind = kind /\ ops'[m].by = c /\ ops'[m].stage = stage
    /\ ops'[m].text = editors[c].text /\ ops'[m].old = editors[c].draft
    /\ ops'[m].amiss = FALSE
    /\ ops[m].kind = "none" /\ ops[m].by = 0 /\ ops[m].old = None
    /\ ~Stored(m) /\ ~Stored(m)'
    /\ \A n \in Messages : (Stored(n) <=> Stored(n)')
    /\ \A n \in Messages : ops[n].old # m /\ ops'[n].old # m

LEMMA StartFacts ==
    ASSUME ComposerInv, NEW c \in Editors, NEW kind \in {"save", "send"},
           NEW stage \in {"creating", "failed"}, NEW m \in Messages,
           Starts(c, kind, stage, m)
    PROVE  Started(c, kind, stage, m)
<1>1. /\ ops \in [Messages -> Operation] /\ editors[c] \in Window
      /\ editors[c].draft # None => Stored(editors[c].draft)
      /\ \A n \in Messages : OpFits(n) /\ OldFits(n)
  BY DEF ComposerInv, ComposerTypeOK, OpsFit, WindowsFit, EditorFits,
         DraftStored, Starts, Operation, Window
<1>2. NewOp(c, kind, stage) \in Operation
  BY <1>1 DEF NewOp, Operation, Window, Starts
<1>3. ops' \in [Messages -> Operation]
  BY <1>1, <1>2 DEF Starts
<1>4. /\ \A n \in Messages : n # m => ops'[n] = ops[n]
      /\ ops'[m] = NewOp(c, kind, stage)
  BY <1>1 DEF Starts
<1>5. /\ ops[m].kind = "none" /\ ~Stored(m) /\ ~Stored(m)' /\ m \in Messages
      /\ \A n \in Messages : (Stored(n) <=> Stored(n)')
  BY DEF Starts, NewMsg, Stored
<1>6. ops[m].by = 0 /\ ops[m].old = None
  BY <1>1, <1>5 DEF OpFits
<1>7. ASSUME NEW n \in Messages
      PROVE  ops[n].old # m
  BY <1>1, <1>5, Numbers DEF OldFits
<1>8. editors[c].draft # m
  BY <1>1, <1>5, Numbers
<1>9. ASSUME NEW n \in Messages
      PROVE  ops'[n].old # m
  BY <1>4, <1>7, <1>8 DEF NewOp
<1> QED
  BY <1>3, <1>4, <1>5, <1>6, <1>7, <1>9 DEF Started, NewOp

LEMMA OpsStart ==
    ASSUME ComposerInv, NEW c \in Editors, NEW kind \in {"save", "send"},
           NEW stage \in {"creating", "failed"}, NEW m \in Messages,
           Starts(c, kind, stage, m)
    PROVE  OpsFit'
<1>0. Started(c, kind, stage, m)
  BY StartFacts
<1>1. /\ \A n \in Messages : n # m => ops'[n] = ops[n]
      /\ ops'[m].kind = kind /\ ops'[m].by = c /\ ops'[m].stage = stage
      /\ ops'[m].old = editors[c].draft /\ ops'[m].amiss = FALSE
      /\ ops[m].kind = "none" /\ ops[m].by = 0 /\ ops[m].old = None
      /\ ~Stored(m) /\ ~Stored(m)'
      /\ \A n \in Messages : (Stored(n) <=> Stored(n)')
      /\ \A n \in Messages : ops[n].old # m /\ ops'[n].old # m
  BY <1>0 DEF Started
<1>2. /\ c \in Editors /\ c # 0 /\ editors[c].phase = "open" /\ m \in Messages
      /\ kind \in {"save", "send"} /\ stage \in {"creating", "failed"}
      /\ NewMsg(m) /\ where' = where /\ dropping' = dropping
  BY Numbers DEF Starts
<1>3. /\ EditorFits(c, editors[c]) /\ editors[c] \in Window
      /\ \A n \in Messages : OpFits(n) /\ OldFits(n) /\ KeptFits(n)
      /\ \A e \in Editors : ChainFits(e)
  BY <1>2 DEF ComposerInv, OpsFit, WindowsFit, ComposerTypeOK, Window
<1>4. ASSUME NEW n \in Messages
      PROVE  OpFits(n)'
  <2>1. \A k \in Messages : Made(k) => Made(k)'
    BY <1>1 DEF Made
  <2>2. CASE n = m
    <3>1. \A k \in Messages : k < m => Made(k)
      BY <1>2, Numbers DEF NewMsg, Made, Stored
    <3> QED
      BY <1>1, <1>2, <2>1, <2>2, <3>1 DEF OpFits, Stored, Made
  <2>3. CASE n # m
    BY <1>1, <1>2, <1>3, <2>1, <2>3 DEF OpFits, Stored, Made
  <2> QED
    BY <2>2, <2>3
<1>5. ASSUME NEW n \in Messages
      PROVE  OldFits(n)'
  <2>1. CASE n = m
    <3>1. ASSUME editors[c].draft # None
          PROVE  /\ editors[c].draft \in Messages /\ Stored(editors[c].draft)
                 /\ editors[c].draft < m
                 /\ ops[editors[c].draft].by = c
                      => ops[editors[c].draft].kind = "save"
      <4>1. editors[c].draft \in Messages /\ Stored(editors[c].draft)
        BY <1>3, <3>1 DEF EditorFits, DraftStored, Window
      <4> QED
        BY <1>2, <1>3, <3>1, <4>1, NewestMsg
           DEF EditorFits, OwnIsSave, Made
    <3> QED
      BY <1>1, <1>2, <2>1, <3>1 DEF OldFits, Stored
  <2>2. CASE n # m
    <3>1. ops[n].old # None => ops[n].old \in Messages
      BY DEF ComposerInv, ComposerTypeOK
    <3>2. /\ ops'[n] = ops[n] /\ ops[n].old # m
          /\ ops[n].old # None => ops'[ops[n].old] = ops[ops[n].old]
      BY <1>1, <2>2, <3>1
    <3> QED
      BY <1>2, <1>3, <3>1, <3>2 DEF OldFits, Stored
  <2> QED
    BY <2>1, <2>2
<1>6. ASSUME NEW n \in Messages
      PROVE  KeptFits(n)'
  <2>1. ASSUME Kept(n)
        PROVE  Kept(n)'
    <3>1. \A k \in Messages : ops[k].kind # "none" => SameMail(k)
      BY <1>1 DEF SameMail
    <3>2. \A k \in Messages : Underway(k)
      BY <1>1 DEF Underway, Unfinished
    <3> QED
      BY <2>1, <3>1, <3>2, KeptStable
  <2> QED
    BY <1>2, <1>3, <2>1 DEF KeptFits
<1>7. ASSUME NEW e \in Editors
      PROVE  ChainFits(e)'
  <2> DEFINE At0(x) == ops[x].by = e
  <2>1. /\ e # 0 /\ \A x \in Messages : x # m => (ops'[x].by = e <=> ops[x].by = e)
        /\ ~Stored(m) /\ ops[m].by # e
        /\ \A x \in Messages \union {None} :
              x # m => (Foreign(e, x)' <=> Foreign(e, x))
    BY <1>1, Numbers DEF Foreign
  <2>2. \A x \in Messages : ops[x].old \in Messages \union {None}
    BY DEF ComposerInv, ComposerTypeOK
  <2>3. editors[c].draft \in Messages \union {None} /\ editors[c].draft # m
    BY <1>1, <1>2, <1>3 DEF Window
  <2>4. ASSUME NEW a \in Messages, NEW b \in Messages,
               ops'[a].by = e, ops'[b].by = e,
               Foreign(e, ops[a].old)', Foreign(e, ops[b].old)'
        PROVE  ops'[a].old = ops'[b].old
    <3>1. \A x \in Messages : ops[x].by = e /\ e = c /\ Foreign(e, ops[x].old)
             /\ Foreign(e, editors[c].draft)
             => ops[x].old = editors[c].draft
      BY <1>3 DEF EditorFits, SameStart
    <3>2. \A x \in Messages : x # m /\ ops'[x].by = e /\ Foreign(e, ops[x].old)'
            => ops[x].by = e /\ Foreign(e, ops[x].old) /\ ops'[x].old = ops[x].old
      BY <1>1, <2>1, <2>2
    <3>3. ops'[m].by = e /\ Foreign(e, ops[m].old)'
            => e = c /\ Foreign(e, editors[c].draft)
      BY <1>1, <2>1, <2>3
    <3>4. \A x, y \in Messages : ops[x].by = e /\ Foreign(e, ops[x].old)
              /\ ops[y].by = e /\ Foreign(e, ops[y].old)
            => ops[x].old = ops[y].old
      BY <1>3 DEF ChainFits
    <3> QED
      BY <1>1, <2>4, <3>1, <3>2, <3>3, <3>4
  <2>5. Died(e)' <=> Died(e)
    BY <1>1, <1>2, <2>1, <1>3 DEF Died, OpFits
  <2>6. \A x \in Messages : ops'[x].by = e /\ Stored(x)'
            <=> ops[x].by = e /\ Stored(x)
    BY <1>1, <2>1
  <2>7. \A x \in Messages : Superseded(e, x)' <=> Superseded(e, x)
    BY <1>1, <2>1, <2>6 DEF Superseded
  <2>8. Twins(e) => Twins(e)'
    BY <1>1, <2>1, <2>6 DEF Twins
  <2>9. ASSUME ~Died(e), NEW s \in Messages, ops[s].by = e, Stored(s)
        PROVE  \E r \in Messages :
                  ops'[r].by = e /\ Stored(r)' /\ Foreign(e, ops[r].old)'
    <3>1. PICK r \in Messages :
                  ops[r].by = e /\ Stored(r) /\ Foreign(e, ops[r].old)
      BY <1>3, <2>9 DEF ChainFits
    <3>2. r # m /\ ops'[r] = ops[r] /\ ops[r].old # m
      BY <1>1, <3>1
    <3>3. Foreign(e, ops[r].old)'
      BY <1>1, <2>2, <3>1, <3>2 DEF Foreign
    <3> QED
      BY <2>6, <3>1, <3>3
  <2>10. ASSUME ~Died(e), NEW a \in Messages, NEW b \in Messages,
               ops[a].by = e, Stored(a), ~Superseded(e, a),
               ops[b].by = e, Stored(b), ~Superseded(e, b)
        PROVE  a = b \/ Twins(e)'
    BY <1>3, <2>8, <2>10 DEF ChainFits
  <2> QED
    BY <2>4, <2>5, <2>6, <2>7, <2>9, <2>10 DEF ChainFits
<1> QED
  BY <1>4, <1>5, <1>6, <1>7 DEF OpsFit
\* The windows after a start: the one it was started in is w now.
LEMMA WindowsStart ==
    ASSUME ComposerInv, NEW c \in Editors, NEW kind \in {"save", "send"},
           NEW stage \in {"creating", "failed"}, NEW m \in Messages,
           Starts(c, kind, stage, m),
           NEW eds \in [Editors -> Window], WindowsFit(eds),
           eds[c] = editors[c], NEW w \in Window,
           w.draft = editors[c].draft, w.text = editors[c].text,
           w.phase \in {"open", "closed"},
           w.phase = "open" => ~w.sent /\ (kind = "save" \/ stage = "failed"),
           editors' = [eds EXCEPT ![c] = w]
    PROVE  editors' \in [Editors -> Window] /\ WindowsFit(editors)'
<1>0. Started(c, kind, stage, m)
  BY StartFacts
<1>1. /\ \A n \in Messages : n # m => ops'[n] = ops[n]
      /\ ops'[m].kind = kind /\ ops'[m].by = c /\ ops'[m].stage = stage
      /\ ops'[m].text = editors[c].text
      /\ ops'[m].old = editors[c].draft /\ ops'[m].amiss = FALSE
      /\ ops[m].kind = "none" /\ ops[m].by = 0 /\ ops[m].old = None
      /\ ~Stored(m) /\ ~Stored(m)'
      /\ \A n \in Messages : (Stored(n) <=> Stored(n)')
      /\ \A n \in Messages : ops[n].old # m /\ ops'[n].old # m
  BY <1>0 DEF Started
<1>2. where' = where /\ dropping' = dropping /\ c # 0 /\ 0 \notin Editors
  BY Numbers DEF Starts
<1>3. /\ editors' \in [Editors -> Window]
      /\ editors'[c] = w
      /\ \A d \in Editors : d # c => editors'[d] = eds[d]
  OBVIOUS
<1>4. /\ editors'[c].draft = eds[c].draft /\ editors'[c].text = eds[c].text
      /\ eds[c].phase = "open"
      /\ \A d \in Editors : editors'[d].draft = eds[d].draft
  BY <1>3 DEF Starts
<1>5. ASSUME NEW d \in Editors
      PROVE  /\ EditorFits(d, eds[d]) /\ eds[d] \in Window
             /\ eds[d].draft \in Messages \union {None}
             /\ eds[d].draft # None => Stored(eds[d].draft)
             /\ eds[d].draft # m
  <2>1. /\ EditorFits(d, eds[d]) /\ eds[d] \in Window
        /\ eds[d].draft \in Messages \union {None}
    BY DEF WindowsFit, Window
  <2> QED
    BY <1>1, <2>1, Numbers DEF EditorFits, DraftStored
<1>6. ASSUME NEW d \in Editors, NEW x \in Messages \union {None}, x # m
      PROVE  Foreign(d, x)' <=> Foreign(d, x)
  BY <1>1, <1>6 DEF Foreign
<1>7. ASSUME NEW d \in Editors
      PROVE  /\ Amiss(d)' <=> Amiss(d)
             /\ \A x \in Messages : ops'[x].by = d <=>
                  ops[x].by = d \/ (x = m /\ d = c)
  <2>1. ops[m].amiss = FALSE \/ ops[m].by # d
    BY <1>1, <1>2
  <2> QED
    BY <1>1, <1>2, <2>1 DEF Amiss
<1>8. ASSUME NEW d \in Editors, HasOwn(d, editors[d])'
      PROVE  HasOwn(d, eds[d])
  BY <1>1, <1>3, <1>4, <1>5, <1>7, <1>8 DEF HasOwn
<1>9. ASSUME NEW d \in Editors
      PROVE  EditorFits(d, editors[d])'
  <2> DEFINE u == editors'[d]
             v == eds[d]
  <2>0. /\ u.draft = v.draft /\ u.text = v.text /\ d # c => u = v
        /\ d = c => u = w /\ v = editors[c] /\ v.phase = "open"
    BY <1>3, <1>4
  <2>1. DraftStored(editors[d])'
    BY <1>1, <1>5, <2>0 DEF DraftStored, EditorFits
  <2>2. OwnIsSave(d, editors[d])'
    BY <1>1, <1>5, <2>0 DEF OwnIsSave, EditorFits
  <2>3. FreshIdle(d, editors[d])'
    BY <1>5, <1>7, <2>0 DEF FreshIdle, EditorFits
  <2>4. OpenUnsent(editors[d])'
    BY <1>5, <2>0 DEF OpenUnsent, EditorFits
  <2>5. SendCloses(d, editors[d])'
    BY <1>1, <1>5, <1>7, <2>0 DEF SendCloses, EditorFits
  <2>6. Handed(d, editors[d])'
    <3>1. CASE d = c
      BY <1>1, <2>0, <3>1 DEF Handed
    <3>2. CASE d # c
      <4>1. Handed(d, eds[d])
        BY <1>5 DEF EditorFits
      <4>2. \A n \in Messages : ops[n].by = d =>
               ops'[n].by = d /\ ops'[n].text = ops[n].text
        BY <1>1, <1>2
      <4> QED
        BY <2>0, <3>2, <4>1, <4>2 DEF Handed, Modified
    <3> QED
      BY <3>1, <3>2
  <2>7. SameStart(d, editors[d])'
    <3>1. SameStart(d, eds[d])
      BY <1>5 DEF EditorFits
    <3>2. ASSUME NEW a \in Messages, ops'[a].by = d,
                 Foreign(d, ops[a].old)', Foreign(d, editors[d].draft)'
          PROVE  ops'[a].old = editors'[d].draft
      <4>1. CASE a = m
        BY <1>1, <1>7, <2>0, <3>2, <4>1
      <4>2. CASE a # m
        <5>1. /\ ops'[a] = ops[a] /\ ops[a].old # m /\ ops[a].by = d
              /\ ops[a].old \in Messages \union {None}
          BY <1>1, <3>2, <4>2 DEF ComposerInv, ComposerTypeOK
        <5>2. Foreign(d, ops[a].old) /\ Foreign(d, eds[d].draft)
          BY <1>5, <1>6, <2>0, <3>2, <5>1 DEF Foreign
        <5> QED
          BY <2>0, <3>1, <5>1, <5>2 DEF SameStart
      <4> QED
        BY <4>1, <4>2
    <3> QED
      BY <3>2 DEF SameStart
  <2>8. OwnLive(d, editors[d])'
    <3>1. SUFFICES ASSUME HasOwn(d, editors[d])'
                   PROVE  /\ where[eds[d].draft] = "drafts"
                          /\ eds[d].draft \notin dropping
                          /\ \A n \in Messages :
                                ops'[n].old = eds[d].draft => ops'[n].by = d
      BY <1>2, <2>0 DEF OwnLive
    <3>2. HasOwn(d, eds[d])
      BY <1>8, <3>1
    <3>3. OwnLive(d, eds[d])
      BY <1>5 DEF EditorFits
    <3>4. eds[c].draft = eds[d].draft => c = d
      BY <3>2 DEF WindowsFit, OwnAlone
    <3> QED
      BY <1>1, <1>3, <3>2, <3>3, <3>4 DEF OwnLive
  <2> QED
    BY <2>1, <2>2, <2>3, <2>4, <2>5, <2>6, <2>7, <2>8 DEF EditorFits
<1>10. OwnAlone(editors)'
  BY <1>4, <1>8 DEF WindowsFit, OwnAlone
<1> QED
  BY <1>3, <1>9, <1>10 DEF WindowsFit
-----------------------------------------------------------------------------
(* The actions that only edit, open, close or save.                        *)

Rest == /\ where \in [Messages -> Folders \union {"none", "sent", "gone"}]
        /\ dropping \subseteq Messages
        /\ texts \in Texts /\ faults \in 0..MaxFaults

LEMMA TypeParts ==
    ComposerTypeOK <=> /\ editors \in [Editors -> Window]
                       /\ ops \in [Messages -> Operation] /\ Rest
BY DEF ComposerTypeOK, Window, Operation, Rest

LEMMA TypePartsNext ==
    ASSUME editors' \in [Editors -> Window], ops' \in [Messages -> Operation],
           Rest'
    PROVE  ComposerTypeOK'
BY DEF ComposerTypeOK, Window, Operation, Rest

LEMMA FaultFits ==
    ASSUME ComposerTypeOK, Fault \/ UNCHANGED faults
    PROVE  faults' \in 0..MaxFaults
BY ComposerAssumption DEF ComposerTypeOK, Fault

\* A step that changes no mail and leaves the windows eds, which fit.
LEMMA OnlyWindows ==
    ASSUME ComposerInv, NEW eds \in [Editors -> Window], WindowsFit(eds),
           editors' = eds, UNCHANGED <<ops, where, dropping>>,
           texts' \in Texts, faults' \in 0..MaxFaults
    PROVE  ComposerInv'
<1>1. ops \in [Messages -> Operation] /\ Rest
  BY TypeParts DEF ComposerInv
<1>2. ops' \in [Messages -> Operation] /\ Rest'
  BY <1>1 DEF Rest
<1>3. ComposerTypeOK'
  BY <1>2, TypePartsNext
<1>4. OpsFit'
  BY OpsStable DEF ComposerInv
<1>5. WindowsFit(editors)'
  BY WindowsStable
<1> QED
  BY <1>3, <1>4, <1>5 DEF ComposerInv

\* A step that starts an operation and leaves window c as w.
LEMMA OneStarts ==
    ASSUME ComposerInv, NEW c \in Editors, NEW kind \in {"save", "send"},
           NEW stage \in {"creating", "failed"}, editors[c].phase = "open",
           StartOp(c, kind, stage), UNCHANGED <<where, dropping>>,
           NEW eds \in [Editors -> Window], WindowsFit(eds),
           eds[c] = editors[c], NEW w \in Window,
           w.draft = editors[c].draft, w.text = editors[c].text,
           w.phase \in {"open", "closed"},
           w.phase = "open" => ~w.sent /\ (kind = "save" \/ stage = "failed"),
           editors' = [eds EXCEPT ![c] = w],
           texts' \in Texts, faults' \in 0..MaxFaults
    PROVE  ComposerInv'
<1>1. PICK m \in Messages : Starts(c, kind, stage, m)
  BY DEF StartOp, Starts, NewOp
<1>2. Started(c, kind, stage, m)
  BY <1>1, StartFacts
<1>3. ops' \in [Messages -> Operation]
  BY <1>2 DEF Started
<1>4. Rest'
  <2>1. Rest
    BY TypeParts DEF ComposerInv
  <2> QED
    BY <2>1 DEF Rest
<1>5. editors' \in [Editors -> Window] /\ WindowsFit(editors)'
  BY <1>1, WindowsStart
<1>6. ComposerTypeOK'
  BY <1>3, <1>4, <1>5, TypePartsNext
<1>7. OpsFit'
  BY <1>1, OpsStart
<1> QED
  BY <1>5, <1>6, <1>7 DEF ComposerInv

\* The window as a field of it changes.
LEMMA CloseKeeps ==
    ASSUME ComposerInv, NEW c \in Editors, editors[c].phase = "open",
           NEW eds \in [Editors -> Window], WindowsFit(eds),
           eds[c] = editors[c], CloseWindow(c, eds),
           UNCHANGED <<where, dropping>>, texts' \in Texts
    PROVE  ComposerInv'
<1>0. faults' \in 0..MaxFaults
  BY FaultFits DEF ComposerInv, CloseWindow
<1>1. /\ EditorFits(c, eds[c]) /\ eds[c] \in Window
      /\ eds[c].phase = "open" /\ ~eds[c].sent
  BY DEF WindowsFit, EditorFits, OpenUnsent
<1>2. ASSUME NEW ph \in {"closed", "dropped"}, ph = "closed" => ~Modified(eds[c]),
             editors' = [eds EXCEPT ![c].phase = ph], UNCHANGED ops
      PROVE  ComposerInv'
  <2> DEFINE w == [eds[c] EXCEPT !.phase = ph]
  <2>1. /\ w \in Window /\ w.phase = ph /\ w.draft = eds[c].draft
        /\ w.text = eds[c].text /\ w.base = eds[c].base
        /\ w.sent = eds[c].sent
    BY <1>1 DEF Window
  <2>2. editors' = [eds EXCEPT ![c] = w]
    BY <1>2
  <2> HIDE DEF w
  <2>3. EditorFits(c, w)
    BY <1>1, <1>2, <2>1
       DEF EditorFits, DraftStored, OwnIsSave, FreshIdle, OpenUnsent,
           SendCloses, Handed, SameStart, OwnLive, HasOwn
  <2>4. /\ [eds EXCEPT ![c] = w] \in [Editors -> Window]
        /\ WindowsFit([eds EXCEPT ![c] = w])
    BY <1>2, <2>1, <2>3, SameDraft
  <2> QED
    BY <1>0, <1>2, <2>2, <2>4, OnlyWindows
<1>3. ASSUME StartOp(c, "save", "creating"),
             editors' = [Saved(eds, c) EXCEPT ![c].phase = "closed"]
      PROVE  ComposerInv'
  <2> DEFINE w == [eds[c] EXCEPT !.modified = FALSE, !.phase = "closed"]
  <2>1. /\ w \in Window /\ w.phase = "closed" /\ w.draft = eds[c].draft
        /\ w.text = eds[c].text
    BY <1>1 DEF Window
  <2>2. editors' = [eds EXCEPT ![c] = w]
    BY <1>1, <1>3 DEF Saved, Window
  <2> HIDE DEF w
  <2>3. /\ "save" \in {"save", "send"} /\ "creating" \in {"creating", "failed"}
        /\ w.draft = editors[c].draft /\ w.text = editors[c].text
        /\ w.phase \in {"open", "closed"}
        /\ w.phase = "open"
             => ~w.sent /\ ("save" = "save" \/ "creating" = "failed")
    BY <2>1
  <2>4. StartOp(c, "save", "creating") /\ w \in Window
    BY <1>3, <2>1
  <2> QED
    BY <1>0, <2>2, <2>3, <2>4, OneStarts
<1> QED
  BY <1>1, <1>2, <1>3 DEF CloseWindow
LEMMA RegisterKeeps ==
    ASSUME ComposerInv, NEW e \in Editors, NEW w \in Window,
           editors[e].phase # "open",
           [editors EXCEPT ![e] = w] \in [Editors -> Window],
           WindowsFit([editors EXCEPT ![e] = w]), Register(e, w),
           UNCHANGED <<where, dropping>>, texts' \in Texts
    PROVE  ComposerInv'
<1> DEFINE eds == [editors EXCEPT ![e] = w]
<1>1. eds \in [Editors -> Window] /\ WindowsFit(eds)
  OBVIOUS
<1>2. CASE Current = {}
  <2>1. editors' = eds /\ UNCHANGED <<ops, faults>>
    BY <1>2 DEF Register
  <2>2. faults' \in 0..MaxFaults
    BY <2>1, FaultFits DEF ComposerInv
  <2> HIDE DEF eds
  <2> QED
    BY <1>1, <2>1, <2>2, OnlyWindows
<1>3. CASE Current # {}
  <2>1. PICK c \in Current : CloseWindow(c, eds)
    BY <1>3 DEF Register
  <2>2. c \in Editors /\ editors[c].phase = "open"
    BY <2>1 DEF Current
  <2>3. eds[c] = editors[c]
    BY <2>2 DEF ComposerInv, ComposerTypeOK
  <2> HIDE DEF eds
  <2> QED
    BY <1>1, <2>1, <2>2, <2>3, CloseKeeps
<1> QED
  BY <1>2, <1>3

\* What the windows and texts are as long as ComposerInv holds.
LEMMA InvFacts ==
    ASSUME ComposerInv
    PROVE  /\ editors \in [Editors -> Window] /\ WindowsFit(editors)
           /\ texts \in Texts /\ faults \in 0..MaxFaults
           /\ \A e \in Editors : EditorFits(e, editors[e])
BY TypeParts DEF ComposerInv, Rest, WindowsFit

LEMMA NewTextFits ==
    ASSUME texts \in Texts, texts < MaxTexts
    PROVE  texts + 1 \in Texts
BY ComposerAssumption DEF Texts

LEMMA NewEditorKeeps ==
    ASSUME ComposerInv, NEW e \in Editors, NewEditor(e)
    PROVE  ComposerInv'
<1>1. PICK dirty \in BOOLEAN :
          Register(e, [NoEditor EXCEPT
             !.phase = "open", !.text = texts + 1, !.modified = dirty,
             !.base = IF dirty THEN 0 ELSE texts + 1])
  BY DEF NewEditor
<1>2. /\ UNCHANGED <<where, dropping>> /\ texts' = texts + 1
      /\ editors[e].phase = "none" /\ texts < MaxTexts
  BY DEF NewEditor, Unused
<1>3. texts + 1 \in Texts /\ texts' \in Texts
  BY <1>2, NewTextFits, InvFacts
<1> DEFINE w == [NoEditor EXCEPT
             !.phase = "open", !.text = texts + 1, !.modified = dirty,
             !.base = IF dirty THEN 0 ELSE texts + 1]
<1>4. /\ w \in Window /\ w.phase = "open" /\ w.draft = None
      /\ ~w.sent /\ (w.modified \/ w.text = w.base)
  BY <1>3, Numbers DEF Window, NoEditor
<1>5. Register(e, w)
  BY <1>1
<1> HIDE DEF w
<1>6. EditorFits(e, editors[e])
  BY InvFacts
<1>7. \A n \in Messages : ops[n].by # e
  BY <1>2, <1>6 DEF EditorFits, FreshIdle
<1>8. EditorFits(e, w)
  BY <1>4, <1>7
     DEF EditorFits, DraftStored, OwnIsSave, FreshIdle, OpenUnsent,
         SendCloses, Handed, SameStart, OwnLive, HasOwn, Modified
<1>9. /\ [editors EXCEPT ![e] = w] \in [Editors -> Window]
      /\ WindowsFit([editors EXCEPT ![e] = w])
  <2>1. editors \in [Editors -> Window] /\ WindowsFit(editors)
    BY InvFacts
  <2>2. ~HasOwn(e, w) /\ \A d \in Editors : HasOwn(d, editors[d])
                                              => w.draft # editors[d].draft
    BY <1>4 DEF HasOwn
  <2> QED
    BY <1>4, <1>8, <2>1, <2>2, PutWindow
<1> QED
  BY <1>2, <1>3, <1>4, <1>5, <1>9, RegisterKeeps

LEMMA DraftRetrievedKeeps ==
    ASSUME ComposerInv, NEW e \in Editors, DraftRetrieved(e)
    PROVE  ComposerInv'
<1> DEFINE t == ops[editors[e].draft].text
           w == [editors[e] EXCEPT !.phase = "open", !.text = t, !.base = t]
<1>1. /\ UNCHANGED <<where, dropping, texts>> /\ editors[e].phase = "opening"
      /\ where[editors[e].draft] \in {"drafts", "failed"}
  BY DEF DraftRetrieved
<1>2. Register(e, w)
  BY DEF DraftRetrieved
<1>3. /\ editors[e] \in Window /\ EditorFits(e, editors[e])
      /\ editors \in [Editors -> Window] /\ WindowsFit(editors)
      /\ texts' \in Texts
  BY <1>1, InvFacts
<1>4. editors[e].draft # None /\ editors[e].draft \in Messages
  BY <1>1, <1>3 DEF EditorFits, DraftStored, Window
<1>5. t \in Texts
  BY <1>4 DEF ComposerInv, ComposerTypeOK
<1>6. /\ w \in Window /\ w.phase = "open" /\ w.draft = editors[e].draft
      /\ w.sent = editors[e].sent /\ w.text = w.base
  BY <1>3, <1>4, <1>5 DEF Window
<1> HIDE DEF w
<1>7. \A n \in Messages : ops[n].by # e
  BY <1>1, <1>3 DEF EditorFits, FreshIdle
<1>8. EditorFits(e, w)
  <2>1. ~HasOwn(e, w)
    BY <1>3, <1>6, <1>7, Numbers DEF HasOwn, Window
  <2> QED
    BY <1>1, <1>3, <1>6, <1>7, <2>1, Numbers
       DEF EditorFits, DraftStored, OwnIsSave, FreshIdle, OpenUnsent,
           SendCloses, Handed, SameStart, OwnLive, Window
<1>9. /\ [editors EXCEPT ![e] = w] \in [Editors -> Window]
      /\ WindowsFit([editors EXCEPT ![e] = w])
  BY <1>1, <1>3, <1>6, <1>8, SameDraft
<1> QED
  BY <1>1, <1>2, <1>3, <1>6, <1>9, RegisterKeeps

\* The other actions on a window.
LEMMA OpenDraftKeeps ==
    ASSUME ComposerInv, NEW e \in Editors, NEW m \in Messages, OpenDraft(e, m)
    PROVE  ComposerInv'
<1> DEFINE w == [NoEditor EXCEPT !.phase = "opening", !.draft = m]
<1>1. /\ UNCHANGED <<ops, where, dropping, texts, faults>>
      /\ editors[e].phase = "none" /\ where[m] \in {"drafts", "failed"}
      /\ \A d \in Editors :
            editors[d].phase \in {"opening", "open"} => editors[d].draft # m
  BY DEF OpenDraft, Unused
<1>2. editors' = [editors EXCEPT ![e] = w]
  BY DEF OpenDraft
<1>3. /\ w \in Window /\ w.phase = "opening" /\ w.draft = m /\ ~w.sent
  BY Numbers DEF Window, NoEditor
<1> HIDE DEF w
<1>4. /\ EditorFits(e, editors[e]) /\ editors \in [Editors -> Window]
      /\ WindowsFit(editors) /\ texts' \in Texts /\ faults' \in 0..MaxFaults
  BY <1>1, InvFacts
<1>5. \A n \in Messages : ops[n].by # e
  BY <1>1, <1>4 DEF EditorFits, FreshIdle
<1>6. ~HasOwn(e, w)
  BY <1>3 DEF HasOwn
<1>7. EditorFits(e, w)
  BY <1>1, <1>3, <1>5, <1>6, Numbers
     DEF EditorFits, DraftStored, OwnIsSave, FreshIdle, OpenUnsent,
         SendCloses, Handed, SameStart, OwnLive, Stored
<1>8. \A d \in Editors : HasOwn(d, editors[d]) => w.draft # editors[d].draft
  BY <1>1, <1>3 DEF HasOwn
<1>9. /\ [editors EXCEPT ![e] = w] \in [Editors -> Window]
      /\ WindowsFit([editors EXCEPT ![e] = w])
  BY <1>3, <1>4, <1>6, <1>7, <1>8, PutWindow
<1> QED
  BY <1>1, <1>2, <1>4, <1>9, OnlyWindows

\* An open window that only differs in what is marked or written.
LEMMA EditKeeps ==
    ASSUME ComposerInv, NEW e \in Editors, editors[e].phase = "open",
           NEW w \in Window, w.draft = editors[e].draft, w.phase = "open",
           w.sent = editors[e].sent, Modified(w),
           editors' = [editors EXCEPT ![e] = w],
           UNCHANGED <<ops, where, dropping, faults>>, texts' \in Texts
    PROVE  ComposerInv'
<1>1. /\ EditorFits(e, editors[e]) /\ editors \in [Editors -> Window]
      /\ WindowsFit(editors) /\ faults' \in 0..MaxFaults
  BY InvFacts
<1>2. EditorFits(e, w)
  BY <1>1 DEF EditorFits, DraftStored, OwnIsSave, FreshIdle, OpenUnsent,
              SendCloses, Handed, SameStart, OwnLive, HasOwn
<1>3. /\ [editors EXCEPT ![e] = w] \in [Editors -> Window]
      /\ WindowsFit([editors EXCEPT ![e] = w])
  BY <1>1, <1>2, SameDraft
<1> QED
  BY <1>1, <1>3, OnlyWindows

LEMMA WindowActionsKeep ==
    ASSUME ComposerInv, NEW e \in Editors,
           \/ OpeningAbandoned(e) \/ Edit(e) \/ SaveToDrafts(e)
           \/ SaveRefused(e) \/ Send(e) \/ SendFailsAtOnce(e)
           \/ CloseEditor(e)
    PROVE  ComposerInv'
<1>1. /\ EditorFits(e, editors[e]) /\ editors[e] \in Window
      /\ editors \in [Editors -> Window] /\ WindowsFit(editors)
      /\ texts \in Texts /\ faults \in 0..MaxFaults
  BY InvFacts
<1>2. CASE OpeningAbandoned(e)
  <2>1. /\ UNCHANGED <<ops, where, dropping, texts, faults>>
        /\ editors[e].phase = "opening"
        /\ editors' = [editors EXCEPT ![e] = NoEditor]
    BY <1>2 DEF OpeningAbandoned
  <2>2. /\ NoEditor \in Window /\ NoEditor.phase = "none"
        /\ NoEditor.draft = None /\ NoEditor.text = NoEditor.base
    BY Numbers DEF Window, NoEditor
  <2>3. \A n \in Messages : ops[n].by # e
    BY <1>1, <2>1 DEF EditorFits, FreshIdle
  <2>4. EditorFits(e, NoEditor)
    BY <2>2, <2>3
       DEF EditorFits, DraftStored, OwnIsSave, FreshIdle, OpenUnsent,
           SendCloses, Handed, SameStart, OwnLive, HasOwn
  <2>5. ~HasOwn(e, NoEditor) /\ \A d \in Editors : HasOwn(d, editors[d])
                                  => NoEditor.draft # editors[d].draft
    BY <2>2 DEF HasOwn
  <2>6. /\ [editors EXCEPT ![e] = NoEditor] \in [Editors -> Window]
        /\ WindowsFit([editors EXCEPT ![e] = NoEditor])
    BY <1>1, <2>2, <2>4, <2>5, PutWindow
  <2> QED
    BY <1>1, <2>1, <2>6, OnlyWindows
<1>3. CASE Edit(e)
  <2>1. /\ UNCHANGED <<ops, where, dropping, faults>>
        /\ editors[e].phase = "open" /\ texts < MaxTexts
        /\ texts' = texts + 1
    BY <1>3 DEF Edit
  <2>2. texts + 1 \in Texts
    BY <1>1, <2>1, NewTextFits
  <2> DEFINE v == [editors[e] EXCEPT !.text = texts + 1, !.modified = TRUE]
             u == [editors[e] EXCEPT !.text = texts + 1, !.sender = TRUE]
  <2>3. \/ editors' = [editors EXCEPT ![e] = v]
        \/ editors' = [editors EXCEPT ![e] = u]
    BY <1>1, <1>3 DEF Edit
  <2>4. /\ v \in Window /\ v.draft = editors[e].draft /\ v.phase = "open"
        /\ v.sent = editors[e].sent /\ Modified(v)
    BY <1>1, <2>1, <2>2 DEF Window, Modified
  <2>5. /\ u \in Window /\ u.draft = editors[e].draft /\ u.phase = "open"
        /\ u.sent = editors[e].sent /\ Modified(u)
    BY <1>1, <2>1, <2>2 DEF Window, Modified
  <2> HIDE DEF v, u
  <2> QED
    BY <2>1, <2>2, <2>3, <2>4, <2>5, EditKeeps
<1>4. CASE SaveRefused(e)
  <2>1. /\ UNCHANGED <<ops, where, dropping, texts, faults>>
        /\ editors[e].phase = "open"
    BY <1>4 DEF SaveRefused
  <2> DEFINE v == [editors[e] EXCEPT !.modified = TRUE]
  <2>2. editors' = [editors EXCEPT ![e] = v]
    BY <1>1, <1>4 DEF SaveRefused
  <2>3. /\ v \in Window /\ v.draft = editors[e].draft /\ v.phase = "open"
        /\ v.sent = editors[e].sent /\ Modified(v)
    BY <1>1, <2>1 DEF Window, Modified
  <2> HIDE DEF v
  <2> QED
    BY <1>1, <2>1, <2>2, <2>3, EditKeeps
<1>5. CASE SaveToDrafts(e)
  <2>1. /\ UNCHANGED <<where, dropping, texts, faults>>
        /\ editors[e].phase = "open"
    BY <1>5 DEF SaveToDrafts
  <2> DEFINE v == [editors[e] EXCEPT !.modified = FALSE]
  <2>2. editors' = [editors EXCEPT ![e] = v]
    BY <1>1, <1>5 DEF SaveToDrafts, Saved
  <2>3. /\ v \in Window /\ v.draft = editors[e].draft /\ v.phase = "open"
        /\ v.text = editors[e].text /\ ~v.sent
    BY <1>1, <2>1 DEF Window, EditorFits, OpenUnsent
  <2> HIDE DEF v
  <2>4. StartOp(e, "save", "creating")
    BY <1>5 DEF SaveToDrafts
  <2>5. /\ "save" \in {"save", "send"} /\ "creating" \in {"creating", "failed"}
        /\ v.phase \in {"open", "closed"}
        /\ v.phase = "open"
             => ~v.sent /\ ("save" = "save" \/ "creating" = "failed")
    BY <2>3
  <2> QED
    BY <1>1, <2>1, <2>2, <2>3, <2>4, <2>5, OneStarts
<1>6. CASE Send(e)
  <2>1. /\ UNCHANGED <<where, dropping, texts, faults>>
        /\ editors[e].phase = "open"
    BY <1>6 DEF Send
  <2> DEFINE v == [editors[e] EXCEPT !.phase = "closed", !.sent = TRUE]
  <2>2. editors' = [editors EXCEPT ![e] = v]
    BY <1>1, <1>6 DEF Send
  <2>3. /\ v \in Window /\ v.draft = editors[e].draft /\ v.phase = "closed"
        /\ v.text = editors[e].text
    BY <1>1, <2>1 DEF Window
  <2> HIDE DEF v
  <2>4. StartOp(e, "send", "creating")
    BY <1>6 DEF Send
  <2>5. /\ "send" \in {"save", "send"} /\ "creating" \in {"creating", "failed"}
        /\ v.phase \in {"open", "closed"}
        /\ v.phase = "open"
             => ~v.sent /\ ("send" = "save" \/ "creating" = "failed")
    BY <2>3
  <2> QED
    BY <1>1, <2>1, <2>2, <2>3, <2>4, <2>5, OneStarts
<1>7. CASE SendFailsAtOnce(e)
  <2>1. /\ UNCHANGED <<where, dropping, texts>> /\ Fault
        /\ editors[e].phase = "open"
    BY <1>7 DEF SendFailsAtOnce
  <2> DEFINE v == [editors[e] EXCEPT !.modified = TRUE]
  <2>2. editors' = [editors EXCEPT ![e] = v]
    BY <1>1, <1>7 DEF SendFailsAtOnce
  <2>3. /\ v \in Window /\ v.draft = editors[e].draft /\ v.phase = "open"
        /\ v.text = editors[e].text /\ ~v.sent
    BY <1>1, <2>1 DEF Window, EditorFits, OpenUnsent
  <2> HIDE DEF v
  <2>4. StartOp(e, "send", "failed")
    BY <1>7 DEF SendFailsAtOnce
  <2>5. /\ "send" \in {"save", "send"} /\ "failed" \in {"creating", "failed"}
        /\ v.phase \in {"open", "closed"}
        /\ v.phase = "open"
             => ~v.sent /\ ("send" = "save" \/ "failed" = "failed")
    BY <2>3
  <2>6. faults' \in 0..MaxFaults
    BY <2>1, FaultFits DEF ComposerInv
  <2> QED
    BY <1>1, <2>1, <2>2, <2>3, <2>4, <2>5, <2>6, OneStarts
<1>8. CASE CloseEditor(e)
  <2>1. /\ UNCHANGED <<where, dropping, texts>> /\ CloseWindow(e, editors)
        /\ editors[e].phase = "open"
    BY <1>8 DEF CloseEditor
  <2> QED
    BY <1>1, <2>1, CloseKeeps
<1> QED
  BY <1>2, <1>3, <1>4, <1>5, <1>6, <1>7, <1>8

-----------------------------------------------------------------------------
(* The operations: making and adding a message.                            *)

\* The facts of an editor's chain, when what is stored stays the same.
LEMMA ChainStable ==
    ASSUME \A n \in Messages : /\ ops'[n].by = ops[n].by
                               /\ ops'[n].old = ops[n].old
                               /\ ops[n].old \in Messages \union {None},
           NEW e \in Editors, ChainFits(e), Died(e) => Died(e)',
           Died(e)' \/ \A n \in Messages : ops[n].by = e
                         => (Stored(n)' <=> Stored(n))
    PROVE  ChainFits(e)'
<1>1. \A n \in Messages : Foreign(e, ops[n].old)' <=> Foreign(e, ops[n].old)
  BY Numbers DEF Foreign
<1>2. \A a, b \in Messages :
         /\ ops'[a].by = e /\ ops'[b].by = e
         /\ Foreign(e, ops[a].old)' /\ Foreign(e, ops[b].old)'
         => ops'[a].old = ops'[b].old
  BY <1>1 DEF ChainFits
<1>3. CASE Died(e)'
  BY <1>2, <1>3 DEF ChainFits
<1>4. CASE ~Died(e)'
  <2>1. \A n \in Messages : ops'[n].by = e /\ Stored(n)'
                              <=> ops[n].by = e /\ Stored(n)
    BY <1>4
  <2>2. \A n \in Messages : Superseded(e, n)' <=> Superseded(e, n)
    BY <2>1 DEF Superseded
  <2>3. Twins(e) => Twins(e)'
    BY <2>1 DEF Twins
  <2>4. \A s \in Messages : ops'[s].by = e /\ Stored(s)' =>
           \E r \in Messages :
              ops'[r].by = e /\ Stored(r)' /\ Foreign(e, ops[r].old)'
    BY <1>1, <1>4, <2>1 DEF ChainFits
  <2>5. \A a, b \in Messages :
           /\ ops'[a].by = e /\ Stored(a)' /\ ~Superseded(e, a)'
           /\ ops'[b].by = e /\ Stored(b)' /\ ~Superseded(e, b)'
           => a = b \/ Twins(e)'
    BY <1>4, <2>1, <2>2, <2>3 DEF ChainFits
  <2> QED
    BY <1>2, <2>4, <2>5 DEF ChainFits
<1> QED
  BY <1>3, <1>4

\* What the folders and operations are as long as ComposerInv holds.
LEMMA MailFacts ==
    ASSUME ComposerInv
    PROVE  /\ ops \in [Messages -> Operation] /\ Rest
           /\ \A n \in Messages : OpFits(n) /\ OldFits(n) /\ KeptFits(n)
           /\ \A e \in Editors : ChainFits(e)
           /\ \A n \in Messages : ops[n].old \in Messages \union {None}
BY TypeParts DEF ComposerInv, OpsFit, ComposerTypeOK

\* The operation of message m goes from stage to stage and nothing is stored.
StageChange(m) ==
    /\ ops[m].kind # "none" /\ ops[m].stage \in {"creating", "adding"}
    /\ ops' \in [Messages -> Operation]
    /\ \A n \in Messages : n # m => ops'[n] = ops[n]
    /\ SameMail(m) /\ (ops[m].amiss => ops'[m].amiss)
    /\ ops'[m].stage \in {"adding", "failed", "stuck", "lost"}
    /\ ops[m].stage = "adding" => ops'[m].stage = "lost"
    /\ dropping \subseteq dropping'
    /\ \A d \in dropping' : d \in dropping
          \/ /\ d \in Messages /\ d = ops[m].old
             /\ ops[m].kind = "send" /\ ops'[m].stage = "adding"
    /\ ops[m].kind = "send" /\ ops'[m].stage = "adding" /\ ~ops'[m].amiss
       /\ ops[m].old # None => ops[m].old \in dropping'
    /\ UNCHANGED <<where, editors, texts>>
    /\ faults' \in 0..MaxFaults

LEMMA StageKeeps ==
    ASSUME ComposerInv, NEW m \in Messages, StageChange(m)
    PROVE  ComposerInv'
<1>1. /\ ops[m].kind # "none" /\ ops[m].stage \in {"creating", "adding"}
      /\ ops' \in [Messages -> Operation]
      /\ \A n \in Messages : n # m => ops'[n] = ops[n]
      /\ ops[m].amiss => ops'[m].amiss
      /\ ops'[m].stage \in {"adding", "failed", "stuck", "lost"}
      /\ ops[m].stage = "adding" => ops'[m].stage = "lost"
      /\ dropping \subseteq dropping'
      /\ \A d \in dropping' : d \in dropping
            \/ /\ d \in Messages /\ d = ops[m].old
               /\ ops[m].kind = "send" /\ ops'[m].stage = "adding"
      /\ ops[m].kind = "send" /\ ops'[m].stage = "adding" /\ ~ops'[m].amiss
         /\ ops[m].old # None => ops[m].old \in dropping'
      /\ where' = where /\ editors' = editors /\ texts' = texts
      /\ faults' \in 0..MaxFaults
  BY DEF StageChange
<1>2. \A n \in Messages :
         /\ ops'[n].kind = ops[n].kind /\ ops'[n].by = ops[n].by
         /\ ops'[n].text = ops[n].text /\ ops'[n].old = ops[n].old
  BY <1>1 DEF StageChange, SameMail
<1>3. /\ ops \in [Messages -> Operation] /\ Rest
      /\ \A n \in Messages : OpFits(n) /\ OldFits(n) /\ KeptFits(n)
      /\ \A e \in Editors : ChainFits(e)
      /\ \A n \in Messages : ops[n].old \in Messages \union {None}
  BY MailFacts
<1>4. ~Stored(m) /\ \A n \in Messages : Stored(n)' <=> Stored(n)
  BY <1>1, <1>3 DEF OpFits, Stored
<1>5. ComposerTypeOK'
  <2>1. Rest'
    BY <1>1, <1>3 DEF Rest
  <2> QED
    BY <1>1, <2>1, TypePartsNext, InvFacts
<1>6. ASSUME NEW n \in Messages
      PROVE  OpFits(n)'
  <2>1. \A k \in Messages : Made(k)' <=> Made(k)
    BY <1>2, <1>4 DEF Made
  <2>2. OpFits(n)
    BY <1>3
  <2>3. CASE n = m
    BY <1>1, <1>2, <1>4, <2>1, <2>2, <2>3 DEF OpFits
  <2>4. CASE n # m
    BY <1>1, <1>4, <2>1, <2>2, <2>4 DEF OpFits
  <2> QED
    BY <2>3, <2>4
<1>7. ASSUME NEW n \in Messages
      PROVE  OldFits(n)'
  <2>1. OldFits(n) /\ ops[n].old \in Messages \union {None}
    BY <1>3
  <2>2. CASE n = m
    BY <1>1, <1>2, <1>4, <2>1, <2>2 DEF OldFits
  <2>3. CASE n # m
    BY <1>1, <1>2, <1>4, <2>1, <2>3 DEF OldFits
  <2> QED
    BY <2>2, <2>3
<1>8. ASSUME NEW n \in Messages
      PROVE  KeptFits(n)'
  <2>1. ASSUME Kept(n)
        PROVE  Kept(n)'
    <3>1. \A k \in Messages : Underway(k)
      BY <1>1, <1>2, <1>4 DEF Underway, Unfinished
    <3>2. \A k \in Messages : SameMail(k)
      BY <1>2 DEF SameMail
    <3> QED
      BY <2>1, <3>1, <3>2, KeptStable
  <2>2. ASSUME n \in dropping', n \notin dropping
        PROVE  Kept(n)'
    <3>1. /\ n = ops[m].old /\ ops[m].kind = "send" /\ ops'[m].stage = "adding"
      BY <1>1, <2>2
    <3>2. n < m
      BY <1>3, <3>1, Numbers DEF OldFits
    <3> QED
      BY <1>2, <3>1, <3>2, Numbers DEF Kept, Replaces, Unfinished
  <2> QED
    BY <1>1, <1>3, <2>1, <2>2 DEF KeptFits
<1>9. ASSUME NEW e \in Editors
      PROVE  ChainFits(e)'
  <2>1. Died(e)' <=> Died(e)
    BY <1>1, <1>2 DEF Died
  <2> QED
    BY <1>2, <1>3, <1>4, <2>1, ChainStable
<1>10. OpsFit'
  BY <1>6, <1>7, <1>8, <1>9 DEF OpsFit
<1>11. ASSUME NEW e \in Editors
       PROVE  /\ EditorFits(e, editors[e]) /\ editors[e] \in Window
              /\ editors[e].draft \in Messages \union {None}
  BY InvFacts DEF Window
<1>12. ASSUME NEW e \in Editors, HasOwn(e, editors[e])'
       PROVE  HasOwn(e, editors[e])
  <2>1. Amiss(e) => Amiss(e)'
    BY <1>1, <1>2 DEF Amiss
  <2> QED
    BY <1>1, <1>2, <1>11, <1>12, <2>1 DEF HasOwn
<1>13. ASSUME NEW e \in Editors
       PROVE  EditorFits(e, editors[e])'
  <2>1. EditorFits(e, editors[e]) /\ editors[e].draft \in Messages \union {None}
    BY <1>11
  <2>2. SendCloses(e, editors[e])'
    BY <1>1, <1>2, <2>1 DEF EditorFits, SendCloses
  <2>3. Handed(e, editors[e])'
    BY <1>1, <1>2, <2>1 DEF EditorFits, Handed, Modified
  <2>4. SameStart(e, editors[e])'
    BY <1>1, <1>2, <1>3, <2>1, Numbers DEF EditorFits, SameStart, Foreign
  <2>5. OwnLive(e, editors[e])'
    <3>1. SUFFICES ASSUME HasOwn(e, editors[e])'
                   PROVE  /\ where[editors[e].draft] = "drafts"
                          /\ editors[e].draft \notin dropping'
                          /\ \A n \in Messages : ops'[n].old = editors[e].draft
                                                   => ops'[n].by = e
      BY <1>1 DEF OwnLive
    <3>2. HasOwn(e, editors[e]) /\ OwnLive(e, editors[e])
      BY <1>12, <2>1, <3>1 DEF EditorFits
    <3>3. ASSUME editors[e].draft \in dropping'
          PROVE  FALSE
      <4>1. /\ ops[m].by = e /\ ops[m].kind = "send"
            /\ ops[m].stage # "failed"
        BY <1>1, <3>2, <3>3 DEF OwnLive
      <4> QED
        BY <2>1, <3>2, <4>1 DEF EditorFits, SendCloses, HasOwn
    <3> QED
      BY <1>2, <3>2, <3>3 DEF OwnLive
  <2>6. DraftStored(editors[e])' /\ OwnIsSave(e, editors[e])'
    BY <1>1, <1>2, <1>4, <2>1 DEF EditorFits, DraftStored, OwnIsSave
  <2>7. FreshIdle(e, editors[e])' /\ OpenUnsent(editors[e])'
    BY <1>1, <1>2, <2>1 DEF EditorFits, FreshIdle, OpenUnsent
  <2> QED
    BY <2>2, <2>3, <2>4, <2>5, <2>6, <2>7 DEF EditorFits
<1>14. OwnAlone(editors)'
  BY <1>1, <1>12, InvFacts DEF WindowsFit, OwnAlone
<1> QED
  BY <1>5, <1>10, <1>13, <1>14 DEF ComposerInv, WindowsFit

LEMMA MakingKeeps ==
    ASSUME ComposerInv, NEW m \in Messages,
           MadeToSave(m) \/ MadeToSend(m) \/ AddFails(m)
    PROVE  ComposerInv'
<1>1. ops \in [Messages -> Operation] /\ OpFits(m) /\ dropping \subseteq Messages
      /\ faults' \in 0..MaxFaults /\ ops[m].old \in Messages \union {None}
  BY MailFacts, FaultFits
     DEF Rest, ComposerInv, MadeToSave, MadeToSend, AddFails
<1>2. CASE MadeToSave(m)
  <2>1. /\ ops[m].kind = "save" /\ ops[m].stage = "creating"
        /\ UNCHANGED <<editors, where, dropping, texts>>
        /\ \/ ops' = At(m, "adding")
           \/ ops' = [At(m, "adding") EXCEPT ![m].amiss = TRUE]
           \/ ops' = At(m, "failed")
           \/ ops' = At(m, "stuck")
    BY <1>2 DEF MadeToSave
  <2>2. /\ ops' \in [Messages -> Operation]
        /\ \A n \in Messages : n # m => ops'[n] = ops[n]
        /\ SameMail(m) /\ (ops[m].amiss => ops'[m].amiss)
        /\ ops'[m].stage \in {"adding", "failed", "stuck"}
    BY <1>1, <2>1 DEF At, SameMail, Operation
  <2>3. StageChange(m)
    BY <1>1, <2>1, <2>2 DEF StageChange
  <2> QED
    BY <2>3, StageKeeps
<1>3. CASE MadeToSend(m)
  <2>1. /\ ops[m].kind = "send" /\ ops[m].stage = "creating"
        /\ UNCHANGED <<editors, where, texts>>
        /\ \/ /\ ops' = At(m, "adding")
              /\ dropping' = dropping \union ({ops[m].old} \ {None})
           \/ /\ ops' = [At(m, "adding") EXCEPT ![m].amiss = TRUE]
              /\ UNCHANGED dropping
           \/ ops' = At(m, "failed") /\ UNCHANGED dropping
    BY <1>3 DEF MadeToSend
  <2>2. /\ ops' \in [Messages -> Operation]
        /\ \A n \in Messages : n # m => ops'[n] = ops[n]
        /\ SameMail(m) /\ (ops[m].amiss => ops'[m].amiss)
        /\ ops'[m].stage \in {"adding", "failed"}
    BY <1>1, <2>1 DEF At, SameMail, Operation
  <2>3. \/ ops'[m].stage = "adding"
           /\ dropping' = dropping \union ({ops[m].old} \ {None})
        \/ (ops'[m].amiss \/ ops'[m].stage = "failed") /\ UNCHANGED dropping
    BY <1>1, <2>1 DEF At, Operation
  <2>4. StageChange(m)
    BY <1>1, <2>1, <2>2, <2>3 DEF StageChange
  <2> QED
    BY <2>4, StageKeeps
<1>4. CASE AddFails(m)
  <2>1. /\ ops[m].stage = "adding" /\ ops' = At(m, "lost")
        /\ UNCHANGED <<editors, where, dropping, texts>>
    BY <1>4 DEF AddFails, AfterFailure
  <2>2. /\ ops' \in [Messages -> Operation]
        /\ \A n \in Messages : n # m => ops'[n] = ops[n]
        /\ SameMail(m) /\ (ops[m].amiss => ops'[m].amiss)
        /\ ops'[m].stage = "lost" /\ ops[m].kind # "none"
    BY <1>1, <2>1 DEF At, SameMail, Operation, OpFits
  <2>3. StageChange(m)
    BY <1>1, <2>1, <2>2 DEF StageChange
  <2> QED
    BY <2>3, StageKeeps
<1> QED
  BY <1>2, <1>3, <1>4

-----------------------------------------------------------------------------
(* The folders: what the send queue and a removal do to them.              *)

FolderChange ==
    /\ UNCHANGED <<ops, editors, texts, faults>> /\ Rest'
    /\ dropping' \subseteq dropping
    /\ \A n \in Messages :
         /\ Stored(n)' <=> Stored(n)
         /\ where[n] = "gone" => where'[n] = "gone"
         /\ where'[n] = "gone" => where[n] = "gone" \/ n \in dropping
         /\ where[n] = "drafts" /\ n \notin dropping => where'[n] = "drafts"
         /\ ops[n].kind = "save" => where'[n] \in {"none", "drafts", "gone"}
         /\ n \in dropping /\ n \notin dropping' /\ where[n] \in Folders
              => where'[n] = "gone"

LEMMA FoldersKeep ==
    ASSUME ComposerInv, FolderChange
    PROVE  ComposerInv'
<1>1. /\ ops' = ops /\ editors' = editors /\ texts' = texts /\ faults' = faults
      /\ dropping' \subseteq dropping
      /\ \A n \in Messages :
           /\ Stored(n)' <=> Stored(n)
           /\ where[n] = "gone" => where'[n] = "gone"
           /\ where'[n] = "gone" => where[n] = "gone" \/ n \in dropping
           /\ where[n] = "drafts" /\ n \notin dropping => where'[n] = "drafts"
           /\ ops[n].kind = "save" => where'[n] \in {"none", "drafts", "gone"}
           /\ n \in dropping /\ n \notin dropping' /\ where[n] \in Folders
                => where'[n] = "gone"
  BY DEF FolderChange
<1>2. /\ ops \in [Messages -> Operation] /\ Rest
      /\ \A n \in Messages : OpFits(n) /\ OldFits(n) /\ KeptFits(n)
      /\ \A e \in Editors : ChainFits(e)
      /\ \A n \in Messages : ops[n].old \in Messages \union {None}
  BY MailFacts
<1>3. ComposerTypeOK'
  <2>1. /\ editors' \in [Editors -> Window] /\ ops' \in [Messages -> Operation]
        /\ Rest'
    BY <1>1, <1>2, InvFacts DEF FolderChange
  <2> QED
    BY <2>1, TypePartsNext
<1>4. ASSUME NEW n \in Messages
      PROVE  OpFits(n)'
  BY <1>1, <1>2 DEF OpFits, Made
<1>5. ASSUME NEW n \in Messages
      PROVE  OldFits(n)'
  <2>1. SUFFICES ASSUME ops[n].old # None
                 PROVE  OldFits(n)'
    BY <1>1 DEF OldFits
  <2>2. /\ OldFits(n) /\ ops[n].old \in Messages /\ OpFits(ops[n].old)
    BY <1>2, <2>1
  <2>3. /\ ops[n].old < n /\ Stored(ops[n].old)
        /\ ops[ops[n].old].kind = "save"
             => where[ops[n].old] \in {"drafts", "gone"}
    BY <2>1, <2>2 DEF OldFits, OpFits, Stored
  <2> QED
    BY <1>1, <2>1, <2>2, <2>3 DEF OldFits, Folders
<1>6. ASSUME NEW n \in Messages
      PROVE  KeptFits(n)'
  <2>1. ASSUME Kept(n)
        PROVE  Kept(n)'
    <3>1. \A k \in Messages : Underway(k) /\ SameMail(k)
      BY <1>1 DEF Underway, Unfinished, SameMail
    <3> QED
      BY <2>1, <3>1, KeptStable
  <2> QED
    BY <1>1, <1>2, <2>1 DEF KeptFits
<1>7. ASSUME NEW e \in Editors
      PROVE  ChainFits(e)'
  <2>1. Died(e) => Died(e)'
    BY <1>1 DEF Died
  <2> QED
    BY <1>1, <1>2, <2>1, ChainStable
<1>8. OpsFit'
  BY <1>4, <1>5, <1>6, <1>7 DEF OpsFit
<1>9. ASSUME NEW e \in Editors
      PROVE  /\ EditorFits(e, editors[e])
             /\ editors[e].draft \in Messages \union {None}
  BY InvFacts DEF Window
<1>10. ASSUME NEW e \in Editors
       PROVE  /\ HasOwn(e, editors[e])' <=> HasOwn(e, editors[e])
              /\ HasOwn(e, editors[e]) => editors[e].draft \in Messages
  BY <1>1, <1>9 DEF HasOwn, Amiss
<1>11. ASSUME NEW e \in Editors
       PROVE  EditorFits(e, editors[e])'
  <2>1. EditorFits(e, editors[e]) /\ editors[e].draft \in Messages \union {None}
    BY <1>9
  <2>2. OwnLive(e, editors[e])'
    BY <1>1, <1>10, <2>1 DEF EditorFits, OwnLive
  <2>3. DraftStored(editors[e])' /\ OwnIsSave(e, editors[e])'
    BY <1>1, <2>1 DEF EditorFits, DraftStored, OwnIsSave
  <2>4. /\ FreshIdle(e, editors[e])' /\ OpenUnsent(editors[e])'
        /\ SendCloses(e, editors[e])' /\ Handed(e, editors[e])'
        /\ SameStart(e, editors[e])'
    BY <1>1, <2>1 DEF EditorFits, FreshIdle, OpenUnsent, SendCloses, Handed,
       SameStart, Foreign, Modified
  <2> QED
    BY <2>2, <2>3, <2>4 DEF EditorFits
<1>12. OwnAlone(editors)'
  BY <1>1, <1>10, InvFacts DEF WindowsFit, OwnAlone
<1> QED
  BY <1>3, <1>8, <1>11, <1>12 DEF ComposerInv, WindowsFit

LEMMA FolderActionsKeep ==
    ASSUME ComposerInv, NEW m \in Messages, OldDraftRemoved(m) \/ QueueStep(m)
    PROVE  ComposerInv'
<1>1. /\ ops \in [Messages -> Operation] /\ Rest
      /\ \A n \in Messages : OpFits(n)
  BY MailFacts
<1>2. CASE OldDraftRemoved(m)
  <2>1. /\ m \in dropping /\ dropping' = dropping \ {m}
        /\ where' = Without(where, m)
        /\ UNCHANGED <<editors, ops, texts, faults>>
    BY <1>2 DEF OldDraftRemoved
  <2>2. \A n \in Messages :
           where'[n] = IF n = m /\ where[n] \in Folders THEN "gone" ELSE where[n]
    BY <2>1 DEF Without
  <2>3. Rest'
    BY <1>1, <2>1 DEF Rest, Without
  <2>4. FolderChange
    BY <1>1, <2>1, <2>2, <2>3
       DEF FolderChange, Stored, Folders, OpFits, Rest
  <2> QED
    BY <2>4, FoldersKeep
<1>3. CASE QueueStep(m)
  <2>1. /\ where[m] \in {"outbox", "failed"}
        /\ \E next \in {"sent", "failed", "outbox"} :
              where' = [where EXCEPT ![m] = next]
        /\ UNCHANGED <<editors, ops, dropping, texts, faults>>
    BY <1>3 DEF QueueStep
  <2>2. /\ \A n \in Messages : n # m => where'[n] = where[n]
        /\ where'[m] \in {"sent", "failed", "outbox"}
    BY <1>1, <2>1 DEF Rest
  <2>3. Rest'
    BY <1>1, <2>1 DEF Rest, Folders
  <2>4. FolderChange
    BY <1>1, <2>1, <2>2, <2>3 DEF FolderChange, Stored, OpFits
  <2> QED
    BY <2>4, FoldersKeep
<1> QED
  BY <1>2, <1>3

-----------------------------------------------------------------------------
(* A message is added to its folder.                                       *)

\* Message m is stored; a save replaces its old draft.
Adds(m) ==
    /\ ops[m].kind \in {"save", "send"} /\ ops[m].stage = "adding"
    /\ ops' = At(m, "done")
    /\ ops[m].kind = "save" => where' = Replaced(m)
    /\ ops[m].kind = "send" => where' = [where EXCEPT ![m] = "outbox"]
    /\ UNCHANGED <<dropping, texts, faults>>

\* What it leaves.
Added(m) ==
    /\ ops' \in [Messages -> Operation] /\ Rest'
    /\ \A n \in Messages : n # m => ops'[n] = ops[n]
    /\ \A n \in Messages :
         /\ ops'[n].kind = ops[n].kind /\ ops'[n].by = ops[n].by
         /\ ops'[n].text = ops[n].text /\ ops'[n].old = ops[n].old
         /\ ops'[n].amiss = ops[n].amiss
    /\ ops'[m].stage = "done"
    /\ ~Stored(m) /\ Stored(m)' /\ m \notin dropping
    /\ \A n \in Messages : ops[n].old # m
    /\ \A n \in Messages : n # m => (Stored(n)' <=> Stored(n))
    /\ \A n \in Messages : n # m =>
         \/ where'[n] = where[n]
         \/ /\ where'[n] = "gone" /\ where[n] \in Folders
            /\ ops[m].kind = "save" /\ n = ops[m].old
    /\ ops[m].kind = "save" => where'[m] = "drafts"
    /\ ops[m].kind = "save" /\ ops[m].old # None
         => (where[ops[m].old] \in Folders => where'[ops[m].old] = "gone")
    /\ where'[m] # "gone"

LEMMA AddFacts ==
    ASSUME ComposerInv, NEW m \in Messages, Adds(m)
    PROVE  Added(m)
<1>1. /\ ops \in [Messages -> Operation] /\ Rest
      /\ \A n \in Messages : OpFits(n) /\ OldFits(n) /\ KeptFits(n)
      /\ \A n \in Messages : ops[n].old \in Messages \union {None}
      /\ where \in [Messages -> Folders \union {"none", "sent", "gone"}]
  BY MailFacts DEF Rest
<1>2. /\ ops[m].kind \in {"save", "send"} /\ ops[m].stage = "adding"
      /\ UNCHANGED <<dropping, texts, faults>>
  BY DEF Adds
<1>3. ~Stored(m)
  BY <1>1, <1>2 DEF OpFits
<1>4. \A n \in Messages : ops[n].old # m
  BY <1>1, <1>3, Numbers DEF OldFits
<1>5. m \notin dropping
  BY <1>1, <1>4 DEF KeptFits, Kept, Replaces
<1>6. ops' = At(m, "done")
  BY DEF Adds
<1>7. ops'[m] = [ops[m] EXCEPT !.stage = "done"]
  BY <1>1, <1>6 DEF At
<1>8. ops' \in [Messages -> Operation]
  BY <1>1, <1>6 DEF At, Operation
<1>9. \A n \in Messages : n # m => ops'[n] = ops[n]
  BY <1>1, <1>6 DEF At
<1>10. /\ ops'[m].kind = ops[m].kind /\ ops'[m].by = ops[m].by
       /\ ops'[m].text = ops[m].text /\ ops'[m].old = ops[m].old
       /\ ops'[m].amiss = ops[m].amiss /\ ops'[m].stage = "done"
  BY <1>1, <1>7 DEF Operation
<1>11. /\ where' \in [Messages -> Folders \union {"none", "sent", "gone"}]
       /\ \A n \in Messages : n # m =>
            \/ where'[n] = where[n]
            \/ /\ where'[n] = "gone" /\ where[n] \in Folders
               /\ ops[m].kind = "save" /\ n = ops[m].old
       /\ ops[m].kind = "save" => where'[m] = "drafts"
       /\ ops[m].kind = "send" => where'[m] = "outbox"
       /\ ops[m].kind = "save" /\ ops[m].old # None
            => (where[ops[m].old] \in Folders => where'[ops[m].old] = "gone")
  <2>1. CASE ops[m].kind = "save"
    <3> DEFINE w == [where EXCEPT ![m] = "drafts"]
    <3>1. where' = Without(w, ops[m].old)
      BY <2>1 DEF Adds, Replaced
    <3>2. /\ w \in [Messages -> Folders \union {"none", "sent", "gone"}]
          /\ w[m] = "drafts" /\ \A n \in Messages : n # m => w[n] = where[n]
      BY <1>1 DEF Folders
    <3> HIDE DEF w
    <3>3. /\ where' \in [Messages -> Folders \union {"none", "sent", "gone"}]
          /\ \A n \in Messages : where'[n] =
                IF n = ops[m].old /\ w[n] \in Folders THEN "gone" ELSE w[n]
      BY <3>1, <3>2 DEF Without, Folders
    <3> QED
      BY <1>1, <1>4, <2>1, <3>2, <3>3
  <2>2. CASE ops[m].kind = "send"
    <3>1. where' = [where EXCEPT ![m] = "outbox"]
      BY <2>2 DEF Adds
    <3> QED
      BY <1>1, <2>2, <3>1 DEF Folders
  <2> QED
    BY <1>2, <2>1, <2>2
<1>12. Rest'
  BY <1>1, <1>2, <1>11 DEF Rest
<1>13. Stored(m)' /\ where'[m] # "gone"
  BY <1>2, <1>11 DEF Stored
<1>14. \A n \in Messages : n # m => (Stored(n)' <=> Stored(n))
  BY <1>11 DEF Stored, Folders
<1> QED
  BY <1>3, <1>4, <1>5, <1>8, <1>9, <1>10, <1>11, <1>12, <1>13, <1>14 DEF Added

LEMMA AddedOps ==
    ASSUME ComposerInv, NEW m \in Messages, Adds(m)
    PROVE  OpsFit'
<1>0. Added(m)
  BY AddFacts
<1>1. /\ \A n \in Messages : n # m => ops'[n] = ops[n]
      /\ \A n \in Messages :
           /\ ops'[n].kind = ops[n].kind /\ ops'[n].by = ops[n].by
           /\ ops'[n].text = ops[n].text /\ ops'[n].old = ops[n].old
           /\ ops'[n].amiss = ops[n].amiss
      /\ ops'[m].stage = "done"
      /\ ~Stored(m) /\ Stored(m)' /\ m \notin dropping
      /\ \A n \in Messages : ops[n].old # m
      /\ \A n \in Messages : n # m => (Stored(n)' <=> Stored(n))
  BY <1>0 DEF Added
<1>2. /\ \A n \in Messages : n # m =>
           \/ where'[n] = where[n]
           \/ /\ where'[n] = "gone" /\ where[n] \in Folders
              /\ ops[m].kind = "save" /\ n = ops[m].old
      /\ ops[m].kind = "save" => where'[m] = "drafts"
      /\ ops[m].kind = "save" /\ ops[m].old # None
           => (where[ops[m].old] \in Folders => where'[ops[m].old] = "gone")
      /\ where'[m] # "gone" /\ dropping' = dropping
      /\ ops[m].kind \in {"save", "send"} /\ ops[m].stage = "adding"
  BY <1>0 DEF Added, Adds
<1>3. /\ \A n \in Messages : OpFits(n) /\ OldFits(n) /\ KeptFits(n)
      /\ \A e \in Editors : ChainFits(e)
      /\ \A n \in Messages : ops[n].old \in Messages \union {None}
  BY MailFacts
<1>4. ASSUME NEW n \in Messages
      PROVE  OpFits(n)'
  <2>1. \A k \in Messages : Made(k) => Made(k)'
    BY <1>1 DEF Made
  <2>2. OpFits(n) /\ OpFits(m)
    BY <1>3
  <2>3. CASE n = m
    <3>1. Made(m)
      BY <1>2 DEF Made
    <3> QED
      BY <1>1, <1>2, <2>1, <2>2, <2>3, <3>1 DEF OpFits
  <2>4. CASE n # m
    <3>1. Made(n)' => Made(n)
      BY <1>1, <2>4 DEF Made
    <3>2. where'[n] = where[n] \/ where'[n] = "gone"
      BY <1>2, <2>4
    <3> QED
      BY <1>1, <2>1, <2>2, <2>4, <3>1, <3>2 DEF OpFits
  <2> QED
    BY <2>3, <2>4
<1>5. ASSUME NEW n \in Messages
      PROVE  OldFits(n)'
  <2>1. SUFFICES ASSUME ops[n].old # None
                 PROVE  OldFits(n)'
    BY <1>1 DEF OldFits
  <2>2. /\ OldFits(n) /\ ops[n].old \in Messages /\ OpFits(ops[n].old)
        /\ ops[n].old # m
    BY <1>1, <1>3, <2>1
  <2>3. /\ ops[n].old < n /\ Stored(ops[n].old) /\ Stored(ops[n].old)'
        /\ ops[ops[n].old].kind = "save"
             => where[ops[n].old] \in {"drafts", "gone"}
        /\ where[ops[n].old] = "gone" => where'[ops[n].old] = "gone"
    BY <1>1, <1>2, <2>1, <2>2 DEF OldFits, OpFits, Stored
  <2>4. CASE n = m
    BY <1>1, <1>2, <2>1, <2>2, <2>3, <2>4 DEF OldFits, Folders
  <2>5. CASE n # m
    BY <1>1, <1>2, <2>1, <2>2, <2>3, <2>5 DEF OldFits
  <2> QED
    BY <2>4, <2>5
<1>6. ASSUME NEW n \in Messages
      PROVE  KeptFits(n)'
  <2>1. ASSUME Kept(n)
        PROVE  Kept(n)'
    <3>1. \A k \in Messages : Underway(k) /\ SameMail(k)
      BY <1>1, <1>2 DEF Underway, Unfinished, SameMail
    <3> QED
      BY <2>1, <3>1, KeptStable
  <2>2. ASSUME where'[n] = "gone", where[n] # "gone"
        PROVE  Kept(n)'
    <3>1. n = ops[m].old /\ n # None
      BY <1>2, <2>2, Numbers
    <3>2. n < m
      BY <1>3, <3>1 DEF OldFits
    <3> QED
      BY <1>1, <1>2, <3>1, <3>2, Numbers DEF Kept, Replaces
  <2> QED
    BY <1>2, <1>3, <2>1, <2>2 DEF KeptFits
<1>7. ASSUME NEW e \in Editors
      PROVE  ChainFits(e)'
  <2>1. Died(e)' <=> Died(e)
    BY <1>1, <1>2 DEF Died
  <2>2. CASE Died(e) \/ ops[m].by # e
    <3>1. Died(e)' \/ \A n \in Messages : ops[n].by = e
                         => (Stored(n)' <=> Stored(n))
      BY <1>1, <2>1, <2>2
    <3> QED
      BY <1>1, <1>3, <2>1, <3>1, ChainStable
  <2>3. CASE ~Died(e) /\ ops[m].by = e
    <3>1. ASSUME NEW n \in Messages
          PROVE  Foreign(e, ops[n].old)' <=> Foreign(e, ops[n].old)
      <4>1. /\ ops'[n].old = ops[n].old /\ ops[n].old \in Messages \union {None}
            /\ \A x \in Messages : ops'[x].by = ops[x].by
        BY <1>1, <1>3
      <4> QED
        BY <4>1, Numbers DEF Foreign
    <3> DEFINE d == ops[m].old
    <3>2. \A a, b \in Messages :
             /\ ops[a].by = e /\ ops[b].by = e
             /\ Foreign(e, ops[a].old) /\ Foreign(e, ops[b].old)
             => ops[a].old = ops[b].old
      BY <1>3 DEF ChainFits
    <3>3. \A a, b \in Messages :
             /\ ops'[a].by = e /\ ops'[b].by = e
             /\ Foreign(e, ops[a].old)' /\ Foreign(e, ops[b].old)'
             => ops'[a].old = ops'[b].old
      BY <1>1, <3>1, <3>2
    <3>4. \A s \in Messages : ops[s].by = e /\ Stored(s) =>
             \E r \in Messages :
                /\ r # m /\ ops[r].by = e /\ Stored(r)
                /\ Foreign(e, ops[r].old)
      BY <1>1, <1>3, <2>3 DEF ChainFits
    <3>5. d \in Messages \union {None} /\ d # m /\ (d # None => Stored(d))
      BY <1>1, <1>3, Numbers DEF OldFits
    <3>6. ASSUME NEW s \in Messages, ops'[s].by = e, Stored(s)'
          PROVE  \E r \in Messages :
                    ops'[r].by = e /\ Stored(r)' /\ Foreign(e, ops[r].old)'
      <4>1. CASE s # m
        BY <1>1, <3>1, <3>4, <3>6, <4>1
      <4>2. CASE s = m /\ Foreign(e, d)
        BY <1>1, <3>1, <3>6, <4>2
      <4>3. CASE ~Foreign(e, d)
        <5>1. d \in Messages /\ ops[d].by = e /\ Stored(d)
          BY <3>5, <4>3 DEF Foreign
        <5> QED
          BY <1>1, <3>1, <3>4, <5>1
      <4> QED
        BY <4>1, <4>2, <4>3
    <3>7. Twins(e) => Twins(e)'
      BY <1>1 DEF Twins
    <3>8. \A n \in Messages : Superseded(e, n) => Superseded(e, n)'
      BY <1>1 DEF Superseded
    \* The new message and another that nothing replaces.
    <3>9. ASSUME NEW a \in Messages, a # m, ops[a].by = e, Stored(a),
                 ~Superseded(e, a)'
          PROVE  Twins(e)'
      <4>1. CASE Foreign(e, d)
        <5>1. PICK r \in Messages : /\ r # m /\ ops[r].by = e /\ Stored(r)
                                    /\ Foreign(e, ops[r].old)
          BY <3>4, <3>9
        <5>2. ops[r].old = d
          BY <2>3, <3>2, <4>1, <5>1
        <5>3. ops'[r].by = e /\ ops'[m].by = e /\ ops'[r].old = ops'[m].old
              /\ Stored(r)' /\ Stored(m)'
          BY <1>1, <2>3, <5>1, <5>2
        <5> QED
          BY <5>1, <5>3 DEF Twins
      <4>2. CASE ~Foreign(e, d)
        <5>1. d \in Messages /\ ops[d].by = e /\ Stored(d)
          BY <3>5, <4>2 DEF Foreign
        <5>2. CASE Superseded(e, d)
          <6>1. PICK n \in Messages :
                   ops[n].by = e /\ Stored(n) /\ ops[n].old = d
            BY <5>2 DEF Superseded
          <6>2. n # m /\ ops'[n].by = e /\ ops'[m].by = e
                /\ ops'[n].old = ops'[m].old /\ Stored(n)' /\ Stored(m)'
            BY <1>1, <2>3, <6>1
          <6> QED
            BY <6>2 DEF Twins
        <5>3. CASE ~Superseded(e, d)
          <6>1. a = d \/ Twins(e)
            BY <1>3, <2>3, <3>8, <3>9, <5>1, <5>3 DEF ChainFits
          <6>2. a # d
            BY <1>1, <2>3, <3>9 DEF Superseded
          <6> QED
            BY <3>7, <6>1, <6>2
        <5> QED
          BY <5>2, <5>3
      <4> QED
        BY <4>1, <4>2
    <3>10. ASSUME NEW a \in Messages, NEW b \in Messages,
                  ops'[a].by = e, Stored(a)', ~Superseded(e, a)',
                  ops'[b].by = e, Stored(b)', ~Superseded(e, b)'
           PROVE  a = b \/ Twins(e)'
      <4>1. CASE a = m \/ b = m
        BY <1>1, <3>9, <3>10, <4>1
      <4>2. CASE a # m /\ b # m
        <5>1. a = b \/ Twins(e)
          BY <1>1, <1>3, <2>3, <3>8, <3>10, <4>2 DEF ChainFits
        <5> QED
          BY <3>7, <5>1
      <4> QED
        BY <4>1, <4>2
    <3> QED
      BY <3>3, <3>6, <3>10 DEF ChainFits
  <2> QED
    BY <2>2, <2>3
<1> QED
  BY <1>4, <1>5, <1>6, <1>7 DEF OpsFit

\* The windows: window u of editor e, whose draft is as it was or is m now.
LEMMA AddedWindow ==
    ASSUME ComposerInv, NEW m \in Messages, Adds(m),
           NEW e \in Editors, NEW u \in Window,
           \/ /\ u = editors[e]
              /\ ops[m].by = e /\ ops[m].kind = "save" => ops[m].amiss
           \/ /\ u = [editors[e] EXCEPT !.draft = m]
              /\ ops[m].by = e /\ ops[m].kind = "save" /\ ~ops[m].amiss,
           editors'[e] = u
    PROVE  EditorFits(e, editors[e])'
<1>0. Added(m)
  BY AddFacts
<1>1. /\ \A n \in Messages : n # m => ops'[n] = ops[n]
      /\ \A n \in Messages :
           /\ ops'[n].kind = ops[n].kind /\ ops'[n].by = ops[n].by
           /\ ops'[n].text = ops[n].text /\ ops'[n].old = ops[n].old
           /\ ops'[n].amiss = ops[n].amiss
      /\ ops'[m].stage = "done"
      /\ ~Stored(m) /\ Stored(m)' /\ m \notin dropping
      /\ \A n \in Messages : ops[n].old # m
      /\ \A n \in Messages : n # m => (Stored(n)' <=> Stored(n))
  BY <1>0 DEF Added
<1>2. /\ \A n \in Messages : n # m =>
           \/ where'[n] = where[n]
           \/ /\ where'[n] = "gone" /\ where[n] \in Folders
              /\ ops[m].kind = "save" /\ n = ops[m].old
      /\ ops[m].kind = "save" => where'[m] = "drafts"
      /\ dropping' = dropping
      /\ ops[m].kind \in {"save", "send"} /\ ops[m].stage = "adding"
  BY <1>0 DEF Added, Adds
<1> DEFINE v == editors[e]
<1>3. /\ EditorFits(e, v) /\ v \in Window
      /\ \A n \in Messages : ops[n].old \in Messages \union {None}
  BY InvFacts, MailFacts
<1>4. /\ u.phase = v.phase /\ u.text = v.text /\ u.base = v.base
      /\ u.sent = v.sent /\ u.modified = v.modified /\ u.sender = v.sender
      /\ v.draft \in Messages \union {None}
      /\ \/ u.draft = v.draft
            /\ (ops[m].by = e /\ ops[m].kind = "save" => ops[m].amiss)
         \/ u.draft = m /\ ops[m].by = e /\ ops[m].kind = "save"
  BY <1>3 DEF Window
<1> HIDE DEF v
<1>5. v.draft # None => Stored(v.draft) /\ v.draft # m
  BY <1>1, <1>3, <1>4 DEF EditorFits, DraftStored
<1>6. DraftStored(editors[e])'
  BY <1>1, <1>3, <1>4, <1>5, Numbers DEF EditorFits, DraftStored
<1>7. OwnIsSave(e, editors[e])'
  BY <1>1, <1>3, <1>4, <1>5 DEF EditorFits, OwnIsSave
<1>8. FreshIdle(e, editors[e])' /\ OpenUnsent(editors[e])'
  BY <1>1, <1>3, <1>4 DEF EditorFits, FreshIdle, OpenUnsent
<1>9. SendCloses(e, editors[e])'
  BY <1>1, <1>2, <1>3, <1>4 DEF EditorFits, SendCloses
<1>10. Handed(e, editors[e])'
  BY <1>1, <1>3, <1>4 DEF EditorFits, Handed, Modified
<1>11. SameStart(e, editors[e])'
  <2>1. \A x \in Messages \union {None} : Foreign(e, x)' <=> Foreign(e, x)
    BY <1>1, Numbers DEF Foreign
  <2>2. ASSUME NEW a \in Messages, ops'[a].by = e,
               Foreign(e, ops[a].old)', Foreign(e, editors[e].draft)'
        PROVE  ops'[a].old = editors'[e].draft
    <3>1. Foreign(e, ops[a].old) /\ ops[a].by = e
      BY <1>1, <1>3, <2>2, Numbers DEF Foreign
    <3>2. u.draft = v.draft /\ Foreign(e, v.draft)
      BY <1>1, <1>4, <2>2, Numbers DEF Foreign
    <3> QED
      BY <1>1, <1>3, <3>1, <3>2 DEF EditorFits, SameStart
  <2> QED
    BY <2>2 DEF SameStart
<1>12. OwnLive(e, editors[e])'
  <2>1. SUFFICES ASSUME HasOwn(e, editors[e])'
                 PROVE  /\ where'[u.draft] = "drafts"
                        /\ u.draft \notin dropping'
                        /\ \A n \in Messages : ops'[n].old = u.draft
                                                 => ops'[n].by = e
    BY DEF OwnLive
  <2>2. CASE u.draft = m
    <3>1. ops[m].kind = "save"
      BY <1>4, <1>5, <2>2, Numbers
    <3> QED
      BY <1>1, <1>2, <2>2, <3>1
  <2>3. CASE u.draft # m
    <3>1. u.draft = v.draft
          /\ (ops[m].by = e /\ ops[m].kind = "save" => ops[m].amiss)
      BY <1>4, <2>3
    <3>2. ~Amiss(e) /\ HasOwn(e, v) /\ u.draft \in Messages
      BY <1>1, <1>4, <2>1, <3>1 DEF HasOwn, Amiss
    <3>3. OwnLive(e, v)
      BY <1>3 DEF EditorFits
    <3>4. ~(ops[m].by = e /\ ops[m].kind = "save")
      BY <3>1, <3>2 DEF Amiss
    <3> QED
      BY <1>1, <1>2, <2>3, <3>1, <3>2, <3>3, <3>4 DEF OwnLive
  <2> QED
    BY <2>2, <2>3
<1> QED
  BY <1>6, <1>7, <1>8, <1>9, <1>10, <1>11, <1>12 DEF EditorFits

LEMMA AddedKeeps ==
    ASSUME ComposerInv, NEW m \in Messages, AddedToDrafts(m) \/ AddedToOutbox(m)
    PROVE  ComposerInv'
<1> DEFINE Taken == ops[m].kind = "save" /\ ~ops[m].amiss
           b == ops[m].by
<1>1. Adds(m)
  BY DEF AddedToDrafts, AddedToOutbox, Adds
<1>2. Added(m)
  BY <1>1, AddFacts
<1>3. /\ ops \in [Messages -> Operation] /\ ops[m].kind # "none"
      /\ editors \in [Editors -> Window]
      /\ b \in Editors
  BY <1>1, MailFacts, InvFacts DEF Adds, OpFits, Operation
<1>4. /\ editors' \in [Editors -> Window]
      /\ \A e \in Editors :
           editors'[e] = IF Taken /\ e = b
                         THEN [editors[e] EXCEPT !.draft = m] ELSE editors[e]
  <2>1. CASE Taken
    <3>1. editors' = [editors EXCEPT ![b].draft = m]
      BY <2>1 DEF AddedToDrafts, AddedToOutbox, TakenOver
    <3>2. [editors[b] EXCEPT !.draft = m] \in Window
      BY <1>3 DEF Window
    <3> QED
      BY <1>3, <2>1, <3>1, <3>2
  <2>2. CASE ~Taken
    <3>1. editors' = editors
      BY <2>2 DEF AddedToDrafts, AddedToOutbox, TakenOver
    <3> QED
      BY <1>3, <2>2, <3>1
  <2> QED
    BY <2>1, <2>2
<1>5. ASSUME NEW e \in Editors
      PROVE  EditorFits(e, editors[e])'
  <2> DEFINE u == editors'[e]
  <2>1. u \in Window
    BY <1>4
  <2>2. \/ /\ u = editors[e]
           /\ ops[m].by = e /\ ops[m].kind = "save" => ops[m].amiss
        \/ /\ u = [editors[e] EXCEPT !.draft = m]
           /\ ops[m].by = e /\ ops[m].kind = "save" /\ ~ops[m].amiss
    BY <1>4
  <2> QED
    BY <1>1, <2>1, <2>2, AddedWindow
<1>6. ASSUME NEW e \in Editors
      PROVE  /\ editors'[e].phase = editors[e].phase
             /\ editors[e].draft # None =>
                  editors[e].draft \in Messages /\ Stored(editors[e].draft)
             /\ \/ editors'[e].draft = editors[e].draft
                \/ editors'[e].draft = m /\ e = b
             /\ Amiss(e)' <=> Amiss(e)
  <2>1. /\ EditorFits(e, editors[e]) /\ editors[e] \in Window
    BY InvFacts
  <2>2. Amiss(e)' <=> Amiss(e)
    BY <1>2 DEF Amiss, Added
  <2> QED
    BY <1>4, <2>1, <2>2 DEF Window, EditorFits, DraftStored
<1>7. ~Stored(m) /\ \A n \in Messages : ops'[n].by = ops[n].by
  BY <1>2 DEF Added
<1>8. OwnAlone(editors)'
  <2>1. SUFFICES ASSUME NEW e \in Editors, NEW d \in Editors, e # d,
                        HasOwn(e, editors[e])'
                 PROVE  editors'[d].draft # editors'[e].draft
    BY DEF OwnAlone
  <2>2. CASE editors'[e].draft = m /\ e = b
    BY <1>6, <1>7, <2>1, <2>2, Numbers
  <2>3. CASE editors'[e].draft = editors[e].draft
    <3>1. HasOwn(e, editors[e])
      BY <1>6, <1>7, <2>1, <2>3 DEF HasOwn
    <3>2. editors[d].draft # editors[e].draft
      BY <2>1, <3>1, InvFacts DEF WindowsFit, OwnAlone
    <3>3. editors[e].draft # m
      BY <1>6, <1>7, <3>1 DEF HasOwn
    <3> QED
      BY <1>6, <2>3, <3>2, <3>3
  <2> QED
    BY <1>6, <2>2, <2>3
<1>9. ComposerTypeOK'
  BY <1>2, <1>4, TypePartsNext DEF Added
<1> QED
  BY <1>1, <1>5, <1>8, <1>9, AddedOps DEF ComposerInv, WindowsFit

-----------------------------------------------------------------------------
(* The program dies.                                                       *)

LEMMA CrashKeeps ==
    ASSUME ComposerInv, Crash
    PROVE  ComposerInv'
<1>1. /\ ops \in [Messages -> Operation] /\ Rest
      /\ \A n \in Messages : OpFits(n) /\ OldFits(n) /\ KeptFits(n)
      /\ \A e \in Editors : ChainFits(e)
      /\ \A n \in Messages : ops[n].old \in Messages \union {None}
      /\ editors \in [Editors -> Window]
      /\ \A e \in Editors : EditorFits(e, editors[e])
  BY MailFacts, InvFacts
<1>2. PICK stored \in SUBSET {m \in Messages : ops[m].stage = "adding"},
           removed \in SUBSET dropping :
          where' = [m \in Messages |->
             IF m \in stored THEN IF ops[m].kind = "save" THEN "drafts"
                                  ELSE "outbox"
             ELSE IF m \in removed /\ InFolder(m) THEN "gone"
             ELSE where[m]]
  BY DEF Crash
<1>3. ops' = [m \in Messages |-> IF Pending(m)
                                 THEN [ops[m] EXCEPT !.stage = "crashed"]
                                 ELSE ops[m]]
  BY DEF Crash
<1>4. editors' = [e \in Editors |->
          IF editors[e].phase = "open"
          THEN [editors[e] EXCEPT !.phase = "crashed"]
          ELSE IF editors[e].phase = "opening" THEN NoEditor ELSE editors[e]]
  BY DEF Crash
<1>5. dropping' = {} /\ texts' = texts /\ faults' \in 0..MaxFaults
  BY FaultFits DEF Crash, ComposerInv
<1>6. \A n \in Messages :
         /\ where'[n] = where[n]
            \/ (where'[n] \in {"drafts", "outbox"} /\ ops[n].stage = "adding"
                /\ (ops[n].kind = "save" => where'[n] = "drafts"))
            \/ (where'[n] = "gone" /\ n \in dropping /\ where[n] \in Folders)
         /\ Stored(n) => Stored(n)'
         /\ Stored(n)' => Stored(n) \/ ops[n].stage = "adding"
         /\ where'[n] = "gone" => where[n] = "gone" \/ n \in dropping
  BY <1>2 DEF Stored, InFolder, Folders
<1>7. \A n \in Messages :
         /\ ops'[n] = IF Pending(n) THEN [ops[n] EXCEPT !.stage = "crashed"]
                      ELSE ops[n]
         /\ ops'[n].kind = ops[n].kind /\ ops'[n].by = ops[n].by
         /\ ops'[n].text = ops[n].text /\ ops'[n].old = ops[n].old
         /\ ops'[n].amiss = ops[n].amiss
         /\ ops'[n].stage = IF Pending(n) THEN "crashed" ELSE ops[n].stage
  BY <1>1, <1>3 DEF Operation
<1>8. ComposerTypeOK'
  <2>1. ops' \in [Messages -> Operation]
    BY <1>1, <1>3 DEF Operation
  <2>2. editors' \in [Editors -> Window]
    BY <1>1, <1>4, Numbers DEF Window, NoEditor
  <2>3. Rest'
    <3>1. where' \in [Messages -> Folders \union {"none", "sent", "gone"}]
      BY <1>1, <1>2 DEF Rest, Folders
    <3> QED
      BY <1>1, <1>5, <3>1 DEF Rest
  <2> QED
    BY <2>1, <2>2, <2>3, TypePartsNext
<1>9. ASSUME NEW n \in Messages
      PROVE  OpFits(n)'
  <2>1. \A k \in Messages : Made(k)' <=> Made(k)
    BY <1>1, <1>6, <1>7 DEF Made, OpFits
  <2>2. OpFits(n)
    BY <1>1
  <2>3. ops[n].kind # "none" \/ ~Pending(n)
    BY <2>2 DEF Pending, OpFits
  <2>4. CASE Pending(n)
    BY <1>6, <1>7, <2>1, <2>2, <2>3, <2>4 DEF OpFits
  <2>5. CASE ~Pending(n)
    <3>1. ops[n].stage # "adding"
      BY <2>5 DEF Pending
    <3> QED
      BY <1>6, <1>7, <2>1, <2>2, <2>5, <3>1 DEF OpFits
  <2> QED
    BY <2>4, <2>5
<1>10. ASSUME NEW n \in Messages
       PROVE  OldFits(n)'
  <2>1. SUFFICES ASSUME ops[n].old # None
                 PROVE  OldFits(n)'
    BY <1>7 DEF OldFits
  <2>2. OldFits(n) /\ ops[n].old \in Messages /\ OpFits(ops[n].old)
    BY <1>1, <2>1
  <2>3. /\ ops[n].old < n /\ Stored(ops[n].old) /\ Stored(ops[n].old)'
        /\ where[ops[n].old] = "gone" => where'[ops[n].old] = "gone"
    <3>1. ASSUME NEW k \in Messages, OpFits(k), Stored(k)
          PROVE  /\ Stored(k)'
                 /\ where[k] = "gone" => where'[k] = "gone"
      <4>1. ops[k].stage # "adding"
        BY <3>1 DEF OpFits
      <4> QED
        BY <1>6, <3>1, <4>1 DEF Folders
    <3>2. ops[n].old < n /\ Stored(ops[n].old)
      BY <2>1, <2>2 DEF OldFits
    <3> QED
      BY <1>7, <2>2, <3>1, <3>2
  <2>4. ops'[n].stage = "done" =>
           /\ ops[n].stage = "done"
           /\ ops[n].kind = "send" => ops[n].old \notin dropping
    BY <1>7, <2>1 DEF Pending
  <2>5. ops'[n].stage # "adding"
    BY <1>7 DEF Pending
  <2> QED
    BY <1>7, <2>1, <2>2, <2>3, <2>4, <2>5 DEF OldFits
<1>11. ASSUME NEW n \in Messages
       PROVE  KeptFits(n)'
  <2>1. ASSUME Kept(n)
        PROVE  Kept(n)'
    <3>1. \A k \in Messages : Underway(k) /\ SameMail(k)
      BY <1>6, <1>7 DEF Underway, Unfinished, SameMail
    <3> QED
      BY <2>1, <3>1, KeptStable
  <2> QED
    BY <1>1, <1>5, <1>6, <2>1 DEF KeptFits
<1>12. ASSUME NEW e \in Editors
       PROVE  ChainFits(e)'
  <2>1. Died(e) => Died(e)'
    <3>1. SUFFICES ASSUME NEW a \in Messages, ops[a].by = e,
                          ops[a].stage = "crashed"
                   PROVE  ops'[a].by = e /\ ops'[a].stage = "crashed"
      BY DEF Died
    <3> QED
      BY <1>7, <3>1
  <2>2. Died(e)' \/ \A n \in Messages : ops[n].by = e
                         => (Stored(n)' <=> Stored(n))
    <3>1. SUFFICES ASSUME ~Died(e)', NEW n \in Messages, ops[n].by = e
                   PROVE  Stored(n)' <=> Stored(n)
      OBVIOUS
    <3>2. ~Pending(n)
      BY <1>7, <3>1 DEF Died
    <3> QED
      BY <1>6, <3>2 DEF Pending
  <2> QED
    BY <1>1, <1>7, <2>1, <2>2, ChainStable
<1>13. ASSUME NEW e \in Editors
       PROVE  editors'[e].phase \notin {"opening", "open"}
  BY <1>1, <1>4 DEF Window, NoEditor
<1>14. ASSUME NEW e \in Editors
       PROVE  EditorFits(e, editors[e])'
  <2>1. ~HasOwn(e, editors[e])'
    BY <1>13 DEF HasOwn
  <2>2. EditorFits(e, editors[e]) /\ editors[e] \in Window
        /\ editors[e].draft \in Messages \union {None}
    BY <1>1 DEF Window
  <2>3. CASE editors[e].phase = "opening"
    <3>1. /\ editors'[e] = NoEditor /\ NoEditor.phase = "none"
          /\ NoEditor.draft = None /\ NoEditor.text = NoEditor.base
      BY <1>4, <2>3 DEF NoEditor
    <3>2. \A n \in Messages : ops'[n].by # e
      BY <1>7, <2>2, <2>3 DEF EditorFits, FreshIdle
    <3> QED
      BY <2>1, <3>1, <3>2
         DEF EditorFits, DraftStored, OwnIsSave, FreshIdle, OpenUnsent,
             SendCloses, Handed, SameStart, OwnLive
  <2>4. CASE editors[e].phase # "opening"
    <3>1. /\ editors'[e].draft = editors[e].draft
          /\ editors'[e].text = editors[e].text
          /\ editors'[e].base = editors[e].base
          /\ editors'[e].phase = IF editors[e].phase = "open" THEN "crashed"
                                 ELSE editors[e].phase
      BY <1>4, <2>2, <2>4 DEF Window
    <3>2. SameStart(e, editors[e])'
      <4>1. ASSUME NEW x \in Messages \union {None}
            PROVE  Foreign(e, x)' <=> Foreign(e, x)
        BY <1>7, Numbers DEF Foreign
      <4>2. SUFFICES ASSUME NEW a \in Messages, ops'[a].by = e,
                            Foreign(e, ops[a].old)',
                            Foreign(e, editors[e].draft)'
                     PROVE  ops'[a].old = editors'[e].draft
        BY DEF SameStart
      <4>3. /\ ops'[a].old = ops[a].old /\ ops[a].by = e
            /\ ops[a].old \in Messages \union {None}
            /\ \A x \in Messages : ops'[x].by = ops[x].by
        BY <1>1, <1>7, <4>2
      <4>4. Foreign(e, ops[a].old)
        BY <4>2, <4>3, Numbers DEF Foreign
      <4>5. Foreign(e, editors[e].draft)
        BY <2>2, <3>1, <4>2, <4>3, Numbers DEF Foreign
      <4> QED
        BY <2>2, <3>1, <4>3, <4>4, <4>5 DEF EditorFits, SameStart
    <3>3. DraftStored(editors[e])' /\ OwnIsSave(e, editors[e])'
      BY <1>6, <1>7, <2>2, <2>4, <3>1 DEF EditorFits, DraftStored, OwnIsSave
    <3>4. FreshIdle(e, editors[e])' /\ OpenUnsent(editors[e])'
      BY <1>7, <1>13, <2>2, <3>1 DEF EditorFits, FreshIdle, OpenUnsent
    <3>5. SendCloses(e, editors[e])'
      BY <1>13 DEF SendCloses
    <3>6. Handed(e, editors[e])'
      <4>1. Handed(e, editors[e])
        BY <2>2 DEF EditorFits
      <4>2. SUFFICES ASSUME editors'[e].phase = "closed",
                            editors'[e].text # editors'[e].base
                     PROVE  \E n \in Messages : /\ ops'[n].by = e
                                                /\ ops'[n].text = editors'[e].text
        BY <1>13 DEF Handed
      <4> QED
        BY <1>7, <3>1, <4>1, <4>2 DEF Handed
    <3> QED
      BY <2>1, <3>2, <3>3, <3>4, <3>5, <3>6 DEF EditorFits, OwnLive
  <2> QED
    BY <2>3, <2>4
<1>15. OwnAlone(editors)'
  BY <1>13 DEF OwnAlone, HasOwn
<1> QED
  BY <1>8, <1>9, <1>10, <1>11, <1>12, <1>14, <1>15
     DEF ComposerInv, OpsFit, WindowsFit

-----------------------------------------------------------------------------
(* The theorems.                                                           *)

LEMMA ComposerStarts ==
    ASSUME ComposerInit
    PROVE  ComposerInv
<1>1. PICK place \in {"none", "drafts", "failed"} :
          where = [m \in Messages |-> IF m = 1 THEN place ELSE "none"]
  BY DEF ComposerInit
<1>2. /\ editors = [e \in Editors |-> NoEditor]
      /\ ops = [m \in Messages |-> NoOp]
      /\ dropping = {} /\ texts = 0 /\ faults = 0
  BY DEF ComposerInit
<1>3. ComposerTypeOK
  BY <1>1, <1>2, ComposerAssumption, Numbers
     DEF ComposerTypeOK, NoEditor, NoOp, Folders, Texts
<1>4. ASSUME NEW n \in Messages
      PROVE  /\ ops[n].kind = "none" /\ ops[n].by = 0 /\ ops[n].old = None
             /\ ops[n].stage = "none" /\ ~ops[n].amiss
             /\ where[n] # "gone" /\ (Stored(n) => n = 1)
  BY <1>1, <1>2 DEF NoOp, Stored
<1>5. ASSUME NEW n \in Messages
      PROVE  OpFits(n) /\ OldFits(n) /\ KeptFits(n)
  <2>1. \A k \in Messages : ~(k < 1)
    BY DEF Messages
  <2> QED
    BY <1>2, <1>4, <2>1 DEF OpFits, OldFits, KeptFits, Made
<1>6. ASSUME NEW e \in Editors
      PROVE  ChainFits(e) /\ EditorFits(e, editors[e]) /\ ~HasOwn(e, editors[e])
  <2>1. /\ editors[e].phase = "none" /\ editors[e].draft = None
        /\ editors[e].text = editors[e].base
    BY <1>2 DEF NoEditor
  <2>2. \A n \in Messages : ops[n].by # e
    BY <1>4, Numbers
  <2>3. ChainFits(e)
    BY <2>2 DEF ChainFits
  <2>4. EditorFits(e, editors[e]) /\ ~HasOwn(e, editors[e])
    BY <2>1, <2>2
       DEF EditorFits, DraftStored, OwnIsSave, FreshIdle, OpenUnsent,
           SendCloses, Handed, SameStart, OwnLive, HasOwn
  <2> QED
    BY <2>3, <2>4
<1> QED
  BY <1>3, <1>5, <1>6 DEF ComposerInv, OpsFit, WindowsFit, OwnAlone

LEMMA ComposerStep ==
    ASSUME ComposerInv, ComposerNext
    PROVE  ComposerInv'
<1>1. CASE \E e \in Editors :
              \/ NewEditor(e) \/ DraftRetrieved(e) \/ OpeningAbandoned(e)
              \/ Edit(e) \/ SaveToDrafts(e) \/ SaveRefused(e)
              \/ Send(e) \/ SendFailsAtOnce(e) \/ CloseEditor(e)
              \/ \E m \in Messages : OpenDraft(e, m)
  BY <1>1, NewEditorKeeps, DraftRetrievedKeeps, WindowActionsKeep,
     OpenDraftKeeps
<1>2. CASE \E m \in Messages :
              \/ MadeToSave(m) \/ MadeToSend(m) \/ AddedToDrafts(m)
              \/ AddedToOutbox(m) \/ AddFails(m) \/ OldDraftRemoved(m)
              \/ QueueStep(m)
  BY <1>2, MakingKeeps, AddedKeeps, FolderActionsKeep
<1>3. CASE Crash
  BY <1>3, CrashKeeps
<1> QED
  BY <1>1, <1>2, <1>3 DEF ComposerNext

LEMMA ComposerStutters ==
    ASSUME ComposerInv, UNCHANGED composerVars
    PROVE  ComposerInv'
<1>1. /\ editors' = editors /\ UNCHANGED <<ops, where, dropping>>
      /\ texts' \in Texts /\ faults' \in 0..MaxFaults
  BY InvFacts DEF composerVars
<1> QED
  BY <1>1, InvFacts, OnlyWindows

\* The windows, operations and folders fit together (EditorFits, OldFits,
\* KeptFits, ChainFits) in every reachable state.
THEOREM ComposerFits == ComposerSpec => []ComposerInv
<1>1. ComposerInit => ComposerInv
  BY ComposerStarts
<1>2. ComposerInv /\ [ComposerNext]_composerVars => ComposerInv'
  BY ComposerStep, ComposerStutters
<1> QED
  BY <1>1, <1>2, PTL DEF ComposerSpec

\* A mail leaves its folder only for one made from it (SavedIsKept): the old
\* draft is removed after its successor was added, or by a send.
THEOREM NothingSavedIsLost == ComposerSpec => []SavedIsKept
<1>1. ComposerInv => SavedIsKept
  BY DEF ComposerInv, OpsFit, KeptFits, Kept, SavedIsKept
<1> QED
  BY <1>1, ComposerFits, PTL

\* A text a window forgets was handed to an operation (TextIsHandedOver):
\* edits made while a save is pending mark the window again.
THEOREM NothingWrittenIsForgotten == ComposerSpec => []TextIsHandedOver
<1>1. ASSUME ComposerInv
      PROVE  TextIsHandedOver
  <2>1. SUFFICES ASSUME NEW e \in Editors,
                        \/ editors[e].phase = "closed"
                        \/ editors[e].phase = "open" /\ ~Modified(editors[e]),
                        editors[e].text # editors[e].base
                 PROVE  \E n \in Messages :
                          /\ ops[n].by = e /\ ops[n].text = editors[e].text
                          /\ Pending(n) \/ Stored(n) \/ Failed(n)
    BY DEF TextIsHandedOver
  <2>2. PICK n \in Messages : ops[n].by = e /\ ops[n].text = editors[e].text
    <3>1. Handed(e, editors[e])
      BY <1>1, InvFacts DEF EditorFits
    <3> QED
      BY <2>1, <3>1 DEF Handed
  <2>3. OpFits(n) /\ ops[n] \in Operation /\ ops[n].by # 0
    BY <1>1, <2>2, MailFacts, Numbers
  <2>4. Pending(n) \/ Stored(n) \/ Failed(n)
    BY <2>3 DEF OpFits, Operation, Pending, Failed
  <2> QED
    BY <2>2, <2>4
<1> QED
  BY <1>1, ComposerFits, PTL

\* The draft an open window took over is in Drafts (DraftIsLive).
THEOREM NextSaveFindsDraft == ComposerSpec => []DraftIsLive
<1>1. ASSUME ComposerInv
      PROVE  DraftIsLive
  <2>1. \A e \in Editors : OwnLive(e, editors[e])
    BY <1>1, InvFacts DEF EditorFits
  <2> QED
    BY <2>1 DEF DraftIsLive, OwnLive, HasOwn, Amiss
<1> QED
  BY <1>1, ComposerFits, PTL

\* What an editor made is one chain of saves, of which only the last is left
\* (OneCopy).
THEOREM OneMailOneCopy == ComposerSpec => []OneCopy
<1>1. ASSUME ComposerInv
      PROVE  OneCopy
  <2>1. SUFFICES ASSUME NEW e \in Editors, Settled(e), ~Twins(e), ~Died(e),
                        \A a \in Messages :
                           ops[a].by = e => ~(ops[a].kind = "send" /\ ops[a].amiss),
                        NEW m \in Copies(e), NEW n \in Copies(e)
                 PROVE  m = n
    BY DEF OneCopy, Twins, Died
  <2>2. /\ \A k \in Messages : OpFits(k) /\ OldFits(k)
        /\ ChainFits(e) /\ ops \in [Messages -> Operation]
        /\ \A k \in Messages : ops[k].old \in Messages \union {None}
    BY <1>1, MailFacts
  <2>3. ASSUME NEW k \in Messages, ops[k].by = e, Superseded(e, k)
        PROVE  where[k] = "gone"
    <3>1. PICK x \in Messages : ops[x].by = e /\ Stored(x) /\ ops[x].old = k
      BY <2>3 DEF Superseded
    <3>2. /\ ops[x].kind \in {"save", "send"} /\ ops[x].stage = "done"
      BY <2>1, <2>2, <3>1, Numbers DEF OpFits, Died, Operation
    <3>3. ~Pending(x)
      BY <2>1, <3>1 DEF Settled
    <3>4. ops[x].kind = "send" => ~ops[x].amiss /\ k \notin dropping
      BY <2>1, <3>1, <3>3 DEF Pending
    <3> QED
      BY <2>2, <2>3, <3>1, <3>2, <3>4, Numbers DEF OldFits
  <2>4. /\ m \in Messages /\ ops[m].by = e /\ Stored(m) /\ where[m] # "gone"
        /\ n \in Messages /\ ops[n].by = e /\ Stored(n) /\ where[n] # "gone"
    BY <2>1 DEF Copies, Stored, InFolder, Folders
  <2>5. ~Superseded(e, m) /\ ~Superseded(e, n)
    BY <2>3, <2>4
  <2> QED
    BY <2>1, <2>2, <2>4, <2>5 DEF ChainFits
<1> QED
  BY <1>1, ComposerFits, PTL
=============================================================================
