-------------------------- MODULE HeaderListProofs ---------------------------
(* Proofs about module HeaderList, for any number of messages, of changes   *)
(* and of models: the rows match the search whenever no refilter is on the  *)
(* way.  A refilter need not see every row: the invariant says which rows   *)
(* it may still have to visit, by their position in the sorted model.       *)
EXTENDS HeaderList, FiniteSetTheorems, SequenceTheorems, TLAPS

Walks == [on : BOOLEAN, model : Nat, at : Nat, iterator : BOOLEAN]

List ==
    [folder : BOOLEAN, made : Nat, model : Nat, monitor : Nat,
     listed : SUBSET Dates, rows : SUBSET Dates, shown : SUBSET Dates,
     status : {"INIT", "EMPTY", "NON_EMPTY"}, timer : BOOLEAN,
     notify : BOOLEAN, observing : BOOLEAN, latest : Nat,
     search : SUBSET Dates, refilter : Walks,
     failed : BOOLEAN, quiet : BOOLEAN]

Change == [date : Dates, added : BOOLEAN, count : Nat]

\* What the environment of the view keeps.
AroundTyped ==
    /\ inFolder \subseteq Dates
    /\ changes \in Seq(Change)
    /\ listings \in Seq(Nat \ {0})

\* The position of a row: how many rows are newer.
Newer(v, d) == {e \in v.rows : e > d}

Matches(v, d) == d \in v.shown <=> Visible(v, d)

\* A walk goes on over the rows of the model shown.
Walking(v) == v.refilter.on /\ v.refilter.model = v.model

\* Without a walk every row matches; a walk whose iterator is valid has only
\* the rows from its position on left; without a model there are no rows.
Walked(v) ==
    /\ v.shown \subseteq v.rows
    /\ v.model = 0 => v.listed = {} /\ v.rows = {}
    /\ ~Walking(v) => \A d \in v.rows : Matches(v, d)
    /\ Walking(v) /\ v.refilter.iterator =>
           \A d \in v.rows : ~Matches(v, d) =>
               Cardinality(Newer(v, d)) >= v.refilter.at - 1

Good(v) == v \in List /\ Walked(v)

\* The inductive invariant.
IInv == Good(list) /\ AroundTyped

-----------------------------------------------------------------------------
LEMMA ConstantsTyped ==
    MaxDate \in Nat /\ Latest \in Nat /\ IsFiniteSet(Dates)
  <1>1. MaxDate \in Nat /\ Latest \in Nat
    BY HeaderListAssumption
  <1> QED
    BY <1>1, FS_Interval DEF Dates

\* Positions are numbers, and smaller than the number of rows.
LEMMA PositionBounded ==
    ASSUME NEW v, v.rows \subseteq Dates, NEW d \in v.rows
    PROVE  /\ Cardinality(Newer(v, d)) \in Nat
           /\ Cardinality(v.rows) \in Nat
           /\ Cardinality(Newer(v, d)) < Cardinality(v.rows)
  <1>1. IsFiniteSet(v.rows)
    BY ConstantsTyped, FS_Subset
  <1>2. v.rows \ {d} \subseteq v.rows /\ Newer(v, d) \subseteq v.rows \ {d}
    BY ConstantsTyped DEF Newer, Dates
  <1>3. IsFiniteSet(v.rows \ {d}) /\ IsFiniteSet(Newer(v, d))
    BY <1>1, <1>2, FS_Subset
  <1>4. Cardinality(v.rows \ {d}) = Cardinality(v.rows) - 1
    BY <1>1, FS_RemoveElement
  <1>5. Cardinality(Newer(v, d)) <= Cardinality(v.rows \ {d})
    BY <1>2, <1>3, FS_Subset
  <1> QED
    BY <1>1, <1>3, <1>4, <1>5, FS_CardinalityType

\* A row that comes moves no other to the front.
LEMMA PositionGrows ==
    ASSUME NEW v, NEW w, v.rows \subseteq w.rows, w.rows \subseteq Dates,
           NEW d \in v.rows
    PROVE  Cardinality(Newer(v, d)) <= Cardinality(Newer(w, d))
  <1>1. IsFiniteSet(w.rows)
    BY ConstantsTyped, FS_Subset
  <1>2. Newer(w, d) \subseteq w.rows /\ Newer(v, d) \subseteq Newer(w, d)
    BY DEF Newer
  <1>3. IsFiniteSet(Newer(w, d))
    BY <1>1, <1>2, FS_Subset
  <1> QED
    BY <1>2, <1>3, FS_Subset

-----------------------------------------------------------------------------
\* What does not touch the rows, the search or the walk keeps them walked.
LEMMA SameRows ==
    ASSUME NEW v, NEW w \in List, Good(v),
           w.rows = v.rows, w.shown = v.shown, w.model = v.model,
           w.search = v.search, w.refilter = v.refilter,
           w.listed # v.listed => w.model # 0
    PROVE  Good(w)
  BY DEF Good, Walked, Walking, Matches, Visible, Newer

\* A view without rows has nothing to walk through.
LEMMA NoRows ==
    ASSUME NEW w \in List, w.rows = {}, w.shown = {},
           w.model = 0 => w.listed = {}
    PROVE  Good(w)
  BY DEF Good, Walked

\* A walk that starts has every row before it.
LEMMA WalkGood ==
    ASSUME NEW v \in List, v.shown \subseteq v.rows, v.model # 0
    PROVE  Good(Walk(v))
  <1> DEFINE w == Walk(v)
  <1>1. CASE v.rows = {}
    <2>1. w = [v EXCEPT !.refilter = NoWalk]
      BY <1>1 DEF Walk
    <2>2. NoWalk \in Walks /\ v.shown = {}
      BY <1>1 DEF NoWalk, Walks
    <2>3. /\ w \in List /\ w.rows = v.rows /\ w.shown = v.shown
          /\ w.model = v.model
      BY <2>1, <2>2 DEF List
    <2> QED
      BY <1>1, <2>2, <2>3, NoRows
  <1>2. CASE v.rows # {}
    <2> DEFINE r == [on |-> TRUE, model |-> v.model, at |-> 1, iterator |-> TRUE]
    <2>1. w = [v EXCEPT !.refilter = r]
      BY <1>2 DEF Walk
    <2>0. r \in Walks
      BY DEF List, Walks
    <2> HIDE DEF r
    <2>2. /\ w \in List /\ w.rows = v.rows /\ w.shown = v.shown
          /\ w.model = v.model /\ w.refilter = r
      BY <2>0, <2>1 DEF List
    <2>3. w.rows \subseteq Dates
      BY <2>2 DEF List
    <2>4. \A d \in w.rows : Cardinality(Newer(w, d)) >= 0
      BY <2>3, PositionBounded
    <2> QED
      BY <2>2, <2>4 DEF r, Good, Walked, Walking
  <1> QED
    BY <1>1, <1>2

\* modest_header_view_refilter after a change of the search: what was shown
\* for the old one does not matter.
LEMMA RefilteredGood ==
    ASSUME NEW v \in List, v.shown \subseteq v.rows,
           v.model = 0 => v.listed = {} /\ v.rows = {}
    PROVE  Good(Refiltered(v))
  <1>1. CASE v.model = 0
    BY <1>1, NoRows DEF Refiltered
  <1>2. CASE v.model # 0
    <2> DEFINE w == [v EXCEPT !.status = "INIT"]
    <2>1. w \in List /\ w.rows = v.rows /\ w.shown = v.shown /\ w.model = v.model
      BY DEF List
    <2>2. Good(Walk(w))
      BY <1>2, <2>1, WalkGood
    <2> QED
      BY <1>2, <2>2 DEF Refiltered
  <1> QED
    BY <1>1, <1>2

\* update_view shows the one or the other and may refilter.
LEMMA UpdateViewGood ==
    ASSUME NEW v, Good(v), NEW count, NEW refilter \in BOOLEAN,
           UpdateView(v, count, refilter)
    PROVE  Good(list')
  <1>1. Good(Refiltered(v))
    BY RefilteredGood DEF Good, Walked
  <1>2. PICK w : Good(w) /\ list' \in {w, [w EXCEPT !.quiet = FALSE]}
    BY <1>1 DEF UpdateView
  <1> DEFINE q == [w EXCEPT !.quiet = FALSE]
  <1>3. w \in List
    BY <1>2 DEF Good
  <1>4. /\ q \in List /\ q.rows = w.rows /\ q.shown = w.shown
        /\ q.model = w.model /\ q.search = w.search /\ q.refilter = w.refilter
        /\ q.listed = w.listed
    BY <1>3 DEF List
  <1>5. Good(q)
    BY <1>2, <1>4, SameRows
  <1> QED
    BY <1>2, <1>5

\* filter_row sets what is shown of the rows it is given.
LEMMA FilteredFields ==
    ASSUME NEW v \in List, NEW ds \in SUBSET Dates
    PROVE  LET w == Filtered(v, ds)
           IN /\ w \in List
              /\ w.rows = v.rows /\ w.model = v.model /\ w.listed = v.listed
              /\ w.search = v.search /\ w.refilter = v.refilter
              /\ w.shown = (v.shown \ ds) \cup {d \in ds : Visible(v, d)}
  <1> DEFINE seen == {d \in ds : Visible(v, d)}
             status == IF v.status = "NON_EMPTY" \/ seen # {} THEN "NON_EMPTY"
                       ELSE IF ds = {} THEN v.status ELSE "EMPTY"
             timer == v.timer \/ (v.notify /\ status # v.status)
             shown == (v.shown \ ds) \cup seen
  <1>1. status \in {"INIT", "EMPTY", "NON_EMPTY"} /\ timer \in BOOLEAN
    BY DEF List
  <1>2. shown \in SUBSET Dates
    BY DEF List
  <1>3. Filtered(v, ds) = [v EXCEPT !.shown = shown, !.status = status,
                                    !.timer = timer]
    BY DEF Filtered
  <1> HIDE DEF status, timer, shown
  <1>4. LET w == Filtered(v, ds)
        IN /\ w \in List
           /\ w.rows = v.rows /\ w.model = v.model /\ w.listed = v.listed
           /\ w.search = v.search /\ w.refilter = v.refilter
           /\ w.shown = shown
    BY <1>1, <1>2, <1>3 DEF List
  <1> QED
    BY <1>4 DEF shown

\* Clearing and setting a folder leave no rows.
LEMMA ClearedTyped ==
    ASSUME NEW v \in List
    PROVE  /\ Cleared(v) \in List /\ Cleared(v).rows = {}
           /\ Cleared(v).shown = {} /\ Cleared(v).listed = {}
           /\ Cleared(v).model = 0
  <1> DEFINE timer == v.timer /\ ~v.folder
  <1>1. timer \in BOOLEAN
    OBVIOUS
  <1> DEFINE none == {}
  <1>0. none \in SUBSET Dates /\ none = {}
    OBVIOUS
  <1>2. Cleared(v) =
           [v EXCEPT !.folder = FALSE, !.observing = FALSE, !.timer = timer,
                     !.monitor = 0, !.model = 0, !.listed = none,
                     !.rows = none, !.shown = none]
    BY DEF Cleared, List
  <1> HIDE DEF timer, none
  <1>3. 0 \in Nat
    OBVIOUS
  <1>4. Cleared(v) \in List
    BY <1>0, <1>1, <1>2, <1>3, Zenon DEF List
  <1>5. /\ Cleared(v).listed = none /\ Cleared(v).rows = none
        /\ Cleared(v).shown = none /\ Cleared(v).model = 0
    BY <1>2 DEF List
  <1> QED
    BY <1>0, <1>4, <1>5

LEMMA FolderSetTyped ==
    ASSUME NEW v \in List
    PROVE  /\ FolderSet(v) \in List /\ FolderSet(v).rows = {}
           /\ FolderSet(v).shown = {} /\ FolderSet(v).model = v.made + 1
  <1> DEFINE timer == v.timer /\ ~v.folder
             observing == v.observing /\ ~v.folder
             made == v.made + 1
             none == {}
  <1>0. none \in SUBSET Dates /\ none = {}
    OBVIOUS
  <1>1. timer \in BOOLEAN /\ observing \in BOOLEAN /\ made \in Nat
    BY DEF List
  <1>2. FolderSet(v) =
           [v EXCEPT !.folder = TRUE, !.made = made, !.model = made,
                     !.listed = none, !.rows = none, !.shown = none,
                     !.status = "INIT", !.notify = FALSE,
                     !.observing = observing, !.timer = timer, !.failed = FALSE]
    BY DEF FolderSet, List
  <1>3. made = v.made + 1
    OBVIOUS
  <1> HIDE DEF timer, observing, made, none
  <1>4. FolderSet(v) \in List
    BY <1>0, <1>1, <1>2, Zenon DEF List
  <1>5. /\ FolderSet(v).rows = none /\ FolderSet(v).shown = none
        /\ FolderSet(v).model = made
    BY <1>2 DEF List
  <1> QED
    BY <1>0, <1>3, <1>4, <1>5

-----------------------------------------------------------------------------
LEMMA InvariantInit == HeaderListInit => IInv
  <1> SUFFICES ASSUME HeaderListInit PROVE IInv
    OBVIOUS
  <1>1. NoWalk \in Walks /\ NoSearch \in SUBSET Dates
    BY DEF NoWalk, Walks, NoSearch
  <1>2. NoList \in List /\ NoList.rows = {} /\ NoList.shown = {} /\ NoList.listed = {}
    BY <1>1 DEF NoList, List
  <1>3. Good(list)
    BY <1>2, NoRows DEF HeaderListInit
  <1> QED
    BY <1>3 DEF HeaderListInit, IInv, AroundTyped

\* The window opens with a view whose folder has just been set.
LEMMA OpenWindowStep ==
    ASSUME IInv, OpenWindow
    PROVE  Good(list')
  <1> DEFINE latest == IF limited THEN Latest ELSE 0
             v == [NoList EXCEPT !.latest = latest]
  <1>1. NoWalk \in Walks /\ NoSearch \in SUBSET Dates
    BY DEF NoWalk, Walks, NoSearch
  <1>2. NoList \in List /\ latest \in Nat
    BY <1>1, ConstantsTyped DEF NoList, List
  <1> HIDE DEF latest
  <1>3. v \in List
    BY <1>2 DEF List
  <1> HIDE DEF v
  <1>4. Good(FolderSet(v))
    <2>1. v.made + 1 # 0
      BY <1>3 DEF List
    <2> QED
      BY <1>3, <2>1, FolderSetTyped, NoRows
  <1>5. UpdateView(FolderSet(v), AllCount, FALSE)
    BY DEF OpenWindow, latest, v
  <1> QED
    BY <1>4, <1>5, UpdateViewGood

LEMMA HeadersListedStep ==
    ASSUME IInv, HeadersListed
    PROVE  Good(list')
  <1> DEFINE m == Head(listings)
             listed == IF m = list.model THEN inFolder ELSE list.listed
  <1>1. list \in List
    BY DEF IInv, Good
  <1>2. m \in Nat /\ listed \in SUBSET Dates
    BY <1>1, HeadTailProperties DEF HeadersListed, IInv, AroundTyped, List
  <1>3. list' = [list EXCEPT !.monitor = m, !.listed = listed]
    BY <1>1 DEF HeadersListed, List
  <1>4. listed # list.listed => list.model # 0
    BY HeadTailProperties DEF HeadersListed, IInv, AroundTyped
  <1> HIDE DEF m, listed
  <1>5. list' \in List
    BY <1>1, <1>2, <1>3, Zenon DEF List
  <1>6. /\ list'.rows = list.rows /\ list'.listed = listed
        /\ list'.shown = list.shown /\ list'.model = list.model
        /\ list'.search = list.search /\ list'.refilter = list.refilter
    BY <1>1, <1>3 DEF List
  <1> QED
    BY <1>4, <1>5, <1>6, SameRows DEF IInv

LEMMA ListingFailsStep ==
    ASSUME IInv, ListingFails
    PROVE  Good(list')
  <1> DEFINE failed == list.failed \/ Head(listings) = list.model
  <1>1. list \in List /\ failed \in BOOLEAN
    BY DEF IInv, Good, List
  <1>2. list' = [list EXCEPT !.failed = failed]
    BY <1>1 DEF ListingFails, List
  <1> HIDE DEF failed
  <1>3. /\ list' \in List /\ list'.rows = list.rows /\ list'.listed = list.listed
        /\ list'.shown = list.shown /\ list'.model = list.model
        /\ list'.search = list.search /\ list'.refilter = list.refilter
    BY <1>1, <1>2 DEF List
  <1> QED
    BY <1>3, SameRows DEF IInv

\* The model is told of a change, the window perhaps too; an expunge starts a
\* refilter.
LEMMA ChangeToldStep ==
    ASSUME IInv, ChangeTold
    PROVE  Good(list')
  <1> DEFINE c == Head(changes)
             listed == IF c.added THEN list.listed \cup {c.date}
                       ELSE list.listed \ {c.date}
             told == [list EXCEPT !.listed = listed]
             v == IF list.model = 0 \/ list.monitor # list.model THEN list
                  ELSE told
  <1>1. list \in List
    BY DEF IInv, Good
  <1>2. c \in Change
    BY HeadTailProperties DEF ChangeTold, IInv, AroundTyped
  <1>3. listed \in SUBSET Dates /\ (~c.added) \in BOOLEAN
    <2>1. c.date \in Dates /\ c.added \in BOOLEAN
      BY <1>2 DEF Change
    <2>2. list.listed \in SUBSET Dates
      BY <1>1 DEF List
    <2> HIDE DEF c
    <2>3. list.listed \cup {c.date} \in SUBSET Dates
      BY <2>1, <2>2
    <2>4. list.listed \ {c.date} \in SUBSET Dates
      BY <2>2
    <2>5. (~c.added) \in BOOLEAN
      OBVIOUS
    <2> QED
      BY <2>3, <2>4, <2>5
  <1>4. /\ told \in List /\ told.rows = list.rows /\ told.shown = list.shown
        /\ told.model = list.model /\ told.search = list.search
        /\ told.refilter = list.refilter
    <2> HIDE DEF listed
    <2> QED
      BY <1>1, <1>3 DEF List
  <1>5. Good(v)
    BY <1>4, SameRows DEF IInv
  <1>6. /\ list.observing => \E count \in {c.count, AllCount} :
                                UpdateView(v, count, ~c.added)
        /\ ~list.observing => list' = v
    BY <1>1 DEF ChangeTold, List
  <1> HIDE DEF v
  <1> QED
    BY <1>3, <1>5, <1>6, UpdateViewGood

\* A new row is filtered as it comes; the others do not move to the front.
LEMMA InsertRowStep ==
    ASSUME IInv, NEW d \in Dates, InsertRow(d)
    PROVE  Good(list')
  <1> DEFINE v == [list EXCEPT !.rows = list.rows \cup {d}]
             w == Filtered(v, {d})
  <1>1. list \in List /\ Walked(list)
    BY DEF IInv, Good
  <1>2. /\ v \in List /\ v.rows = list.rows \cup {d} /\ v.shown = list.shown
        /\ v.model = list.model /\ v.search = list.search
        /\ v.refilter = list.refilter /\ v.listed = list.listed
    BY <1>1 DEF List
  <1>3. PICK valid \in {list.refilter.iterator, FALSE} :
           list' = [w EXCEPT !.refilter.iterator = valid]
    BY <1>1 DEF InsertRow, List
  <1>4. /\ w \in List /\ w.rows = v.rows /\ w.model = v.model
        /\ w.listed = v.listed
        /\ w.search = v.search /\ w.refilter = v.refilter
        /\ w.shown = (v.shown \ {d}) \cup {x \in {d} : Visible(v, x)}
    <2>1. {d} \in SUBSET Dates
      OBVIOUS
    <2> QED
      BY <1>2, <2>1, FilteredFields
  <1> HIDE DEF v, w
  <1> DEFINE r == [w.refilter EXCEPT !.iterator = valid]
  <1>5. /\ r \in Walks /\ r.on = list.refilter.on
        /\ r.model = list.refilter.model /\ r.at = list.refilter.at
        /\ r.iterator => list.refilter.iterator
    BY <1>1, <1>2, <1>3, <1>4 DEF List, Walks
  <1>6. list' = [w EXCEPT !.refilter = r]
    BY <1>3, <1>4 DEF List
  <1> HIDE DEF r
  <1>7. /\ list' \in List /\ list'.rows = list.rows \cup {d}
        /\ list'.shown = (list.shown \ {d}) \cup {x \in {d} : Visible(v, x)}
        /\ list'.model = list.model /\ list'.search = list.search
        /\ list'.refilter = r
    BY <1>2, <1>4, <1>5, <1>6 DEF List
  <1>8. \A x : Visible(v, x) <=> Visible(list, x)
    BY <1>2 DEF Visible
  <1>9. \A x : Visible(list', x) <=> Visible(list, x)
    BY <1>7 DEF Visible
  <1>10. \A x \in list'.rows : ~Matches(list', x) =>
            x \in list.rows /\ ~Matches(list, x)
    BY <1>7, <1>8, <1>9 DEF Matches
  <1>11. list.model # 0
    <2>1. d \in list.listed
      BY DEF InsertRow, Wanted
    <2> QED
      BY <1>1, <2>1 DEF Walked
  <1>12. ~Walking(list') => \A x \in list'.rows : Matches(list', x)
    BY <1>1, <1>5, <1>7, <1>10 DEF Walked, Walking
  <1>13. Walking(list') /\ list'.refilter.iterator =>
            \A x \in list'.rows : ~Matches(list', x) =>
                Cardinality(Newer(list', x)) >= list'.refilter.at - 1
    <2> SUFFICES ASSUME Walking(list'), list'.refilter.iterator,
                        NEW x \in list'.rows, ~Matches(list', x)
                 PROVE  Cardinality(Newer(list', x)) >= list'.refilter.at - 1
      OBVIOUS
    <2>1. x \in list.rows /\ ~Matches(list, x)
      BY <1>10
    <2>2. Cardinality(Newer(list, x)) >= list.refilter.at - 1
      BY <1>1, <1>5, <1>7, <2>1 DEF Walked, Walking
    <2>3. list.rows \subseteq Dates /\ list'.rows \subseteq Dates
      BY <1>1, <1>7 DEF List
    <2>4. Cardinality(Newer(list, x)) <= Cardinality(Newer(list', x))
      BY <1>7, <2>1, <2>3, PositionGrows
    <2>5. /\ Cardinality(Newer(list, x)) \in Nat
          /\ Cardinality(Newer(list', x)) \in Nat
      BY <2>1, <2>3, PositionBounded
    <2>6. list'.refilter.at = list.refilter.at /\ list.refilter.at \in Nat
      BY <1>1, <1>5, <1>7 DEF List, Walks
    <2> QED
      BY <2>2, <2>4, <2>5, <2>6
  <1>14. list'.shown \subseteq list'.rows
    BY <1>1, <1>7 DEF Walked
  <1> QED
    BY <1>7, <1>11, <1>12, <1>13, <1>14 DEF Good, Walked

\* A row that goes takes the iterator with it.
LEMMA DeleteRowStep ==
    ASSUME IInv, NEW d \in Dates, DeleteRow(d)
    PROVE  Good(list')
  <1> DEFINE r == [list.refilter EXCEPT !.iterator = FALSE]
             rows == list.rows \ {d}
             shown == list.shown \ {d}
  <1>1. list \in List /\ Walked(list)
    BY DEF IInv, Good
  <1>2. /\ r \in Walks /\ r.on = list.refilter.on
        /\ r.model = list.refilter.model /\ ~r.iterator
    BY <1>1 DEF List, Walks
  <1>3. rows \in SUBSET Dates /\ shown \in SUBSET Dates
    BY <1>1 DEF List
  <1>4. list' = [list EXCEPT !.rows = rows, !.shown = shown, !.refilter = r]
    BY <1>1 DEF DeleteRow, List
  <1>5. /\ rows \subseteq list.rows /\ shown \subseteq rows
        /\ \A x \in rows : x \in shown <=> x \in list.shown
    BY <1>1 DEF Walked
  <1>6. list.rows = {} => rows = {}
    OBVIOUS
  <1> HIDE DEF r, rows, shown
  <1>7. list' \in List
    BY <1>1, <1>2, <1>3, <1>4, Zenon DEF List
  <1>8. /\ list'.rows = rows /\ list'.shown = shown
        /\ list'.model = list.model /\ list'.search = list.search
        /\ list'.refilter = r /\ list'.listed = list.listed
    BY <1>1, <1>4 DEF List
  <1>9. \A x \in rows : Matches(list, x) => Matches(list', x)
    BY <1>5, <1>8 DEF Matches, Visible
  <1> QED
    BY <1>1, <1>2, <1>5, <1>6, <1>7, <1>8, <1>9 DEF Good, Walked, Walking

\* The walk goes one row further, starts again or ends.  When it ends every
\* row that is left would be at a position there is no row for.
LEMMA RefilterIdleStep ==
    ASSUME IInv, RefilterIdle
    PROVE  Good(list')
  <1> DEFINE r == list.refilter
             here == {d \in list.rows :
                         Cardinality({e \in list.rows : e > d}) = r.at - 1}
             more == r.at < Cardinality(list.rows)
             w == Filtered(list, here)
             s == IF more THEN [r EXCEPT !.at = r.at + 1] ELSE NoWalk
  <1>1. list \in List /\ Walked(list) /\ r.on
    BY DEF IInv, Good, RefilterIdle
  <1>2. r \in Walks
    BY <1>1 DEF List
  <1>3. CASE r.model # list.model
    <2>1. list' = [list EXCEPT !.refilter = NoWalk]
      BY <1>3 DEF RefilterIdle
    <2>2. NoWalk \in Walks /\ ~NoWalk.on
      BY DEF NoWalk, Walks
    <2>3. /\ list' \in List /\ list'.rows = list.rows
          /\ list'.shown = list.shown /\ list'.model = list.model
          /\ list'.search = list.search /\ list'.refilter = NoWalk
          /\ list'.listed = list.listed
      BY <1>1, <2>1, <2>2 DEF List
    <2>4. \A x \in list.rows : Matches(list', x)
      BY <1>1, <1>3, <2>3 DEF Walked, Walking, Matches, Visible
    <2> QED
      BY <1>1, <2>2, <2>3, <2>4 DEF Good, Walked, Walking
  <1>4. CASE r.model = list.model /\ ~r.iterator
    <2>1. list' = Walk(list)
      BY <1>4 DEF RefilterIdle
    <2>2. CASE list.model # 0
      BY <1>1, <2>1, <2>2, WalkGood DEF Walked
    <2>3. CASE list.model = 0
      <3>1. list.rows = {} /\ list.shown = {} /\ list.listed = {}
        BY <1>1, <2>3 DEF Walked
      <3>2. list' = [list EXCEPT !.refilter = NoWalk]
        BY <2>1, <3>1 DEF Walk
      <3>3. NoWalk \in Walks
        BY DEF NoWalk, Walks
      <3>4. /\ list' \in List /\ list'.rows = list.rows
            /\ list'.shown = list.shown /\ list'.listed = list.listed
        BY <1>1, <3>2, <3>3 DEF List
      <3> QED
        BY <3>1, <3>4, NoRows
    <2> QED
      BY <2>2, <2>3
  <1>5. CASE r.model = list.model /\ r.iterator
    <2>1. list' = [w EXCEPT !.refilter = s]
      BY <1>5 DEF RefilterIdle
    <2>2. here \in SUBSET Dates
      BY <1>1 DEF List
    <2>3. /\ s \in Walks
          /\ more => s.on /\ s.model = r.model /\ s.at = r.at + 1
          /\ ~more => ~s.on
      <3>1. r.at + 1 \in Nat /\ r = [r EXCEPT !.at = r.at]
        BY <1>2 DEF Walks
      <3>2. CASE more
        <4>1. s = [r EXCEPT !.at = r.at + 1]
          BY <3>2
        <4> HIDE DEF s
        <4> QED
          BY <1>1, <1>2, <3>1, <3>2, <4>1 DEF Walks
      <3>3. CASE ~more
        BY <3>3 DEF Walks, NoWalk
      <3> QED
        BY <3>2, <3>3
    <2>4. \A d \in list.rows : d \in here <=>
                                Cardinality(Newer(list, d)) = r.at - 1
      BY DEF Newer
    <2> HIDE DEF here, s
    <2>5. /\ w \in List /\ w.rows = list.rows /\ w.model = list.model
          /\ w.listed = list.listed /\ w.search = list.search
          /\ w.shown = (list.shown \ here) \cup {d \in here : Visible(list, d)}
      BY <1>1, <2>2, FilteredFields
    <2> HIDE DEF w
    <2>6. /\ list' \in List /\ list'.rows = list.rows
          /\ list'.model = list.model /\ list'.search = list.search
          /\ list'.listed = list.listed /\ list'.refilter = s
          /\ list'.shown = (list.shown \ here) \cup {d \in here : Visible(list, d)}
      BY <2>1, <2>3, <2>5 DEF List
    <2>7. \A x \in list.rows : ~Matches(list', x) =>
             x \notin here /\ ~Matches(list, x)
      BY <2>6 DEF Matches, Visible
    <2>8. ASSUME NEW x \in list.rows, ~Matches(list', x)
          PROVE  more /\ Cardinality(Newer(list', x)) >= r.at
      <3>1. Cardinality(Newer(list, x)) >= r.at - 1
        BY <1>1, <1>5, <2>7, <2>8 DEF Walked, Walking
      <3>2. Cardinality(Newer(list, x)) # r.at - 1
        BY <2>4, <2>7, <2>8
      <3>3. /\ Cardinality(Newer(list, x)) \in Nat
            /\ Cardinality(list.rows) \in Nat
            /\ Cardinality(Newer(list, x)) < Cardinality(list.rows)
        BY <1>1, <2>8, PositionBounded DEF List
      <3>4. r.at \in Nat
        BY <1>2 DEF Walks
      <3>5. Newer(list', x) = Newer(list, x)
        BY <2>6 DEF Newer
      <3> QED
        BY <3>1, <3>2, <3>3, <3>4, <3>5
    <2>9. here \subseteq list.rows
      BY DEF here
    <2>10. list'.shown \subseteq list'.rows
      BY <1>1, <2>6, <2>9 DEF Walked
    <2>11. r.at \in Nat
      BY <1>2 DEF Walks
    <2> HIDE DEF more
    <2>12. ~Walking(list') => \A x \in list'.rows : Matches(list', x)
      <3>1. more => Walking(list')
        BY <1>5, <2>3, <2>6 DEF Walking
      <3> QED
        BY <2>6, <2>8, <3>1
    <2>13. Walking(list') /\ list'.refilter.iterator =>
              \A x \in list'.rows : ~Matches(list', x) =>
                  Cardinality(Newer(list', x)) >= list'.refilter.at - 1
      <3>1. Walking(list') => list'.refilter.at - 1 = r.at
        BY <2>3, <2>6, <2>11 DEF Walking
      <3> QED
        BY <2>6, <2>8, <3>1
    <2>14. list'.model = 0 => list'.listed = {} /\ list'.rows = {}
      BY <1>1, <2>6 DEF Walked
    <2> QED
      BY <2>6, <2>10, <2>12, <2>13, <2>14 DEF Good, Walked
  <1> QED
    BY <1>3, <1>4, <1>5

LEMMA StatusTimeoutStep ==
    ASSUME IInv, StatusTimeout
    PROVE  Good(list')
  <1> DEFINE v == [list EXCEPT !.timer = FALSE]
  <1>1. list \in List
    BY DEF IInv, Good
  <1>2. /\ v \in List /\ v.rows = list.rows /\ v.shown = list.shown
        /\ v.model = list.model /\ v.search = list.search
        /\ v.refilter = list.refilter /\ v.listed = list.listed
    BY <1>1 DEF List
  <1>3. Good(v)
    BY <1>2, SameRows DEF IInv
  <1>4. UpdateView(v, AllCount, FALSE)
    BY DEF StatusTimeout
  <1> QED
    BY <1>3, <1>4, UpdateViewGood

LEMMA RefreshEndsStep ==
    ASSUME IInv, NEW i, RefreshEnds(i)
    PROVE  Good(list')
  <1> DEFINE notify == list.notify \/ list.folder
             v == [list EXCEPT !.observing = TRUE, !.notify = notify]
             q == [v EXCEPT !.quiet = TRUE]
  <1>1. list \in List /\ notify \in BOOLEAN
    BY DEF IInv, Good, List
  <1>2. (UpdateView(v, AllCount, FALSE)) \/ list' = q
    BY <1>1 DEF RefreshEnds, List
  <1> HIDE DEF notify
  <1>3. v \in List
    BY <1>1, Zenon DEF List
  <1>4. /\ v.rows = list.rows /\ v.shown = list.shown
        /\ v.model = list.model /\ v.search = list.search
        /\ v.refilter = list.refilter /\ v.listed = list.listed
    BY <1>1 DEF List
  <1>5. Good(v)
    BY <1>3, <1>4, SameRows DEF IInv
  <1> HIDE DEF v
  <1>6. /\ q \in List /\ q.rows = v.rows /\ q.shown = v.shown
        /\ q.model = v.model /\ q.search = v.search
        /\ q.refilter = v.refilter /\ q.listed = v.listed
    BY <1>3 DEF List
  <1>7. Good(q)
    BY <1>5, <1>6, SameRows
  <1> QED
    BY <1>2, <1>5, <1>7, UpdateViewGood

\* A new search, or its end.
LEMMA SearchStep ==
    ASSUME IInv, NEW found \in SUBSET Dates, NEW latest \in Nat,
           UpdateView(Refiltered([list EXCEPT !.search = found,
                                              !.latest = latest]),
                      AllCount, FALSE)
    PROVE  Good(list')
  <1> DEFINE v == [list EXCEPT !.search = found, !.latest = latest]
  <1>1. list \in List /\ Walked(list)
    BY DEF IInv, Good
  <1>2. v \in List
    BY <1>1, Zenon DEF List
  <1>3. /\ v.rows = list.rows /\ v.shown = list.shown
        /\ v.model = list.model /\ v.listed = list.listed
    BY <1>1 DEF List
  <1> HIDE DEF v
  <1>4. Good(Refiltered(v))
    BY <1>1, <1>2, <1>3, RefilteredGood DEF Walked
  <1> QED
    BY <1>4, UpdateViewGood DEF v

LEMMA SyncSucceedsStep ==
    ASSUME IInv, SyncSucceeds
    PROVE  Good(list') /\ list'.model \in Nat \ {0}
  <1> DEFINE c == Cleared(list)
  <1>1. c \in List
    BY ClearedTyped DEF IInv, Good
  <1> HIDE DEF c
  <1>2. /\ FolderSet(c) \in List /\ FolderSet(c).rows = {}
        /\ FolderSet(c).shown = {} /\ FolderSet(c).model \in Nat \ {0}
    BY <1>1, FolderSetTyped DEF List
  <1>3. list' = FolderSet(c)
    BY DEF SyncSucceeds, c
  <1> QED
    BY <1>2, <1>3, NoRows

LEMMA ListAccountRemovedStep ==
    ASSUME IInv, ListAccountRemoved
    PROVE  Good(list')
  <1>1. list' = Cleared(list)
    BY DEF ListAccountRemoved
  <1> QED
    BY <1>1, ClearedTyped, NoRows DEF IInv, Good

-----------------------------------------------------------------------------
\* What comes from the folder has the types of the folder.
LEMMA AroundStep ==
    ASSUME IInv, [HeaderListNext]_headerListVars
    PROVE  AroundTyped'
  <1> USE DEF AroundTyped, folderVars, askedVars
  <1>1. AroundTyped
    BY DEF IInv
  <1>2. CASE OpenWindow
    BY <1>1, <1>2 DEF OpenWindow
  <1>3. CASE HeadersListed
    BY <1>1, <1>3, HeadTailProperties DEF HeadersListed
  <1>4. CASE ListingFails
    BY <1>1, <1>4, HeadTailProperties DEF ListingFails
  <1>5. CASE ChangeTold
    BY <1>1, <1>5, HeadTailProperties DEF ChangeTold
  <1>6. ASSUME NEW d \in Dates, FolderChanges(d) PROVE AroundTyped'
    <2>1. inFolder' \subseteq Dates
      BY <1>1, <1>6 DEF FolderChanges
    <2>2. Cardinality(inFolder') \in Nat
      BY <2>1, ConstantsTyped, FS_Subset, FS_CardinalityType
    <2>3. [date |-> d, added |-> d \notin inFolder,
           count |-> Cardinality(inFolder')] \in Change
      BY <2>2 DEF Change
    <2> QED
      BY <1>1, <1>6, <2>1, <2>3, AppendProperties DEF FolderChanges
  <1>7. ASSUME NEW d \in Dates, InsertRow(d) \/ DeleteRow(d) PROVE AroundTyped'
    BY <1>1, <1>7 DEF InsertRow, DeleteRow
  <1>8. CASE RefilterIdle \/ StatusTimeout \/ IdleRefreshFolder \/ SyncFails
             \/ ListAccountRemoved \/ SearchEnds
    BY <1>1, <1>8 DEF RefilterIdle, StatusTimeout, IdleRefreshFolder, SyncFails,
                      ListAccountRemoved, SearchEnds
  <1>9. ASSUME NEW i, RefreshEnds(i) PROVE AroundTyped'
    BY <1>1, <1>9 DEF RefreshEnds
  <1>10. ASSUME NEW found, Search(found) PROVE AroundTyped'
    BY <1>1, <1>10 DEF Search
  <1>11. CASE SyncSucceeds
    BY <1>1, <1>11, SyncSucceedsStep, AppendProperties DEF SyncSucceeds
  <1>12. CASE UNCHANGED headerListVars
    BY <1>1, <1>12 DEF headerListVars
  <1> QED
    BY <1>2, <1>3, <1>4, <1>5, <1>6, <1>7, <1>8, <1>9, <1>10, <1>11, <1>12
       DEF HeaderListNext

\* Each step keeps the rows walked.
LEMMA InvariantStep ==
    ASSUME IInv, [HeaderListNext]_headerListVars
    PROVE  IInv'
  <1>1. AroundTyped'
    BY AroundStep
  <1>2. UNCHANGED deleted
    BY DEF HeaderListNext, OpenWindow, HeadersListed, ListingFails, ChangeTold,
           FolderChanges, InsertRow, DeleteRow, RefilterIdle, StatusTimeout,
           RefreshEnds, Search, SearchEnds, IdleRefreshFolder, SyncSucceeds,
           SyncFails, ListAccountRemoved, folderVars, headerListVars
  <1>3. Good(list') => Good(list)'
    BY <1>2 DEF Good, Walked, Walking, Matches, Visible, Newer
  <1>4. Good(list')
    <2>1. CASE UNCHANGED list
      BY <2>1 DEF IInv
    <2>2. CASE \E found \in SUBSET Dates : Search(found)
      <3>1. PICK found \in SUBSET Dates : Search(found)
        BY <2>2
      <3>2. UpdateView(Refiltered([list EXCEPT !.search = found, !.latest = 0]),
                       AllCount, FALSE)
        BY <3>1 DEF Search
      <3> QED
        BY <3>2, SearchStep
    <2>3. CASE SearchEnds
      <3>1. UpdateView(Refiltered([list EXCEPT !.search = NoSearch,
                                               !.latest = IF limited THEN Latest
                                                          ELSE 0]),
                       AllCount, FALSE)
        BY <2>3 DEF SearchEnds
      <3>2. NoSearch \in SUBSET Dates /\ 0 \in Nat
        BY DEF NoSearch
      <3>3. (IF limited THEN Latest ELSE 0) \in Nat
        BY ConstantsTyped
      <3> QED
        BY <3>1, <3>2, <3>3, SearchStep
    <2>4. CASE \E d \in Dates : FolderChanges(d) \/ InsertRow(d) \/ DeleteRow(d)
      <3>1. PICK d \in Dates : FolderChanges(d) \/ InsertRow(d) \/ DeleteRow(d)
        BY <2>4
      <3>2. CASE FolderChanges(d)
        BY <2>1, <3>2 DEF FolderChanges
      <3> QED
        BY <3>1, <3>2, InsertRowStep, DeleteRowStep
    <2>5. CASE IdleRefreshFolder \/ SyncFails \/ UNCHANGED headerListVars
      BY <2>1, <2>5 DEF IdleRefreshFolder, SyncFails, headerListVars
    <2> QED
      BY <2>2, <2>3, <2>4, <2>5, OpenWindowStep, HeadersListedStep,
         ListingFailsStep, ChangeToldStep, RefilterIdleStep, StatusTimeoutStep,
         RefreshEndsStep, SyncSucceedsStep, ListAccountRemovedStep
         DEF HeaderListNext
  <1> QED
    BY <1>1, <1>3, <1>4 DEF IInv

-----------------------------------------------------------------------------
\* The inductive invariant holds in every state.
THEOREM Invariant == HeaderListSpec => []IInv
  <1> QED
    BY InvariantInit, InvariantStep, PTL DEF HeaderListSpec

\* With no refilter under way each row is shown or hidden as the present
\* search says (refilter_idle_handler), for any number of messages.
THEOREM RowsAlwaysMatch == HeaderListSpec => []RowsMatchSearch
  <1>1. IInv => RowsMatchSearch
    <2> SUFFICES ASSUME IInv, ~list.refilter.on
                 PROVE  list.shown = {d \in list.rows : Visible(list, d)}
      BY DEF RowsMatchSearch
    <2>1. /\ list.shown \subseteq list.rows
          /\ \A d \in list.rows : d \in list.shown <=> Visible(list, d)
      BY DEF IInv, Good, Walked, Walking, Matches
    <2> QED
      BY <2>1
  <1> QED
    BY <1>1, Invariant, PTL

-----------------------------------------------------------------------------
(* What the view shows in the end.  The last change of a message that the   *)
(* folder has not told decides whether the folder has it, the models get    *)
(* their headers in the order they were made, and as long as the folder is  *)
(* shown a window that says "no messages" is right, or will be told that it *)
(* is not any more.                                                         *)
NoneOf(d) == \A i \in 1..Len(changes) : changes[i].date # d

IsLastOf(i) ==
    \A j \in 1..Len(changes) : changes[j].date = changes[i].date => j <= i

ChangesTrue ==
    /\ \A i \in 1..Len(changes) :
          IsLastOf(i) => (changes[i].added <=> changes[i].date \in inFolder)
    /\ changes # <<>> => changes[Len(changes)].count = AllCount

ListingsInOrder ==
    /\ list.monitor <= list.made
    /\ \A i \in 1..Len(listings) :
          /\ list.monitor < listings[i] /\ listings[i] <= list.made
          /\ \A j \in 1..Len(listings) : i < j => listings[i] < listings[j]

\* The headers of a model: none before its listing or if that fails, those of
\* the folder but for the changes to come afterwards.
Follows ==
    list.folder =>
        /\ list.model = list.made /\ list.made # 0
        /\ listings # <<>> =>
               /\ listings[Len(listings)] = list.made
               /\ ~list.failed /\ list.listed = {}
        /\ listings = <<>> /\ list.failed =>
               list.listed = {} /\ list.monitor # list.model
        /\ listings = <<>> /\ ~list.failed =>
               /\ list.monitor = list.model
               /\ \A d \in Dates :
                     NoneOf(d) => (d \in list.listed <=> d \in inFolder)

\* The status tells of each row that is to be seen and that the walk, if
\* there is one, has left behind.
Seen(v) ==
    /\ ~Walking(v) => \A d \in v.rows : Visible(v, d) => v.status = "NON_EMPTY"
    /\ Walking(v) /\ v.refilter.iterator =>
           \A d \in v.rows :
              Visible(v, d) /\ Cardinality(Newer(v, d)) < v.refilter.at - 1
                  => v.status = "NON_EMPTY"

\* Why a window without messages has not been told of any.
NothingToTell ==
    list.timer \/ changes # <<>> \/ inFolder = {} \/ list.status # "NON_EMPTY"

Told ==
    list.folder /\ refreshes = <<>> =>
        /\ list.observing /\ list.notify
        /\ ~list.quiet /\ contents = "EMPTY" => NothingToTell

Shows == ChangesTrue /\ ListingsInOrder /\ Follows /\ Seen(list) /\ Told

\* The inductive invariant of what the view shows in the end.
ShowsInv == IInv /\ Shows

-----------------------------------------------------------------------------
\* The fields that say where the headers come from.
SameSource(w, v) ==
    /\ w.folder = v.folder /\ w.made = v.made /\ w.model = v.model
    /\ w.monitor = v.monitor /\ w.listed = v.listed /\ w.failed = v.failed

\* The fields that say what the window was told.
SameTelling(w, v) ==
    w.observing = v.observing /\ w.notify = v.notify /\ w.quiet = v.quiet

\* The fields that say which rows match.
SameView(w, v) ==
    /\ w.rows = v.rows /\ w.model = v.model /\ w.search = v.search
    /\ w.refilter = v.refilter /\ w.status = v.status

LEMMA SeenSame ==
    ASSUME NEW v, NEW w, Seen(v), SameView(w, v)
    PROVE  Seen(w)
  BY DEF Seen, SameView, Walking, Visible, Newer

\* A walk that starts has left no row behind.
LEMMA WalkSeen ==
    ASSUME NEW v \in List, v.model # 0 \/ v.rows = {}
    PROVE  /\ Seen(Walk(v)) /\ SameSource(Walk(v), v)
           /\ SameTelling(Walk(v), v) /\ Walk(v).timer = v.timer
           /\ Walk(v).status = v.status /\ Walk(v) \in List
  <1> DEFINE r == IF v.rows = {} THEN NoWalk
                  ELSE [on |-> TRUE, model |-> v.model, at |-> 1,
                        iterator |-> TRUE]
             w == Walk(v)
  <1>1. r \in Walks
    BY DEF List, Walks, NoWalk
  <1>2. v.rows # {} => r.on /\ r.model = v.model /\ r.at = 1
    OBVIOUS
  <1>3. w = [v EXCEPT !.refilter = r]
    BY DEF Walk
  <1> HIDE DEF r
  <1>4. /\ w \in List /\ SameSource(w, v) /\ SameTelling(w, v)
        /\ w.timer = v.timer /\ w.status = v.status
        /\ w.rows = v.rows /\ w.refilter = r /\ w.model = v.model
    BY <1>1, <1>3 DEF List, SameSource, SameTelling
  <1> HIDE DEF w
  <1>5. Seen(w)
    <2>1. CASE v.rows = {}
      BY <1>4, <2>1 DEF Seen
    <2>2. CASE v.rows # {}
      <3>1. w.rows \subseteq Dates
        BY <1>4 DEF List
      <3>2. \A d \in w.rows : Cardinality(Newer(w, d)) >= 0
        BY <3>1, PositionBounded
      <3> QED
        BY <1>2, <1>4, <2>2, <3>1, <3>2, PositionBounded DEF Seen, Walking
    <2> QED
      BY <2>1, <2>2
  <1> QED
    BY <1>4, <1>5 DEF w

\* A refilter forgets the status.
LEMMA RefilteredSeen ==
    ASSUME NEW v \in List, v.model = 0 => v.rows = {}
    PROVE  /\ Seen(Refiltered(v)) /\ SameSource(Refiltered(v), v)
           /\ SameTelling(Refiltered(v), v)
           /\ Refiltered(v).timer = v.timer
           /\ Refiltered(v).status \in {"INIT", v.status}
           /\ Refiltered(v) \in List
  <1>1. CASE v.model = 0
    BY <1>1 DEF Refiltered, Seen, SameSource, SameTelling
  <1>2. CASE v.model # 0
    <2> DEFINE w == [v EXCEPT !.status = "INIT"]
    <2>1. /\ w \in List /\ w.model = v.model /\ SameSource(w, v)
          /\ SameTelling(w, v) /\ w.timer = v.timer /\ w.status = "INIT"
      BY DEF List, SameSource, SameTelling
    <2>2. Refiltered(v) = Walk(w)
      BY <1>2 DEF Refiltered
    <2> HIDE DEF w
    <2>3. /\ Seen(Walk(w)) /\ SameSource(Walk(w), w)
          /\ SameTelling(Walk(w), w) /\ Walk(w).timer = w.timer
          /\ Walk(w).status = w.status /\ Walk(w) \in List
      BY <1>2, <2>1, WalkSeen
    <2> QED
      BY <2>1, <2>2, <2>3 DEF SameSource, SameTelling
  <1> QED
    BY <1>1, <1>2

\* What update_view does to the view and to the window.
ViewUpdated(v, count) ==
    /\ SameSource(list', v)
    /\ v.model = 0 \/ Seen(v) => Seen(list')
    /\ list'.timer = v.timer /\ list'.notify = v.notify
    /\ list'.observing = v.observing
    /\ list'.status \in {"INIT", v.status}
    /\ ~v.folder => contents' = contents
    /\ v.folder /\ contents' = "EMPTY" => count = 0 \/ v.status = "EMPTY"

LEMMA UpdateViewFields ==
    ASSUME NEW v \in List, v.model = 0 => v.rows = {}, NEW count,
           NEW refilter \in BOOLEAN, UpdateView(v, count, refilter)
    PROVE  ViewUpdated(v, count)
  <1> DEFINE w == IF refilter THEN Refiltered(v) ELSE v
  <1>1. /\ w \in List /\ SameSource(w, v) /\ SameTelling(w, v)
        /\ w.timer = v.timer /\ w.status \in {"INIT", v.status}
        /\ v.model = 0 \/ Seen(v) => Seen(w)
    BY RefilteredSeen DEF SameSource, SameTelling, Seen
  <1>2. CASE ~v.folder
    <2>1. list' = v /\ contents' = contents
      BY <1>2 DEF UpdateView
    <2> QED
      BY <1>2, <2>1 DEF ViewUpdated, SameSource, Seen
  <1>3. CASE v.folder
    <2>1. list' = [w EXCEPT !.quiet = FALSE]
      BY <1>3 DEF UpdateView
    <2> HIDE DEF w
    <2>2. /\ SameSource(list', w) /\ SameView(list', w)
          /\ list'.timer = w.timer /\ list'.notify = w.notify
          /\ list'.observing = w.observing /\ list'.status = w.status
      BY <1>1, <2>1 DEF List, SameSource, SameView
    <2>3. contents' = "EMPTY" => count = 0 \/ v.status = "EMPTY"
      BY <1>3 DEF UpdateView
    <2>4. Seen(w) => Seen(list')
      BY <2>2, SeenSame
    <2> QED
      BY <1>1, <1>3, <2>2, <2>3, <2>4 DEF ViewUpdated, SameSource, SameTelling
  <1> QED
    BY <1>2, <1>3

\* What filter_row does to the status and to the timer.
LEMMA FilteredStatus ==
    ASSUME NEW v \in List, NEW ds \in SUBSET Dates
    PROVE  LET w == Filtered(v, ds)
           IN /\ SameSource(w, v) /\ SameTelling(w, v)
              /\ v.status = "NON_EMPTY" => w.status = "NON_EMPTY"
              /\ \A d \in ds : Visible(v, d) => w.status = "NON_EMPTY"
              /\ w.timer \in BOOLEAN /\ (v.timer => w.timer)
              /\ v.notify /\ w.status # v.status => w.timer
  <1> DEFINE seen == {d \in ds : Visible(v, d)}
             status == IF v.status = "NON_EMPTY" \/ seen # {} THEN "NON_EMPTY"
                       ELSE IF ds = {} THEN v.status ELSE "EMPTY"
             timer == v.timer \/ (v.notify /\ status # v.status)
             shown == (v.shown \ ds) \cup seen
  <1>1. Filtered(v, ds) = [v EXCEPT !.shown = shown, !.status = status,
                                    !.timer = timer]
    BY DEF Filtered
  <1>2. /\ v.status = "NON_EMPTY" => status = "NON_EMPTY"
        /\ \A d \in ds : Visible(v, d) => status = "NON_EMPTY"
    OBVIOUS
  <1>3. /\ timer \in BOOLEAN /\ (v.timer => timer)
        /\ v.notify /\ status # v.status => timer
    OBVIOUS
  <1> HIDE DEF status, timer, shown, seen
  <1>4. LET w == Filtered(v, ds)
        IN /\ SameSource(w, v) /\ SameTelling(w, v)
           /\ w.status = status /\ w.timer = timer
    BY <1>1 DEF List, SameSource, SameTelling
  <1> QED
    BY <1>2, <1>3, <1>4

\* Clearing takes the folder, the timer and the observer; the monitor too.
LEMMA ClearedFields ==
    ASSUME NEW v \in List
    PROVE  /\ ~Cleared(v).folder /\ Cleared(v).monitor = 0
           /\ Cleared(v).made = v.made
  BY DEF Cleared, List

\* Setting a folder makes a model.
LEMMA FolderSetFields ==
    ASSUME NEW v \in List
    PROVE  /\ FolderSet(v).folder /\ FolderSet(v).made = v.made + 1
           /\ FolderSet(v).model = v.made + 1
           /\ FolderSet(v).monitor = v.monitor
           /\ FolderSet(v).listed = {} /\ FolderSet(v).rows = {}
           /\ ~FolderSet(v).failed
  BY DEF FolderSet, List

-----------------------------------------------------------------------------
\* Facts of a state with the first invariant.
LEMMA ListTyped ==
    ASSUME IInv
    PROVE  /\ list \in List /\ inFolder \subseteq Dates
           /\ changes \in Seq(Change) /\ listings \in Seq(Nat \ {0})
           /\ list.model = 0 => list.listed = {} /\ list.rows = {}
  BY DEF IInv, Good, Walked, AroundTyped

\* An empty folder has no messages and one with none is empty.
LEMMA CountIsZero ==
    ASSUME inFolder \subseteq Dates, AllCount = 0
    PROVE  inFolder = {}
  <1>1. IsFiniteSet(inFolder)
    BY ConstantsTyped, FS_Subset
  <1> QED
    BY <1>1, FS_EmptySet DEF AllCount

\* Nothing of the folder, of its changes and of the listings changes.
SameFolder ==
    inFolder' = inFolder /\ changes' = changes /\ listings' = listings

LEMMA SourceKept ==
    ASSUME ListingsInOrder, Follows, SameFolder, SameSource(list', list)
    PROVE  ListingsInOrder' /\ Follows'
  BY DEF ListingsInOrder, Follows, SameFolder, SameSource, NoneOf

LEMMA ChangesKept ==
    ASSUME ChangesTrue, inFolder' = inFolder, changes' = changes
    PROVE  ChangesTrue'
  BY DEF ChangesTrue, IsLastOf, AllCount

\* A step that leaves the window alone does not lose what it is to be told.
LEMMA ToldKept ==
    ASSUME Told, SameFolder \/ (inFolder' = inFolder /\ changes' = changes),
           list'.folder => list.folder, SameTelling(list', list),
           contents' = contents, refreshes' = refreshes,
           list.timer => list'.timer,
           list.notify /\ list'.status # list.status =>
               list'.timer \/ list'.status # "NON_EMPTY"
    PROVE  Told'
  BY DEF Told, SameFolder, SameTelling, NothingToTell

\* update_view with the present number of messages tells all there is.
LEMMA UpdatedTold ==
    ASSUME NEW v \in List, v.model = 0 => v.rows = {},
           NEW refilter \in BOOLEAN, UpdateView(v, AllCount, refilter),
           inFolder' = inFolder, inFolder \subseteq Dates,
           v.folder /\ refreshes' = <<>> => v.observing /\ v.notify
    PROVE  Told'
  <1>1. ViewUpdated(v, AllCount)
    BY UpdateViewFields
  <1>2. CASE ~v.folder
    BY <1>1, <1>2 DEF Told, ViewUpdated, SameSource
  <1>3. CASE v.folder
    <2>1. contents' = "EMPTY" => inFolder' = {} \/ list'.status # "NON_EMPTY"
      BY <1>1, <1>3, CountIsZero DEF ViewUpdated
    <2> QED
      BY <1>1, <1>3, <2>1 DEF Told, ViewUpdated, SameSource, NothingToTell
  <1> QED
    BY <1>2, <1>3

-----------------------------------------------------------------------------
LEMMA ShowsInit == HeaderListInit => ShowsInv
  <1> SUFFICES ASSUME HeaderListInit PROVE ShowsInv
    OBVIOUS
  <1>1. /\ ~list.folder /\ list.rows = {} /\ list.monitor = 0 /\ list.made = 0
        /\ changes = <<>> /\ listings = <<>>
    BY DEF HeaderListInit, NoList
  <1>2. ChangesTrue
    BY <1>1 DEF ChangesTrue
  <1>3. ListingsInOrder
    BY <1>1 DEF ListingsInOrder
  <1>4. Follows /\ Told
    BY <1>1 DEF Follows, Told
  <1>5. Seen(list)
    BY <1>1 DEF Seen
  <1> QED
    BY <1>2, <1>3, <1>4, <1>5, InvariantInit DEF ShowsInv, Shows

LEMMA OpenWindowShows ==
    ASSUME ShowsInv, OpenWindow
    PROVE  Shows'
  <1> DEFINE latest == IF limited THEN Latest ELSE 0
             v == [NoList EXCEPT !.latest = latest]
             w == FolderSet(v)
  <1>1. NoWalk \in Walks /\ NoSearch \in SUBSET Dates
    BY DEF NoWalk, Walks, NoSearch
  <1>2. NoList \in List /\ latest \in Nat
    BY <1>1, ConstantsTyped DEF NoList, List
  <1> HIDE DEF latest
  <1>3. v \in List /\ v.made = 0 /\ v.monitor = 0
    BY <1>2 DEF List, NoList
  <1>4. UpdateView(w, AllCount, FALSE)
    BY DEF OpenWindow, latest
  <1> HIDE DEF v
  <1>5. /\ w \in List /\ w.folder /\ w.made = 1 /\ w.model = 1
        /\ w.monitor = 0 /\ w.listed = {} /\ w.rows = {} /\ ~w.failed
    BY <1>3, FolderSetFields, FolderSetTyped
  <1> HIDE DEF w
  <1>6. ViewUpdated(w, AllCount)
    BY <1>4, <1>5, UpdateViewFields
  <1>7. Seen(list)'
    <2>1. Seen(w)
      BY <1>5 DEF Seen
    <2>2. Seen(list')
      BY <1>6, <2>1 DEF ViewUpdated
    <2>3. deleted' = deleted
      BY DEF OpenWindow, folderVars
    <2> QED
      BY <2>2, <2>3 DEF Seen, Walking, Visible, Newer
  <1>8. /\ listings' = <<1>> /\ refreshes' = <<TRUE>>
        /\ inFolder' = inFolder /\ changes' = changes
    BY DEF OpenWindow, folderVars
  <1>9. /\ list'.folder /\ list'.made = 1 /\ list'.model = 1
        /\ list'.monitor = 0 /\ list'.listed = {} /\ ~list'.failed
    BY <1>5, <1>6 DEF ViewUpdated, SameSource
  <1>10. ListingsInOrder' /\ Follows'
    BY <1>8, <1>9 DEF ListingsInOrder, Follows
  <1>11. Told'
    BY <1>8 DEF Told
  <1> QED
    BY <1>7, <1>8, <1>10, <1>11, ChangesKept DEF Shows, ShowsInv

\* The head of the listings is the smallest and the model shown the last.
LEMMA ListingTaken ==
    ASSUME ShowsInv, listings # <<>>
    PROVE  /\ Head(listings) \in Nat
           /\ list.monitor < Head(listings) /\ Head(listings) <= list.made
           /\ \A i \in 1..Len(Tail(listings)) :
                 /\ Tail(listings)[i] = listings[i + 1]
                 /\ i + 1 \in 1..Len(listings)
                 /\ Head(listings) < Tail(listings)[i]
                 /\ Tail(listings)[i] \in Nat
           /\ list.folder => (Head(listings) = list.model <=>
                              Tail(listings) = <<>>)
           /\ list.folder /\ Tail(listings) # <<>> =>
                 Tail(listings)[Len(Tail(listings))] = list.made
           /\ Tail(listings) \in Seq(Nat \ {0})
  <1>1. /\ list \in List /\ listings \in Seq(Nat \ {0})
        /\ ListingsInOrder /\ Follows
    BY ListTyped DEF ShowsInv, Shows
  <1> DEFINE n == Len(listings)
             t == Tail(listings)
  <1>2. n \in Nat /\ n >= 1 /\ Head(listings) = listings[1]
    BY <1>1
  <1>3. /\ t \in Seq(Nat \ {0}) /\ Len(t) = n - 1
        /\ \A i \in 1..Len(t) : t[i] = listings[i + 1] /\ i + 1 \in 1..n
        /\ (t = <<>> <=> n = 1)
    <2>1. t \in Seq(Nat \ {0}) /\ Len(t) = n - 1
      BY <1>1, <1>2, HeadTailProperties
    <2>2. \A i \in 1..Len(t) : t[i] = listings[i + 1] /\ i + 1 \in 1..n
      BY <1>1, <1>2, <2>1
    <2>3. t = <<>> <=> n = 1
      <3>1. t = <<>> <=> Len(t) = 0
        BY <2>1, EmptySeq
      <3> HIDE DEF n, t
      <3> QED
        BY <1>2, <2>1, <3>1
    <2> QED
      BY <2>1, <2>2, <2>3
  <1> HIDE DEF t
  <1>4. \A i \in 1..n : listings[i] \in Nat
    BY <1>1
  <1>5. /\ list.monitor < listings[1] /\ listings[1] <= list.made
        /\ \A i \in 1..n : 1 < i => listings[1] < listings[i]
    BY <1>1, <1>2 DEF ListingsInOrder
  <1>6. list.folder => list.model = list.made /\ listings[n] = list.made
    BY <1>1, <1>2 DEF Follows
  <1>7. list.folder => (listings[1] = list.model <=> n = 1)
    <2>1. CASE n = 1
      BY <1>6, <2>1
    <2>2. CASE n # 1
      <3> HIDE DEF n
      <3>1. n \in 1..n /\ 1 < n /\ 1 \in 1..n
        BY <1>2, <2>2
      <3>2. listings[1] < listings[n]
        BY <1>5, <3>1
      <3>3. listings[1] \in Nat /\ listings[n] \in Nat
        BY <1>4, <3>1
      <3> QED
        BY <1>6, <2>2, <3>2, <3>3
    <2> QED
      BY <2>1, <2>2
  <1>8. list.folder /\ t # <<>> => t[Len(t)] = list.made
    <2> SUFFICES ASSUME list.folder, t # <<>> PROVE t[Len(t)] = list.made
      OBVIOUS
    <2>1. n # 1 /\ n - 1 \in 1..Len(t)
      BY <1>2, <1>3
    <2>2. t[n - 1] = listings[n]
      BY <1>2, <1>3, <2>1
    <2> QED
      BY <1>3, <1>6, <2>2
  <1>9. \A i \in 1..Len(t) : Head(listings) < t[i] /\ t[i] \in Nat
    <2> SUFFICES ASSUME NEW i \in 1..Len(t)
                 PROVE  Head(listings) < t[i] /\ t[i] \in Nat
      OBVIOUS
    <2>1. t[i] = listings[i + 1] /\ i + 1 \in 1..n /\ 1 < i + 1
      BY <1>1, <1>3
    <2> QED
      BY <1>2, <1>4, <1>5, <2>1
  <1> QED
    BY <1>2, <1>3, <1>4, <1>5, <1>7, <1>8, <1>9 DEF t

LEMMA HeadersListedShows ==
    ASSUME ShowsInv, HeadersListed
    PROVE  Shows'
  <1> DEFINE m == Head(listings)
             listed == IF m = list.model THEN inFolder ELSE list.listed
             t == Tail(listings)
  <1>1. /\ list \in List /\ listings \in Seq(Nat \ {0})
        /\ ListingsInOrder /\ Follows /\ ChangesTrue /\ Told /\ Seen(list)
        /\ listings # <<>>
    BY ListTyped DEF ShowsInv, Shows, HeadersListed
  <1>2. /\ m \in Nat /\ list.monitor < m /\ m <= list.made
        /\ \A i \in 1..Len(t) :
              /\ t[i] = listings[i + 1] /\ i + 1 \in 1..Len(listings)
              /\ m < t[i] /\ t[i] \in Nat
        /\ list.folder => (m = list.model <=> t = <<>>)
        /\ list.folder /\ t # <<>> => t[Len(t)] = list.made
    BY <1>1, ListingTaken
  <1>3. list' = [list EXCEPT !.monitor = m, !.listed = listed]
    BY <1>1 DEF HeadersListed, List
  <1>4. /\ listings' = t /\ inFolder' = inFolder /\ changes' = changes
        /\ deleted' = deleted /\ contents' = contents
        /\ refreshes' = refreshes
    BY DEF HeadersListed, folderVars
  <1>5. /\ list.folder /\ t = <<>> => listed = inFolder
        /\ list.folder /\ t # <<>> => listed = {}
    BY <1>1, <1>2 DEF Follows
  <1> HIDE DEF m, listed, t
  <1>6. /\ list'.monitor = m /\ list'.listed = listed
        /\ list'.folder = list.folder /\ list'.made = list.made
        /\ list'.model = list.model /\ list'.failed = list.failed
        /\ list'.timer = list.timer
        /\ SameTelling(list', list) /\ SameView(list', list)
    BY <1>1, <1>3 DEF List, SameTelling, SameView
  <1>7. ListingsInOrder'
    <2>1. \A i, j \in 1..Len(t) : i < j => t[i] < t[j]
      <3> SUFFICES ASSUME NEW i \in 1..Len(t), NEW j \in 1..Len(t), i < j
                   PROVE  t[i] < t[j]
        OBVIOUS
      <3>1. i + 1 < j + 1
        OBVIOUS
      <3>2. listings[i + 1] < listings[j + 1]
        BY <1>1, <1>2, <3>1 DEF ListingsInOrder
      <3> QED
        BY <1>2, <3>2
    <2>2. \A i \in 1..Len(t) : t[i] <= list.made
      BY <1>1, <1>2 DEF ListingsInOrder
    <2> QED
      BY <1>2, <1>4, <1>6, <2>1, <2>2 DEF ListingsInOrder
  <1>8. Follows'
    <2> SUFFICES ASSUME list.folder PROVE Follows'
      BY <1>6 DEF Follows
    <2>1. list.model = list.made /\ list.made # 0 /\ ~list.failed
      BY <1>1 DEF Follows
    <2> QED
      BY <1>2, <1>4, <1>5, <1>6, <2>1 DEF Follows
  <1>9. Seen(list)'
    BY <1>1, <1>4, <1>6 DEF Seen, SameView, Walking, Visible, Newer
  <1>10. Told'
    BY <1>1, <1>4, <1>6, ToldKept DEF SameView
  <1> QED
    BY <1>1, <1>4, <1>7, <1>8, <1>9, <1>10, ChangesKept DEF Shows

LEMMA ListingFailsShows ==
    ASSUME ShowsInv, ListingFails
    PROVE  Shows'
  <1> DEFINE m == Head(listings)
             failed == list.failed \/ m = list.model
             t == Tail(listings)
  <1>1. /\ list \in List /\ listings \in Seq(Nat \ {0})
        /\ ListingsInOrder /\ Follows /\ ChangesTrue /\ Told /\ Seen(list)
        /\ listings # <<>>
    BY ListTyped DEF ShowsInv, Shows, ListingFails
  <1>2. /\ m \in Nat /\ list.monitor < m /\ m <= list.made
        /\ \A i \in 1..Len(t) :
              /\ t[i] = listings[i + 1] /\ i + 1 \in 1..Len(listings)
              /\ m < t[i] /\ t[i] \in Nat
        /\ list.folder => (m = list.model <=> t = <<>>)
        /\ list.folder /\ t # <<>> => t[Len(t)] = list.made
    BY <1>1, ListingTaken
  <1>3. list' = [list EXCEPT !.failed = failed] /\ failed \in BOOLEAN
    BY <1>1 DEF ListingFails, List
  <1>4. /\ listings' = t /\ inFolder' = inFolder /\ changes' = changes
        /\ deleted' = deleted /\ contents' = contents
        /\ refreshes' = refreshes
    BY DEF ListingFails, folderVars
  <1>5. list.folder =>
           /\ list.listed = {} /\ (failed <=> t = <<>>)
           /\ list.monitor # list.model
    <2>1. list.monitor \in Nat /\ list.made \in Nat
      BY <1>1 DEF List
    <2> QED
      BY <1>1, <1>2, <2>1 DEF Follows
  <1> HIDE DEF m, failed, t
  <1>6. /\ list'.failed = failed /\ list'.listed = list.listed
        /\ list'.folder = list.folder /\ list'.made = list.made
        /\ list'.model = list.model /\ list'.monitor = list.monitor
        /\ list'.timer = list.timer
        /\ SameTelling(list', list) /\ SameView(list', list)
    BY <1>1, <1>3 DEF List, SameTelling, SameView
  <1>7. ListingsInOrder'
    <2>1. \A i, j \in 1..Len(t) : i < j => t[i] < t[j]
      <3> SUFFICES ASSUME NEW i \in 1..Len(t), NEW j \in 1..Len(t), i < j
                   PROVE  t[i] < t[j]
        OBVIOUS
      <3>1. i + 1 < j + 1
        OBVIOUS
      <3>2. listings[i + 1] < listings[j + 1]
        BY <1>1, <1>2, <3>1 DEF ListingsInOrder
      <3> QED
        BY <1>2, <3>2
    <2>2. \A i \in 1..Len(t) : t[i] <= list.made /\ list.monitor < t[i]
      BY <1>1, <1>2 DEF ListingsInOrder
    <2> QED
      BY <1>1, <1>2, <1>4, <1>6, <2>1, <2>2 DEF ListingsInOrder
  <1>8. Follows'
    <2> SUFFICES ASSUME list.folder PROVE Follows'
      BY <1>6 DEF Follows
    <2>1. list.model = list.made /\ list.made # 0
      BY <1>1 DEF Follows
    <2> QED
      BY <1>2, <1>4, <1>5, <1>6, <2>1 DEF Follows
  <1>9. Seen(list)'
    BY <1>1, <1>4, <1>6 DEF Seen, SameView, Walking, Visible, Newer
  <1>10. Told'
    BY <1>1, <1>4, <1>6, ToldKept DEF SameView
  <1> QED
    BY <1>1, <1>4, <1>7, <1>8, <1>9, <1>10, ChangesKept DEF Shows

-----------------------------------------------------------------------------
\* What is left of the changes when the first is told.
LEMMA ChangeTaken ==
    ASSUME ShowsInv, changes # <<>>, changes' = Tail(changes),
           inFolder' = inFolder
    PROVE  /\ ChangesTrue'
           /\ Head(changes) \in Change
           /\ \A d \in Dates : NoneOf(d)' /\ d # Head(changes).date => NoneOf(d)
           /\ \A d \in Dates : NoneOf(d)' /\ d = Head(changes).date =>
                 (Head(changes).added <=> d \in inFolder)
           /\ changes' = <<>> => Head(changes).count = AllCount
  <1> DEFINE n == Len(changes)
             t == Tail(changes)
             c == Head(changes)
  <1>1. changes \in Seq(Change) /\ ChangesTrue
    BY ListTyped DEF ShowsInv, Shows
  <1>2. n \in Nat /\ n >= 1 /\ c = changes[1] /\ c \in Change
    BY <1>1, HeadTailProperties
  <1>3. t \in Seq(Change) /\ Len(t) = n - 1
    BY <1>1, <1>2, HeadTailProperties
  <1>4. \A i \in 1..Len(t) : t[i] = changes[i + 1] /\ i + 1 \in 1..n
    BY <1>1, <1>2, <1>3
  <1>5. t = <<>> <=> Len(t) = 0
    BY <1>3, EmptySeq
  <1>6. changes' = t
    OBVIOUS
  <1>7. /\ changes[n].count = AllCount
        /\ \A i \in 1..n : IsLastOf(i) =>
              (changes[i].added <=> changes[i].date \in inFolder)
    BY <1>1 DEF ChangesTrue
  <1>8. \A i \in 1..n : IsLastOf(i) <=>
           \A j \in 1..n : changes[j].date = changes[i].date => j <= i
    BY DEF IsLastOf
  <1>9. \A i : IsLastOf(i)' <=>
           \A j \in 1..Len(t) : t[j].date = t[i].date => j <= i
    BY <1>6 DEF IsLastOf
  <1>10. \A d : NoneOf(d)' <=> \A i \in 1..Len(t) : t[i].date # d
    BY <1>6 DEF NoneOf
  <1>11. \A j \in 1..n : j = 1 \/ (j - 1 \in 1..Len(t) /\ t[j - 1] = changes[j])
    <2> SUFFICES ASSUME NEW j \in 1..n, j # 1
                 PROVE  j - 1 \in 1..Len(t) /\ t[j - 1] = changes[j]
      OBVIOUS
    <2> HIDE DEF n, t
    <2>1. j - 1 \in 1..Len(t) /\ (j - 1) + 1 = j
      BY <1>2, <1>3
    <2> QED
      BY <1>4, <2>1
  <1> HIDE DEF n, t, c
  <1>12. \A i \in 1..Len(t) : IsLastOf(i)' => IsLastOf(i + 1)
    <2> SUFFICES ASSUME NEW i \in 1..Len(t), IsLastOf(i)',
                        NEW j \in 1..n, changes[j].date = changes[i + 1].date
                 PROVE  j <= i + 1
      BY <1>4, <1>8
    <2>1. CASE j = 1
      BY <2>1
    <2>2. CASE j # 1
      <3>1. j - 1 \in 1..Len(t) /\ t[j - 1].date = t[i].date
        BY <1>4, <1>11, <2>2
      <3>2. j - 1 <= i
        BY <1>9, <3>1
      <3> QED
        BY <3>2
    <2> QED
      BY <2>1, <2>2
  <1>13. ChangesTrue'
    <2>1. ASSUME NEW i \in 1..Len(t), IsLastOf(i)'
          PROVE  t[i].added <=> t[i].date \in inFolder
      <3>1. IsLastOf(i + 1) /\ i + 1 \in 1..n /\ t[i] = changes[i + 1]
        BY <1>4, <1>12, <2>1
      <3> QED
        BY <1>7, <3>1
    <2>2. ASSUME t # <<>> PROVE t[Len(t)].count = AllCount
      <3>1. Len(t) \in 1..Len(t) /\ Len(t) + 1 = n
        BY <1>2, <1>3, <1>5, <2>2
      <3>2. t[Len(t)] = changes[n]
        BY <1>4, <3>1
      <3> QED
        BY <1>7, <3>2
    <2>3. AllCount' = AllCount
      BY DEF AllCount
    <2> QED
      BY <1>6, <2>1, <2>2, <2>3 DEF ChangesTrue
  <1>14. ASSUME NEW d \in Dates, NoneOf(d)', d # c.date
         PROVE  NoneOf(d)
    <2> SUFFICES ASSUME NEW i \in 1..n PROVE changes[i].date # d
      BY DEF NoneOf, n
    <2> QED
      BY <1>2, <1>10, <1>11, <1>14
  <1>15. ASSUME NEW d \in Dates, NoneOf(d)', d = c.date
         PROVE  c.added <=> d \in inFolder
    <2>1. IsLastOf(1)
      <3> SUFFICES ASSUME NEW j \in 1..n, changes[j].date = changes[1].date
                   PROVE  j <= 1
        BY <1>2, <1>8
      <3>1. \A i \in 1..Len(t) : t[i].date # c.date
        BY <1>10, <1>15
      <3>2. changes[j].date = c.date
        BY <1>2
      <3>3. j = 1
        BY <1>11, <3>1, <3>2
      <3> QED
        BY <3>3
    <2> QED
      BY <1>2, <1>7, <1>15, <2>1
  <1>16. ASSUME t = <<>> PROVE c.count = AllCount
    <2>1. n = 1
      BY <1>2, <1>3, <1>5, <1>16
    <2> QED
      BY <1>2, <1>7, <2>1
  <1> QED
    BY <1>2, <1>6, <1>13, <1>14, <1>15, <1>16 DEF c

\* The headers follow a change that the monitor feeds to the model shown.
LEMMA ListingFollows ==
    ASSUME ShowsInv, changes # <<>>, changes' = Tail(changes),
           inFolder' = inFolder, listings' = listings, NEW v \in List,
           SameSource(list', v),
           v.folder = list.folder, v.made = list.made, v.model = list.model,
           v.monitor = list.monitor, v.failed = list.failed,
           list.model = 0 \/ list.monitor # list.model => v.listed = list.listed,
           list.model # 0 /\ list.monitor = list.model =>
              v.listed = IF Head(changes).added
                         THEN list.listed \cup {Head(changes).date}
                         ELSE list.listed \ {Head(changes).date}
    PROVE  ListingsInOrder' /\ Follows'
  <1>1. /\ list \in List /\ listings \in Seq(Nat \ {0})
        /\ ListingsInOrder /\ Follows
    BY ListTyped DEF ShowsInv, Shows
  <1>2. ListingsInOrder'
    BY <1>1 DEF ListingsInOrder, SameSource
  <1> DEFINE c == Head(changes)
  <1>3. /\ \A d \in Dates : NoneOf(d)' /\ d # c.date => NoneOf(d)
        /\ \A d \in Dates :
              NoneOf(d)' /\ d = c.date => (c.added <=> d \in inFolder)
    BY ChangeTaken
  <1> HIDE DEF c
  <1>4. Follows'
    <2> SUFFICES ASSUME list.folder PROVE Follows'
      BY DEF Follows, SameSource
    <2>1. list.model = list.made /\ list.made # 0
      BY <1>1 DEF Follows
    <2>2. CASE listings # <<>>
      <3>1. list.monitor # list.model
        <4>1. /\ 1 \in 1..Len(listings) /\ listings[1] \in Nat
              /\ list.monitor \in Nat /\ list.made \in Nat
          BY <1>1, <2>2 DEF List
        <4>2. list.monitor < listings[1] /\ listings[1] <= list.made
          BY <1>1, <4>1 DEF ListingsInOrder
        <4> QED
          BY <2>1, <4>1, <4>2
      <3> QED
        BY <1>1, <2>2, <3>1 DEF Follows, SameSource
    <2>3. CASE listings = <<>> /\ list.failed
      BY <1>1, <2>3 DEF Follows, SameSource
    <2>4. CASE listings = <<>> /\ ~list.failed
      <3>1. /\ list.monitor = list.model /\ list.model # 0
            /\ \A d \in Dates : NoneOf(d) => (d \in list.listed <=> d \in inFolder)
        BY <1>1, <2>1, <2>4 DEF Follows
      <3>2. v.listed = IF c.added THEN list.listed \cup {c.date}
                       ELSE list.listed \ {c.date}
        BY <3>1 DEF c
      <3>3. \A d \in Dates :
               NoneOf(d)' => (d \in list'.listed <=> d \in inFolder)
        <4> SUFFICES ASSUME NEW d \in Dates, NoneOf(d)'
                     PROVE  d \in v.listed <=> d \in inFolder
          BY DEF SameSource
        <4>1. CASE d = c.date
          <5>1. c.added <=> d \in inFolder
            BY <1>3, <4>1
          <5> QED
            BY <3>2, <4>1, <5>1
        <4>2. CASE d # c.date
          BY <1>3, <3>1, <3>2, <4>2
        <4> QED
          BY <4>1, <4>2
      <3> QED
        BY <2>1, <2>4, <3>1, <3>3 DEF Follows, SameSource
    <2> QED
      BY <2>2, <2>3, <2>4
  <1> QED
    BY <1>2, <1>4

LEMMA ChangeToldShows ==
    ASSUME ShowsInv, ChangeTold
    PROVE  Shows'
  <1> DEFINE c == Head(changes)
             listed == IF c.added THEN list.listed \cup {c.date}
                       ELSE list.listed \ {c.date}
             told == [list EXCEPT !.listed = listed]
             v == IF list.model = 0 \/ list.monitor # list.model THEN list
                  ELSE told
  <1>1. /\ list \in List /\ inFolder \subseteq Dates /\ Seen(list) /\ Told
        /\ (list.model = 0 => list.rows = {})
    BY ListTyped DEF ShowsInv, Shows
  <1>2. /\ changes # <<>> /\ changes' = Tail(changes)
        /\ inFolder' = inFolder /\ listings' = listings
        /\ deleted' = deleted /\ refreshes' = refreshes
    BY DEF ChangeTold, askedVars
  <1>3. ChangesTrue' /\ c \in Change /\ (changes' = <<>> => c.count = AllCount)
    BY <1>2, ChangeTaken
  <1>4. listed \in SUBSET Dates
    <2>1. c.date \in Dates /\ list.listed \in SUBSET Dates
      BY <1>1, <1>3 DEF List, Change
    <2> HIDE DEF c
    <2>2. /\ list.listed \cup {c.date} \in SUBSET Dates
          /\ list.listed \ {c.date} \in SUBSET Dates
      BY <2>1
    <2> QED
      BY <2>2
  <1>5. (~c.added) \in BOOLEAN
    OBVIOUS
  <1>6. /\ list.observing => \E count \in {c.count, AllCount} :
                                UpdateView(v, count, ~c.added)
        /\ ~list.observing => list' = v /\ contents' = contents
    BY <1>1 DEF ChangeTold, List
  <1>7. /\ v \in List /\ v.folder = list.folder /\ v.made = list.made
        /\ v.model = list.model /\ v.monitor = list.monitor
        /\ v.failed = list.failed /\ v.observing = list.observing
        /\ v.notify = list.notify /\ SameView(v, list)
        /\ (list.model = 0 \/ list.monitor # list.model =>
               v.listed = list.listed)
        /\ (list.model # 0 /\ list.monitor = list.model => v.listed = listed)
    <2> HIDE DEF listed
    <2> QED
      BY <1>1, <1>4 DEF List, SameView
  <1>8. v.model = 0 => v.rows = {}
    BY <1>1, <1>7 DEF SameView
  <1> HIDE DEF v
  <1>9. Seen(v)
    BY <1>1, <1>7, SeenSame
  <1>10. CASE ~list.observing
    <2>1. list' = v /\ contents' = contents
      BY <1>6, <1>10
    <2>2. ListingsInOrder' /\ Follows'
      BY <1>2, <1>7, <2>1, ListingFollows DEF SameSource
    <2>3. Told'
      BY <1>1, <1>2, <1>7, <1>10, <2>1 DEF Told
    <2>4. Seen(list)'
      BY <1>2, <1>9, <2>1 DEF Seen, Walking, Visible, Newer
    <2> QED
      BY <1>3, <2>2, <2>3, <2>4 DEF Shows
  <1>11. CASE list.observing
    <2>1. PICK count \in {c.count, AllCount} : UpdateView(v, count, ~c.added)
      BY <1>6, <1>11
    <2>2. ViewUpdated(v, count)
      BY <1>5, <1>7, <1>8, <2>1, UpdateViewFields
    <2>3. SameSource(list', v)
      BY <2>2 DEF ViewUpdated
    <2>4. ListingsInOrder' /\ Follows'
      BY <1>2, <1>7, <2>3, ListingFollows
    <2>5. Seen(list)'
      <3>1. Seen(list')
        BY <1>9, <2>2 DEF ViewUpdated
      <3> QED
        BY <1>2, <3>1 DEF Seen, Walking, Visible, Newer
    <2>6. Told'
      <3> SUFFICES ASSUME list'.folder, refreshes' = <<>> PROVE Told'
        BY DEF Told
      <3>1. list'.observing /\ list'.notify /\ v.folder
        BY <1>1, <1>2, <1>7, <2>2, <2>3 DEF Told, ViewUpdated, SameSource
      <3>2. ASSUME contents' = "EMPTY" PROVE NothingToTell'
        <4>1. count = 0 \/ v.status = "EMPTY"
          BY <2>2, <3>1, <3>2 DEF ViewUpdated
        <4>2. CASE v.status = "EMPTY"
          BY <2>2, <4>2 DEF ViewUpdated, NothingToTell
        <4>3. CASE count = 0 /\ changes' = <<>>
          <5>1. AllCount = 0
            BY <1>3, <2>1, <4>3
          <5> QED
            BY <1>1, <1>2, <5>1, CountIsZero DEF NothingToTell
        <4> QED
          BY <4>1, <4>2, <4>3 DEF NothingToTell
      <3> QED
        BY <3>1, <3>2 DEF Told
    <2> QED
      BY <1>3, <2>4, <2>5, <2>6 DEF Shows
  <1> QED
    BY <1>10, <1>11

LEMMA FolderChangesShows ==
    ASSUME ShowsInv, NEW d \in Dates, FolderChanges(d)
    PROVE  Shows'
  <1> DEFINE n == Len(changes)
             e == [date |-> d, added |-> d \notin inFolder, count |-> AllCount']
  <1>1. /\ changes \in Seq(Change) /\ ChangesTrue /\ ListingsInOrder /\ Follows
        /\ Seen(list)
    BY ListTyped DEF ShowsInv, Shows
  <1>2. /\ list' = list /\ listings' = listings /\ deleted' = deleted
        /\ inFolder' = (IF d \in inFolder THEN inFolder \ {d}
                        ELSE inFolder \cup {d})
        /\ changes' = Append(changes, e) /\ refreshes' = refreshes
    BY DEF FolderChanges, askedVars, AllCount
  <1>3. /\ e.date = d /\ (e.added <=> d \in inFolder') /\ e.count = AllCount'
    BY <1>2
  <1> HIDE DEF e
  <1>4. /\ n \in Nat /\ Len(changes') = n + 1 /\ changes'[n + 1] = e
        /\ \A i \in 1..n : changes'[i] = changes[i]
    BY <1>1, <1>2
  <1>5. \A x : x # d => (x \in inFolder' <=> x \in inFolder)
    BY <1>2
  <1> HIDE DEF n
  <1>6. \A i \in 1..n : IsLastOf(i) <=>
           \A j \in 1..n : changes[j].date = changes[i].date => j <= i
    BY DEF IsLastOf, n
  <1>7. \A i : IsLastOf(i)' <=>
           \A j \in 1..n + 1 : changes'[j].date = changes'[i].date => j <= i
    BY <1>4 DEF IsLastOf
  <1>8. ChangesTrue'
    <2>1. ASSUME NEW i \in 1..n + 1, IsLastOf(i)'
          PROVE  changes'[i].added <=> changes'[i].date \in inFolder'
      <3>1. CASE i = n + 1
        BY <1>3, <1>4, <3>1
      <3>2. CASE i # n + 1
        <4>1. i \in 1..n /\ n + 1 \in 1..n + 1 /\ ~(n + 1 <= i)
          BY <1>4, <3>2
        <4>2. changes[i].date # d /\ changes'[i] = changes[i]
          BY <1>3, <1>4, <1>7, <2>1, <4>1
        <4>3. IsLastOf(i)
          <5> SUFFICES ASSUME NEW j \in 1..n,
                              changes[j].date = changes[i].date
                       PROVE  j <= i
            BY <1>6, <4>1
          <5>1. j \in 1..n + 1 /\ changes'[j].date = changes'[i].date
            BY <1>4, <4>2
          <5> QED
            BY <1>7, <2>1, <5>1
        <4>4. changes[i].added <=> changes[i].date \in inFolder
          BY <1>1, <4>1, <4>3 DEF ChangesTrue, n
        <4> QED
          BY <1>5, <4>2, <4>4
      <3> QED
        BY <3>1, <3>2
    <2>2. changes'[Len(changes')].count = AllCount'
      BY <1>3, <1>4
    <2> QED
      BY <1>4, <2>1, <2>2 DEF ChangesTrue
  <1>9. \A x : NoneOf(x)' => x # d /\ NoneOf(x)
    <2> SUFFICES ASSUME NEW x, \A i \in 1..n + 1 : changes'[i].date # x
                 PROVE  x # d /\ \A i \in 1..n : changes[i].date # x
      BY <1>4 DEF NoneOf, n
    <2>1. n + 1 \in 1..n + 1 /\ \A i \in 1..n : i \in 1..n + 1
      BY <1>4
    <2> QED
      BY <1>3, <1>4, <2>1
  <1>10. ListingsInOrder' /\ Follows'
    BY <1>1, <1>2, <1>5, <1>9 DEF ListingsInOrder, Follows
  <1>11. Seen(list)'
    BY <1>1, <1>2 DEF Seen, Walking, Visible, Newer
  <1>12. Told'
    <2>1. Told
      BY DEF ShowsInv, Shows
    <2>2. changes' # <<>>
      BY <1>1, <1>2
    <2> QED
      BY <1>2, <2>1, <2>2 DEF Told, NothingToTell
  <1> QED
    BY <1>8, <1>10, <1>11, <1>12 DEF Shows

-----------------------------------------------------------------------------
\* A row that comes is counted by the status; the walk has left no other row
\* behind.
LEMMA InsertRowShows ==
    ASSUME ShowsInv, NEW d \in Dates, InsertRow(d)
    PROVE  Shows'
  <1> DEFINE v == [list EXCEPT !.rows = list.rows \cup {d}]
             w == Filtered(v, {d})
  <1>1. /\ list \in List /\ ChangesTrue /\ ListingsInOrder /\ Follows
        /\ Seen(list) /\ Told
    BY ListTyped DEF ShowsInv, Shows
  <1>2. /\ v \in List /\ v.rows = list.rows \cup {d}
        /\ v.search = list.search /\ v.refilter = list.refilter
        /\ v.status = list.status /\ v.timer = list.timer
        /\ SameSource(v, list) /\ SameTelling(v, list)
    BY <1>1 DEF List, SameSource, SameTelling
  <1>3. PICK valid \in {list.refilter.iterator, FALSE} :
           list' = [w EXCEPT !.refilter.iterator = valid]
    BY <1>1 DEF InsertRow, List
  <1>4. {d} \in SUBSET Dates
    OBVIOUS
  <1>5. /\ w \in List /\ w.rows = v.rows /\ w.search = v.search
        /\ w.refilter = v.refilter
    BY <1>2, <1>4, FilteredFields
  <1>6. /\ SameSource(w, v) /\ SameTelling(w, v)
        /\ v.status = "NON_EMPTY" => w.status = "NON_EMPTY"
        /\ \A x \in {d} : Visible(v, x) => w.status = "NON_EMPTY"
        /\ w.timer \in BOOLEAN /\ (v.timer => w.timer)
        /\ v.notify /\ w.status # v.status => w.timer
    BY <1>2, <1>4, FilteredStatus
  <1> HIDE DEF v, w
  <1> DEFINE r == [w.refilter EXCEPT !.iterator = valid]
  <1>7. /\ r \in Walks /\ r.on = list.refilter.on
        /\ r.model = list.refilter.model /\ r.at = list.refilter.at
        /\ r.iterator => list.refilter.iterator
    BY <1>1, <1>2, <1>3, <1>5 DEF List, Walks
  <1>8. list' = [w EXCEPT !.refilter = r]
    BY <1>3, <1>5 DEF List
  <1> HIDE DEF r
  <1>9. /\ list' \in List /\ list'.rows = w.rows /\ list'.search = w.search
        /\ list'.refilter = r /\ list'.status = w.status
        /\ list'.timer = w.timer
        /\ SameSource(list', w) /\ SameTelling(list', w)
    BY <1>5, <1>7, <1>8 DEF List, SameSource, SameTelling
  <1>10. SameSource(list', list) /\ SameTelling(list', list)
    BY <1>2, <1>6, <1>9 DEF SameSource, SameTelling
  <1>11. /\ SameFolder /\ deleted' = deleted /\ contents' = contents
         /\ refreshes' = refreshes
    BY DEF InsertRow, folderVars, askedVars, SameFolder
  <1>12. Told'
    <2>1. list.timer => list'.timer
      BY <1>2, <1>6, <1>9
    <2>2. list.notify /\ list'.status # list.status => list'.timer
      BY <1>2, <1>6, <1>9 DEF SameTelling
    <2> QED
      BY <1>1, <1>10, <1>11, <2>1, <2>2, ToldKept DEF SameSource
  <1>13. \A x \in list'.rows : Visible(list', x) /\ x \notin list.rows =>
            list'.status = "NON_EMPTY"
    BY <1>2, <1>5, <1>6, <1>9 DEF Visible
  <1>14. /\ \A x : Visible(list', x) <=> Visible(list, x)
         /\ list.status = "NON_EMPTY" => list'.status = "NON_EMPTY"
         /\ Walking(list') <=> Walking(list)
         /\ list'.refilter.at = list.refilter.at
         /\ list'.refilter.iterator => list.refilter.iterator
         /\ list.rows \subseteq list'.rows
    BY <1>2, <1>5, <1>6, <1>7, <1>9, <1>10 DEF Visible, Walking, SameSource
  <1>15. Seen(list')
    <2>1. ~Walking(list') => \A x \in list'.rows : Visible(list', x) =>
              list'.status = "NON_EMPTY"
      BY <1>1, <1>13, <1>14 DEF Seen
    <2>2. ASSUME Walking(list'), list'.refilter.iterator, NEW x \in list'.rows,
                 Visible(list', x),
                 Cardinality(Newer(list', x)) < list'.refilter.at - 1
          PROVE  list'.status = "NON_EMPTY"
      <3>1. CASE x \notin list.rows
        BY <1>13, <2>2, <3>1
      <3>2. CASE x \in list.rows
        <4>1. list.rows \subseteq Dates /\ list'.rows \subseteq Dates
          BY <1>1, <1>9 DEF List
        <4>2. Cardinality(Newer(list, x)) <= Cardinality(Newer(list', x))
          BY <1>14, <3>2, <4>1, PositionGrows
        <4>3. /\ Cardinality(Newer(list, x)) \in Nat
              /\ Cardinality(Newer(list', x)) \in Nat
          BY <2>2, <3>2, <4>1, PositionBounded
        <4>4. list.refilter.at \in Nat
          BY <1>1 DEF List, Walks
        <4>5. Cardinality(Newer(list, x)) < list.refilter.at - 1
          BY <1>14, <2>2, <4>2, <4>3, <4>4
        <4> QED
          BY <1>1, <1>14, <2>2, <3>2, <4>5 DEF Seen
      <3> QED
        BY <3>1, <3>2
    <2> QED
      BY <2>1, <2>2 DEF Seen
  <1>16. Seen(list)'
    BY <1>11, <1>15 DEF Seen, Walking, Visible, Newer
  <1> QED
    BY <1>1, <1>10, <1>11, <1>12, <1>16, SourceKept, ChangesKept
       DEF Shows, SameFolder

LEMMA DeleteRowShows ==
    ASSUME ShowsInv, NEW d \in Dates, DeleteRow(d)
    PROVE  Shows'
  <1> DEFINE r == [list.refilter EXCEPT !.iterator = FALSE]
             rows == list.rows \ {d}
             shown == list.shown \ {d}
  <1>1. /\ list \in List /\ ChangesTrue /\ ListingsInOrder /\ Follows
        /\ Seen(list) /\ Told
    BY ListTyped DEF ShowsInv, Shows
  <1>2. /\ r.on = list.refilter.on /\ r.model = list.refilter.model
        /\ ~r.iterator
    BY <1>1 DEF List, Walks
  <1>3. rows \subseteq list.rows
    OBVIOUS
  <1>4. list' = [list EXCEPT !.rows = rows, !.shown = shown, !.refilter = r]
    BY <1>1 DEF DeleteRow, List
  <1>5. /\ SameFolder /\ deleted' = deleted /\ contents' = contents
        /\ refreshes' = refreshes
    BY DEF DeleteRow, folderVars, askedVars, SameFolder
  <1> HIDE DEF r, rows, shown
  <1>6. /\ list'.rows = rows /\ list'.search = list.search
        /\ list'.refilter = r /\ list'.status = list.status
        /\ list'.timer = list.timer
        /\ SameSource(list', list) /\ SameTelling(list', list)
    BY <1>1, <1>4 DEF List, SameSource, SameTelling
  <1>7. Seen(list)'
    BY <1>1, <1>2, <1>3, <1>5, <1>6 DEF Seen, Walking, Visible, SameSource
  <1>8. Told'
    BY <1>1, <1>5, <1>6, ToldKept DEF SameSource
  <1> QED
    BY <1>1, <1>5, <1>6, <1>7, <1>8, SourceKept, ChangesKept
       DEF Shows, SameFolder

\* A row that the walk comes to is counted by the status.
LEMMA RefilterIdleShows ==
    ASSUME ShowsInv, RefilterIdle
    PROVE  Shows'
  <1> DEFINE r == list.refilter
             here == {d \in list.rows :
                         Cardinality({e \in list.rows : e > d}) = r.at - 1}
             more == r.at < Cardinality(list.rows)
             w == Filtered(list, here)
             s == IF more THEN [r EXCEPT !.at = r.at + 1] ELSE NoWalk
  <1>1. /\ list \in List /\ ChangesTrue /\ ListingsInOrder /\ Follows
        /\ Seen(list) /\ Told /\ r.on
        /\ (list.model = 0 => list.rows = {})
    BY ListTyped DEF ShowsInv, Shows, RefilterIdle
  <1>2. r \in Walks
    BY <1>1 DEF List
  <1>3. /\ SameFolder /\ deleted' = deleted /\ contents' = contents
        /\ refreshes' = refreshes
    BY DEF RefilterIdle, folderVars, askedVars, SameFolder
  <1>4. ASSUME SameSource(list', list), SameTelling(list', list), Seen(list'),
               list.timer => list'.timer,
               list.notify /\ list'.status # list.status => list'.timer
        PROVE  Shows'
    <2>1. Seen(list)'
      BY <1>3, <1>4 DEF Seen, Walking, Visible, Newer
    <2>2. Told'
      BY <1>1, <1>3, <1>4, ToldKept DEF SameSource
    <2> QED
      BY <1>1, <1>3, <1>4, <2>1, <2>2, SourceKept, ChangesKept
         DEF Shows, SameFolder
  <1>5. CASE r.model # list.model
    <2>1. list' = [list EXCEPT !.refilter = NoWalk]
      BY <1>5 DEF RefilterIdle
    <2>2. ~NoWalk.on
      BY DEF NoWalk
    <2>3. /\ SameSource(list', list) /\ SameTelling(list', list)
          /\ list'.rows = list.rows /\ list'.search = list.search
          /\ list'.status = list.status /\ list'.timer = list.timer
          /\ list'.refilter = NoWalk
      BY <1>1, <2>1 DEF List, SameSource, SameTelling
    <2>4. Seen(list')
      BY <1>1, <1>5, <2>2, <2>3 DEF Seen, Walking, Visible
    <2> QED
      BY <1>4, <2>3, <2>4
  <1>6. CASE r.model = list.model /\ ~r.iterator
    <2>1. list' = Walk(list)
      BY <1>6 DEF RefilterIdle
    <2>2. /\ Seen(Walk(list)) /\ SameSource(Walk(list), list)
          /\ SameTelling(Walk(list), list) /\ Walk(list).timer = list.timer
          /\ Walk(list).status = list.status
      BY <1>1, WalkSeen
    <2> QED
      BY <1>4, <2>1, <2>2
  <1>7. CASE r.model = list.model /\ r.iterator
    <2>1. list' = [w EXCEPT !.refilter = s]
      BY <1>7 DEF RefilterIdle
    <2>2. here \in SUBSET Dates
      BY <1>1 DEF List
    <2>3. /\ s \in Walks
          /\ more => s.on /\ s.model = r.model /\ s.at = r.at + 1
          /\ ~more => ~s.on
      <3>1. r.at + 1 \in Nat
        BY <1>2 DEF Walks
      <3>2. CASE more
        <4>1. s = [r EXCEPT !.at = r.at + 1]
          BY <3>2
        <4> HIDE DEF s
        <4> QED
          BY <1>1, <1>2, <3>1, <3>2, <4>1 DEF Walks
      <3>3. CASE ~more
        BY <3>3 DEF Walks, NoWalk
      <3> QED
        BY <3>2, <3>3
    <2>4. \A d \in list.rows : d \in here <=>
                                Cardinality(Newer(list, d)) = r.at - 1
      BY DEF Newer
    <2>5. r.at \in Nat /\ (more <=> r.at < Cardinality(list.rows))
      BY <1>2 DEF Walks
    <2> HIDE DEF here, s, more
    <2>6. /\ w \in List /\ w.rows = list.rows /\ w.search = list.search
      BY <1>1, <2>2, FilteredFields
    <2>7. /\ SameSource(w, list) /\ SameTelling(w, list)
          /\ list.status = "NON_EMPTY" => w.status = "NON_EMPTY"
          /\ \A d \in here : Visible(list, d) => w.status = "NON_EMPTY"
          /\ w.timer \in BOOLEAN /\ (list.timer => w.timer)
          /\ list.notify /\ w.status # list.status => w.timer
      BY <1>1, <2>2, FilteredStatus
    <2> HIDE DEF w
    <2>8. /\ list'.rows = w.rows /\ list'.search = w.search
          /\ list'.refilter = s /\ list'.status = w.status
          /\ list'.timer = w.timer /\ SameSource(list', w)
          /\ SameTelling(list', w)
      BY <2>1, <2>3, <2>6 DEF List, SameSource, SameTelling
    <2>9. /\ list'.rows = list.rows /\ list'.search = list.search
          /\ SameSource(list', list) /\ SameTelling(list', list)
      BY <2>6, <2>7, <2>8 DEF SameSource, SameTelling
    <2>10. \A d \in list.rows :
              Visible(list, d) /\ Cardinality(Newer(list, d)) < r.at
                 => w.status = "NON_EMPTY"
      <3> SUFFICES ASSUME NEW d \in list.rows, Visible(list, d),
                          Cardinality(Newer(list, d)) < r.at
                   PROVE  w.status = "NON_EMPTY"
        OBVIOUS
      <3>1. Cardinality(Newer(list, d)) \in Nat
        BY <1>1, PositionBounded DEF List
      <3>2. CASE Cardinality(Newer(list, d)) = r.at - 1
        BY <2>4, <2>7, <3>2
      <3>3. CASE Cardinality(Newer(list, d)) < r.at - 1
        BY <1>1, <1>7, <2>7, <3>3 DEF Seen, Walking
      <3> QED
        BY <2>5, <3>1, <3>2, <3>3
    <2>11. \A d \in list.rows : /\ Cardinality(Newer(list, d)) \in Nat
                                /\ Cardinality(list.rows) \in Nat
                                /\ Cardinality(Newer(list, d)) < Cardinality(list.rows)
      BY <1>1, PositionBounded DEF List
    <2>12. Seen(list')
      <3>1. \A d : /\ Visible(list', d) <=> Visible(list, d)
                   /\ Newer(list', d) = Newer(list, d)
        BY <2>9 DEF Visible, Newer
      <3>2. CASE more
        <4>1. Walking(list') /\ list'.refilter.at - 1 = r.at
          BY <1>7, <2>3, <2>5, <2>8, <2>9, <3>2 DEF Walking, SameSource
        <4> QED
          BY <2>8, <2>9, <2>10, <3>1, <4>1 DEF Seen
      <3>3. CASE ~more
        <4>1. ~Walking(list')
          BY <2>3, <2>8, <3>3 DEF Walking
        <4>2. \A d \in list.rows : Visible(list, d) => w.status = "NON_EMPTY"
          BY <2>5, <2>10, <2>11, <3>3
        <4> QED
          BY <2>8, <2>9, <3>1, <4>1, <4>2 DEF Seen
      <3> QED
        BY <3>2, <3>3
    <2>13. /\ list.timer => list'.timer
           /\ list.notify /\ list'.status # list.status => list'.timer
      BY <2>7, <2>8
    <2> QED
      BY <1>4, <2>9, <2>12, <2>13
  <1> QED
    BY <1>5, <1>6, <1>7

\* A step that brings the window up to date.
LEMMA UpdatedShows ==
    ASSUME ShowsInv, NEW v \in List, SameSource(v, list), Seen(v),
           v.model = 0 => v.rows = {}, UpdateView(v, AllCount, FALSE),
           SameFolder, deleted' = deleted,
           v.folder /\ refreshes' = <<>> => v.observing /\ v.notify
    PROVE  Shows'
  <1>1. /\ ChangesTrue /\ ListingsInOrder /\ Follows /\ inFolder \subseteq Dates
    BY ListTyped DEF ShowsInv, Shows
  <1>2. ViewUpdated(v, AllCount)
    BY UpdateViewFields
  <1>3. SameSource(list', list)
    BY <1>2 DEF ViewUpdated, SameSource
  <1>4. Seen(list)'
    <2>1. Seen(list')
      BY <1>2 DEF ViewUpdated
    <2> QED
      BY <2>1 DEF Seen, Walking, Visible, Newer
  <1>5. Told'
    BY <1>1, UpdatedTold DEF SameFolder
  <1> QED
    BY <1>1, <1>3, <1>4, <1>5, SourceKept, ChangesKept DEF Shows, SameFolder

LEMMA StatusTimeoutShows ==
    ASSUME ShowsInv, StatusTimeout
    PROVE  Shows'
  <1> DEFINE v == [list EXCEPT !.timer = FALSE]
  <1>1. /\ list \in List /\ Seen(list) /\ Told
        /\ (list.model = 0 => list.rows = {})
    BY ListTyped DEF ShowsInv, Shows
  <1>2. /\ v \in List /\ SameSource(v, list) /\ SameTelling(v, list)
        /\ SameView(v, list)
    BY <1>1 DEF List, SameSource, SameTelling, SameView
  <1>3. /\ UpdateView(v, AllCount, FALSE) /\ SameFolder /\ deleted' = deleted
        /\ refreshes' = refreshes
    BY DEF StatusTimeout, folderVars, askedVars, SameFolder
  <1> HIDE DEF v
  <1>4. Seen(v)
    BY <1>1, <1>2, SeenSame
  <1>5. v.folder /\ refreshes' = <<>> => v.observing /\ v.notify
    BY <1>1, <1>2, <1>3 DEF Told, SameSource, SameTelling
  <1>6. v.model = 0 => v.rows = {}
    BY <1>1, <1>2 DEF SameView
  <1> QED
    BY <1>2, <1>3, <1>4, <1>5, <1>6, UpdatedShows

\* From the end of a refresh on the view tells of its filter and observes; a
\* refresh without the window's callback may leave the window behind.
LEMMA RefreshEndsShows ==
    ASSUME ShowsInv, NEW i, RefreshEnds(i)
    PROVE  Shows'
  <1> DEFINE notify == list.notify \/ list.folder
             v == [list EXCEPT !.observing = TRUE, !.notify = notify]
             q == [v EXCEPT !.quiet = TRUE]
  <1>1. /\ list \in List /\ Seen(list) /\ ChangesTrue /\ ListingsInOrder
        /\ Follows /\ (list.model = 0 => list.rows = {}) /\ notify \in BOOLEAN
    <2>1. list \in List
      BY ListTyped DEF ShowsInv
    <2>2. notify \in BOOLEAN
      BY <2>1 DEF List
    <2> QED
      BY <2>1, <2>2, ListTyped DEF ShowsInv, Shows
  <1>2. /\ SameFolder /\ deleted' = deleted
        /\ \/ UpdateView(v, AllCount, FALSE)
           \/ list' = q /\ contents' = contents
    BY <1>1 DEF RefreshEnds, List, SameFolder, folderVars
  <1>3. list.folder => notify
    OBVIOUS
  <1> HIDE DEF notify
  <1>4. v \in List
    BY <1>1, Zenon DEF List
  <1>5. /\ SameSource(v, list) /\ SameView(v, list)
        /\ v.observing = TRUE /\ v.notify = notify
    BY <1>1 DEF List, SameSource, SameView
  <1> HIDE DEF v
  <1>6. Seen(v)
    BY <1>1, <1>5, SeenSame
  <1>7. v.folder => v.observing /\ v.notify
    BY <1>3, <1>5 DEF SameSource
  <1>8. v.model = 0 => v.rows = {}
    BY <1>1, <1>5 DEF SameView
  <1>9. CASE UpdateView(v, AllCount, FALSE)
    BY <1>2, <1>4, <1>5, <1>6, <1>7, <1>8, <1>9, UpdatedShows
  <1>10. CASE list' = q
    <2>1. /\ SameSource(q, v) /\ SameView(q, v) /\ q.quiet = TRUE
          /\ q.observing = v.observing /\ q.notify = v.notify
      BY <1>4 DEF List, SameSource, SameView
    <2> HIDE DEF q
    <2>2. SameSource(list', list)
      BY <1>5, <1>10, <2>1 DEF SameSource
    <2>3. Seen(q)
      BY <1>6, <2>1, SeenSame
    <2>4. Seen(list)'
      BY <1>2, <1>10, <2>3 DEF Seen, Walking, Visible, Newer
    <2>5. Told'
      BY <1>7, <1>10, <2>1 DEF Told, SameSource
    <2> QED
      BY <1>1, <1>2, <2>2, <2>4, <2>5, SourceKept, ChangesKept
         DEF Shows, SameFolder
  <1> QED
    BY <1>2, <1>9, <1>10

\* A new search, or its end.
LEMMA SearchShows ==
    ASSUME ShowsInv, NEW found \in SUBSET Dates, NEW latest \in Nat,
           UpdateView(Refiltered([list EXCEPT !.search = found,
                                              !.latest = latest]),
                      AllCount, FALSE),
           UNCHANGED folderVars, UNCHANGED askedVars
    PROVE  Shows'
  <1> DEFINE v == [list EXCEPT !.search = found, !.latest = latest]
             w == Refiltered(v)
  <1>1. /\ list \in List /\ Told /\ (list.model = 0 => list.rows = {})
    BY ListTyped DEF ShowsInv, Shows
  <1>2. v \in List
    BY <1>1, Zenon DEF List
  <1>3. /\ SameSource(v, list) /\ SameTelling(v, list) /\ v.rows = list.rows
        /\ v.model = list.model
    BY <1>1 DEF List, SameSource, SameTelling
  <1>4. UpdateView(w, AllCount, FALSE)
    OBVIOUS
  <1> HIDE DEF v
  <1>5. /\ Seen(w) /\ SameSource(w, v) /\ SameTelling(w, v) /\ w \in List
    BY <1>1, <1>2, <1>3, RefilteredSeen
  <1>6. w.model = 0 => w.rows = {}
    BY <1>1, <1>3, <1>5 DEF SameSource, Refiltered
  <1> HIDE DEF w
  <1>7. SameSource(w, list) /\ SameTelling(w, list)
    BY <1>3, <1>5 DEF SameSource, SameTelling
  <1>8. SameFolder /\ deleted' = deleted /\ refreshes' = refreshes
    BY DEF SameFolder, folderVars, askedVars
  <1>9. w.folder /\ refreshes' = <<>> => w.observing /\ w.notify
    BY <1>1, <1>7, <1>8 DEF Told, SameSource, SameTelling
  <1> QED
    BY <1>4, <1>5, <1>6, <1>7, <1>8, <1>9, UpdatedShows

\* A reload makes the next model and asks for its headers and a refresh.
LEMMA SyncSucceedsShows ==
    ASSUME ShowsInv, SyncSucceeds
    PROVE  Shows'
  <1> DEFINE c == Cleared(list)
             m == list.made + 1
  <1>1. /\ list \in List /\ listings \in Seq(Nat \ {0}) /\ ChangesTrue
        /\ ListingsInOrder /\ list.made \in Nat
    BY ListTyped DEF ShowsInv, Shows, List
  <1>2. c \in List /\ ~c.folder /\ c.monitor = 0 /\ c.made = list.made
    BY <1>1, ClearedTyped, ClearedFields
  <1>3. list' = FolderSet(c)
    BY DEF SyncSucceeds
  <1> HIDE DEF c
  <1>4. /\ list' \in List /\ list'.folder /\ list'.made = m /\ list'.model = m
        /\ list'.monitor = 0 /\ list'.listed = {} /\ list'.rows = {}
        /\ ~list'.failed
    BY <1>2, <1>3, FolderSetFields, FolderSetTyped
  <1>5. /\ listings' = Append(listings, m) /\ inFolder' = inFolder
        /\ changes' = changes /\ refreshes' = Append(refreshes, FALSE)
    BY <1>4 DEF SyncSucceeds, folderVars
  <1> DEFINE n == Len(listings)
  <1>6. /\ n \in Nat /\ Len(listings') = n + 1 /\ listings'[n + 1] = m
        /\ \A i \in 1..n : listings'[i] = listings[i] /\ listings[i] \in Nat \ {0}
        /\ listings' # <<>>
    BY <1>1, <1>5
  <1>7. \A i \in 1..n : /\ listings[i] <= list.made
                        /\ \A j \in 1..n : i < j => listings[i] < listings[j]
    BY <1>1 DEF ListingsInOrder
  <1> HIDE DEF n
  <1>8. ListingsInOrder'
    <2>1. list'.monitor <= list'.made
      BY <1>1, <1>4
    <2>2. ASSUME NEW i \in 1..n + 1
          PROVE  /\ 0 < listings'[i] /\ listings'[i] <= m
                 /\ \A j \in 1..n + 1 : i < j => listings'[i] < listings'[j]
      <3>1. CASE i = n + 1
        <4>1. \A j \in 1..n + 1 : ~(i < j)
          BY <1>6, <3>1
        <4> QED
          BY <1>1, <1>6, <3>1, <4>1
      <3>2. CASE i # n + 1
        <4>1. i \in 1..n
          BY <1>6, <3>2
        <4>2. /\ listings'[i] = listings[i] /\ listings[i] \in Nat \ {0}
              /\ listings[i] <= list.made
          BY <1>6, <1>7, <4>1
        <4>3. ASSUME NEW j \in 1..n + 1, i < j
              PROVE  listings'[i] < listings'[j]
          <5>1. CASE j = n + 1
            BY <1>1, <1>6, <4>2, <5>1
          <5>2. CASE j # n + 1
            <6>1. j \in 1..n
              BY <1>6, <5>2
            <6> QED
              BY <1>6, <1>7, <4>1, <4>3, <6>1
          <5> QED
            BY <5>1, <5>2
        <4> QED
          BY <1>1, <4>2, <4>3
      <3> QED
        BY <3>1, <3>2
    <2> QED
      BY <1>4, <1>6, <2>1, <2>2 DEF ListingsInOrder
  <1>9. Follows'
    BY <1>1, <1>4, <1>6 DEF Follows
  <1>10. Seen(list)'
    BY <1>4 DEF Seen
  <1>11. Told'
    BY <1>5 DEF Told
  <1> QED
    BY <1>1, <1>5, <1>8, <1>9, <1>10, <1>11, ChangesKept DEF Shows

\* Without its folder the view promises nothing.
LEMMA ListAccountRemovedShows ==
    ASSUME ShowsInv, ListAccountRemoved
    PROVE  Shows'
  <1>1. /\ list \in List /\ listings \in Seq(Nat \ {0}) /\ ChangesTrue
        /\ ListingsInOrder /\ list.made \in Nat
    BY ListTyped DEF ShowsInv, Shows, List
  <1>2. /\ ~list'.folder /\ list'.monitor = 0 /\ list'.made = list.made
        /\ list'.rows = {}
    BY <1>1, ClearedTyped, ClearedFields DEF ListAccountRemoved
  <1>3. SameFolder
    BY DEF ListAccountRemoved, SameFolder, folderVars, askedVars
  <1>4. ListingsInOrder'
    <2>1. \A i \in 1..Len(listings) : listings[i] \in Nat \ {0}
      BY <1>1
    <2> QED
      BY <1>1, <1>2, <1>3, <2>1 DEF ListingsInOrder, SameFolder
  <1>5. Follows' /\ Told' /\ Seen(list)'
    BY <1>2 DEF Follows, Told, Seen
  <1> QED
    BY <1>1, <1>3, <1>4, <1>5, ChangesKept DEF Shows, SameFolder

\* Nothing of the view and of what it waits for changes.
LEMMA NothingShows ==
    ASSUME ShowsInv, SameFolder, deleted' = deleted, list' = list,
           contents' = contents, refreshes' = refreshes
    PROVE  Shows'
  <1>1. /\ ChangesTrue /\ ListingsInOrder /\ Follows /\ Told /\ Seen(list)
    BY DEF ShowsInv, Shows
  <1>2. SameSource(list', list) /\ SameTelling(list', list)
    BY DEF SameSource, SameTelling
  <1>3. Seen(list)'
    BY <1>1 DEF Seen, Walking, Visible, Newer
  <1>4. Told'
    BY <1>1, <1>2, ToldKept
  <1> QED
    BY <1>1, <1>2, <1>3, <1>4, SourceKept, ChangesKept DEF Shows, SameFolder

\* Each step keeps what the view shows true to the folder.
LEMMA ShowsStep ==
    ASSUME ShowsInv, [HeaderListNext]_headerListVars
    PROVE  ShowsInv'
  <1>1. IInv'
    BY InvariantStep DEF ShowsInv
  <1>2. Shows'
    <2>1. CASE \E found \in SUBSET Dates : Search(found)
      <3>1. PICK found \in SUBSET Dates : Search(found)
        BY <2>1
      <3>2. /\ UpdateView(Refiltered([list EXCEPT !.search = found, !.latest = 0]),
                          AllCount, FALSE)
            /\ UNCHANGED folderVars /\ UNCHANGED askedVars
        BY <3>1 DEF Search
      <3> QED
        BY <3>2, SearchShows
    <2>2. CASE SearchEnds
      <3>1. /\ UpdateView(Refiltered([list EXCEPT !.search = NoSearch,
                                                  !.latest = IF limited THEN Latest
                                                             ELSE 0]),
                          AllCount, FALSE)
            /\ UNCHANGED folderVars /\ UNCHANGED askedVars
        BY <2>2 DEF SearchEnds
      <3>2. NoSearch \in SUBSET Dates
        BY DEF NoSearch
      <3>3. (IF limited THEN Latest ELSE 0) \in Nat
        BY ConstantsTyped
      <3> QED
        BY <3>1, <3>2, <3>3, SearchShows
    <2>3. CASE IdleRefreshFolder \/ SyncFails
      <3>1. /\ SameFolder /\ deleted' = deleted /\ list' = list
            /\ contents' = contents /\ refreshes' = refreshes
        BY <2>3 DEF IdleRefreshFolder, SyncFails, SameFolder, folderVars
      <3> QED
        BY <3>1, NothingShows
    <2>4. CASE UNCHANGED headerListVars
      BY <2>4, NothingShows DEF headerListVars, SameFolder
    <2> QED
      BY <2>1, <2>2, <2>3, <2>4, OpenWindowShows, HeadersListedShows,
         ListingFailsShows, ChangeToldShows, FolderChangesShows, InsertRowShows,
         DeleteRowShows, RefilterIdleShows, StatusTimeoutShows,
         RefreshEndsShows, SyncSucceedsShows, ListAccountRemovedShows
         DEF HeaderListNext
  <1> QED
    BY <1>1, <1>2 DEF ShowsInv

-----------------------------------------------------------------------------
\* The second inductive invariant holds in every state.
THEOREM ShowsInvariant == HeaderListSpec => []ShowsInv
  <1> QED
    BY ShowsInit, ShowsStep, PTL DEF HeaderListSpec

\* Once everything has settled the model has the headers of the folder, in
\* whatever order listings, changes and reloads came
\* (set_folder_intern_get_headers_async_cb).
THEOREM HeadersFollowFolder == HeaderListSpec => []ListFollowsFolder
  <1>1. ShowsInv => ListFollowsFolder
    <2> SUFFICES ASSUME ShowsInv, ListSettled, ~list.failed
                 PROVE  list.listed = inFolder
      BY DEF ListFollowsFolder
    <2>1. list \in List /\ inFolder \subseteq Dates /\ Follows
      BY ListTyped DEF ShowsInv, Shows
    <2>2. list.folder /\ changes = <<>> /\ listings = <<>>
      BY DEF ListSettled
    <2>3. \A d \in Dates : NoneOf(d)
      BY <2>2 DEF NoneOf
    <2>4. \A d \in Dates : d \in list.listed <=> d \in inFolder
      BY <2>1, <2>2, <2>3 DEF Follows
    <2> QED
      BY <2>1, <2>4 DEF List
  <1> QED
    BY <1>1, ShowsInvariant, PTL

\* A window that says there are no messages hides none once everything has
\* settled, unless a reload ended with no callback (set_contents_state,
\* filter_row).
THEOREM EmptyIsTrue == HeaderListSpec => []NoMessageHidden
  <1>1. ShowsInv => NoMessageHidden
    <2> SUFFICES ASSUME ShowsInv, ListSettled, contents = "EMPTY", ~list.quiet
                 PROVE  list.shown = {}
      BY DEF NoMessageHidden
    <2>1. /\ list \in List /\ inFolder \subseteq Dates /\ Follows /\ Told
          /\ Seen(list) /\ Walked(list)
      BY ListTyped DEF ShowsInv, Shows, IInv, Good
    <2>2. /\ list.folder /\ changes = <<>> /\ listings = <<>>
          /\ refreshes = <<>> /\ ~list.timer /\ ~list.refilter.on
          /\ list.rows = Wanted(list)
      BY DEF ListSettled
    <2>3. inFolder = {} \/ list.status # "NON_EMPTY"
      BY <2>1, <2>2 DEF Told, NothingToTell
    <2>4. CASE list.status # "NON_EMPTY"
      <3>1. ~Walking(list)
        BY <2>2 DEF Walking
      <3>2. \A d \in list.rows : ~Visible(list, d) /\ d \notin list.shown
        BY <2>1, <2>4, <3>1 DEF Seen, Walked, Matches
      <3> QED
        BY <2>1, <3>2 DEF Walked
    <2>5. CASE inFolder = {}
      <3>1. list.listed = {}
        <4>1. CASE list.failed
          BY <2>1, <2>2, <4>1 DEF Follows
        <4>2. CASE ~list.failed
          <5>1. \A d \in Dates : NoneOf(d)
            BY <2>2 DEF NoneOf
          <5>2. \A d \in Dates : d \in list.listed <=> d \in inFolder
            BY <2>1, <2>2, <4>2, <5>1 DEF Follows
          <5> QED
            BY <2>1, <2>5, <5>2 DEF List
        <4> QED
          BY <4>1, <4>2
      <3>2. list.rows \subseteq list.listed
        BY <2>2 DEF Wanted
      <3> QED
        BY <2>1, <3>1, <3>2 DEF Walked
    <2> QED
      BY <2>3, <2>4, <2>5
  <1> QED
    BY <1>1, ShowsInvariant, PTL
=============================================================================
