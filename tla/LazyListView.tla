---------------------------- MODULE LazyListView ----------------------------
(***************************************************************************)
(* The lazy list (Components/lazylistview.cpp): delegates only for the rows *)
(* in view, created and destroyed in updatePolish, kept in a table by row   *)
(* that every signal of the model shifts.  A delegate appears one polish    *)
(* after its creation, or once a timer fired; a delegate whose row goes     *)
(* stays for its remove animation.                                          *)
(*                                                                         *)
(* Rows are counted from 1.  asynchronous, readyDelay and removeDuration may *)
(* change at any time and do nothing by themselves, so that each use of them *)
(* takes any value.  Where an animation has a delegate right now is left     *)
(* open, and so is whether one outside the range is still seen, and whether  *)
(* the component makes an item for a row or fails.  The view and a viewport  *)
(* of its user have a width.                                                *)
(***************************************************************************)
EXTENDS ModelRows

CONSTANTS
  Data,                    \* what a row can hold; no two rows the same
  FirstRows,               \* what the model can hold when the view is complete
  Items,                   \* delegate items, as numbers
  Heights, HeightOf,       \* a delegate can have, and has at first with what it shows
  Estimate, Spacing,       \* m_estimatedHeight, m_spacing
  CacheBuffer, ViewHeight, \* m_cacheBuffer, the view's height
  Tops,                    \* where contentY can be
  Viewports,               \* what the user can set as the viewport, empty ones too
  CreateBatch, DestroyBatch, \* ASYNC_BATCH_CREATE, ASYNC_BATCH_DESTROY
  MaxRows, MaxSteps        \* bounds: rows, steps of the model and of the view's user

NoViewport == [top |-> 0, bottom |-> 0]

ASSUME ViewAssumption ==
  /\ FirstRows \subseteq Seq(Data) /\ Items \subseteq Nat /\ IsFiniteSet(Items)
  /\ Heights \subseteq Nat /\ HeightOf \in [Data -> Heights] /\ Estimate \in Nat /\ Spacing \in Nat
  /\ CacheBuffer \in Nat /\ ViewHeight \in Nat \ {0} /\ Tops \subseteq Int /\ 0 \in Tops
  /\ Viewports \subseteq [top : Int, bottom : Int] /\ NoViewport \in Viewports
  /\ CreateBatch \in Nat \ {0} /\ DestroyBatch \in Nat \ {0}
  /\ MaxRows \in Nat /\ MaxSteps \in Nat

VARIABLES
  rows,                    \* of the model
  model, component,        \* whether m_model and m_delegate are set
  layout,                  \* m_layout, without targetY
  delegate,                \* m_delegates
  rowOf,                   \* m_itemToIndex
  dying,                   \* m_dyingDelegates, each with its timer
  waiting,                 \* items whose readyDelay timer runs
  item,                    \* the properties of the items there are
  sum, count,              \* m_knownHeightSum, m_knownHeightCount
  contentY,
  custom, viewport,        \* m_useCustomViewport, m_viewport
  polish,                  \* an updatePolish is due, or m_relayoutPending
  refused,                 \* history: with no polish due, rows the last one got no item for
  bound,                   \* what a binding through itemsDirty and count has, by row
  steps

heights == <<sum, count>>
contents == <<layout, delegate, rowOf, dying, waiting, item, heights>>
window == <<contentY, custom, viewport>>
viewVars == <<rows, model, component, contents, window, polish, refused, bound, steps>>

Mapped(d) == {d[i].item : i \in DOMAIN d}
ItemAt(d) == [i \in DOMAIN d |-> d[i].item]
RowIn(d, x) == CHOOSE i \in DOMAIN d : d[i].item = x

NewRow == [height |-> 0, known |-> FALSE, new |-> TRUE]
OldRow == [NewRow EXCEPT !.new = FALSE]

Step == steps < MaxSteps /\ steps' = steps + 1

\* polish(), which will try all rows in view again.
AskPolish == polish' = TRUE /\ refused' = {}

----------------------------------------------------------------------------
(* Heights and the range in view.                                           *)

KnownRows(l) == {i \in DOMAIN l : l[i].known}

\* The heights of the items at these rows become known.
Measured(l, which, its) ==
  [i \in DOMAIN l |->
    IF i \in which THEN [l[i] EXCEPT !.height = its[delegate[i].item].height, !.known = TRUE] ELSE l[i]]

\* untrackHeight of what was known, trackHeight of what is known now.
Track(which, its) ==
  LET known == which \cap KnownRows(layout)
  IN /\ sum' = sum - MapThenSumSet(LAMBDA i : layout[i].height, known)
                   + MapThenSumSet(LAMBDA i : its[delegate[i].item].height, which)
     /\ count' = count - Cardinality(known) + Cardinality(which)

\* relayout: where each row starts and ends; there is a gap only between rows with a height.
HeightIn(l, i) == IF l[i].known THEN l[i].height ELSE Estimate
Relayout(l) ==
  LET place[i \in 0 .. Len(l)] ==
        IF i = 0 THEN [top |-> 0, end |-> 0]
        ELSE LET before == place[i - 1].end
                 gap == IF before > 0 /\ HeightIn(l, i) > 0 THEN Spacing ELSE 0
             IN [top |-> before + gap, end |-> before + gap + HeightIn(l, i)]
  IN [i \in 0 .. Len(l) |-> place[i]]

PlacedRows(place) == DOMAIN place \ {0}
LayoutHeight(place) == place[Cardinality(PlacedRows(place))].end

\* effectiveViewport: the user's, or the view's, which overshoot may not take wholly out of
\* the layout; both with the buffer around them, and trimmed to the layout when that has a height.
Lesser(a, b) == IF a < b THEN a ELSE b
Greater(a, b) == IF a > b THEN a ELSE b
Viewport(height) ==
  LET base == IF custom THEN viewport
              ELSE IF height = 0 THEN [top |-> contentY, bottom |-> contentY + ViewHeight]
              ELSE [top |-> Lesser(contentY, height), bottom |-> Greater(contentY + ViewHeight, 0)]
      top == base.top - CacheBuffer
      bottom == base.bottom + CacheBuffer
  IN IF height = 0 THEN [top |-> top, bottom |-> bottom]
     ELSE [top |-> Greater(0, top), bottom |-> Lesser(height, bottom)]
IsEmpty(view) == view.top >= view.bottom

\* Faulty variant of FirstVisible: by where a row starts.
FirstStarting(place, view) ==
  LET n == Cardinality(PlacedRows(place))
      Search[r \in (1 .. n + 1) \X (0 .. n)] ==
        LET lo == r[1]  hi == r[2]  mid == lo + (hi - lo) \div 2
        IN IF lo > hi THEN lo
           ELSE IF place[mid].top >= view.top THEN Search[<<lo, mid - 1>>]
           ELSE Search[<<mid + 1, hi>>]
  IN Search[<<1, n>>]

\* The binary search of computeVisibleRange.
FirstVisible(place, view) ==
  LET n == Cardinality(PlacedRows(place))
      Search[r \in (1 .. n + 1) \X (0 .. n)] ==
        LET lo == r[1]  hi == r[2]  mid == lo + (hi - lo) \div 2
        IN IF lo > hi THEN lo
           ELSE IF place[mid].end >= view.top THEN Search[<<lo, mid - 1>>]
           ELSE Search[<<mid + 1, hi>>]
  IN Search[<<1, n>>]

\* computeVisibleRange, as the set of its rows.
VisibleRange(place, view) ==
  IF IsEmpty(view) THEN {}
  ELSE LET first == FirstVisible(place, view)
       IN {i \in PlacedRows(place) : i >= first /\ \A j \in first + 1 .. i : place[j].top <= view.bottom}

----------------------------------------------------------------------------
(* The signals of the model.                                                *)

\* The table after each delegate's row i became to[i].
Shift(d, its, to) ==
  LET at == [x \in Mapped(d) |-> to[RowIn(d, x)]]
  IN /\ delegate' = [k \in {to[i] : i \in DOMAIN d} |-> d[CHOOSE i \in DOMAIN d : to[i] = k]]
     /\ rowOf' = at
     /\ item' = [x \in DOMAIN its |-> IF x \in Mapped(d) THEN [its[x] EXCEPT !.row = at[x]] ELSE its[x]]

\* resetContent, for the rows of the model of now.
ResetContent ==
  /\ layout' = IF model' THEN [i \in DOMAIN rows' |-> OldRow] ELSE <<>>
  /\ delegate' = <<>> /\ rowOf' = <<>> /\ item' = <<>>
  /\ dying' = {} /\ waiting' = {}
  /\ sum' = 0 /\ count' = 0
  /\ bound' = <<>> /\ AskPolish

\* A change of the rows that the view hears of only when it has the model.
Heard(handler) ==
  /\ Step /\ UNCHANGED <<model, component, window>>
  /\ \/ model /\ handler
     \/ ~model /\ UNCHANGED <<contents, polish, refused, bound>>

\* onRowsInserted
OnRowsInserted(first, n) ==
  /\ layout' = Spliced(layout, first, [i \in 1 .. n |-> NewRow])
  /\ Shift(delegate, item, [i \in DOMAIN delegate |-> IF i >= first THEN i + n ELSE i])
  /\ bound' = ItemAt(delegate') /\ AskPolish
  /\ UNCHANGED <<dying, waiting, heights>>

InsertRows(first, new) ==
  /\ rows' = Spliced(rows, first, new)
  /\ Heard(OnRowsInserted(first, Len(new)))

\* onRowsAboutToBeRemoved and onRowsRemoved.
OnRowsRemoved(first, last, animate) ==
  LET hit == DOMAIN delegate \cap first .. last
      gone == {delegate[i].item : i \in {i \in hit : delegate[i].pending \/ ~animate}}
      kept == [i \in DOMAIN delegate \ hit |-> delegate[i]]
      known == KnownRows(layout) \cap first .. last
  IN /\ dying' = dying \cup ({delegate[i].item : i \in hit} \ gone)
     /\ waiting' = waiting \ gone
     /\ Shift(kept, [x \in DOMAIN item \ gone |-> item[x]],
              [i \in DOMAIN kept |-> IF i > last THEN i - (last - first + 1) ELSE i])
     /\ sum' = sum - MapThenSumSet(LAMBDA i : layout[i].height, known)
     /\ count' = count - Cardinality(known)
     /\ layout' = Cut(layout, first, last)
     /\ bound' = ItemAt(delegate') /\ AskPolish

RemoveRows(first, last) ==
  /\ rows' = Cut(rows, first, last)
  /\ \E animate \in BOOLEAN : Heard(OnRowsRemoved(first, last, animate))

\* Faulty variant of RowAfterMove: rows between the two places stay.
RowAfterMoveForward(i, first, last, to) ==
  IF i \in first .. last THEN to + (i - first)
  ELSE IF i >= to THEN i + (last - first + 1) ELSE i

\* Where row i goes when first..last moves to begin at to.
RowAfterMove(i, first, last, to) ==
  LET n == last - first + 1
      closed == IF i > last THEN i - n ELSE i
  IN IF i \in first .. last THEN to + (i - first)
     ELSE IF closed >= to THEN closed + n ELSE closed

\* onRowsMoved; row is where the block goes, counted before it leaves.
OnRowsMoved(first, last, row) ==
  /\ layout' = Moved(layout, first, last, row)
  /\ LET to == Landing(first, last, row)
     IN Shift(delegate, item, [i \in DOMAIN delegate |-> RowAfterMove(i, first, last, to)])
  /\ AskPolish
  /\ UNCHANGED <<dying, waiting, heights, bound>>

MoveRows(first, last, row) ==
  /\ rows' = Moved(rows, first, last, row)
  /\ Heard(OnRowsMoved(first, last, row))

\* updateDelegateData of these rows.
Refreshed(which) ==
  [x \in DOMAIN item |->
    IF x \in DOMAIN rowOf /\ rowOf[x] \in which THEN [item[x] EXCEPT !.shows = rows'[rowOf[x]]]
    ELSE item[x]]

ChangeData(i, d) ==
  /\ rows' = [rows EXCEPT ![i] = d]
  /\ Heard(/\ item' = Refreshed({i})
           /\ UNCHANGED <<layout, delegate, rowOf, dying, waiting, heights, polish, refused, bound>>)

\* layoutChanged: the rows in another order.
ReorderRows ==
  /\ rows' = Reordered(rows)
  /\ Heard(/\ item' = Refreshed(DOMAIN rows) /\ AskPolish
           /\ UNCHANGED <<layout, delegate, rowOf, dying, waiting, heights, bound>>)

\* onModelReset: a model whose rows in view are the same is no new model.
OnModelReset ==
  LET same == /\ Len(rows') = Len(layout)
              /\ \A i \in DOMAIN delegate : rows'[i] = item[delegate[i].item].shows
  IN \/ /\ same /\ item' = Refreshed(DOMAIN rows')
        /\ UNCHANGED <<layout, delegate, rowOf, dying, waiting, heights, polish, refused, bound>>
     \/ ~same /\ ResetContent

ResetModel(new) == rows' = new /\ Heard(OnModelReset)

\* setModel, to no model and back or to one with the same rows; the model's end; setDelegate,
\* to no component and back or to another.
SetViewModel ==
  /\ Step
  /\ model' \in BOOLEAN /\ UNCHANGED <<rows, component, window>>
  /\ ResetContent

SetViewDelegate ==
  /\ Step
  /\ component' \in BOOLEAN /\ UNCHANGED <<rows, model, window>>
  /\ ResetContent

----------------------------------------------------------------------------
(* updatePolish.                                                            *)

\* The k smallest of a set of numbers.
Least(S, k) == {i \in S : Cardinality({j \in S : j < i}) < k}

\* Delegates that are pending are shown now, or have their timer started.
FlushPending(delay) ==
  LET due == {i \in DOMAIN delegate : delegate[i].pending}
  IN [ shown   |-> IF delay THEN {} ELSE due,
       table   |-> [i \in DOMAIN delegate |->
                     IF i \notin due THEN delegate[i]
                     ELSE IF delay THEN [delegate[i] EXCEPT !.started = TRUE]
                     ELSE [delegate[i] EXCEPT !.pending = FALSE]],
       started |-> IF delay THEN {delegate[i].item : i \in {i \in due : ~delegate[i].started}} ELSE {} ]

Appeared(x) == [item[x] EXCEPT !.adding = FALSE, !.ready = TRUE]

\* A delegate that got ready asks for a polish, what was made is shown by the next one, and
\* asynchronous work goes on there.
PolishAgain(shown, made, wanted, more, async) ==
  shown # {} \/ made # {} \/ (async /\ (more \/ made # wanted))

\* Faulty variant of TellItemsDirty: when something was made.
TellItemsMade(made, destroyed) == bound' = IF made # {} THEN ItemAt(delegate') ELSE bound

TellItemsDirty(made, destroyed) ==
  bound' = IF made # {} \/ destroyed # {} THEN ItemAt(delegate') ELSE bound

\* Of the rows that want a delegate, those that get one: asynchronously a batch, which the
\* rows that createDelegate makes no item for do not use up.
Made(wanted, failing, async) ==
  IF async THEN Least(wanted \ failing, CreateBatch) ELSE wanted \ failing

\* syncDelegates and the rest, after the flush f; l is the layout with what f measured, wanted
\* what is in view and has no delegate, failing those of it that no item can be made for, and
\* more says that there is more to destroy.
Sync(f, l, wanted, failing, async, destroyed, more) ==
  LET rest == DOMAIN f.table \ destroyed
      made == Made(wanted, failing, async)
      gone == {f.table[i].item : i \in destroyed}
      fresh == Ascending(Items \ DOMAIN item)
      order == Ascending(made)
      at == [x \in {fresh[k] : k \in DOMAIN order} |-> order[CHOOSE k \in DOMAIN order : fresh[k] = x]]
  IN /\ Len(order) <= Len(fresh)
     /\ delegate' = [i \in rest \cup made |->
                      IF i \in made THEN [item |-> CHOOSE x \in DOMAIN at : at[x] = i, pending |-> TRUE, started |-> FALSE]
                      ELSE f.table[i]]
     /\ rowOf' = [x \in (DOMAIN rowOf \ gone) \cup DOMAIN at |-> IF x \in DOMAIN at THEN at[x] ELSE rowOf[x]]
     /\ item' = [x \in (DOMAIN item \ gone) \cup DOMAIN at |->
                  IF x \in DOMAIN at
                  THEN [row |-> at[x], shows |-> rows[at[x]], height |-> HeightOf[rows[at[x]]],
                        adding |-> l[at[x]].new, ready |-> FALSE]
                  ELSE IF x \in {delegate[i].item : i \in f.shown} THEN Appeared(x) ELSE item[x]]
     /\ waiting' = (waiting \cup f.started) \ gone
     /\ layout' = [i \in DOMAIN l |-> [l[i] EXCEPT !.new = FALSE]]
     /\ polish' = PolishAgain(f.shown, made, wanted, more, async)
     /\ refused' = IF polish' THEN {} ELSE failing
     /\ TellItemsDirty(made, destroyed)

\* What syncDelegates may find to destroy: all that is out of range when nothing is in view,
\* else what is out of range and not seen any more.
Removable(f, range, view) ==
  LET outside == DOMAIN f.table \ range
  IN IF IsEmpty(view) THEN {outside} ELSE SUBSET outside

\* What of it is destroyed at once; m_delegates is a hash, so that a batch is any of it.
Batches(removable, async) ==
  IF async THEN kSubset(Lesser(DestroyBatch, Cardinality(removable)), removable) ELSE {removable}

\* What is destroyed and which items cannot be made is anybody's choice.
SyncRange(f, l, range, view, async) ==
  \E removable \in Removable(f, range, view) : \E destroyed \in Batches(removable, async) :
  \E wanted \in {range \ (DOMAIN f.table \ destroyed)} : \E failing \in SUBSET wanted :
    Sync(f, l, wanted, failing, async, destroyed, destroyed # removable)

UpdatePolish ==
  /\ polish
  /\ \/ /\ ~(model /\ component) /\ polish' = FALSE /\ UNCHANGED <<contents, refused, bound>>
     \/ /\ model /\ component
        /\ \E delay, async \in BOOLEAN :
             \E f \in {FlushPending(delay)} : \E l \in {Measured(layout, f.shown, item)} :
             \E place \in {Relayout(l)} : \E view \in {Viewport(LayoutHeight(place))} :
             \E range \in {VisibleRange(place, view)} :
               Track(f.shown, item) /\ SyncRange(f, l, range, view, async)
        /\ UNCHANGED dying
  /\ UNCHANGED <<rows, model, component, window, steps>>

\* The readyDelay timer of an item.
ShowDelayed(x) ==
  /\ waiting' = waiting \ {x}
  /\ \/ /\ x \in DOMAIN rowOf /\ delegate[rowOf[x]].item = x /\ delegate[rowOf[x]].pending
        /\ delegate' = [delegate EXCEPT ![rowOf[x]] = [@ EXCEPT !.pending = FALSE, !.started = FALSE]]
        /\ item' = [item EXCEPT ![x] = Appeared(x)]
        /\ layout' = Measured(layout, {rowOf[x]}, item)
        /\ Track({rowOf[x]}, item)
        /\ AskPolish
        /\ UNCHANGED rowOf
     \/ /\ ~(x \in DOMAIN rowOf /\ delegate[rowOf[x]].item = x /\ delegate[rowOf[x]].pending)
        /\ UNCHANGED <<delegate, rowOf, item, layout, heights, polish, refused>>
  /\ UNCHANGED <<rows, model, component, dying, window, bound, steps>>

\* The end of a remove animation.
DestroyDying(x) ==
  /\ dying' = dying \ {x} /\ waiting' = waiting \ {x}
  /\ item' = [y \in DOMAIN item \ {x} |-> item[y]]
  /\ UNCHANGED <<rows, model, component, layout, delegate, rowOf, heights, window>>
  /\ UNCHANGED <<polish, refused, bound, steps>>

\* A delegate's height changes; onHeightChanged looks at those that are ready and mapped.
Resize(x, h) ==
  /\ Step
  /\ h # item[x].height /\ item' = [item EXCEPT ![x].height = h]
  /\ \/ /\ item[x].ready /\ x \in DOMAIN rowOf
        /\ layout' = Measured(layout, {rowOf[x]}, item')
        /\ Track({rowOf[x]}, item')
        /\ AskPolish
     \/ /\ ~(item[x].ready /\ x \in DOMAIN rowOf)
        /\ UNCHANGED <<layout, heights, polish, refused>>
  /\ UNCHANGED <<rows, model, component, delegate, rowOf, dying, waiting, window, bound>>

Scroll(y) ==
  /\ Step
  /\ y # contentY /\ contentY' = y /\ AskPolish
  /\ UNCHANGED <<rows, model, component, contents, custom, viewport, bound>>

\* Faulty variant of SetViewport: the new viewport waits for the next polish.
SetViewportOnly(v) ==
  /\ Step
  /\ v # viewport /\ viewport' = v /\ UNCHANGED <<polish, refused>>
  /\ UNCHANGED <<rows, model, component, contents, contentY, custom, bound>>

SetViewport(v) ==
  /\ Step
  /\ v # viewport /\ viewport' = v
  /\ IF custom THEN AskPolish ELSE UNCHANGED <<polish, refused>>
  /\ UNCHANGED <<rows, model, component, contents, contentY, custom, bound>>

SetUseCustomViewport ==
  /\ Step
  /\ custom' = ~custom /\ AskPolish
  /\ UNCHANGED <<rows, model, component, contents, contentY, viewport, bound>>

----------------------------------------------------------------------------
Distinct == {r \in UNION {[1 .. n -> Data] : n \in 0 .. MaxRows} : \A i, j \in DOMAIN r : r[i] = r[j] => i = j}

ViewInit ==
  /\ rows \in FirstRows /\ model = TRUE /\ component = TRUE
  /\ layout = [i \in DOMAIN rows |-> OldRow]
  /\ delegate = <<>> /\ rowOf = <<>> /\ item = <<>> /\ dying = {} /\ waiting = {}
  /\ sum = 0 /\ count = 0
  /\ contentY = 0
  /\ custom \in BOOLEAN /\ viewport \in (IF custom THEN Viewports ELSE {NoViewport})
  /\ polish = TRUE /\ refused = {} /\ bound = <<>> /\ steps = 0

Model ==
  \/ \E first \in 1 .. Len(rows) + 1, new \in Distinct :
       /\ new # <<>> /\ Len(rows) + Len(new) <= MaxRows /\ Range(new) \cap Range(rows) = {}
       /\ InsertRows(first, new)
  \/ \E first \in DOMAIN rows : \E last \in first .. Len(rows) : RemoveRows(first, last)
  \/ \E m \in Moves(rows) : MoveRows(m[1], m[2], m[3])
  \/ \E i \in DOMAIN rows, d \in Data \ Range(rows) : ChangeData(i, d)
  \/ ReorderRows
  \/ \E new \in Distinct : ResetModel(new)

User ==
  \/ SetViewModel \/ SetViewDelegate
  \/ \E y \in Tops : Scroll(y)
  \/ SetUseCustomViewport
  \/ \E v \in Viewports : SetViewport(v)
  \/ \E x \in DOMAIN item, h \in Heights : Resize(x, h)

Timers == (\E x \in waiting : ShowDelayed(x)) \/ (\E x \in dying : DestroyDying(x))

ViewNext == Model \/ User \/ UpdatePolish \/ Timers

ViewSpec == ViewInit /\ [][ViewNext]_viewVars

----------------------------------------------------------------------------
(* Properties.                                                              *)

ViewTypeOK ==
  /\ rows \in Distinct /\ model \in BOOLEAN /\ component \in BOOLEAN
  /\ layout \in Seq([height : Nat, known : BOOLEAN, new : BOOLEAN])
  /\ DOMAIN delegate \subseteq DOMAIN layout
  /\ \A i \in DOMAIN delegate : delegate[i] \in [item : Items, pending : BOOLEAN, started : BOOLEAN]
  /\ DOMAIN item \subseteq Items
  /\ \A x \in DOMAIN item :
       item[x] \in [row : 1 .. MaxRows, shows : Data, height : Heights, adding : BOOLEAN, ready : BOOLEAN]
  /\ dying \subseteq DOMAIN item /\ waiting \subseteq DOMAIN item
  /\ sum \in Nat /\ count \in Nat
  /\ contentY \in Tops /\ custom \in BOOLEAN /\ viewport \in Viewports
  /\ polish \in BOOLEAN /\ refused \subseteq 1 .. MaxRows /\ steps \in 0 .. MaxSteps

\* Every table agrees with the model, whatever was inserted, removed, moved or reset: the
\* layout has a record per row, m_delegates and m_itemToIndex are inverse, and a delegate has
\* the index and the data of its row.
TablesFollowModel ==
  /\ Len(layout) = IF model THEN Len(rows) ELSE 0
  /\ DOMAIN rowOf = Mapped(delegate)
  /\ \A i \in DOMAIN delegate :
       LET x == delegate[i].item
       IN rowOf[x] = i /\ item[x].row = i /\ item[x].shows = rows[i]

\* No item is left on the screen that no table knows, and none is in two of them.
NoStrayItem ==
  /\ DOMAIN item = Mapped(delegate) \cup dying
  /\ Mapped(delegate) \cap dying = {}

\* The running sum and number of the heights known are those of the records.
HeightsCounted ==
  /\ sum = MapThenSumSet(LAMBDA i : layout[i].height, KnownRows(layout))
  /\ count = Cardinality(KnownRows(layout))

\* The view never sleeps with something to do: with no polish due and no timer running,
\* every row that overlaps what the user sees, in the view or in the viewport it was given,
\* has a delegate that is shown, and not "adding" any more.  Left out is only a row for which
\* the last polish tried to make an item and got none: nothing tries again.
Seen == IF custom THEN viewport ELSE [top |-> contentY, bottom |-> contentY + ViewHeight]
InView(at) ==
  at.end > at.top /\ at.top < Seen.bottom /\ at.end > Seen.top /\ Seen.top < Seen.bottom

SleepsWhenDone ==
  component /\ ~polish /\ waiting = {} =>
    /\ \A i \in DOMAIN layout : InView(Relayout(layout)[i]) => i \in DOMAIN delegate \cup refused
    /\ \A i \in DOMAIN delegate : ~delegate[i].pending /\ item[delegate[i].item].ready
                                  /\ ~item[delegate[i].item].adding

\* A binding through itemsDirty and count never holds an item that is destroyed.
BoundItemsExist == {bound[i] : i \in DOMAIN bound} \subseteq Mapped(delegate)

\* A binding through itemsDirty and count has the items of the rows (the comment on
\* itemsDirty: "bind through it to re-run itemAtIndex/itemAt on mapping changes").
BoundFollowsMapping == ~polish => bound = ItemAt(delegate)

\* The comment of effectiveViewport: while there is content, overshoot does not cull it all.
OvershootKeepsDelegates ==
  model /\ component /\ ~custom /\ ~polish /\ LayoutHeight(Relayout(layout)) > 0 /\ refused = {}
    => delegate # <<>>

=============================================================================
