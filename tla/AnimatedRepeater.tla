-------------------------- MODULE AnimatedRepeater --------------------------
(***************************************************************************)
(* The repeater whose delegates animate (Components/animatedrepeater.cpp):  *)
(* one delegate per row of a number, a list or an item model.  New ones are *)
(* "adding" until the next pass of the event loop, those removed stay for   *)
(* their animation.  A delegate that cannot be made leaves a placeholder.   *)
(*                                                                         *)
(* Rows are counted from 1.  removeDuration does nothing by itself, so that *)
(* each removal may animate or not.  The delegate component is there from   *)
(* the start; its replacement is SetDelegate.                               *)
(***************************************************************************)
EXTENDS ModelRows

CONSTANTS
  Values,                  \* what a row can hold
  Delegates,               \* delegates there can be, as numbers
  MaxCount, MaxFailures, MaxCalls  \* bounds: rows; delegates that fail at once; calls

Placeholder == 0          \* what a row has whose delegate cannot be made
Self == -1                 \* the repeater, among its parent's children

ASSUME RepeaterAssumption ==
  /\ Delegates \subseteq Nat \ {Placeholder} /\ IsFiniteSet(Delegates)
  /\ MaxCount \in Nat /\ MaxFailures \in Nat /\ MaxCalls \in Nat

VARIABLES
  complete,                \* m_componentComplete
  mode,                    \* m_mode
  content,                 \* what the model has now, by row
  items,                   \* m_items
  props,                   \* the properties of the delegates there are
  dyingItems,              \* m_dyingItems, each with its timer
  adds,                    \* m_pendingAdds
  flush,                   \* m_addFlushPending
  stack,                   \* the parent's children, from bottom to top
  told,                    \* the count that a binding read at the last countChanged
  early,                   \* history: that was before the rows were gone
  calls

itemState == <<items, props, dyingItems, adds, flush, stack>>
repeaterVars == <<complete, mode, content, itemState, told, early, calls>>

Call == calls < MaxCalls /\ calls' = calls + 1

LiveItems(list) == {list[i] : i \in DOMAIN list} \ {Placeholder}
Contents == UNION {[1 .. n -> Values] : n \in 0 .. MaxCount}
Numbers == {[i \in 1 .. n |-> i] : n \in 0 .. MaxCount}

----------------------------------------------------------------------------
(* The life of delegates, on the state they are part of.                    *)

State ==
  [ items |-> items, props |-> props, dyingItems |-> dyingItems,
    adds |-> adds, flush |-> flush, stack |-> stack ]

Becomes(v) ==
  /\ items' = v.items /\ props' = v.props /\ dyingItems' = v.dyingItems
  /\ adds' = v.adds /\ flush' = v.flush /\ stack' = v.stack

Tell(count) == told' = count /\ early' = FALSE
TellNothing == UNCHANGED <<told, early>>

\* Faulty variant of Indexed: one row too late.
IndexedAfter(its, list, from) ==
  [x \in DOMAIN its |->
    IF \E i \in DOMAIN list : i > from /\ list[i] = x
    THEN [its[x] EXCEPT !.index = CHOOSE i \in DOMAIN list : list[i] = x] ELSE its[x]]

\* updateIndices
Indexed(its, list, from) ==
  [x \in DOMAIN its |->
    IF \E i \in DOMAIN list : i >= from /\ list[i] = x
    THEN [its[x] EXCEPT !.index = CHOOSE i \in DOMAIN list : list[i] = x] ELSE its[x]]

\* restack: the delegates just before the repeater, in the order of the rows.
Restacked(children, list) ==
  LET live == LiveItems(list)
      others == Sifted(children, live)
      self == CHOOSE i \in DOMAIN others : others[i] = Self
  IN SubSeq(others, 1, self - 1) \o Sifted(list, {Placeholder}) \o SubSeq(others, self, Len(others))

\* insertItems of these rows; those in failed cannot be made.
Inserted(v, first, new, failed, adding) ==
  LET fresh == Ascending(Delegates \ DOMAIN v.props)
      made == [i \in DOMAIN new |-> IF i \in failed THEN Placeholder ELSE fresh[i]]
      list == Spliced(v.items, first, made)
      its == [x \in DOMAIN v.props \cup LiveItems(made) |->
               IF x \in DOMAIN v.props THEN v.props[x]
               ELSE LET i == CHOOSE i \in DOMAIN made : made[i] = x
                    IN [index |-> first + i - 1, shows |-> new[i], adding |-> adding, removing |-> FALSE]]
  IN [ items |-> list, dyingItems |-> v.dyingItems,
       props  |-> Indexed(its, list, first + Len(new)),
       adds  |-> IF adding THEN v.adds \cup LiveItems(made) ELSE v.adds,
       flush |-> v.flush \/ (adding /\ LiveItems(made) # {}),
       stack |-> Restacked(v.stack \o Sifted(made, {Placeholder}), list) ]

Room(v, n) == Cardinality(Delegates \ DOMAIN v.props) >= n
Failures(n) == {f \in SUBSET (1 .. n) : Cardinality(f) <= MaxFailures}

\* removeItems
Removed(v, first, last, animate) ==
  LET out == LiveItems(SubSeq(v.items, first, last))
      list == Cut(v.items, first, last)
      its == [x \in DOMAIN v.props \ (IF animate THEN {} ELSE out) |->
               IF x \in out THEN [v.props[x] EXCEPT !.removing = TRUE] ELSE v.props[x]]
  IN [ items |-> list, props |-> Indexed(its, list, first),
       dyingItems |-> IF animate THEN v.dyingItems \cup out ELSE v.dyingItems,
       adds  |-> v.adds \ out, flush |-> v.flush,
       stack |-> IF animate THEN v.stack ELSE Sifted(v.stack, out) ]

\* clearItems(false)
Cleared(v) == IF v.items = <<>> THEN v ELSE Removed(v, 1, Len(v.items), FALSE)

\* regenerate, for the content of now.
Regenerate ==
  LET n == Len(content')
  IN /\ \/ /\ complete' /\ n > 0
           /\ Room(Cleared(State), n)
           /\ \E failed \in Failures(n) : Becomes(Inserted(Cleared(State), 1, content', failed, FALSE))
        \/ ~(complete' /\ n > 0) /\ Becomes(Cleared(State))
     /\ \/ (items # <<>> \/ (complete' /\ n > 0)) /\ Tell(n)
        \/ ~(items # <<>> \/ (complete' /\ n > 0)) /\ TellNothing

----------------------------------------------------------------------------
(* The model.                                                               *)

\* setModel from a number to a number: the difference, with animations.
Count ==
  /\ complete /\ mode = "count" /\ mode' = "count"
  /\ \/ /\ Len(content') > Len(content)
        /\ LET new == SubSeq(content', Len(content) + 1, Len(content'))
           IN /\ Room(State, Len(new))
              /\ \E failed \in Failures(Len(new)) :
                   Becomes(Inserted(State, Len(content) + 1, new, failed, TRUE))
     \/ /\ Len(content') < Len(content)
        /\ \E animate \in BOOLEAN : Becomes(Removed(State, Len(content') + 1, Len(content), animate))
  /\ Tell(Len(content'))

SetModel(m, c) ==
  /\ Call
  /\ mode' = m /\ content' = c
  /\ <<m, c>> # <<mode, content>> \/ m = "model"
  /\ UNCHANGED complete
  /\ Count \/ (~(complete /\ mode = "count" /\ m = "count") /\ Regenerate)

SetDelegate == Call /\ UNCHANGED <<complete, mode, content>> /\ Regenerate

ComponentComplete ==
  /\ ~complete /\ complete' = TRUE
  /\ UNCHANGED <<mode, content, calls>>
  /\ Regenerate

\* A change of the item model that is the repeater's.
Changed(c) == Call /\ mode = "model" /\ content' = c /\ UNCHANGED <<complete, mode>>
Ignored == ~complete /\ UNCHANGED <<itemState, told, early>>

RowsInserted(first, new) ==
  /\ Changed(Spliced(content, first, new))
  /\ \/ /\ complete /\ Room(State, Len(new))
        /\ \E failed \in Failures(Len(new)) : Becomes(Inserted(State, first, new, failed, TRUE))
        /\ Tell(Len(content'))
     \/ Ignored

\* rowsAboutToBeRemoved: count is told before the rows are gone.
RowsRemoved(first, last) ==
  /\ Changed(Cut(content, first, last))
  /\ \/ /\ complete
        /\ \E animate \in BOOLEAN : Becomes(Removed(State, first, last, animate))
        /\ told' = Len(content) /\ early' = TRUE
     \/ Ignored

\* onRowsMoved
RowsMoved(first, last, row) ==
  LET list == Moved(items, first, last, row)
      to == Landing(first, last, row)
  IN /\ Changed(Moved(content, first, last, row))
     /\ \/ /\ complete
           /\ items' = list
           /\ props' = Indexed(props, list, IF first < to THEN first ELSE to)
           /\ stack' = Restacked(stack, list)
           /\ UNCHANGED <<dyingItems, adds, flush, told, early>>
        \/ Ignored

\* updateItemData of these rows.
Updated(rows) ==
  [x \in DOMAIN props |->
    IF \E i \in rows \cap DOMAIN items : items[i] = x
    THEN LET i == CHOOSE i \in DOMAIN items : items[i] = x
         IN [props[x] EXCEPT !.index = i, !.shows = content'[i]]
    ELSE props[x]]

Refresh(rows) ==
  props' = Updated(rows) /\ UNCHANGED <<items, dyingItems, adds, flush, stack, told, early>>

DataChanged(i, d) == Changed([content EXCEPT ![i] = d]) /\ Refresh({i})
LayoutChanged == Changed(Reordered(content)) /\ Refresh(DOMAIN content)
ModelReset(c) == Changed(c) /\ Regenerate

ModelDestroyed ==
  /\ Call
  /\ mode = "model" /\ mode' = "none" /\ content' = <<>>
  /\ UNCHANGED complete
  /\ Becomes(Cleared(State))
  /\ \/ items # <<>> /\ Tell(0)
     \/ items = <<>> /\ TellNothing

----------------------------------------------------------------------------
(* The event loop and the scene.                                            *)

FlushAdds ==
  /\ flush /\ flush' = FALSE /\ adds' = {}
  /\ props' = [x \in DOMAIN props |->
                IF x \in adds THEN [props[x] EXCEPT !.adding = FALSE] ELSE props[x]]
  /\ UNCHANGED <<complete, mode, content, items, dyingItems, stack, told, early, calls>>

DestroyItem(x) ==
  /\ dyingItems' = dyingItems \ {x}
  /\ props' = [y \in DOMAIN props \ {x} |-> props[y]]
  /\ stack' = Sifted(stack, {x})
  /\ UNCHANGED <<complete, mode, content, items, adds, flush, told, early, calls>>

\* Faulty variant of ParentChanged: the dying ones are left with the parent before.
ParentChangedWithoutDying ==
  /\ Call
  /\ stack' = Restacked(<<Self>> \o Sifted(items, {Placeholder}), items)
  /\ UNCHANGED <<complete, mode, content, items, props, dyingItems, adds, flush, told, early>>

\* itemChange: the delegates follow the repeater to another parent.
ParentChanged ==
  /\ Call
  /\ stack' = Restacked(<<Self>> \o Sifted(items, {Placeholder}) \o Ascending(dyingItems), items)
  /\ UNCHANGED <<complete, mode, content, items, props, dyingItems, adds, flush, told, early>>

----------------------------------------------------------------------------
RepeaterInit ==
  /\ complete = FALSE /\ mode = "none" /\ content = <<>>
  /\ items = <<>> /\ props = <<>> /\ dyingItems = {}
  /\ adds = {} /\ flush = FALSE /\ stack = <<Self>>
  /\ told = 0 /\ early = FALSE /\ calls = 0

ModelSignals ==
  \/ \E first \in 1 .. Len(content) + 1, new \in Contents :
       new # <<>> /\ Len(content) + Len(new) <= MaxCount /\ RowsInserted(first, new)
  \/ \E first \in DOMAIN content : \E last \in first .. Len(content) : RowsRemoved(first, last)
  \/ \E m \in Moves(content) : RowsMoved(m[1], m[2], m[3])
  \/ \E i \in DOMAIN content, d \in Values : DataChanged(i, d)
  \/ LayoutChanged
  \/ \E c \in Contents : ModelReset(c)
  \/ ModelDestroyed

QmlCalls ==
  \/ \E c \in Numbers : SetModel("count", c)
  \/ \E m \in {"list", "model"}, c \in Contents : SetModel(m, c)
  \/ SetModel("none", <<>>)
  \/ SetDelegate \/ ComponentComplete \/ ParentChanged

EventLoop == FlushAdds \/ \E x \in dyingItems : DestroyItem(x)

RepeaterNext == ModelSignals \/ QmlCalls \/ EventLoop

RepeaterSpec == RepeaterInit /\ [][RepeaterNext]_repeaterVars

\* Timers fire; nobody has to change the model.
FairRepeater == RepeaterSpec /\ WF_repeaterVars(EventLoop)

----------------------------------------------------------------------------
(* Properties.                                                              *)

RepeaterTypeOK ==
  /\ complete \in BOOLEAN /\ mode \in {"none", "count", "list", "model"}
  /\ content \in Contents \cup Numbers
  /\ items \in Seq(Delegates \cup {Placeholder})
  /\ DOMAIN props \subseteq Delegates
  /\ \A x \in DOMAIN props :
       props[x] \in [ index : 1 .. MaxCount, shows : Values \cup 1 .. MaxCount,
                      adding : BOOLEAN, removing : BOOLEAN ]
  /\ dyingItems \subseteq DOMAIN props /\ adds \subseteq Delegates /\ flush \in BOOLEAN
  /\ stack \in Seq(Delegates \cup {Self})
  /\ told \in 0 .. MaxCount /\ early \in BOOLEAN /\ calls \in 0 .. MaxCalls

\* There is a delegate or a placeholder per row, and each delegate has the index and the
\* data of its row, whatever kinds of model followed each other and however they changed.
ItemsFollowModel ==
  complete =>
    /\ Len(items) = Len(content)
    /\ \A i \in DOMAIN items : items[i] # Placeholder =>
         props[items[i]].index = i /\ props[items[i]].shows = content[i]

\* The flush of new delegates touches none that is gone or going, and is under way as long
\* as one is "adding" (m_pendingAdds is a list of bare pointers).
AddsAreLive ==
  /\ adds \subseteq LiveItems(items)
  /\ \A x \in LiveItems(items) : props[x].adding => x \in adds
  /\ adds # {} => flush

\* A delegate is in m_items or dying, never both, and stays among its parent's children
\* for exactly as long; only what animates away is "removing".
NoneLeftBehind ==
  /\ DOMAIN props = LiveItems(items) \cup dyingItems /\ LiveItems(items) \cap dyingItems = {}
  /\ {stack[i] : i \in DOMAIN stack} = DOMAIN props \cup {Self}
  /\ Len(stack) = Cardinality(DOMAIN props) + 1
  /\ \A x \in DOMAIN props : props[x].removing <=> x \in dyingItems

\* The stacking order of the delegates is the order of the rows, below the repeater (the
\* comment on restack).
StackedInOrder ==
  LET live == Sifted(stack, dyingItems)
  IN live = Sifted(items, {Placeholder}) \o <<Self>>

\* Nothing that a model leaves behind fades into the rows of the next one: what is cleared
\* for a change of the model, of its kind or of the delegate has no animation ("Full
\* rebuild with no animations, used when the model identity or delegate changes").
RebuildsAtOnce ==
  [][dyingItems' \ dyingItems # {} =>
       mode' = mode /\ mode \in {"count", "model"} /\ Len(content') < Len(content)]_repeaterVars

\* A binding on count is right, except after rows of an item model were removed, when
\* countChanged comes while they are still there.
CountIsTold == complete /\ ~early => told = Len(content)

\* Enter and remove animations end.
RepeaterSettles == <>[](dyingItems = {} /\ ~flush /\ \A x \in DOMAIN props : ~props[x].adding)

=============================================================================
