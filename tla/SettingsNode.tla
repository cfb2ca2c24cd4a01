---------------------------- MODULE SettingsNode ----------------------------
(***************************************************************************)
(* A tree of settings in memory (Settings/objectnode.cpp, node.cpp,        *)
(* listnode.cpp, quarantine.cpp): options and one list of elements with one *)
(* option each, what of it is set by the user or the file, what the file    *)
(* held that the tree cannot use, and what the tree's file would list.      *)
(***************************************************************************)
EXTENDS ModelRows

CONSTANTS
  Options, GlobalOnly,      \* the schema's options, and those of the global layer alone
  Members,                  \* the schema's list
  Foreign,                  \* a key the schema does not know
  Values, Bad,              \* what decodes, and what does not
  Default, DefaultList

ASSUME NodeAssumption ==
  /\ GlobalOnly \subseteq Options
  /\ {Members, Foreign} \cap Options = {} /\ Members # Foreign
  /\ Bad \notin Values \cup Seq(Values)
  /\ Default \in [Options -> Values] /\ DefaultList \in Seq(Values)

Keys == Options \cup {Members, Foreign}
Layers == {"global", "overlay"}

\* val and own are a member and its place in m_overrides, held is m_quarantine; an element
\* has both too, and under an overlay's list that is not its own it follows the global
\* list's element in the same place.
Element == [val : Values, own : BOOLEAN]
Elements(vals, own) == [i \in DOMAIN vals |-> [val |-> vals[i], own |-> own]]
ValuesOf(list) == [i \in DOMAIN list |-> list[i].val]

----------------------------------------------------------------------------
(* To the file and from it.                                                 *)

\* A list is written whole, if it or one of its elements is set.
HasContent(n) == Members \in n.own \/ \E i \in DOMAIN n.list : n.list[i].own

\* What the file would list: overrides, and what was put aside when the file was read.
Json(n) ==
  LET kept == (n.own \cap Options) \cup IF HasContent(n) THEN {Members} ELSE {}
  IN  [k \in kept \cup DOMAIN n.held |->
         IF k \notin kept THEN n.held[k]
         ELSE IF k = Members THEN ValuesOf(n.list) ELSE n.val[k]]

\* An entry of a layer's file that syncJson takes over; the others go to quarantine.
Usable(layer, json, k) ==
  /\ json[k] # Bad /\ k # Foreign
  /\ layer = "overlay" => k \notin GlobalOnly

\* Faulty variant of SyncJson: an entry that cannot be used is forgotten.
SyncForgetting(layer, n, json, below, list) ==
  LET visited == {k \in DOMAIN json : Usable(layer, json, k)}
  IN  [val |-> [k \in Options |->
                  IF k \in visited THEN json[k]
                  ELSE IF layer = "overlay" /\ k \in GlobalOnly THEN n.val[k] ELSE below[k]],
       own |-> visited,
       list |-> IF Members \in visited THEN Elements(json[Members], TRUE) ELSE Elements(list, FALSE),
       held |-> [k \in {} |-> Bad]]

\* syncJson: what the file lists is set, the rest goes back to the layer below, whose
\* options and list are given, but a global-only option of an overlay, which stays.
SyncJson(layer, n, json, below, list) ==
  LET visited == {k \in DOMAIN json : Usable(layer, json, k)}
  IN  [val |-> [k \in Options |->
                  IF k \in visited THEN json[k]
                  ELSE IF layer = "overlay" /\ k \in GlobalOnly THEN n.val[k] ELSE below[k]],
       own |-> visited,
       list |-> IF Members \in visited THEN Elements(json[Members], TRUE) ELSE Elements(list, FALSE),
       held |-> [k \in DOMAIN json \ visited |-> json[k]]]

Forget(held, k) == [x \in DOMAIN held \ {k} |-> held[x]]

----------------------------------------------------------------------------
(* A write and a reset by the user, and whether the file has to be written. *)

Write(n, k, v) ==
  [n EXCEPT !.val[k] = v, !.own = @ \cup {k}, !.held = Forget(@, k)]

ResetTo(n, k, v) ==
  [n EXCEPT !.val[k] = v, !.own = @ \ {k}, !.held = Forget(@, k)]

\* recordWrite: a value changed, an override came or went, or an entry left quarantine.
Recorded(before, after, k) ==
  \/ before.val[k] # after.val[k]
  \/ (k \in before.own) # (k \in after.own)
  \/ k \in DOMAIN before.held

----------------------------------------------------------------------------
(* What the overlay makes of the global layer's changes.                    *)

\* onFallbackNotify, for options.
Mirrored(n, g) ==
  [n EXCEPT !.val = [k \in Options |-> IF k \in n.own \cup GlobalOnly THEN @[k] ELSE g.val[k]]]

\* Rows of the global list that came, went and moved.
Change(added, removed, moved) == [added |-> added, removed |-> removed, moved |-> moved]
Replaced(before, after) ==
  Change([i \in DOMAIN after |-> i], [i \in DOMAIN before |-> i], <<>>)

\* Rows of list taken out one by one, put in one by one as copies of up's, and moved.
CutEach(list, which) ==
  LET cut[k \in 0 .. Len(which)] ==
        IF k = 0 THEN list ELSE Cut(cut[k - 1], which[k], which[k])
  IN cut[Len(which)]
CopyEach(list, which, up) ==
  LET grown[k \in 0 .. Len(which)] ==
        IF k = 0 THEN list
        ELSE Spliced(grown[k - 1], which[k], Elements(<<up[which[k]].val>>, FALSE))
  IN grown[Len(which)]
MoveRow(list, from, to) == Spliced(Cut(list, from, from), to, <<list[from]>>)
MoveEach(list, moves) ==
  LET moved[k \in 0 .. Len(moves)] ==
        IF k = 0 THEN list ELSE MoveRow(moved[k - 1], moves[k][1], moves[k][2])
  IN moved[Len(moves)]

\* Faulty variant of Followed: rows are taken out from the first on.
FollowedForward(list, change, up) ==
  MoveEach(CopyEach(CutEach(list, change.removed), change.added, up), change.moved)

\* onFallbackListNotify: out from the last row on, in from the first on as copies of the
\* global list's elements, then the moves.
Followed(list, change, up) ==
  MoveEach(CopyEach(CutEach(list, Reverse(change.removed)), change.added, up), change.moved)
=============================================================================
