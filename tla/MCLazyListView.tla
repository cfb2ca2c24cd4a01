--------------------------- MODULE MCLazyListView ---------------------------
(* Three rows at most, of which the view shows one or two: a collapsed one and *)
(* two of different height.                                                    *)
EXTENDS LazyListView

CONSTANTS a, b, c

MCHeightOf == (a :> 0) @@ (b :> 2) @@ (c :> 3)
MCViewports == {[top |-> 0, bottom |-> 0], [top |-> 2, bottom |-> 4]}
MCFirstRows == {<<>>, <<b, a, c>>}
=============================================================================
