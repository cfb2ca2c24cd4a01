----------------------------- MODULE ModelRows -----------------------------
(***************************************************************************)
(* What QAbstractItemModel's signals say of a list: rows first..last are   *)
(* put in, taken out or moved.  Rows are counted from 1.                    *)
(***************************************************************************)
EXTENDS Integers, SequencesExt

\* new put in, to begin at row at.
Spliced(list, at, new) == SubSeq(list, 1, at - 1) \o new \o SubSeq(list, at, Len(list))

Cut(list, first, last) == SubSeq(list, 1, first - 1) \o SubSeq(list, last + 1, Len(list))

\* Where the block first..last begins when it has moved to row, counted before it left.
Landing(first, last, row) == IF row > first THEN row - (last - first + 1) ELSE row

Moved(list, first, last, row) ==
  Spliced(Cut(list, first, last), Landing(first, last, row), SubSeq(list, first, last))

\* The blocks that can move, and the rows they can move to.
Moves(list) ==
  {m \in (DOMAIN list) \X (DOMAIN list) \X (1 .. Len(list) + 1) :
     m[1] <= m[2] /\ m[3] \notin m[1] .. m[2] + 1}

Reordered(list) == Reverse(list)

\* list without the members that are in out.
Sifted(list, out) ==
  LET kept[i \in 0 .. Len(list)] ==
        IF i = 0 THEN <<>>
        ELSE IF list[i] \in out THEN kept[i - 1] ELSE Append(kept[i - 1], list[i])
  IN kept[Len(list)]

\* A set of numbers, the least first.
Ascending(S) == [k \in 1 .. Cardinality(S) |-> CHOOSE x \in S : Cardinality({y \in S : y < x}) = k - 1]

=============================================================================
