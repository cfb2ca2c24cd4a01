---------------------------- MODULE LatestValues ----------------------------
(***************************************************************************)
(* What the collector promises with util::RingBuffer: a FIFO of fixed       *)
(* capacity that overwrites its oldest values once full.  Values come in    *)
(* numbered, each once.  They wait until they can be taken in, and are then *)
(* taken in all at once and in their order; nothing leaves but the oldest   *)
(* for want of room, or all that is kept.  What waited when that happened   *)
(* may still be taken in, but is gone once something new comes.             *)
(***************************************************************************)
EXTENDS Naturals, Sequences

CONSTANTS
  Capacity,
  Sizes            \* how many values come in at once

VARIABLES
  kept,
  waiting,         \* came in and was not taken in yet
  stale,           \* what waits was waiting when all was cleared
  came             \* how many came in

Newest(span) ==
  IF Len(span) <= Capacity THEN span ELSE SubSeq(span, Len(span) - Capacity + 1, Len(span))

Arrive(n) ==
  /\ waiting' = Newest((IF stale THEN <<>> ELSE waiting) \o [i \in 1..n |-> came + i])
  /\ stale' = FALSE /\ came' = came + n
  /\ UNCHANGED kept

TakeIn ==
  /\ kept' = Newest(kept \o waiting) /\ waiting' = <<>>
  /\ UNCHANGED <<stale, came>>

Clear ==
  /\ kept' = <<>> /\ stale' = TRUE
  /\ UNCHANGED <<waiting, came>>

Init == kept = <<>> /\ waiting = <<>> /\ stale = FALSE /\ came = 0
Next == Clear \/ TakeIn \/ \E n \in Sizes : Arrive(n)
Spec == Init /\ [][Next]_<<kept, waiting, stale, came>>

=============================================================================
