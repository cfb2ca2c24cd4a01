----------------------------- MODULE RingBuffer -----------------------------
(***************************************************************************)
(* util::RingBuffer (plugin/include/util/ringbuffer.hpp): an array of fixed *)
(* capacity, the next write position and how many values are held.  Spans   *)
(* are written and read in at most two runs, split where the array wraps.   *)
(***************************************************************************)
EXTENDS Integers, Sequences

CONSTANTS
  Capacity,
  Values,
  Silence          \* what a fresh array holds, and what pads a window

ASSUME RingAssumption == Capacity \in Nat \ {0} /\ Silence \in Values

Positions == 0..Capacity - 1
Ring == [data : [Positions -> Values], head : Positions, count : 0..Capacity]

Least(m, n) == IF m < n THEN m ELSE n

\* The last n values of a span, or all of them.
Last(span, n) == SubSeq(span, Len(span) - Least(n, Len(span)) + 1, Len(span))

Empty == [data |-> [i \in Positions |-> Silence], head |-> 0, count |-> 0]
Clear(ring) == [ring EXCEPT !.head = 0, !.count = 0]

\* Faulty variant of Push: the span is not split at the end of the array.
PushUnsplit(ring, span) ==
  LET values == Last(span, Capacity)
      n == Len(values)
      firstRun == n
  IN [data |-> [i \in Positions |->
                  IF i \in ring.head..ring.head + firstRun - 1 THEN values[i - ring.head + 1]
                  ELSE IF i < n - firstRun THEN values[firstRun + i + 1]
                  ELSE ring.data[i]],
      head |-> (ring.head + n) % Capacity,
      count |-> Least(ring.count + n, Capacity)]

Push(ring, span) ==
  LET values == Last(span, Capacity)
      n == Len(values)
      firstRun == Least(n, Capacity - ring.head)
  IN [data |-> [i \in Positions |->
                  IF i \in ring.head..ring.head + firstRun - 1 THEN values[i - ring.head + 1]
                  ELSE IF i < n - firstRun THEN values[firstRun + i + 1]
                  ELSE ring.data[i]],
      head |-> (ring.head + n) % Capacity,
      count |-> Least(ring.count + n, Capacity)]

\* The n values from a position on, in two runs.
Runs(ring, start, n) ==
  LET firstRun == Least(n, Capacity - start) IN
  <<[i \in 1..firstRun |-> ring.data[start + i - 1]],
    [i \in 1..n - firstRun |-> ring.data[i - 1]]>>

CopyLatest(ring, size) ==
  LET n == Least(size, ring.count)
      runs == Runs(ring, (ring.head - n + Capacity) % Capacity, n)
  IN runs[1] \o runs[2]

PushTo(ring, other) ==
  LET runs == Runs(ring, (ring.head - ring.count + Capacity) % Capacity, ring.count)
  IN Push(Push(other, runs[1]), runs[2])

\* What the ring holds, oldest first.
Contents(ring) == CopyLatest(ring, Capacity)

=============================================================================
