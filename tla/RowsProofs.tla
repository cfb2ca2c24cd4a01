----------------------------- MODULE RowsProofs -----------------------------
(***************************************************************************)
(* Proofs for the three components that keep a list of rows in step with    *)
(* something else.                                                          *)
(*                                                                         *)
(* The file system model: with any number of files, scans in flight, calls  *)
(* and changes, no file gets two rows, what m_futures holds can always be   *)
(* cancelled with effect, and a model that is not recursive shows, at rest, *)
(* the directory as it is.                                                  *)
(*                                                                         *)
(* The animated repeater: with any number of delegates, rows, failures and  *)
(* calls, the rows follow the model and no delegate is left behind.         *)
(*                                                                         *)
(* The lazy list: with any number of rows, items and steps, and delegates   *)
(* created and destroyed in any batches, its tables follow the model and no *)
(* binding holds an item that is gone.                                      *)
(***************************************************************************)
EXTENDS FileSystemModel, AnimatedRepeater, LazyListView, SequenceTheorems, FiniteSetTheorems,
        WellFoundedInduction, TLAPS

\* The main thread is told of no scan twice.
PostedOnce == \A i, j \in DOMAIN posted : posted[i] = posted[j] => i = j

\* While a difference is applied, the entries still to place, those of the batch and
\* those in the rows are different files.
BatchApart ==
  /\ start <= Len(entries)
  /\ \A i, j \in DOMAIN batch : batch[i] = batch[j] => i = j
  /\ \A i \in DOMAIN batch, j \in DOMAIN entries : batch[i] # entries[j]
  /\ phase # "insert" => batch = <<>> /\ start = 0
AddingApart ==
  phase = "insert" =>
    /\ \A i \in DOMAIN batch : batch[i] \notin adding
    /\ \A i \in DOMAIN entries : entries[i] \notin adding

\* FuturesAreLive and RowsOnce with what makes them inductive.
ScansPart == ScansTyped /\ FuturesAreLive /\ PostedOnce
RowsPart == RowsTyped /\ ApplyTyped /\ RowsOnce /\ BatchApart /\ AddingApart
WatchPart == WatchTyped /\ WatchesOwnTree
IInv == OptionsTyped /\ WatchPart /\ BoundsTyped /\ ScansPart /\ RowsPart

----------------------------------------------------------------------------
(* Sequences.                                                               *)

\* Three sequences in a row: what each place of the result holds.
LEMMA Concat3 ==
  ASSUME NEW S, NEW p \in Seq(S), NEW b \in Seq(S), NEW q \in Seq(S)
  PROVE  /\ (p \o b) \o q \in Seq(S)
         /\ Len((p \o b) \o q) = Len(p) + Len(b) + Len(q)
         /\ \A i \in DOMAIN ((p \o b) \o q) : i <= Len(p) => ((p \o b) \o q)[i] = p[i]
         /\ \A i \in DOMAIN ((p \o b) \o q) : i > Len(p) /\ i <= Len(p) + Len(b) => ((p \o b) \o q)[i] = b[i - Len(p)]
         /\ \A i \in DOMAIN ((p \o b) \o q) : i > Len(p) + Len(b) => ((p \o b) \o q)[i] = q[i - (Len(p) + Len(b))]
<1>1. p \o b \in Seq(S) /\ Len(p \o b) = Len(p) + Len(b)
  OBVIOUS
<1>2. (p \o b) \o q \in Seq(S) /\ Len((p \o b) \o q) = Len(p) + Len(b) + Len(q)
  BY <1>1
<1>3. ASSUME NEW i \in DOMAIN ((p \o b) \o q), i <= Len(p) PROVE ((p \o b) \o q)[i] = p[i]
  BY <1>1, <1>2, <1>3
<1>4. ASSUME NEW i \in DOMAIN ((p \o b) \o q), i > Len(p), i <= Len(p) + Len(b) PROVE ((p \o b) \o q)[i] = b[i - Len(p)]
  BY <1>1, <1>2, <1>4
<1>5. ASSUME NEW i \in DOMAIN ((p \o b) \o q), i > Len(p) + Len(b) PROVE ((p \o b) \o q)[i] = q[i - (Len(p) + Len(b))]
  BY <1>1, <1>2, <1>5
<1> QED
  BY <1>2, <1>3, <1>4, <1>5

Joined(a, b, k) == SubSeq(a, 1, k) \o b \o SubSeq(a, k + 1, Len(a))

\* A batch inserted behind row k of the rows.
LEMMA SpliceAt ==
  ASSUME NEW S, NEW a \in Seq(S), NEW b \in Seq(S), NEW k \in 0 .. Len(a)
  PROVE  /\ Joined(a, b, k) \in Seq(S) /\ Len(Joined(a, b, k)) = Len(a) + Len(b)
         /\ \A i \in DOMAIN Joined(a, b, k) : i <= k => i \in DOMAIN a /\ Joined(a, b, k)[i] = a[i]
         /\ \A i \in DOMAIN Joined(a, b, k) : i > k /\ i <= k + Len(b) => i - k \in DOMAIN b /\ Joined(a, b, k)[i] = b[i - k]
         /\ \A i \in DOMAIN Joined(a, b, k) : i > k + Len(b) => i - Len(b) \in DOMAIN a /\ Joined(a, b, k)[i] = a[i - Len(b)]
<1> DEFINE p == SubSeq(a, 1, k)  q == SubSeq(a, k + 1, Len(a))
<1>1. p \in Seq(S) /\ Len(p) = k /\ \A i \in 1 .. k : p[i] = a[i]
  OBVIOUS
<1>2. q \in Seq(S) /\ Len(q) = Len(a) - k /\ \A i \in 1 .. Len(a) - k : q[i] = a[k + i]
  OBVIOUS
<1>3. Joined(a, b, k) = (p \o b) \o q
  BY DEF Joined
<1> HIDE DEF p, q
<1>4. Joined(a, b, k) \in Seq(S)
  BY <1>1, <1>2, <1>3, Concat3
<1>5. Len(Joined(a, b, k)) = Len(a) + Len(b)
  <2>1. Len((p \o b) \o q) = Len(p) + Len(b) + Len(q)
    <3>1. p \in Seq(S) /\ q \in Seq(S)
      BY <1>1, <1>2
    <3> QED
      BY <3>1, Concat3
  <2>2. Len(a) \in Nat /\ Len(b) \in Nat /\ k \in Nat
    OBVIOUS
  <2>3. Len(p) = k /\ Len(q) = Len(a) - k
    BY <1>1, <1>2
  <2>4. k + Len(b) + (Len(a) - k) = Len(a) + Len(b)
    BY <2>2
  <2> QED
    BY <1>3, <2>1, <2>3, <2>4
<1>6. ASSUME NEW i \in DOMAIN Joined(a, b, k), i <= k  PROVE i \in DOMAIN a /\ Joined(a, b, k)[i] = a[i]
  <2>1. i \in 1 .. k
    BY <1>4, <1>6
  <2>2. Joined(a, b, k)[i] = p[i]
    BY <1>1, <1>2, <1>3, <1>6, Concat3
  <2> QED
    BY <1>1, <2>1, <2>2
<1>7. ASSUME NEW i \in DOMAIN Joined(a, b, k), i > k, i <= k + Len(b)  PROVE i - k \in DOMAIN b /\ Joined(a, b, k)[i] = b[i - k]
  <2>1. Joined(a, b, k)[i] = b[i - k]
    BY <1>1, <1>2, <1>3, <1>7, Concat3
  <2> QED
    BY <1>4, <1>7, <2>1
<1>8. ASSUME NEW i \in DOMAIN Joined(a, b, k), i > k + Len(b)
      PROVE  i - Len(b) \in DOMAIN a /\ Joined(a, b, k)[i] = a[i - Len(b)]
  <2>1. Joined(a, b, k)[i] = q[i - (k + Len(b))]
    BY <1>1, <1>2, <1>3, <1>8, Concat3
  <2>2. i - (k + Len(b)) \in 1 .. Len(a) - k
    BY <1>4, <1>5, <1>8
  <2>3. q[i - (k + Len(b))] = a[k + (i - (k + Len(b)))]
    BY <1>2, <2>2
  <2>4. i \in Int /\ Len(b) \in Nat /\ Len(a) \in Nat
    BY <1>4
  <2>5. k + (i - (k + Len(b))) = i - Len(b) /\ i - Len(b) \in 1 .. Len(a)
    BY <2>2, <2>4
  <2> QED
    BY <2>1, <2>3, <2>5
<1> QED
  BY <1>4, <1>5, <1>6, <1>7, <1>8

\* A row taken out: the rest keep their order.
LEMMA CutAt ==
  ASSUME NEW S, NEW a \in Seq(S), NEW k \in DOMAIN a
  PROVE  /\ RemoveAt(a, k) \in Seq(S) /\ Len(RemoveAt(a, k)) = Len(a) - 1
         /\ \A i \in DOMAIN RemoveAt(a, k) : i < k => i \in DOMAIN a /\ RemoveAt(a, k)[i] = a[i]
         /\ \A i \in DOMAIN RemoveAt(a, k) :
              i >= k => i + 1 \in DOMAIN a /\ RemoveAt(a, k)[i] = a[i + 1]
<1> DEFINE p == SubSeq(a, 1, k - 1)  q == SubSeq(a, k + 1, Len(a))
<1>1. p \in Seq(S) /\ Len(p) = k - 1 /\ \A i \in 1 .. k - 1 : p[i] = a[i]
  OBVIOUS
<1>2. q \in Seq(S) /\ Len(q) = Len(a) - k /\ \A i \in 1 .. Len(a) - k : q[i] = a[k + i]
  OBVIOUS
<1>3. RemoveAt(a, k) = p \o q
  BY DEF RemoveAt
<1> HIDE DEF p, q
<1>4. RemoveAt(a, k) \in Seq(S)
  BY <1>1, <1>2, <1>3
<1>5. Len(RemoveAt(a, k)) = Len(a) - 1
  BY <1>1, <1>2, <1>3
<1>6. ASSUME NEW i \in DOMAIN RemoveAt(a, k), i < k
      PROVE  i \in DOMAIN a /\ RemoveAt(a, k)[i] = a[i]
  <2>1. i \in 1 .. k - 1
    BY <1>4, <1>6
  <2> QED
    BY <1>1, <1>2, <1>3, <2>1
<1>7. ASSUME NEW i \in DOMAIN RemoveAt(a, k), i >= k
      PROVE  i + 1 \in DOMAIN a /\ RemoveAt(a, k)[i] = a[i + 1]
  <2>1. i - (k - 1) \in 1 .. Len(a) - k
    BY <1>4, <1>5, <1>7
  <2>2. RemoveAt(a, k)[i] = q[i - (k - 1)]
    BY <1>1, <1>2, <1>3, <1>7, <2>1, SMTT(30)
  <2>3. q[i - (k - 1)] = a[k + (i - (k - 1))]
    BY <1>2, <2>1
  <2>4. i \in Int /\ k \in Int
    BY <1>4
  <2>5. k + (i - (k - 1)) = i + 1 /\ i + 1 \in 1 .. Len(a)
    BY <2>1, <2>4
  <2> QED
    BY <2>2, <2>3, <2>5
<1> QED
  BY <1>4, <1>5, <1>6, <1>7

\* Rows and batch joined are the rows and the batch.
LEMMA SpliceRange ==
  ASSUME NEW S, NEW a \in Seq(S), NEW b \in Seq(S), NEW k \in 0 .. Len(a)
  PROVE  Range(Joined(a, b, k)) = Range(a) \cup Range(b)
<1>. DEFINE J == Joined(a, b, k)  n == Len(b)
<1>1. n \in Nat /\ Len(a) \in Nat /\ k \in Nat /\ k <= Len(a)
  OBVIOUS
<1>2. J \in Seq(S) /\ Len(J) = Len(a) + n
  BY SpliceAt, Zenon
<1>3. \A i \in DOMAIN J : i <= k => i \in DOMAIN a /\ J[i] = a[i]
  BY SpliceAt
<1>4. \A i \in DOMAIN J : i > k /\ i <= k + n => i - k \in DOMAIN b /\ J[i] = b[i - k]
  BY SpliceAt
<1>5. \A i \in DOMAIN J : i > k + n => i - n \in DOMAIN a /\ J[i] = a[i - n]
  BY SpliceAt
<1>. HIDE DEF J, n
<1>6. ASSUME NEW i \in DOMAIN J PROVE J[i] \in Range(a) \cup Range(b)
  <2>1. i <= k \/ (i > k /\ i <= k + n) \/ i > k + n
    BY <1>1, <1>2
  <2>. QED
    BY <1>3, <1>4, <1>5, <2>1 DEF Range
<1>7. ASSUME NEW i \in DOMAIN a PROVE a[i] \in Range(J)
  <2>1. i \in 1 .. Len(a)
    OBVIOUS
  <2>2. CASE i <= k
    <3>1. i \in DOMAIN J
      BY <1>1, <1>2, <2>1
    <3>. QED
      BY <1>3, <1>4, <1>5, <2>2, <3>1 DEF Range
  <2>3. CASE i > k
    <3>1. i + n \in DOMAIN J /\ i + n > k + n /\ (i + n) - n = i
      BY <1>1, <1>2, <2>1, <2>3
    <3>. QED
      BY <1>3, <1>4, <1>5, <3>1 DEF Range
  <2>. QED
    BY <1>1, <1>2, <2>1, <2>2, <2>3
<1>8. ASSUME NEW i \in DOMAIN b PROVE b[i] \in Range(J)
  <2>1. i \in 1 .. n
    BY DEF n
  <2>2. i + k \in DOMAIN J /\ i + k > k /\ i + k <= k + n /\ (i + k) - k = i
    BY <1>1, <1>2, <2>1
  <2>. QED
    BY <1>3, <1>4, <1>5, <2>2 DEF Range
<1>. QED
  BY <1>6, <1>7, <1>8 DEF Range, J

\* A row taken out leaves every other file its row.
LEMMA CutRange ==
  ASSUME NEW S, NEW a \in Seq(S), NEW k \in DOMAIN a
  PROVE  /\ Range(RemoveAt(a, k)) \subseteq Range(a)
         /\ Range(a) \subseteq Range(RemoveAt(a, k)) \cup {a[k]}
<1>. DEFINE C == RemoveAt(a, k)
<1>1. C \in Seq(S) /\ Len(C) = Len(a) - 1 /\ Len(a) \in Nat /\ k \in 1 .. Len(a)
  BY CutAt
<1>2. /\ \A i \in DOMAIN C : i < k => i \in DOMAIN a /\ C[i] = a[i]
      /\ \A i \in DOMAIN C : i >= k => i + 1 \in DOMAIN a /\ C[i] = a[i + 1]
  BY CutAt
<1>. HIDE DEF C
<1>3. ASSUME NEW i \in DOMAIN C PROVE C[i] \in Range(a)
  <2>1. i < k \/ i >= k
    BY <1>1
  <2>. QED
    BY <1>2, <2>1 DEF Range
<1>4. ASSUME NEW i \in DOMAIN a, i # k PROVE a[i] \in Range(C)
  <2>1. i \in 1 .. Len(a)
    OBVIOUS
  <2>2. CASE i < k
    <3>1. i \in DOMAIN C
      BY <1>1, <2>1, <2>2
    <3>. QED
      BY <1>2, <2>2, <3>1 DEF Range
  <2>3. CASE i > k
    <3>1. i - 1 \in DOMAIN C /\ i - 1 >= k /\ (i - 1) + 1 = i
      BY <1>1, <2>1, <2>3
    <3>. QED
      BY <1>2, <3>1 DEF Range
  <2>. QED
    BY <1>1, <1>4, <2>1, <2>2, <2>3
<1>. QED
  BY <1>3, <1>4 DEF Range, C

----------------------------------------------------------------------------
(* What an action leaves alone.                                             *)

LEMMA ScansKept == ScansPart /\ UNCHANGED scanning => ScansPart'
BY DEF ScansPart, ScansTyped, FuturesAreLive, PostedOnce, scanning, InFlight

LEMMA RowsKept == RowsPart /\ UNCHANGED <<disk, entries, applying>> => RowsPart'
BY DEF RowsPart, RowsTyped, ApplyTyped, RowsOnce, BatchApart, AddingApart, applying

LEMMA WatchKept == WatchPart /\ UNCHANGED <<watching, path>> => WatchPart'
BY DEF WatchPart, WatchTyped, WatchesOwnTree, watching

LEMMA OptionsKept == OptionsTyped /\ UNCHANGED options => OptionsTyped'
BY DEF OptionsTyped, options

LEMMA BoundsKept == BoundsTyped /\ UNCHANGED bounds => BoundsTyped'
BY DEF BoundsTyped, bounds

----------------------------------------------------------------------------
(* Scans that begin, and scans whose result comes.                          *)

\* The scan that begins, and what becomes of the others.
LEMMA Started ==
  ASSUME ScansPart, RowsTyped, NEW d \in Dirs, NEW which, StartScan(d, which),
         path' \in Dirs \cup {NoPath}, recursive' \in BOOLEAN, showHidden' \in BOOLEAN
  PROVE  \E s \in Slots :
           /\ s \notin InFlight /\ s = (CHOOSE r \in DOMAIN scan' : r \notin InFlight)
           /\ DOMAIN scan' = InFlight \cup {s} /\ scan' \in [InFlight \cup {s} -> Scan]
           /\ scan'[s].dir = d /\ ~scan'[s].cancelled
           /\ \A r \in InFlight : scan'[r].dir = scan[r].dir
           /\ \A r \in InFlight \ which : scan'[r].cancelled = scan[r].cancelled
           /\ overlapped' \in BOOLEAN
<1> DEFINE New == [dir |-> d, hidden |-> showHidden', cancelled |-> FALSE,
                   old |-> {f \in Range(entries) : d = path' \/ f \in Under(d)},
                   todo |-> IF recursive' /\ d = Root THEN Dirs ELSE {d}, found |-> {}]
<1>1. PICK s \in Slots \ InFlight :
        /\ scan' = [r \in InFlight \cup {s} |-> IF r = s THEN New ELSE Cancelled(scan, which)[r]]
        /\ overlapped' = (overlapped \/ Live(scan) \ which # {})
  BY DEF StartScan
<1>2. New \in Scan /\ New.dir = d /\ ~New.cancelled
  <2>1. {f \in Range(entries) : d = path' \/ f \in Under(d)} \subseteq Files
    BY DEF RowsTyped, Range
  <2>2. (IF recursive' /\ d = Root THEN Dirs ELSE {d}) \subseteq Dirs
    OBVIOUS
  <2> QED
    BY <2>1, <2>2 DEF Scan
<1> HIDE DEF New
<1>3. \A r \in InFlight : /\ Cancelled(scan, which)[r] \in Scan
                          /\ Cancelled(scan, which)[r].dir = scan[r].dir
                          /\ r \notin which => Cancelled(scan, which)[r].cancelled = scan[r].cancelled
  BY DEF ScansPart, ScansTyped, Cancelled, Scan, InFlight
<1>4. DOMAIN scan' = InFlight \cup {s} /\ scan' \in [InFlight \cup {s} -> Scan]
  BY <1>1, <1>2, <1>3
<1>5. scan'[s] = New /\ \A r \in InFlight : scan'[r] = Cancelled(scan, which)[r]
  BY <1>1
<1>6. s = (CHOOSE r \in DOMAIN scan' : r \notin InFlight)
  BY <1>1, <1>4
<1>7. overlapped' \in BOOLEAN
  BY <1>1 DEF ScansPart, ScansTyped
<1> QED
  BY <1>1, <1>2, <1>3, <1>4, <1>5, <1>6, <1>7

LEMMA Wider == ASSUME NEW S, NEW T, S \subseteq T, NEW q \in Seq(S)  PROVE q \in Seq(T)
OBVIOUS

LEMMA Narrower ==
  ASSUME NEW S, NEW q \in Seq(S), NEW T, \A i \in DOMAIN q : q[i] \in T  PROVE q \in Seq(T)
OBVIOUS

\* update() cancels every scan m_futures knows, and m_futures forgets all but the new one.
LEMMA UpdateScans ==
  ASSUME ScansPart, RowsTyped, OptionsTyped', Update
  PROVE  ScansPart'
<1>1. CASE UNCHANGED <<scan, futures, overlapped>>
  <2>1. UNCHANGED scanning
    BY <1>1 DEF Update, scanning
  <2> QED
    BY <2>1, ScansKept
<1>2. CASE /\ path' # NoPath /\ StartScan(path', {futures[d] : d \in Dirs})
           /\ futures' = [d \in Dirs |-> IF d = path' THEN CHOOSE s \in DOMAIN scan' : s \notin InFlight
                                          ELSE None]
  <2>1. path' \in Dirs /\ recursive' \in BOOLEAN /\ showHidden' \in BOOLEAN
    BY <1>2 DEF OptionsTyped
  <2>2. PICK s \in Slots :
          /\ s \notin InFlight /\ s = (CHOOSE r \in DOMAIN scan' : r \notin InFlight)
          /\ DOMAIN scan' = InFlight \cup {s} /\ scan' \in [InFlight \cup {s} -> Scan]
          /\ scan'[s].dir = path' /\ ~scan'[s].cancelled
          /\ overlapped' \in BOOLEAN
    BY <1>2, <2>1, Started
  <2>3. futures' = [d \in Dirs |-> IF d = path' THEN s ELSE None]
    BY <1>2, <2>2
  <2>4. posted' = posted /\ posted \in Seq(InFlight)
    BY DEF Update, ScansPart, ScansTyped
  <2>5. posted' \in Seq(DOMAIN scan')
    BY <2>2, <2>4, Wider
  <2>6. ScansTyped'
    BY <2>2, <2>3, <2>5 DEF ScansTyped, ScansPart, InFlight
  <2>7. FuturesAreLive'
    BY <2>2, <2>3 DEF FuturesAreLive, InFlight
  <2>8. PostedOnce'
    BY <2>4 DEF PostedOnce, ScansPart
  <2> QED
    BY <2>6, <2>7, <2>8 DEF ScansPart
<1> QED
  BY <1>1, <1>2 DEF Update

\* A setter's update(): the rows go with an empty path, and stay otherwise.
LEMMA UpdateRows ==
  ASSUME RowsPart, phase = "idle", Update
  PROVE  RowsPart'
<1>1. CASE UNCHANGED entries
  BY <1>1, RowsKept DEF Update
<1>2. CASE entries' = <<>>
  <2>1. disk' = disk /\ UNCHANGED applying
    BY DEF Update
  <2>2. RowsTyped' /\ ApplyTyped'
    BY <1>2, <2>1 DEF RowsPart, RowsTyped, ApplyTyped, applying
  <2>3. RowsOnce'
    BY <1>2 DEF RowsOnce
  <2>4. BatchApart'
    <3>1. start' = 0 /\ batch' = <<>> /\ Len(<<>>) = 0
      BY <2>1 DEF RowsPart, BatchApart, applying
    <3> QED
      BY <1>2, <3>1 DEF BatchApart
  <2>5. AddingApart'
    BY <2>1 DEF AddingApart, applying
  <2> QED
    BY <2>2, <2>3, <2>4, <2>5 DEF RowsPart
<1> QED
  BY <1>1, <1>2 DEF Update

LEMMA UpdateWatch ==
  ASSUME WatchPart, OptionsTyped', UpdateWatcher
  PROVE  WatchPart'
<1>1. watched' \subseteq Dirs /\ changed' = {}
  BY DEF UpdateWatcher, OptionsTyped
<1>2. watched' # {} => Lookups(path') \subseteq [of : Dirs, hidden : BOOLEAN]
  BY DEF UpdateWatcher, OptionsTyped, Lookups
<1> QED
  BY <1>1, <1>2 DEF UpdateWatcher, WatchPart, WatchTyped, WatchesOwnTree

LEMMA SetterKeeps ==
  ASSUME IInv, Set, OptionsTyped', Update
  PROVE  IInv'
<1>1. ScansPart'
  BY UpdateScans DEF IInv, RowsPart
<1>2. RowsPart'
  BY UpdateRows DEF IInv, Set
<1>3. WatchPart'
  BY UpdateWatch DEF IInv, Update
<1>4. BoundsTyped'
  BY FilesAssumption DEF IInv, BoundsTyped, Set, Update
<1> QED
  BY <1>1, <1>2, <1>3, <1>4 DEF IInv

\* A directory's new scan cancels the one of the same directory alone.
LEMMA DirectoryChangedKeeps ==
  ASSUME IInv, NEW d \in Dirs, DirectoryChanged(d)
  PROVE  IInv'
<1>1. OptionsTyped' /\ BoundsTyped' /\ RowsPart'
  BY OptionsKept, BoundsKept, RowsKept DEF IInv, DirectoryChanged
<1>2. WatchPart'
  <2>1. path' = path /\ path \in Dirs
    BY DEF IInv, OptionsTyped, WatchPart, WatchTyped, WatchesOwnTree, DirectoryChanged, options
  <2>2. Lookups(d) \subseteq [of : Dirs, hidden : BOOLEAN]
    BY <1>1, <2>1 DEF Lookups, OptionsTyped
  <2> QED
    BY <2>1, <2>2 DEF IInv, WatchPart, WatchTyped, WatchesOwnTree, DirectoryChanged
<1>3. PICK s \in Slots :
        /\ s \notin InFlight /\ s = (CHOOSE r \in DOMAIN scan' : r \notin InFlight)
        /\ DOMAIN scan' = InFlight \cup {s} /\ scan' \in [InFlight \cup {s} -> Scan]
        /\ scan'[s].dir = d /\ ~scan'[s].cancelled
        /\ \A r \in InFlight : scan'[r].dir = scan[r].dir
        /\ \A r \in InFlight \ {futures[d]} : scan'[r].cancelled = scan[r].cancelled
        /\ overlapped' \in BOOLEAN
  BY <1>1, Started DEF IInv, RowsPart, OptionsTyped, DirectoryChanged
<1>4. futures' = [futures EXCEPT ![d] = s]
  BY <1>3 DEF DirectoryChanged
<1>5. posted' = posted /\ posted' \in Seq(DOMAIN scan')
  BY <1>3, Wider DEF DirectoryChanged, IInv, ScansPart, ScansTyped
<1>6. ScansTyped'
  BY <1>3, <1>4, <1>5 DEF IInv, ScansPart, ScansTyped, InFlight
<1>7. FuturesAreLive'
  <2> SUFFICES ASSUME NEW e \in Dirs, futures'[e] # None
               PROVE  /\ futures'[e] \in DOMAIN scan' /\ scan'[futures'[e]].dir = e
                      /\ ~scan'[futures'[e]].cancelled
    BY DEF FuturesAreLive, InFlight
  <2>1. CASE e = d
    BY <1>3, <1>4, <2>1 DEF IInv, ScansPart, ScansTyped
  <2>2. CASE e # d
    <3>1. futures'[e] = futures[e]
      BY <1>4, <2>2 DEF IInv, ScansPart, ScansTyped
    <3>2. futures[e] \in InFlight /\ scan[futures[e]].dir = e /\ ~scan[futures[e]].cancelled
      BY <3>1 DEF IInv, ScansPart, FuturesAreLive
    <3>3. futures[e] # futures[d]
      BY <2>2, <3>1, <3>2 DEF IInv, ScansPart, FuturesAreLive
    <3> QED
      BY <1>3, <3>1, <3>2, <3>3
  <2> QED
    BY <2>1, <2>2
<1>8. PostedOnce'
  BY <1>5 DEF IInv, ScansPart, PostedOnce
<1> QED
  BY <1>1, <1>2, <1>6, <1>7, <1>8 DEF IInv, ScansPart

LEMMA AddWatchesKeeps == ASSUME IInv, AddWatches  PROVE IInv'
<1>1. OptionsTyped' /\ BoundsTyped' /\ RowsPart' /\ ScansPart'
  BY OptionsKept, BoundsKept, RowsKept, ScansKept DEF IInv, AddWatches
<1>2. PICK l \in lookups :
        /\ lookups' = lookups \ {l}
        /\ watched' = IF l.of = path /\ l.hidden = showHidden THEN watched \cup {Sub} ELSE watched
  BY DEF AddWatches
<1>3. l.of \in Dirs /\ path' = path /\ changed' = changed
  BY DEF IInv, WatchPart, WatchTyped, AddWatches, options
<1>4. watched' = watched \/ (watched' = watched \cup {Sub} /\ path \in Dirs)
  BY <1>2, <1>3
<1>5. WatchTyped'
  BY <1>2, <1>3, <1>4 DEF IInv, WatchPart, WatchTyped, Dirs
<1>6. WatchesOwnTree'
  BY <1>3, <1>4 DEF IInv, WatchPart, WatchesOwnTree, NoPath, Dirs, Root, Sub
<1> QED
  BY <1>1, <1>5, <1>6 DEF IInv, WatchPart

LEMMA ListDirKeeps == ASSUME IInv, NEW s \in InFlight, ListDir(s)  PROVE IInv'
<1>1. OptionsTyped' /\ BoundsTyped' /\ RowsPart' /\ WatchPart'
  BY OptionsKept, BoundsKept, RowsKept, WatchKept DEF IInv, ListDir, options
<1>2. PICK d \in scan[s].todo :
        scan' = [scan EXCEPT ![s].todo = @ \ {d}, ![s].found = @ \cup Listed(d, scan[s].hidden)]
  BY DEF ListDir
<1>3. Listed(d, scan[s].hidden) \subseteq Files
  BY DEF Listed, IInv, RowsPart, RowsTyped
<1>4. /\ scan' \in [InFlight -> Scan] /\ DOMAIN scan' = InFlight
      /\ \A r \in InFlight : scan'[r].dir = scan[r].dir /\ scan'[r].cancelled = scan[r].cancelled
  BY <1>2, <1>3, ZenonT(60) DEF IInv, ScansPart, ScansTyped, Scan
<1>5. UNCHANGED <<futures, posted, overlapped>>
  BY DEF ListDir
<1>6. ScansPart'
  BY <1>4, <1>5 DEF IInv, ScansPart, ScansTyped, FuturesAreLive, PostedOnce, InFlight
<1> QED
  BY <1>1, <1>6 DEF IInv

LEMMA EndScanKeeps == ASSUME IInv, NEW s \in InFlight, EndScan(s)  PROVE IInv'
<1>1. OptionsTyped' /\ BoundsTyped' /\ RowsPart' /\ WatchPart'
  BY OptionsKept, BoundsKept, RowsKept, WatchKept DEF IInv, EndScan, options
<1>2. UNCHANGED <<scan, futures, overlapped>> /\ posted' = Append(posted, s) /\ s \notin Range(posted)
  BY DEF EndScan
<1>3. posted \in Seq(InFlight)
  BY DEF IInv, ScansPart, ScansTyped
<1>4. posted' \in Seq(InFlight)
  BY <1>2, <1>3
<1>5. PostedOnce'
  BY <1>2, <1>3 DEF IInv, ScansPart, PostedOnce, Range
<1>6. ScansTyped' /\ FuturesAreLive'
  BY <1>2, <1>4 DEF IInv, ScansPart, ScansTyped, FuturesAreLive, InFlight
<1> QED
  BY <1>1, <1>5, <1>6 DEF IInv, ScansPart

LEMMA DeliverKeeps == ASSUME IInv, Deliver  PROVE IInv'
<1> DEFINE s == Head(posted)
<1>1. OptionsTyped' /\ BoundsTyped' /\ WatchPart'
  BY OptionsKept, BoundsKept, WatchKept DEF IInv, Deliver, options
<1>2. posted \in Seq(InFlight) /\ posted # <<>> /\ scan \in [InFlight -> Scan]
  BY DEF IInv, ScansPart, ScansTyped, Deliver
<1>3. s \in InFlight /\ s = posted[1]
  BY <1>2
<1>4. /\ scan' = [r \in InFlight \ {s} |-> scan[r]] /\ posted' = Tail(posted)
      /\ futures' = [futures EXCEPT ![scan[s].dir] = None] /\ overlapped' = overlapped
  BY DEF Deliver, Without
<1>5. \A i \in DOMAIN posted' : i + 1 \in DOMAIN posted /\ posted'[i] = posted[i + 1]
  BY <1>2, <1>4
<1>6. ScansPart'
  <2>1. posted' \in Seq(InFlight \ {s})
    <3>1. posted' \in Seq(InFlight)
      BY <1>2, <1>4
    <3>2. \A i \in DOMAIN posted' : posted'[i] \in InFlight \ {s}
      <4> SUFFICES ASSUME NEW i \in DOMAIN posted'  PROVE posted'[i] \in InFlight \ {s}
        OBVIOUS
      <4>1. posted[i + 1] # posted[1]
        <5>1. i \in Nat \ {0} /\ 1 \in DOMAIN posted /\ i + 1 \in DOMAIN posted
          BY <1>2, <1>5, <3>1
        <5> QED
          BY <5>1 DEF IInv, ScansPart, PostedOnce
      <4>2. posted[i + 1] \in InFlight
        BY <1>2, <1>5
      <4> QED
        BY <1>3, <1>5, <4>1, <4>2
    <3> QED
      BY <3>1, <3>2, Narrower
  <2>2. DOMAIN scan' = InFlight \ {s} /\ scan' \in [InFlight \ {s} -> Scan]
    BY <1>2, <1>4
  <2>3. ScansTyped'
    BY <1>4, <2>1, <2>2 DEF IInv, ScansPart, ScansTyped, InFlight
  <2>4. FuturesAreLive'
    BY <1>2, <1>3, <1>4 DEF IInv, ScansPart, ScansTyped, FuturesAreLive, InFlight, Scan
  <2>5. PostedOnce'
    <3> SUFFICES ASSUME NEW i \in DOMAIN posted', NEW j \in DOMAIN posted', posted'[i] = posted'[j]
                 PROVE  i = j
      BY DEF PostedOnce
    <3>1. i + 1 = j + 1
      BY <1>5 DEF IInv, ScansPart, PostedOnce
    <3>2. i \in Int /\ j \in Int
      BY <2>1
    <3> QED
      BY <3>1, <3>2
  <2> QED
    BY <2>3, <2>4, <2>5 DEF ScansPart
<1>7. RowsPart'
  <2>1. UNCHANGED <<disk, entries>>
    BY DEF Deliver
  <2>2. CASE UNCHANGED applying
    BY <2>1, <2>2, RowsKept DEF IInv
  <2>3. CASE /\ phase' = "remove" /\ removing' = scan[s].old \ scan[s].found
             /\ adding' = scan[s].found \ scan[s].old /\ UNCHANGED <<start, batch>>
    <3>1. removing' \subseteq Files /\ adding' \subseteq Files
      BY <1>2, <1>3, <2>3 DEF Scan
    <3>2. start = 0 /\ batch = <<>>
      BY DEF IInv, RowsPart, BatchApart, Deliver
    <3> QED
      BY <2>1, <2>3, <3>1, <3>2 DEF IInv, RowsPart, RowsTyped, ApplyTyped, RowsOnce, BatchApart, AddingApart
  <2> QED
    BY <2>2, <2>3 DEF Deliver
<1> QED
  BY <1>1, <1>6, <1>7 DEF IInv

----------------------------------------------------------------------------
(* applyChanges, and the disk.                                              *)

LEMMA RemoveRowKeeps == ASSUME IInv, RemoveRow  PROVE IInv'
<1>1. OptionsTyped' /\ BoundsTyped' /\ WatchPart' /\ ScansPart'
  BY OptionsKept, BoundsKept, WatchKept, ScansKept DEF IInv, RemoveRow, options
<1>2. PICK k \in DOMAIN entries : entries' = RemoveAt(entries, k)
  BY DEF RemoveRow
<1>3. UNCHANGED <<disk, applying>> /\ phase = "remove" /\ entries \in Seq(Files)
  BY DEF RemoveRow, IInv, RowsPart, RowsTyped
<1>4. entries' \in Seq(Files) /\ Len(entries') = Len(entries) - 1
  BY <1>2, <1>3, CutAt
<1>5. \A i \in DOMAIN entries' : i < k => i \in DOMAIN entries /\ entries'[i] = entries[i]
  BY <1>2, <1>3, CutAt
<1>6. \A i \in DOMAIN entries' : i >= k => i + 1 \in DOMAIN entries /\ entries'[i] = entries[i + 1]
  BY <1>2, <1>3, CutAt
<1>7. RowsOnce'
  <2> SUFFICES ASSUME NEW i \in DOMAIN entries', NEW j \in DOMAIN entries', entries'[i] = entries'[j]
               PROVE  i = j
    BY DEF RowsOnce
  <2>1. i \in Int /\ j \in Int /\ k \in Int
    BY <1>3, <1>4
  <2>2. CASE i < k /\ j < k
    BY <1>5, <2>2 DEF IInv, RowsPart, RowsOnce
  <2>3. CASE i < k /\ j >= k
    <3>1. i = j + 1
      BY <1>5, <1>6, <2>3 DEF IInv, RowsPart, RowsOnce
    <3> QED
      BY <2>1, <2>3, <3>1
  <2>4. CASE i >= k /\ j < k
    <3>1. i + 1 = j
      BY <1>5, <1>6, <2>4 DEF IInv, RowsPart, RowsOnce
    <3> QED
      BY <2>1, <2>4, <3>1
  <2>5. CASE i >= k /\ j >= k
    <3>1. i + 1 = j + 1
      BY <1>6, <2>5 DEF IInv, RowsPart, RowsOnce
    <3> QED
      BY <2>1, <3>1
  <2> QED
    BY <2>1, <2>2, <2>3, <2>4, <2>5
<1>8. batch' = <<>> /\ start' = 0 /\ phase' = "remove" /\ start' <= Len(entries')
  BY <1>3, <1>4 DEF IInv, RowsPart, BatchApart, applying
<1>9. RowsPart'
  BY <1>3, <1>4, <1>7, <1>8 DEF IInv, RowsPart, RowsTyped, ApplyTyped, BatchApart, AddingApart, applying
<1> QED
  BY <1>1, <1>9 DEF IInv

LEMMA MakeEntriesKeeps == ASSUME IInv, MakeEntries  PROVE IInv'
<1>1. OptionsTyped' /\ BoundsTyped' /\ WatchPart' /\ ScansPart'
  BY OptionsKept, BoundsKept, WatchKept, ScansKept DEF IInv, MakeEntries, options
<1>2. /\ UNCHANGED <<disk, entries>> /\ phase' = "insert" /\ removing' = {}
      /\ adding' = adding \ Range(entries) /\ start' = 0 /\ batch' = <<>>
  BY DEF MakeEntries
<1>3. RowsTyped' /\ ApplyTyped' /\ RowsOnce'
  BY <1>2 DEF IInv, RowsPart, RowsTyped, ApplyTyped, RowsOnce
<1>4. BatchApart'
  <2>1. Len(entries) \in Nat
    BY DEF IInv, RowsPart, RowsTyped
  <2> QED
    BY <1>2, <2>1 DEF BatchApart
<1>5. AddingApart'
  BY <1>2 DEF AddingApart, Range
<1> QED
  BY <1>1, <1>3, <1>4, <1>5 DEF IInv, RowsPart

\* The batch inserted: rows and batch are apart, so every file still has one row, and
\* nothing that is still to place is among the rows.
LEMMA FlushedApart ==
  ASSUME RowsPart, phase = "insert"
  PROVE  /\ Flushed \in Seq(Files)
         /\ \A i, j \in DOMAIN Flushed : Flushed[i] = Flushed[j] => i = j
         /\ \A i \in DOMAIN Flushed : Flushed[i] \notin adding
         /\ \A i \in DOMAIN Flushed :
              (\E j \in DOMAIN entries : Flushed[i] = entries[j]) \/ (\E j \in DOMAIN batch : Flushed[i] = batch[j])
<1> DEFINE n == Len(batch)
<1>1. /\ entries \in Seq(Files) /\ batch \in Seq(Files) /\ start \in 0 .. Len(entries) /\ n \in Nat
  BY DEF RowsPart, RowsTyped, ApplyTyped, BatchApart
<1>2. Flushed = Joined(entries, batch, start)
  BY DEF Flushed, Joined
<1>3. Flushed \in Seq(Files) /\ Len(Flushed) = Len(entries) + n
  BY <1>1, <1>2, SpliceAt
<1>4. \A i \in DOMAIN Flushed : i <= start => i \in DOMAIN entries /\ Flushed[i] = entries[i]
  BY <1>1, <1>2, SpliceAt
<1>5. \A i \in DOMAIN Flushed :
        i > start /\ i <= start + n => i - start \in DOMAIN batch /\ Flushed[i] = batch[i - start]
  BY <1>1, <1>2, SpliceAt
<1>6. \A i \in DOMAIN Flushed :
        i > start + n => i - n \in DOMAIN entries /\ Flushed[i] = entries[i - n]
  BY <1>1, <1>2, SpliceAt
<1> HIDE DEF n
<1>7. \A i \in DOMAIN Flushed : i \in Int
  BY <1>3
<1>8. /\ \A i, j \in DOMAIN entries : entries[i] = entries[j] => i = j
      /\ \A i, j \in DOMAIN batch : batch[i] = batch[j] => i = j
      /\ \A i \in DOMAIN batch, j \in DOMAIN entries : batch[i] # entries[j]
  BY DEF RowsPart, RowsOnce, BatchApart
<1>9. ASSUME NEW i \in DOMAIN Flushed, NEW j \in DOMAIN Flushed, Flushed[i] = Flushed[j]
      PROVE  i = j
  <2>0. i \in Int /\ j \in Int /\ start \in Int /\ n \in Nat
    BY <1>1, <1>7
  <2> DEFINE Low(x) == x <= start   Mid(x) == x > start /\ x <= start + n   High(x) == x > start + n
  <2>1. (Low(i) \/ Mid(i) \/ High(i)) /\ (Low(j) \/ Mid(j) \/ High(j))
    BY <2>0
  <2>2. CASE Low(i) /\ Low(j)
    BY <1>4, <1>8, <1>9, <2>2
  <2>3. CASE Mid(i) /\ Mid(j)
    <3>1. i - start = j - start
      BY <1>5, <1>8, <1>9, <2>3
    <3> QED
      BY <2>0, <3>1
  <2>4. CASE High(i) /\ High(j)
    <3>1. i - n = j - n
      BY <1>6, <1>8, <1>9, <2>4
    <3> QED
      BY <2>0, <3>1
  <2>5. CASE Mid(i) /\ ~Mid(j)
    BY <1>4, <1>5, <1>6, <1>8, <1>9, <2>1, <2>5
  <2>6. CASE ~Mid(i) /\ Mid(j)
    BY <1>4, <1>5, <1>6, <1>8, <1>9, <2>1, <2>6
  <2>7. CASE Low(i) /\ High(j)
    <3>1. i = j - n
      BY <1>4, <1>6, <1>8, <1>9, <2>7
    <3> QED
      BY <2>0, <2>7, <3>1
  <2>8. CASE High(i) /\ Low(j)
    <3>1. i - n = j
      BY <1>4, <1>6, <1>8, <1>9, <2>8
    <3> QED
      BY <2>0, <2>8, <3>1
  <2> QED
    BY <2>1, <2>2, <2>3, <2>4, <2>5, <2>6, <2>7, <2>8
<1>10. \A i \in DOMAIN Flushed : \/ \E j \in DOMAIN entries : Flushed[i] = entries[j]
                                 \/ \E j \in DOMAIN batch : Flushed[i] = batch[j]
  <2> SUFFICES ASSUME NEW i \in DOMAIN Flushed
               PROVE  \/ \E j \in DOMAIN entries : Flushed[i] = entries[j]
                      \/ \E j \in DOMAIN batch : Flushed[i] = batch[j]
    OBVIOUS
  <2>1. i \in Int /\ start \in Int /\ n \in Nat
    BY <1>1, <1>7
  <2>2. i <= start \/ (i > start /\ i <= start + n) \/ i > start + n
    BY <2>1
  <2> QED
    BY <1>4, <1>5, <1>6, <2>2
<1>11. \A i \in DOMAIN Flushed : Flushed[i] \notin adding
  BY <1>10 DEF RowsPart, AddingApart
<1> QED
  BY <1>3, <1>9, <1>10, <1>11

LEMMA PlaceEntryKeeps == ASSUME IInv, PlaceEntry  PROVE IInv'
<1>1. OptionsTyped' /\ BoundsTyped' /\ WatchPart' /\ ScansPart'
  BY OptionsKept, BoundsKept, WatchKept, ScansKept DEF IInv, PlaceEntry, options
<1>0. PICK f \in adding :
        /\ adding' = adding \ {f}
        /\ \E row \in Rows(entries, f) :
             \/ /\ batch = <<>>
                /\ start' = row /\ batch' = <<f>> /\ UNCHANGED entries
             \/ /\ batch # <<>> /\ row = start + Len(batch)
                /\ batch' = Append(batch, f) /\ UNCHANGED <<start, entries>>
             \/ /\ batch # <<>> /\ row # start + Len(batch)
                /\ entries' = Flushed
                /\ start' \in Rows(Flushed, f) /\ batch' = <<f>>
  BY DEF PlaceEntry
<1>2. PICK row \in Rows(entries, f) :
        /\ adding' = adding \ {f}
        /\ \/ /\ start' = row /\ batch' = <<f>> /\ UNCHANGED entries
           \/ /\ batch' = Append(batch, f) /\ UNCHANGED <<start, entries>>
           \/ /\ entries' = Flushed
              /\ start' \in Rows(Flushed, f) /\ batch' = <<f>>
  BY <1>0
<1>3. UNCHANGED <<disk, phase, removing>> /\ phase = "insert" /\ RowsPart
  BY DEF PlaceEntry, IInv
<1>4. /\ entries \in Seq(Files) /\ batch \in Seq(Files) /\ adding \subseteq Files /\ start \in Nat
      /\ start <= Len(entries) /\ f \in Files
  BY <1>2, <1>3 DEF RowsPart, RowsTyped, ApplyTyped, BatchApart
<1>5. \A i \in DOMAIN entries : entries[i] \notin adding
  BY <1>3 DEF RowsPart, AddingApart
<1>6. \A i \in DOMAIN batch : batch[i] \notin adding
  BY <1>3 DEF RowsPart, AddingApart
<1>7. CASE /\ start' = row /\ batch' = <<f>> /\ UNCHANGED entries
  <2>1. row \in 0 .. Len(entries)
    BY DEF Rows
  <2>2. RowsTyped' /\ ApplyTyped' /\ RowsOnce'
    BY <1>2, <1>3, <1>4, <1>7, <2>1 DEF RowsPart, RowsTyped, ApplyTyped, RowsOnce
  <2>3. BatchApart'
    BY <1>2, <1>3, <1>4, <1>5, <1>7, <2>1 DEF BatchApart
  <2>4. AddingApart'
    BY <1>2, <1>5, <1>7 DEF AddingApart
  <2> QED
    BY <1>1, <2>2, <2>3, <2>4 DEF IInv, RowsPart
<1>8. CASE /\ batch' = Append(batch, f) /\ UNCHANGED <<start, entries>>
  <2>1. batch' \in Seq(Files) /\ Len(batch') = Len(batch) + 1 /\ batch'[Len(batch) + 1] = f
        /\ \A i \in DOMAIN batch : batch'[i] = batch[i]
    BY <1>4, <1>8
  <2>2. \A i \in DOMAIN batch' : i \in DOMAIN batch \/ i = Len(batch) + 1
    BY <1>4, <2>1
  <2>3. RowsTyped' /\ ApplyTyped' /\ RowsOnce'
    BY <1>2, <1>3, <1>4, <1>8, <2>1 DEF RowsPart, RowsTyped, ApplyTyped, RowsOnce
  <2>4. \A i, j \in DOMAIN batch' : batch'[i] = batch'[j] => i = j
    BY <1>2, <1>3, <1>6, <2>1, <2>2 DEF RowsPart, BatchApart
  <2>5. \A i \in DOMAIN batch', j \in DOMAIN entries' : batch'[i] # entries'[j]
    BY <1>2, <1>3, <1>5, <1>8, <2>1, <2>2 DEF RowsPart, BatchApart
  <2>6. BatchApart'
    BY <1>3, <1>4, <1>8, <2>4, <2>5 DEF BatchApart
  <2>7. AddingApart'
    BY <1>2, <1>5, <1>6, <1>8, <2>1, <2>2 DEF AddingApart
  <2> QED
    BY <1>1, <2>3, <2>6, <2>7 DEF IInv, RowsPart
<1>9. CASE /\ entries' = Flushed /\ start' \in Rows(Flushed, f) /\ batch' = <<f>>
  <2>1. start' \in 0 .. Len(Flushed) /\ Flushed \in Seq(Files)
    BY <1>3, <1>9, FlushedApart DEF Rows
  <2>2. RowsTyped' /\ ApplyTyped'
    BY <1>2, <1>3, <1>4, <1>9, <2>1 DEF RowsPart, RowsTyped, ApplyTyped
  <2>3. RowsOnce'
    BY <1>3, <1>9, FlushedApart DEF RowsOnce
  <2>4. \A i \in DOMAIN entries' : entries'[i] \notin adding
    BY <1>3, <1>9, FlushedApart
  <2>5. BatchApart'
    BY <1>2, <1>3, <1>9, <2>1, <2>4 DEF BatchApart
  <2>6. AddingApart'
    BY <1>2, <1>9, <2>4 DEF AddingApart
  <2> QED
    BY <1>1, <2>2, <2>3, <2>5, <2>6 DEF IInv, RowsPart
<1> QED
  BY <1>2, <1>7, <1>8, <1>9

LEMMA EndApplyKeeps == ASSUME IInv, EndApply  PROVE IInv'
<1>1. OptionsTyped' /\ BoundsTyped' /\ WatchPart' /\ ScansPart'
  BY OptionsKept, BoundsKept, WatchKept, ScansKept DEF IInv, EndApply, options
<1>2. /\ entries' = Flushed /\ phase' = "idle" /\ start' = 0 /\ batch' = <<>>
      /\ UNCHANGED <<disk, removing, adding>> /\ phase = "insert" /\ RowsPart
  BY DEF EndApply, IInv
<1>3. Flushed \in Seq(Files)
  BY <1>2, FlushedApart
<1>4. RowsTyped' /\ ApplyTyped'
  BY <1>2, <1>3 DEF RowsPart, RowsTyped, ApplyTyped
<1>5. RowsOnce'
  BY <1>2, FlushedApart DEF RowsOnce
<1>6. BatchApart'
  <2>1. Len(Flushed) \in Nat
    BY <1>3
  <2> QED
    BY <1>2, <2>1 DEF BatchApart
<1>7. AddingApart'
  BY <1>2 DEF AddingApart
<1> QED
  BY <1>1, <1>4, <1>5, <1>6, <1>7 DEF IInv, RowsPart

LEMMA ChangeDiskKeeps == ASSUME IInv, NEW f \in Files, ChangeDisk(f)  PROVE IInv'
<1>1. OptionsTyped' /\ ScansPart'
  BY OptionsKept, ScansKept DEF IInv, ChangeDisk
<1>2. BoundsTyped'
  BY FilesAssumption DEF IInv, BoundsTyped, ChangeDisk
<1>3. WatchPart'
  BY DEF IInv, WatchPart, WatchTyped, WatchesOwnTree, ChangeDisk, options
<1>4. disk' \subseteq Files
  BY DEF IInv, RowsPart, RowsTyped, ChangeDisk
<1>5. RowsPart'
  BY <1>4 DEF IInv, RowsPart, RowsTyped, ApplyTyped, RowsOnce, BatchApart, AddingApart, ChangeDisk, applying
<1> QED
  BY <1>1, <1>2, <1>3, <1>5 DEF IInv

----------------------------------------------------------------------------
(* The theorems.                                                            *)

LEMMA InitHolds == Init => IInv
<1> SUFFICES ASSUME Init  PROVE IInv
  OBVIOUS
<1>1. OptionsTyped /\ WatchPart
  BY DEF Init, OptionsTyped, WatchPart, WatchTyped, WatchesOwnTree
<1>2. BoundsTyped
  BY FilesAssumption DEF Init, BoundsTyped
<1>3. InFlight = {} /\ scan \in [{} -> Scan]
  BY DEF Init, InFlight
<1>4. posted = <<>> /\ futures = [d \in Dirs |-> None] /\ overlapped = FALSE
  BY DEF Init
<1>5. ScansPart
  <2>1. InFlight \subseteq Slots /\ scan \in [InFlight -> Scan]
    BY <1>3
  <2>2. futures \in [Dirs -> Slots \cup {None}] /\ \A d \in Dirs : futures[d] = None
    BY <1>4
  <2>3. posted \in Seq(InFlight) /\ DOMAIN posted = {}
    BY <1>4
  <2> QED
    BY <1>4, <2>1, <2>2, <2>3 DEF ScansPart, ScansTyped, FuturesAreLive, PostedOnce
<1>6. disk \subseteq Files /\ entries = <<>> /\ phase = "idle" /\ removing = {} /\ adding = {}
      /\ start = 0 /\ batch = <<>>
  BY DEF Init
<1>7. Len(<<>>) = 0
  OBVIOUS
<1>8. RowsPart
  BY <1>6, <1>7 DEF RowsPart, RowsTyped, ApplyTyped, RowsOnce, BatchApart, AddingApart
<1> QED
  BY <1>1, <1>2, <1>5, <1>8 DEF IInv

\* IInv holds of every behaviour of the model.
THEOREM Invariance == Spec => []IInv
<1>1. IInv /\ [Next]_vars => IInv'
  <2> SUFFICES ASSUME IInv, [Next]_vars  PROVE IInv'
    OBVIOUS
  <2>1. CASE Setters
    <3>1. Set /\ Update
      BY <2>1 DEF Setters, SetPath, SetRecursive, SetWatchChanges, SetShowHidden, SetSortReverse
    <3>2. OptionsTyped'
      BY <2>1 DEF IInv, OptionsTyped, Setters, SetPath, SetRecursive, SetWatchChanges, SetShowHidden,
                  SetSortReverse
    <3> QED
      BY <3>1, <3>2, SetterKeeps
  <2>2. CASE Threads
    BY <2>2, ListDirKeeps, EndScanKeeps DEF Threads
  <2>3. CASE MainLoop
    BY <2>3, AddWatchesKeeps, DeliverKeeps, RemoveRowKeeps, MakeEntriesKeeps, PlaceEntryKeeps,
       EndApplyKeeps, DirectoryChangedKeeps DEF MainLoop
  <2>4. CASE \E f \in Files : ChangeDisk(f)
    BY <2>4, ChangeDiskKeeps
  <2>5. CASE UNCHANGED vars
    BY <2>5, OptionsKept, WatchKept, BoundsKept, ScansKept, RowsKept DEF IInv, vars, options
  <2> QED
    BY <2>1, <2>2, <2>3, <2>4, <2>5 DEF Next
<1> QED
  BY InitHolds, <1>1, PTL DEF Spec

\* Every variable keeps its type: scans, rows, watches and what applyChanges is at.
THEOREM TypeCorrect == Spec => []TypeOK
<1>1. IInv => TypeOK
  BY DEF IInv, WatchPart, ScansPart, RowsPart, TypeOK
<1> QED
  BY Invariance, <1>1, PTL

\* Whatever is scanned, cancelled and applied late, no file has two rows
\* (filesystemmodel.cpp, applyChanges).
THEOREM NoRowTwice == Spec => []RowsOnce
<1>1. IInv => RowsOnce
  BY DEF IInv, RowsPart
<1> QED
  BY Invariance, <1>1, PTL

\* What m_futures holds for a directory is a scan of it that nobody has cancelled
\* (filesystemmodel.cpp, updateEntriesForDir).
THEOREM FuturesLive == Spec => []FuturesAreLive
<1>1. IInv => FuturesAreLive
  BY DEF IInv, ScansPart
<1> QED
  BY Invariance, <1>1, PTL

\* No watch is added outside the directory shown, however late its listing comes
\* (filesystemmodel.cpp, watchDirIfRecursive).
THEOREM OwnTreeWatched == Spec => []WatchesOwnTree
<1>1. IInv => WatchesOwnTree
  BY DEF IInv, WatchPart
<1> QED
  BY Invariance, <1>1, PTL

----------------------------------------------------------------------------
(* Scans keep up with the directory.                                        *)

\* A model that was never recursive watches at most the directory it shows.
FlatTree == flat => ~recursive /\ lookups = {} /\ watched \subseteq {path}
PathWatched == path # NoPath /\ watchChanges => path \in watched
PostedDone == \A s \in Range(posted) : scan[s].todo = {} \/ scan[s].cancelled

\* The files shown, unless a change of the directory is still to be told.
Current(files) == files = Listed(path, showHidden) \/ path \in changed

\* The rows there will be once the difference at hand is applied.
Expected ==
  CASE phase = "idle" -> Range(entries)
    [] phase = "remove" -> (Range(entries) \ removing) \cup adding
    [] OTHER -> Range(entries) \cup Range(batch) \cup adding

\* The one scan that counts: it began with the rows as they are and has the options as they
\* are, and what it has listed is current.
FollowsRows(r) ==
  /\ r.hidden = showHidden /\ r.todo \subseteq {path} /\ r.old = Range(entries)
  /\ IF r.todo = {} THEN Current(r.found) ELSE r.found = {}

Following == flat /\ ~overlapped /\ path # NoPath /\ watchChanges
RowsFollow ==
  Following =>
    /\ \A s, r \in Live(scan) : s = r
    /\ \A s \in Live(scan) : FollowsRows(scan[s])
    /\ phase # "idle" => Live(scan) = {}
    /\ Live(scan) = {} => Current(Expected)

SInv == FlatTree /\ PathWatched /\ PostedDone /\ RowsFollow

\* A scan that begins while nothing overlaps is the only one that counts.
LEMMA StartedAlone ==
  ASSUME ScansPart, NEW d \in Dirs, NEW which, StartScan(d, which)
  PROVE  \E s \in Slots \ InFlight :
           /\ DOMAIN scan' = InFlight \cup {s}
           /\ \A r \in InFlight : /\ scan'[r].todo = scan[r].todo
                                  /\ scan[r].cancelled => scan'[r].cancelled
           /\ scan'[s].hidden = showHidden' /\ scan'[s].found = {}
           /\ ~recursive' => scan'[s].todo = {d}
           /\ d = path' => scan'[s].old = Range(entries)
           /\ ~overlapped' => ~overlapped /\ Live(scan') = {s}
<1>. DEFINE new == [dir |-> d, hidden |-> showHidden', cancelled |-> FALSE,
                    old |-> {f \in Range(entries) : d = path' \/ f \in Under(d)},
                    todo |-> IF recursive' /\ d = Root THEN Dirs ELSE {d}, found |-> {}]
<1>1. PICK s \in Slots \ InFlight :
        /\ scan' = [r \in InFlight \cup {s} |-> IF r = s THEN new ELSE Cancelled(scan, which)[r]]
        /\ overlapped' = (overlapped \/ Live(scan) \ which # {})
  BY DEF StartScan
<1>2. /\ new.hidden = showHidden' /\ ~new.cancelled /\ new.found = {}
      /\ ~recursive' => new.todo = {d}
      /\ d = path' => new.old = Range(entries)
  OBVIOUS
<1>. HIDE DEF new
<1>3. \A r \in InFlight : /\ Cancelled(scan, which)[r].todo = scan[r].todo
                          /\ Cancelled(scan, which)[r].cancelled = (scan[r].cancelled \/ r \in which)
  BY DEF ScansPart, ScansTyped, Cancelled, Scan, InFlight
<1>4. /\ DOMAIN scan' = InFlight \cup {s} /\ scan'[s] = new
      /\ \A r \in InFlight : scan'[r] = Cancelled(scan, which)[r]
  BY <1>1
<1>5. \A r \in InFlight : scan'[r].cancelled = (scan[r].cancelled \/ r \in which)
  BY <1>3, <1>4
<1>6. ASSUME ~overlapped' PROVE ~overlapped /\ Live(scan') = {s}
  <2>1. ~overlapped /\ Live(scan) \ which = {}
    BY <1>1, <1>6
  <2>2. \A r \in InFlight : scan[r].cancelled \/ r \in which
    BY <2>1 DEF Live, InFlight
  <2>. QED
    BY <1>2, <1>4, <1>5, <2>1, <2>2 DEF Live
<1>. QED
  BY <1>2, <1>3, <1>4, <1>6

\* What only cancels and begins scans leaves the scans that ended as they are.
LEMMA StartedPosted ==
  ASSUME ScansPart, PostedDone, posted' = posted, NEW d \in Dirs, NEW which, StartScan(d, which)
  PROVE  PostedDone'
<1>1. posted \in Seq(InFlight) /\ Range(posted) \subseteq InFlight
  BY DEF ScansPart, ScansTyped, Range
<1>2. \A r \in InFlight : /\ scan'[r].todo = scan[r].todo
                          /\ scan[r].cancelled => scan'[r].cancelled
  BY StartedAlone
<1>. QED
  BY <1>1, <1>2 DEF PostedDone

\* The one scan is new, and the rows are as it found them.
LEMMA StartedFollows ==
  ASSUME ScansPart, NEW which, StartScan(path', which), path' \in Dirs, ~recursive',
         entries' = entries, phase' = "idle", ~overlapped'
  PROVE  RowsFollow'
<1>1. PICK s \in Slots \ InFlight :
        /\ scan'[s].hidden = showHidden' /\ scan'[s].found = {} /\ scan'[s].todo = {path'}
        /\ scan'[s].old = Range(entries) /\ Live(scan') = {s}
  BY StartedAlone
<1>. QED
  BY <1>1 DEF RowsFollow, FollowsRows

LEMMA UpdateFollows ==
  ASSUME IInv, SInv, phase = "idle", OptionsTyped', flat' => flat /\ ~recursive', Update
  PROVE  SInv'
<1>1. FlatTree' /\ PathWatched'
  BY DEF SInv, FlatTree, PathWatched, Update, UpdateWatcher, Lookups
<1>2. PostedDone'
  <2>1. posted' = posted
    BY DEF Update
  <2>2. CASE scan' = scan
    BY <2>1, <2>2 DEF SInv, PostedDone
  <2>3. CASE path' # NoPath /\ StartScan(path', {futures[d] : d \in Dirs})
    BY <2>1, <2>3, StartedPosted DEF IInv, SInv, OptionsTyped
  <2>. QED
    BY <2>2, <2>3 DEF Update
<1>3. RowsFollow'
  <2>1. CASE path' = NoPath
    BY <2>1 DEF RowsFollow, Following
  <2>2. CASE path' # NoPath /\ Following'
    <3>1. /\ StartScan(path', {futures[d] : d \in Dirs}) /\ entries' = entries /\ phase' = "idle"
          /\ path' \in Dirs /\ ~recursive' /\ ~overlapped'
      BY <2>2 DEF Update, applying, OptionsTyped, Following
    <3>. QED
      BY <3>1, StartedFollows DEF IInv
  <2>. QED
    BY <2>1, <2>2 DEF RowsFollow
<1>. QED
  BY <1>1, <1>2, <1>3 DEF SInv

LEMMA DirectoryChangedFollows ==
  ASSUME IInv, SInv, NEW d \in Dirs, DirectoryChanged(d)
  PROVE  SInv'
<1>1. UNCHANGED <<path, recursive, watchChanges, showHidden, flat, watched, entries, posted>>
  BY DEF DirectoryChanged, options
<1>2. phase' = "idle" /\ StartScan(d, {futures[d]}) /\ lookups' = lookups \cup Lookups(d)
      /\ d \in watched
  BY DEF DirectoryChanged, applying, IInv, WatchPart, WatchTyped
<1>3. FlatTree' /\ PathWatched'
  BY <1>1, <1>2 DEF SInv, FlatTree, PathWatched, Lookups
<1>4. PostedDone'
  BY <1>1, <1>2, StartedPosted DEF IInv, SInv
<1>5. RowsFollow'
  <2>1. CASE Following'
    <3>1. flat /\ ~recursive /\ watched \subseteq {path}
      BY <1>1, <2>1 DEF Following, SInv, FlatTree
    <3>2. path' = d /\ path' \in Dirs /\ ~recursive' /\ ~overlapped'
      BY <1>1, <1>2, <2>1, <3>1 DEF Following
    <3>. QED
      BY <1>1, <1>2, <3>2, StartedFollows DEF IInv
  <2>. QED
    BY <2>1 DEF RowsFollow
<1>. QED
  BY <1>3, <1>4, <1>5 DEF SInv

\* Nothing the rows depend on changes.
LEMMA FollowKept ==
  ASSUME RowsFollow, UNCHANGED <<options, disk, changed, entries, scan, overlapped, applying>>
  PROVE  RowsFollow'
BY DEF RowsFollow, Following, FollowsRows, Current, Expected, Listed, options, applying

LEMMA TreeKept ==
  ASSUME FlatTree, PathWatched, UNCHANGED <<options, lookups, watched>>
  PROVE  FlatTree' /\ PathWatched'
BY DEF FlatTree, PathWatched, options

LEMMA ListDirFollows ==
  ASSUME IInv, SInv, NEW s \in InFlight, ListDir(s)
  PROVE  SInv'
<1>1. PICK d \in scan[s].todo :
        scan' = [scan EXCEPT ![s].todo = @ \ {d}, ![s].found = @ \cup Listed(d, scan[s].hidden)]
  BY DEF ListDir
<1>2. /\ ~scan[s].cancelled
      /\ UNCHANGED <<options, disk, watched, changed, lookups, entries, posted, overlapped, applying>>
  BY DEF ListDir, watching
<1>3. scan \in [InFlight -> Scan]
  BY DEF IInv, ScansPart, ScansTyped
<1>4. /\ DOMAIN scan' = InFlight /\ \A r \in InFlight \ {s} : scan'[r] = scan[r]
      /\ scan'[s].hidden = scan[s].hidden /\ scan'[s].old = scan[s].old
      /\ scan'[s].cancelled = scan[s].cancelled /\ scan'[s].todo = scan[s].todo \ {d}
      /\ scan'[s].found = scan[s].found \cup Listed(d, scan[s].hidden)
  BY <1>1, <1>3 DEF Scan
<1>5. PostedDone'
  <2>1. posted' = posted /\ Range(posted) \subseteq InFlight
    BY <1>2 DEF IInv, ScansPart, ScansTyped, Range
  <2>2. s \notin Range(posted)
    BY <1>1, <1>2 DEF SInv, PostedDone
  <2>. QED
    BY <1>4, <2>1, <2>2 DEF SInv, PostedDone
<1>6. RowsFollow'
  <2>. SUFFICES ASSUME Following' PROVE RowsFollow'
    BY DEF RowsFollow
  <2>1. Following /\ RowsFollow
    BY <1>2 DEF Following, options, SInv
  <2>2. Live(scan') = Live(scan) /\ s \in Live(scan)
    BY <1>2, <1>4 DEF Live, InFlight
  <2>3. FollowsRows(scan[s]) /\ \A r, q \in Live(scan) : r = q
    BY <2>1, <2>2 DEF RowsFollow
  <2>4. d = path /\ scan[s].found = {} /\ scan'[s].todo = {}
    BY <1>1, <1>4, <2>3 DEF FollowsRows
  <2>5. scan'[s].found = Listed(path, showHidden) /\ Listed(path, showHidden)' = Listed(path, showHidden)
    BY <1>2, <1>4, <2>3, <2>4 DEF FollowsRows, Listed, options
  <2>6. FollowsRows(scan[s])'
    BY <1>2, <1>4, <2>3, <2>4, <2>5 DEF FollowsRows, Current, options
  <2>. QED
    BY <1>2, <2>1, <2>2, <2>3, <2>6 DEF RowsFollow, applying
<1>. QED
  BY <1>2, <1>5, <1>6, TreeKept DEF SInv

LEMMA EndScanFollows ==
  ASSUME IInv, SInv, NEW s \in InFlight, EndScan(s)
  PROVE  SInv'
<1>1. UNCHANGED <<options, disk, watched, changed, lookups, entries, scan, overlapped, applying>>
  BY DEF EndScan, watching
<1>2. posted' = Append(posted, s) /\ (scan[s].todo = {} \/ scan[s].cancelled)
  BY DEF EndScan
<1>3. Range(posted') \subseteq Range(posted) \cup {s}
  BY <1>2 DEF IInv, ScansPart, ScansTyped, Range
<1>. QED
  BY <1>1, <1>2, <1>3, FollowKept, TreeKept DEF SInv, PostedDone

\* The result of the scan that counts is the difference to what it listed.
LEMMA DeliverFollows ==
  ASSUME IInv, SInv, Deliver
  PROVE  SInv'
<1>. DEFINE s == Head(posted)
<1>1. /\ UNCHANGED <<options, disk, watched, changed, lookups, entries, overlapped>>
      /\ phase = "idle" /\ posted # <<>> /\ posted' = Tail(posted) /\ scan' = Without(s)
  BY DEF Deliver, watching
<1>2. posted \in Seq(InFlight) /\ scan \in [InFlight -> Scan]
  BY DEF IInv, ScansPart, ScansTyped
<1>3. s \in InFlight /\ s = posted[1] /\ s \in Range(posted)
  BY <1>1, <1>2 DEF Range
<1>4. DOMAIN scan' = InFlight \ {s} /\ \A r \in InFlight \ {s} : scan'[r] = scan[r]
  BY <1>1 DEF Without
<1>5. PostedDone'
  <2>1. Range(posted') \subseteq Range(posted)
    BY <1>1, <1>2 DEF Range
  <2>2. Range(posted') \subseteq DOMAIN scan'
    BY DeliverKeeps DEF IInv, ScansPart, ScansTyped, Range, InFlight
  <2>. QED
    BY <1>4, <2>1, <2>2 DEF SInv, PostedDone
<1>6. Live(scan') = Live(scan) \ {s} /\ (s \in Live(scan) <=> ~scan[s].cancelled)
  BY <1>3, <1>4 DEF Live, InFlight
<1>7. RowsFollow'
  <2>. SUFFICES ASSUME Following' PROVE RowsFollow'
    BY DEF RowsFollow
  <2>1. Following /\ RowsFollow
    BY <1>1 DEF Following, options, SInv
  <2>2. /\ \A r, q \in Live(scan) : r = q
        /\ \A r \in Live(scan) : FollowsRows(scan[r])
        /\ Live(scan) = {} => Current(Expected)
    BY <2>1 DEF RowsFollow
  <2>3. \A r \in InFlight \ {s} : FollowsRows(scan[r]) => FollowsRows(scan[r])'
    BY <1>1, <1>4 DEF FollowsRows, Current, Listed, options
  <2>4. \A S : Current(S) => Current(S)'
    BY <1>1 DEF Current, Listed, options
  <2>5. CASE scan[s].cancelled
    <3>1. Live(scan') = Live(scan) /\ UNCHANGED applying
      BY <1>6, <2>5 DEF Deliver
    <3>2. Expected' = Expected
      BY <1>1, <3>1 DEF Expected, applying
    <3>3. \A r \in Live(scan') : FollowsRows(scan[r])'
      BY <1>6, <2>2, <2>3, <3>1 DEF Live, InFlight
    <3>. QED
      BY <1>1, <2>2, <2>4, <3>1, <3>2, <3>3 DEF RowsFollow, applying, Current
  <2>6. CASE ~scan[s].cancelled
    <3>1. Live(scan') = {} /\ FollowsRows(scan[s]) /\ scan[s].todo = {}
      BY <1>3, <1>6, <2>2, <2>6 DEF SInv, PostedDone
    <3>2. Current(scan[s].found) /\ scan[s].old = Range(entries)
      BY <3>1 DEF FollowsRows
    <3>3. Expected' = scan[s].found
      <4>1. CASE scan[s].old = scan[s].found /\ UNCHANGED applying
        BY <1>1, <3>2, <4>1 DEF Expected, applying
      <4>2. CASE /\ phase' = "remove" /\ removing' = scan[s].old \ scan[s].found
                 /\ adding' = scan[s].found \ scan[s].old
        BY <1>1, <3>2, <4>2 DEF Expected
      <4>. QED
        BY <2>6, <4>1, <4>2 DEF Deliver
    <3>4. Current(Expected)'
      <4>1. Listed(path, showHidden)' = Listed(path, showHidden) /\ path' = path /\ changed' = changed
        BY <1>1 DEF Listed, options
      <4>2. Expected' = Listed(path, showHidden)' \/ path' \in changed'
        BY <3>2, <3>3, <4>1 DEF Current
      <4>. QED
        BY <4>2 DEF Current
    <3>. QED
      BY <3>1, <3>4 DEF RowsFollow
  <2>. QED
    BY <2>5, <2>6
<1>. QED
  BY <1>1, <1>5, <1>7, TreeKept DEF SInv

\* A step of applyChanges leaves what the rows come to.
LEMMA ApplyFollows ==
  ASSUME SInv, phase # "idle", Expected' = Expected,
         UNCHANGED <<options, disk, watching, scanning>>
  PROVE  SInv'
<1>1. UNCHANGED <<lookups, watched, changed, scan, posted, overlapped>>
  BY DEF watching, scanning
<1>2. PostedDone'
  BY <1>1 DEF SInv, PostedDone
<1>3. RowsFollow'
  <2>. SUFFICES ASSUME Following' PROVE RowsFollow'
    BY DEF RowsFollow
  <2>1. Live(scan) = {} /\ Current(Expected)
    BY <1>1 DEF Following, options, SInv, RowsFollow
  <2>2. Current(Expected)'
    BY <1>1, <2>1 DEF Current, Listed, options
  <2>. QED
    BY <1>1, <2>1, <2>2 DEF RowsFollow
<1>. QED
  BY <1>1, <1>2, <1>3, TreeKept DEF SInv

LEMMA RemoveRowFollows == ASSUME IInv, SInv, RemoveRow PROVE SInv'
<1>1. PICK k \in DOMAIN entries : entries[k] \in removing /\ entries' = RemoveAt(entries, k)
  BY DEF RemoveRow
<1>2. phase = "remove" /\ UNCHANGED <<options, disk, watching, scanning, applying>>
  BY DEF RemoveRow
<1>3. entries \in Seq(Files)
  BY DEF IInv, RowsPart, RowsTyped
<1>4. Range(entries') \subseteq Range(entries) /\ Range(entries) \subseteq Range(entries') \cup {entries[k]}
  BY <1>1, <1>3, CutRange
<1>5. Range(entries') \ removing = Range(entries) \ removing
  BY <1>1, <1>4
<1>6. Expected' = Expected
  BY <1>2, <1>5 DEF Expected, applying
<1>. QED
  BY <1>2, <1>6, ApplyFollows

LEMMA MakeEntriesFollows == ASSUME IInv, SInv, MakeEntries PROVE SInv'
<1>1. /\ phase = "remove" /\ Range(entries) \cap removing = {} /\ phase' = "insert"
      /\ adding' = adding \ Range(entries) /\ batch' = <<>>
      /\ UNCHANGED <<options, disk, watching, entries, scanning>>
  BY DEF MakeEntries
<1>2. Range(<<>>) = {}
  BY DEF Range
<1>3. Expected' = Range(entries) \cup (adding \ Range(entries))
  BY <1>1, <1>2 DEF Expected
<1>4. Expected = Range(entries) \cup adding
  BY <1>1 DEF Expected
<1>. QED
  BY <1>1, <1>3, <1>4, ApplyFollows

\* The rows and the batch are what they are inserted into each other.
LEMMA FlushedRange ==
  ASSUME IInv, phase = "insert"
  PROVE  Range(Flushed) = Range(entries) \cup Range(batch)
<1>1. entries \in Seq(Files) /\ batch \in Seq(Files) /\ start \in 0 .. Len(entries)
  BY DEF IInv, RowsPart, RowsTyped, ApplyTyped, BatchApart
<1>. QED
  BY <1>1, SpliceRange DEF Flushed, Joined

LEMMA PlaceEntryFollows == ASSUME IInv, SInv, PlaceEntry PROVE SInv'
<1>1. /\ phase = "insert" /\ UNCHANGED <<options, disk, watching, scanning, phase, removing>>
  BY DEF PlaceEntry
<1>2. PICK f \in adding :
        /\ adding' = adding \ {f}
        /\ \/ batch = <<>> /\ batch' = <<f>> /\ UNCHANGED entries
           \/ batch' = Append(batch, f) /\ UNCHANGED entries
           \/ entries' = Flushed /\ batch' = <<f>>
  BY DEF PlaceEntry
<1>3. batch \in Seq(Files) /\ f \in Files
  BY <1>2 DEF IInv, RowsPart, ApplyTyped
<1>4. Range(<<>>) = {} /\ Range(<<f>>) = {f} /\ Range(Append(batch, f)) = Range(batch) \cup {f}
  <2>1. Range(Append(batch, f)) = Range(batch) \cup {f}
    <3>1. /\ DOMAIN Append(batch, f) = DOMAIN batch \cup {Len(batch) + 1}
          /\ \A i \in DOMAIN batch : Append(batch, f)[i] = batch[i]
          /\ Append(batch, f)[Len(batch) + 1] = f
      BY <1>3
    <3>. QED
      BY <3>1 DEF Range
  <2>. QED
    BY <2>1 DEF Range
<1>5. Range(entries') \cup Range(batch') = Range(entries) \cup Range(batch) \cup {f}
  BY <1>1, <1>2, <1>4, FlushedRange
<1>6. Expected' = Expected
  BY <1>1, <1>2, <1>5 DEF Expected
<1>. QED
  BY <1>1, <1>6, ApplyFollows

LEMMA EndApplyFollows == ASSUME IInv, SInv, EndApply PROVE SInv'
<1>1. /\ phase = "insert" /\ adding = {} /\ entries' = Flushed /\ phase' = "idle"
      /\ UNCHANGED <<options, disk, watching, scanning>>
  BY DEF EndApply
<1>2. Expected' = Expected
  BY <1>1, FlushedRange DEF Expected
<1>. QED
  BY <1>1, <1>2, ApplyFollows

\* A file changes: its directory's change is on its way, or the listing stays.
LEMMA ChangeDiskFollows == ASSUME IInv, SInv, NEW f \in Files, ChangeDisk(f) PROVE SInv'
<1>1. /\ UNCHANGED <<options, watched, lookups, entries, scanning, applying>>
      /\ phase = "idle" /\ disk' \in {disk \ {f}, disk \cup {f}}
      /\ changed' = changed \cup ({DirOf(f)} \cap watched)
  BY DEF ChangeDisk
<1>2. PostedDone'
  BY <1>1 DEF SInv, PostedDone, scanning
<1>3. RowsFollow'
  <2>. SUFFICES ASSUME Following' PROVE RowsFollow'
    BY DEF RowsFollow
  <2>1. Following /\ RowsFollow /\ path \in watched /\ path' = path /\ showHidden' = showHidden
    BY <1>1 DEF Following, options, scanning, SInv, PathWatched
  <2>2. path \in changed' \/ Listed(path, showHidden)' = Listed(path, showHidden)
    BY <1>1, <2>1 DEF Listed
  <2>3. path \in changed => path \in changed'
    BY <1>1
  <2>4. \A r \in Live(scan) : FollowsRows(scan[r]) => FollowsRows(scan[r])'
    BY <1>1, <2>1, <2>2, <2>3 DEF FollowsRows, Current, scanning
  <2>5. Expected' = Expected
    BY <1>1 DEF Expected, applying
  <2>6. Current(Expected) => Current(Expected)'
    BY <2>1, <2>2, <2>3, <2>5 DEF Current
  <2>. QED
    BY <1>1, <2>1, <2>4, <2>6 DEF RowsFollow, scanning, applying
<1>. QED
  BY <1>1, <1>2, <1>3, TreeKept DEF SInv

LEMMA AddWatchesFollows == ASSUME SInv, AddWatches PROVE SInv'
<1>1. /\ UNCHANGED <<options, disk, changed, entries, scanning, applying>>
      /\ lookups # {} /\ watched \subseteq watched'
  BY DEF AddWatches
<1>2. FlatTree' /\ PathWatched' /\ PostedDone'
  BY <1>1 DEF SInv, FlatTree, PathWatched, PostedDone, options, scanning
<1>. QED
  BY <1>1, <1>2, FollowKept DEF SInv, scanning

LEMMA FollowsInvariance == Spec => []SInv
<1>1. Init => SInv
  <2>. SUFFICES ASSUME Init PROVE SInv
    OBVIOUS
  <2>1. Range(<<>>) = {}
    BY DEF Range
  <2>. QED
    BY <2>1 DEF Init, SInv, FlatTree, PathWatched, PostedDone, RowsFollow, Following
<1>2. IInv /\ SInv /\ [Next]_vars => SInv'
  <2>. SUFFICES ASSUME IInv, SInv, [Next]_vars PROVE SInv'
    OBVIOUS
  <2>1. CASE Setters
    <3>1. phase = "idle" /\ Update
      BY <2>1 DEF Setters, SetPath, SetRecursive, SetWatchChanges, SetShowHidden, SetSortReverse, Set
    <3>2. OptionsTyped'
      BY <2>1 DEF IInv, OptionsTyped, Setters, SetPath, SetRecursive, SetWatchChanges, SetShowHidden,
                  SetSortReverse
    <3>3. flat' => flat /\ ~recursive'
      BY <2>1 DEF SInv, FlatTree, Setters, SetPath, SetRecursive, SetWatchChanges, SetShowHidden,
                  SetSortReverse
    <3>. QED
      BY <3>1, <3>2, <3>3, UpdateFollows
  <2>2. CASE Threads
    BY <2>2, ListDirFollows, EndScanFollows DEF Threads
  <2>3. CASE MainLoop
    BY <2>3, AddWatchesFollows, DeliverFollows, RemoveRowFollows, MakeEntriesFollows,
       PlaceEntryFollows, EndApplyFollows, DirectoryChangedFollows DEF MainLoop
  <2>4. CASE \E f \in Files : ChangeDisk(f)
    BY <2>4, ChangeDiskFollows
  <2>5. CASE UNCHANGED vars
    <3>1. UNCHANGED <<options, disk, lookups, watched, changed, entries, scan, posted, overlapped, applying>>
      BY <2>5 DEF vars, watching, scanning
    <3>. QED
      BY <3>1, FollowKept, TreeKept DEF SInv, PostedDone
  <2>. QED
    BY <2>1, <2>2, <2>3, <2>4, <2>5 DEF Next
<1>. QED
  BY Invariance, <1>1, <1>2, PTL DEF Spec

\* At rest a model that is not recursive shows what its options let through of the directory as
\* it is, whatever was scanned, cancelled, restarted and applied late, as long as no two scans
\* that nobody cancelled overlapped (filesystemmodel.cpp, updateEntriesForDir, applyChanges).
THEOREM DirectoryShown == Spec => []ShowsDirectory
<1>1. IInv /\ SInv => ShowsDirectory
  <2>. SUFFICES ASSUME IInv, SInv, Resting, path # NoPath, watchChanges, flat, ~overlapped
                PROVE  Range(entries) = Listing
    BY DEF ShowsDirectory
  <2>1. Live(scan) = {} /\ phase = "idle" /\ path \notin changed /\ ~recursive
    BY DEF Live, Resting, InFlight, SInv, FlatTree
  <2>2. Range(entries) = Listed(path, showHidden)
    BY <2>1 DEF SInv, RowsFollow, Following, Current, Expected
  <2>3. Listing = UNION {Listed(d, showHidden) : d \in {path}}
    BY <2>1 DEF Listing
  <2>. QED
    BY <2>2, <2>3
<1>. QED
  BY Invariance, FollowsInvariance, <1>1, PTL

----------------------------------------------------------------------------
(* Lists of which rows are put in, taken out, moved and sifted.             *)

\* No two members of a list are the same, but for those in out.
OnceBut(list, out) == \A i, j \in DOMAIN list : list[i] = list[j] => i = j \/ list[i] \in out

\* A set of numbers has a least one.
LEMMA LeastOf ==
  ASSUME NEW T \in SUBSET Nat, T # {}
  PROVE  \E x \in T : \A y \in T : x <= y
<1>1. PICK x \in T : \A y \in T : ~(<<y, x>> \in OpToRel(<, Nat))
  BY NatLessThanWellFounded, WFMin
<1>2. \A y \in T : ~(y < x)
  BY <1>1 DEF OpToRel
<1>. QED
  BY <1>2

\* A list joined to another that has nothing of it.
LEMMA JoinedOnce ==
  ASSUME NEW S, NEW a \in Seq(S), NEW b \in Seq(S), NEW k \in 0 .. Len(a), NEW out,
         OnceBut(a, out), OnceBut(b, out),
         \A i \in DOMAIN a, j \in DOMAIN b : a[i] = b[j] => a[i] \in out
  PROVE  OnceBut(Joined(a, b, k), out)
<1>. DEFINE J == Joined(a, b, k)  n == Len(b)
<1>0. n \in Nat /\ k \in Nat
  OBVIOUS
<1>1. \A i \in DOMAIN J : i <= k => i \in DOMAIN a /\ J[i] = a[i]
  BY SpliceAt
<1>2. \A i \in DOMAIN J : i > k /\ i <= k + n => i - k \in DOMAIN b /\ J[i] = b[i - k]
  BY SpliceAt
<1>3. \A i \in DOMAIN J : i > k + n => i - n \in DOMAIN a /\ J[i] = a[i - n]
  BY SpliceAt
<1>4. \A i \in DOMAIN J : i \in Int
  BY SpliceAt
<1>. HIDE DEF J, n
<1>5. SUFFICES ASSUME NEW i \in DOMAIN J, NEW j \in DOMAIN J, J[i] = J[j], J[i] \notin out
               PROVE  i = j
  BY DEF OnceBut, J
<1>. DEFINE Low(x) == x <= k  Mid(x) == x > k /\ x <= k + n  High(x) == x > k + n
<1>6. (Low(i) \/ Mid(i) \/ High(i)) /\ (Low(j) \/ Mid(j) \/ High(j)) /\ i \in Int /\ j \in Int
  BY <1>0, <1>4
<1>7. CASE Mid(i) /\ Mid(j)
  <2>1. i - k = j - k
    BY <1>2, <1>5, <1>7 DEF OnceBut
  <2>. QED
    BY <1>0, <1>6, <2>1
<1>8. CASE ~Mid(i) /\ ~Mid(j)
  <2>. DEFINE at(x) == IF x <= k THEN x ELSE x - n
  <2>1. at(i) \in DOMAIN a /\ at(j) \in DOMAIN a /\ J[i] = a[at(i)] /\ J[j] = a[at(j)]
    BY <1>0, <1>1, <1>3, <1>6, <1>8
  <2>2. at(i) = at(j)
    BY <1>5, <2>1 DEF OnceBut
  <2>. QED
    BY <1>0, <1>6, <1>8, <2>2
<1>9. CASE Mid(i) /\ ~Mid(j)
  BY <1>0, <1>1, <1>2, <1>3, <1>5, <1>6, <1>9
<1>10. CASE ~Mid(i) /\ Mid(j)
  BY <1>0, <1>1, <1>2, <1>3, <1>5, <1>6, <1>10
<1>. QED
  BY <1>7, <1>8, <1>9, <1>10

\* Rows put in: what each row of the result holds.
HasSpliced(result, S, list, at, new) ==
  /\ result \in Seq(S) /\ Len(result) = Len(list) + Len(new)
  /\ Range(result) = Range(list) \cup Range(new)
  /\ \A i \in DOMAIN result :
       /\ i < at => i \in DOMAIN list /\ result[i] = list[i]
       /\ i >= at /\ i < at + Len(new) => i - (at - 1) \in DOMAIN new /\ result[i] = new[i - (at - 1)]
       /\ i >= at + Len(new) => i - Len(new) \in DOMAIN list /\ result[i] = list[i - Len(new)]

LEMMA SplicedRows ==
  ASSUME NEW S, NEW list \in Seq(S), NEW new \in Seq(S), NEW at \in 1 .. Len(list) + 1
  PROVE  /\ HasSpliced(Spliced(list, at, new), S, list, at, new)
         /\ Spliced(list, at, new) = Joined(list, new, at - 1) /\ at - 1 \in 0 .. Len(list)
<1>. DEFINE k == at - 1  J == Joined(list, new, k)  n == Len(new)
<1>1. k \in 0 .. Len(list) /\ k + 1 = at /\ n \in Nat /\ at \in Int
  OBVIOUS
<1>2. Spliced(list, at, new) = J
  BY <1>1 DEF Spliced, Joined
<1>3. k \in Nat
  BY <1>1
<1>. HIDE DEF k
<1>4. J \in Seq(S) /\ Len(J) = Len(list) + n
  BY <1>1, SpliceAt, Zenon
<1>5. Range(J) = Range(list) \cup Range(new)
  BY <1>1, SpliceRange, Zenon
<1>6. \A i \in DOMAIN J : i <= k => i \in DOMAIN list /\ J[i] = list[i]
  <2>1. k \in 0 .. Len(list)
    BY <1>1
  <2>. QED
    BY <2>1, SpliceAt
<1>7. \A i \in DOMAIN J : i > k /\ i <= k + n => i - k \in DOMAIN new /\ J[i] = new[i - k]
  BY <1>1, SpliceAt
<1>8. \A i \in DOMAIN J : i > k + n => i - n \in DOMAIN list /\ J[i] = list[i - n]
  BY <1>1, SpliceAt
<1>9. \A i \in DOMAIN J : i \in Int
  BY <1>4
<1>. HIDE DEF J, n
<1>10. \A i \in DOMAIN J : /\ i < at => i <= k
                           /\ i >= at /\ i < at + n => i > k /\ i <= k + n
                           /\ i >= at + n => i > k + n
  BY <1>1, <1>3, <1>9
<1>11. \A i \in DOMAIN J : /\ i < at => i \in DOMAIN list /\ J[i] = list[i]
                           /\ i >= at /\ i < at + n => i - k \in DOMAIN new /\ J[i] = new[i - k]
                           /\ i >= at + n => i - n \in DOMAIN list /\ J[i] = list[i - n]
  BY <1>6, <1>7, <1>8, <1>10
<1>. QED
  BY <1>1, <1>2, <1>4, <1>5, <1>11 DEF J, n, k, HasSpliced

\* Rows put in that were not there leave nothing twice.
LEMMA SplicedOnce ==
  ASSUME NEW S, NEW list \in Seq(S), NEW new \in Seq(S), NEW at \in 1 .. Len(list) + 1, NEW out,
         OnceBut(list, out), OnceBut(new, out),
         \A i \in DOMAIN list, j \in DOMAIN new : list[i] = new[j] => list[i] \in out
  PROVE  OnceBut(Spliced(list, at, new), out)
<1>1. Spliced(list, at, new) = Joined(list, new, at - 1) /\ at - 1 \in 0 .. Len(list)
  BY SplicedRows
<1>. QED
  BY <1>1, JoinedOnce, Zenon

\* Rows taken out: what each row left holds.
HasCut(result, S, list, first, last) ==
  /\ result \in Seq(S) /\ Len(result) = Len(list) - (last - first + 1)
  /\ \A i \in DOMAIN result :
       /\ i < first => i \in DOMAIN list /\ result[i] = list[i]
       /\ i >= first => /\ i + (last - first + 1) \in DOMAIN list
                        /\ result[i] = list[i + (last - first + 1)]

LEMMA CutRows ==
  ASSUME NEW S, NEW list \in Seq(S), NEW first \in 1 .. Len(list), NEW last \in first .. Len(list)
  PROVE  HasCut(Cut(list, first, last), S, list, first, last)
<1>. DEFINE p == SubSeq(list, 1, first - 1)  q == SubSeq(list, last + 1, Len(list))
            n == last - first + 1  C == Cut(list, first, last)
<1>1. p \in Seq(S) /\ Len(p) = first - 1 /\ \A i \in 1 .. first - 1 : p[i] = list[i]
  OBVIOUS
<1>2. q \in Seq(S) /\ Len(q) = Len(list) - last /\ \A i \in 1 .. Len(list) - last : q[i] = list[last + i]
  OBVIOUS
<1>3. C = p \o q
  BY DEF Cut
<1>4. first \in Nat /\ last \in Nat /\ Len(list) \in Nat /\ n \in Nat /\ first >= 1 /\ first <= last
      /\ last <= Len(list) /\ n = last - first + 1
  OBVIOUS
<1>. HIDE DEF p, q, C, n
<1>5. C \in Seq(S) /\ Len(C) = Len(p) + Len(q)
  <2>1. p \in Seq(S) /\ q \in Seq(S)
    BY <1>1, <1>2
  <2>. QED
    BY <1>3, <2>1
<1>6. Len(C) = Len(list) - n
  BY <1>1, <1>2, <1>4, <1>5
<1>7. ASSUME NEW i \in DOMAIN C, i < first
      PROVE  i \in DOMAIN list /\ C[i] = list[i]
  <2>1. i \in 1 .. first - 1
    BY <1>4, <1>5, <1>7
  <2>2. C[i] = p[i]
    BY <1>1, <1>2, <1>3, <2>1
  <2>. QED
    BY <1>1, <1>4, <2>1, <2>2
<1>8. ASSUME NEW i \in DOMAIN C, i >= first
      PROVE  i + n \in DOMAIN list /\ C[i] = list[i + n]
  <2>1. i - (first - 1) \in 1 .. Len(list) - last /\ i \in Nat
    BY <1>1, <1>2, <1>4, <1>5, <1>8
  <2>2. C[i] = q[i - (first - 1)]
    <3>1. Len(p) \in Nat /\ Len(q) \in Nat /\ i \in 1 .. Len(p) + Len(q) /\ i > Len(p)
      BY <1>1, <1>2, <1>4, <1>5, <1>8, <2>1, SMTT(30)
    <3>2. (p \o q)[i] = q[i - Len(p)]
      BY <1>1, <1>2, <3>1
    <3>. QED
      BY <1>1, <1>3, <3>2
  <2>3. last + (i - (first - 1)) = i + n /\ i + n \in 1 .. Len(list)
    BY <1>4, <2>1
  <2>. QED
    BY <1>2, <2>1, <2>2, <2>3, SMTT(30)
<1>. QED
  BY <1>5, <1>6, <1>7, <1>8 DEF C, n, HasCut

\* The rows left and the rows taken out: together what there was, and nothing twice.
AreApart(left, taken, S, list, first, last, out) ==
  /\ taken \in Seq(S) /\ Len(taken) = last - first + 1
  /\ Range(list) = Range(left) \cup Range(taken)
  /\ \A k \in 1 .. last - first + 1 :
       first + k - 1 \in DOMAIN list /\ taken[k] = list[first + k - 1]
  /\ OnceBut(list, out) =>
       /\ OnceBut(left, out) /\ OnceBut(taken, out)
       /\ \A i \in DOMAIN left, j \in DOMAIN taken : left[i] = taken[j] => left[i] \in out

\* What a removal takes and what it leaves.
LEMMA CutKeeps ==
  ASSUME NEW S, NEW list \in Seq(S), NEW first \in 1 .. Len(list), NEW last \in first .. Len(list),
         NEW out
  PROVE  AreApart(Cut(list, first, last), SubSeq(list, first, last), S, list, first, last, out)
<1>. DEFINE n == last - first + 1  C == Cut(list, first, last)  m == SubSeq(list, first, last)
<1>1. first \in Nat /\ last \in Nat /\ Len(list) \in Nat /\ n \in Nat /\ first >= 1 /\ first <= last
      /\ last <= Len(list) /\ n = last - first + 1
  OBVIOUS
<1>0. HasCut(C, S, list, first, last)
  BY CutRows
<1>. HIDE DEF C
<1>2. C \in Seq(S) /\ Len(C) = Len(list) - n
  BY <1>0 DEF HasCut
<1>3. \A i \in DOMAIN C : i < first => i \in DOMAIN list /\ C[i] = list[i]
  BY <1>0 DEF HasCut
<1>4. \A i \in DOMAIN C : i >= first => i + n \in DOMAIN list /\ C[i] = list[i + n]
  BY <1>0 DEF HasCut
<1>5. m \in Seq(S) /\ Len(m) = n /\ \A k \in 1 .. n : m[k] = list[first + k - 1]
  OBVIOUS
<1>6. \A k \in 1 .. n : first + k - 1 \in DOMAIN list
  BY <1>1
<1>. HIDE DEF C, m, n
<1>. DEFINE from(i) == IF i < first THEN i ELSE i + n
<1>7. \A i \in DOMAIN C : i \in Nat /\ from(i) \in DOMAIN list /\ C[i] = list[from(i)]
  BY <1>2, <1>3, <1>4
<1>8. \A i, j \in DOMAIN C : from(i) = from(j) => i = j
  BY <1>1, <1>7
<1>9. OnceBut(list, out) => OnceBut(C, out)
  <2>. HIDE DEF from
  <2>. QED
    BY <1>7, <1>8 DEF OnceBut
<1>10. DOMAIN m = 1 .. n
  BY <1>5
<1>11. OnceBut(list, out) => OnceBut(m, out)
  <2>1. \A i, j \in 1 .. n : first + i - 1 = first + j - 1 => i = j
    BY <1>1
  <2>. QED
    BY <1>5, <1>6, <1>10, <2>1 DEF OnceBut
<1>12. ASSUME OnceBut(list, out), NEW i \in DOMAIN C, NEW j \in DOMAIN m, C[i] = m[j]
       PROVE  C[i] \in out
  <2>1. from(i) # first + j - 1
    BY <1>1, <1>7, <1>10
  <2>. HIDE DEF from
  <2>. QED
    BY <1>5, <1>6, <1>7, <1>10, <1>12, <2>1 DEF OnceBut
<1>13. Range(list) = Range(C) \cup Range(m)
  <2>1. Range(C) \subseteq Range(list) /\ Range(m) \subseteq Range(list)
    BY <1>5, <1>6, <1>7, <1>10 DEF Range
  <2>2. ASSUME NEW i \in DOMAIN list
        PROVE  list[i] \in Range(C) \cup Range(m)
    <3>0. i \in 1 .. Len(list)
      OBVIOUS
    <3>1. CASE i < first
      <4>1. i \in DOMAIN C
        BY <1>1, <1>2, <3>0, <3>1
      <4>. QED
        BY <1>3, <3>1, <4>1 DEF Range
    <3>2. CASE i >= first /\ i <= last
      <4>1. i - first + 1 \in 1 .. n /\ first + (i - first + 1) - 1 = i
        BY <1>1, <3>0, <3>2
      <4>. QED
        BY <1>5, <1>10, <4>1 DEF Range
    <3>3. CASE i > last
      <4>1. i - n \in DOMAIN C /\ i - n >= first /\ (i - n) + n = i
        BY <1>1, <1>2, <3>0, <3>3
      <4>. QED
        BY <1>4, <4>1 DEF Range
    <3>. QED
      BY <1>1, <3>0, <3>1, <3>2, <3>3
  <2>. QED
    BY <2>1, <2>2 DEF Range
<1>. QED
  BY <1>5, <1>6, <1>9, <1>11, <1>12, <1>13 DEF C, m, n, AreApart

\* What holds at 0, and at each number when it does at the one before, holds up to n.
LEMMA StepByStep ==
  ASSUME NEW n \in Nat, NEW good, 0 \in good, \A m \in 1 .. n : m - 1 \in good => m \in good
  PROVE  \A m \in 0 .. n : m \in good
<1>. DEFINE bad == (0 .. n) \ good
<1>. SUFFICES ASSUME bad # {} PROVE FALSE
  OBVIOUS
<1>1. PICK m \in bad : \A k \in bad : m <= k
  <2>1. bad \in SUBSET Nat
    OBVIOUS
  <2>. QED
    BY <2>1, LeastOf
<1>2. m \in 1 .. n /\ m - 1 \in 0 .. n /\ ~(m <= m - 1)
  BY <1>1
<1>3. m - 1 \in good
  BY <1>1, <1>2
<1>. QED
  BY <1>1, <1>2, <1>3

\* f[i] is the list sifted up to its member i.
SiftedUpTo(f, s, out) ==
  /\ Sifted(s, out) = f[Len(s)] /\ f[0] = <<>>
  /\ \A i \in 1 .. Len(s) : f[i] = IF s[i] \in out THEN f[i - 1] ELSE Append(f[i - 1], s[i])

\* Sifted goes through the list member by member.
LEMMA SiftedSteps ==
  ASSUME NEW T, NEW s \in Seq(T), NEW out
  PROVE  \E f \in [0 .. Len(s) -> Seq(T)] : SiftedUpTo(f, s, out)
<1>. DEFINE n == Len(s)
            After(x, i) == IF s[i] \in out THEN x ELSE Append(x, s[i])
            Upto(g, m) == /\ g \in [0 .. m -> Seq(T)] /\ g[0] = <<>>
                          /\ \A i \in 1 .. m : g[i] = After(g[i - 1], i)
            good == {m \in 0 .. n : \E g : Upto(g, m)}
            Is(k) == k = [i \in 0 .. n |-> IF i = 0 THEN <<>>
                                           ELSE IF s[i] \in out THEN k[i - 1]
                                           ELSE Append(k[i - 1], s[i])]
            kept == CHOOSE k : Is(k)
<1>1. n \in Nat /\ \A i \in 1 .. n : s[i] \in T
  OBVIOUS
<1>2. Sifted(s, out) = kept[n]
  BY DEF Sifted
<1>3. \A x \in Seq(T), i \in 1 .. n : After(x, i) \in Seq(T)
  BY <1>1
<1>4. \A k : Is(k) => k = [i \in 0 .. n |-> IF i = 0 THEN <<>> ELSE After(k[i - 1], i)]
  OBVIOUS
<1>5. \A k : k = [i \in 0 .. n |-> IF i = 0 THEN <<>> ELSE After(k[i - 1], i)] => Is(k)
  OBVIOUS
<1>. HIDE DEF n, After, Is, kept
<1>6. 0 \in good
  <2>1. Upto([i \in 0 .. 0 |-> <<>>], 0)
    <3>1. [i \in 0 .. 0 |-> <<>>] \in [0 .. 0 -> Seq(T)] /\ 0 \in 0 .. 0 /\ 1 .. 0 = {}
      OBVIOUS
    <3>. QED
      BY <3>1
  <2>2. 0 \in 0 .. n
    BY <1>1
  <2>. QED
    BY <2>1, <2>2
<1>7. ASSUME NEW m \in 1 .. n, m - 1 \in good
      PROVE  m \in good
  <2>1. m \in Nat /\ m \in 0 .. n /\ m - 1 \in 0 .. m - 1 /\ m \notin 0 .. m - 1
    BY <1>1
  <2>2. PICK g : Upto(g, m - 1)
    BY <1>7
  <2>. DEFINE last == After(g[m - 1], m)
              h == [i \in 0 .. m |-> IF i = m THEN last ELSE g[i]]
  <2>3. last \in Seq(T)
    BY <1>3, <2>1, <2>2
  <2>. HIDE DEF last
  <2>4. \A i \in 0 .. m : i = m \/ i \in 0 .. m - 1
    BY <2>1
  <2>5. h \in [0 .. m -> Seq(T)]
    BY <2>2, <2>3, <2>4
  <2>6. h[m] = last /\ \A i \in 0 .. m - 1 : h[i] = g[i]
    BY <2>1
  <2>7. 0 \in 0 .. m - 1 /\ \A i \in 1 .. m : i - 1 \in 0 .. m - 1 /\ (i = m \/ i \in 1 .. m - 1)
    BY <2>1
  <2>8. \A i \in 1 .. m - 1 : i \in 0 .. m - 1
    BY <2>1
  <2>. HIDE DEF h
  <2>9. ASSUME NEW i \in 1 .. m PROVE h[i] = After(h[i - 1], i)
    <3>1. h[i - 1] = g[i - 1]
      BY <2>6, <2>7
    <3>2. CASE i = m
      BY <2>6, <3>1, <3>2 DEF last
    <3>3. CASE i \in 1 .. m - 1
      BY <2>2, <2>6, <2>8, <3>1, <3>3
    <3>. QED
      BY <2>7, <3>2, <3>3
  <2>10. Upto(h, m)
    BY <2>2, <2>5, <2>6, <2>7, <2>9
  <2>. QED
    BY <2>1, <2>10
<1>8. n \in 0 .. n
  BY <1>1
<1>9. n \in good
  <2>. HIDE DEF good
  <2>. QED
    BY <1>1, <1>6, <1>7, <1>8, StepByStep
<1>10. PICK g : Upto(g, n)
  BY <1>9
<1>11. Is(g)
  <2>1. \A i \in 0 .. n : i = 0 \/ i \in 1 .. n
    BY <1>1
  <2>2. \A i \in 0 .. n : g[i] = IF i = 0 THEN <<>> ELSE After(g[i - 1], i)
    BY <1>10, <2>1
  <2>3. g = [i \in 0 .. n |-> g[i]]
    BY <1>10
  <2>4. g = [i \in 0 .. n |-> IF i = 0 THEN <<>> ELSE After(g[i - 1], i)]
    BY <2>2, <2>3
  <2>. QED
    BY <1>5, <2>4
<1>12. Is(kept)
  BY <1>11 DEF kept
<1>13. kept = [i \in 0 .. n |-> IF i = 0 THEN <<>> ELSE After(kept[i - 1], i)]
  BY <1>4, <1>12
<1>14. DOMAIN kept = 0 .. n /\ \A i \in 0 .. n : kept[i] = IF i = 0 THEN <<>> ELSE After(kept[i - 1], i)
  <2>. DEFINE body(i) == IF i = 0 THEN <<>> ELSE After(kept[i - 1], i)
  <2>1. kept = [i \in 0 .. n |-> body(i)]
    BY <1>13
  <2>. HIDE DEF body
  <2>2. DOMAIN kept = 0 .. n /\ \A i \in 0 .. n : kept[i] = body(i)
    BY <2>1
  <2>. QED
    BY <2>2 DEF body
<1>15. 0 \in 0 .. n /\ kept[0] = <<>> /\ \A i \in 1 .. n : kept[i] = After(kept[i - 1], i)
  <2>1. 0 \in 0 .. n /\ \A i \in 1 .. n : i \in 0 .. n /\ i # 0
    BY <1>1
  <2>. QED
    BY <1>14, <2>1
<1>16. \A i \in 0 .. n : i \in {j \in 0 .. n : kept[j] \in Seq(T)}
  <2>. DEFINE typed == {j \in 0 .. n : kept[j] \in Seq(T)}
  <2>0. kept[0] \in Seq(T)
    <3>1. <<>> \in Seq(T)
      OBVIOUS
    <3>. QED
      BY <1>15, <3>1
  <2>1. 0 \in typed
    BY <1>15, <2>0
  <2>2. \A i \in 1 .. n : i \in 0 .. n
    BY <1>1
  <2>3. \A i \in 1 .. n : i - 1 \in typed => i \in typed
    BY <1>3, <1>15, <2>2
  <2>. HIDE DEF typed
  <2>. QED
    BY <1>1, <2>1, <2>3, StepByStep DEF typed
<1>17. kept \in [0 .. n -> Seq(T)]
  <2>1. \A i \in 0 .. n : kept[i] \in Seq(T)
    BY <1>16
  <2>2. kept = [i \in 0 .. n |-> kept[i]]
    BY <1>14, <1>13
  <2>. QED
    BY <2>1, <2>2
<1>. QED
  BY <1>2, <1>15, <1>17 DEF n, After, SiftedUpTo

\* Sifted: the members that are not in out, each as often as it was.
LEMMA SiftedRows ==
  ASSUME NEW T, NEW s \in Seq(T), NEW out
  PROVE  /\ Sifted(s, out) \in Seq(T)
         /\ Range(Sifted(s, out)) = Range(s) \ out
         /\ OnceBut(s, out) => OnceBut(Sifted(s, out), {})
<1>0. PICK f \in [0 .. Len(s) -> Seq(T)] : SiftedUpTo(f, s, out)
  BY SiftedSteps
<1>. DEFINE n == Len(s)
<1>1. /\ f \in [0 .. n -> Seq(T)] /\ Sifted(s, out) = f[n] /\ f[0] = <<>>
      /\ \A i \in 1 .. n : f[i] = IF s[i] \in out THEN f[i - 1] ELSE Append(f[i - 1], s[i])
  BY <1>0 DEF SiftedUpTo
<1>2. n \in Nat /\ DOMAIN s = 1 .. n /\ \A i \in 1 .. n : s[i] \in T
  OBVIOUS
<1>. HIDE DEF n
<1>. DEFINE First(i) == {s[j] : j \in 1 .. i} \ out
            good == {i \in 0 .. n : /\ Range(f[i]) = First(i)
                                    /\ OnceBut(s, out) => OnceBut(f[i], {})}
<1>3. 0 \in good
  <2>1. 1 .. 0 = {} /\ DOMAIN <<>> = {} /\ 0 \in 0 .. n
    BY <1>2
  <2>2. Range(f[0]) = {} /\ First(0) = {} /\ OnceBut(f[0], {})
    BY <1>1, <2>1 DEF Range, OnceBut
  <2>. QED
    BY <2>1, <2>2
<1>4. ASSUME NEW m \in 1 .. n, m - 1 \in good
      PROVE  m \in good
  <2>1. m \in Nat /\ m \in 0 .. n /\ m - 1 \in 0 .. n /\ 1 .. m = (1 .. m - 1) \cup {m} /\ m \notin 1 .. m - 1
    BY <1>2
  <2>2. {s[j] : j \in 1 .. m} = {s[j] : j \in 1 .. m - 1} \cup {s[m]}
    BY <2>1
  <2>3. f[m] = IF s[m] \in out THEN f[m - 1] ELSE Append(f[m - 1], s[m])
    BY <1>1
  <2>4. /\ Range(f[m - 1]) = First(m - 1)
        /\ OnceBut(s, out) => OnceBut(f[m - 1], {})
    BY <1>4
  <2>5. CASE s[m] \in out
    <3>1. First(m) = First(m - 1) /\ f[m] = f[m - 1]
      BY <2>2, <2>3, <2>5
    <3>. QED
      BY <2>1, <2>4, <3>1
  <2>6. CASE s[m] \notin out
    <3>. DEFINE g == f[m - 1]  len == Len(g)
    <3>1. g \in Seq(T) /\ f[m] = Append(g, s[m]) /\ s[m] \in T
      BY <1>1, <1>2, <2>1, <2>3, <2>6
    <3>. HIDE DEF g
    <3>2. /\ DOMAIN f[m] = DOMAIN g \cup {len + 1} /\ len + 1 \notin DOMAIN g
          /\ f[m][len + 1] = s[m]
      BY <3>1
    <3>3. \A i \in DOMAIN g : f[m][i] = g[i]
      BY <3>1
    <3>. HIDE DEF len
    <3>4. Range(f[m]) = Range(g) \cup {s[m]}
      BY <3>2, <3>3 DEF Range
    <3>5. Range(f[m]) = First(m)
      BY <2>2, <2>4, <2>6, <3>4 DEF g
    <3>6. ASSUME OnceBut(s, out)
          PROVE  OnceBut(f[m], {})
      <4>1. s[m] \notin Range(g)
        <5>. SUFFICES ASSUME s[m] \in Range(g) PROVE FALSE
          OBVIOUS
        <5>1. PICK j \in 1 .. m - 1 : s[j] = s[m]
          BY <2>4 DEF g
        <5>2. j \in DOMAIN s /\ m \in DOMAIN s /\ j # m
          BY <1>2, <2>1, <5>1
        <5>. QED
          BY <2>6, <3>6, <5>1, <5>2 DEF OnceBut
      <4>2. OnceBut(g, {})
        BY <2>4, <3>6 DEF g
      <4>3. \A i \in DOMAIN g : g[i] # s[m]
        BY <4>1 DEF Range
      <4>. QED
        BY <3>2, <3>3, <4>2, <4>3 DEF OnceBut
    <3>. QED
      BY <2>1, <3>5, <3>6
  <2>. QED
    BY <2>5, <2>6
<1>5. n \in good
  <2>1. n \in 0 .. n
    BY <1>2
  <2>. HIDE DEF good
  <2>. QED
    BY <1>2, <1>3, <1>4, <2>1, StepByStep
<1>6. First(n) = Range(s) \ out
  BY <1>2 DEF Range
<1>7. n \in 0 .. n
  BY <1>2
<1>. QED
  BY <1>1, <1>5, <1>6, <1>7

\* A list whose members are all different has as many as it is long.
LEMMA OnceCount ==
  ASSUME NEW T, NEW s \in Seq(T), OnceBut(s, {})
  PROVE  IsFiniteSet(Range(s)) /\ Cardinality(Range(s)) = Len(s)
<1>1. Len(s) \in Nat /\ DOMAIN s = 1 .. Len(s)
  OBVIOUS
<1>2. s \in Bijection(1 .. Len(s), Range(s))
  <2>1. s \in [1 .. Len(s) -> Range(s)]
    BY <1>1 DEF Range
  <2>2. \A i, j \in 1 .. Len(s) : s[i] = s[j] => i = j
    BY <1>1 DEF OnceBut
  <2>3. \A y \in Range(s) : \E i \in 1 .. Len(s) : s[i] = y
    BY <1>1 DEF Range
  <2>. QED
    BY <2>1, <2>2, <2>3 DEF Bijection, Injection, Surjection, IsInjective
<1>3. IsFiniteSet(1 .. Len(s)) /\ Cardinality(1 .. Len(s)) = Len(s)
  <2>1. 1 \in Int /\ Len(s) \in Int /\ (IF 1 > Len(s) THEN 0 ELSE Len(s) - 1 + 1) = Len(s)
    BY <1>1
  <2>. QED
    BY <2>1, FS_Interval
<1>4. ExistsBijection(1 .. Len(s), Range(s))
  BY <1>2 DEF ExistsBijection
<1>. QED
  BY <1>3, <1>4, FS_Bijection

\* Of finitely many numbers each has a place of its own, and each place has one.
LEMMA AscendingRows ==
  ASSUME NEW S, S \subseteq Nat, IsFiniteSet(S)
  PROVE  /\ Cardinality(S) \in Nat /\ DOMAIN Ascending(S) = 1 .. Cardinality(S)
         /\ Ascending(S) \in Seq(S) /\ OnceBut(Ascending(S), {}) /\ Range(Ascending(S)) = S
<1>. DEFINE N == Cardinality(S)
            Less(x) == {y \in S : y < x}
            Rank(x) == Cardinality(Less(x))
            Ith(k) == CHOOSE x \in S : Rank(x) = k - 1
            good == {0} \cup {k \in 1 .. N : \E x \in S : Rank(x) = k - 1}
<1>1. N \in Nat
  BY FS_CardinalityType
<1>2. ASSUME NEW x \in S
      PROVE  IsFiniteSet(Less(x)) /\ Rank(x) \in 0 .. N - 1
  <2>1. Less(x) \in SUBSET S /\ x \notin Less(x)
    OBVIOUS
  <2>. HIDE DEF Less
  <2>2. IsFiniteSet(Less(x)) /\ Rank(x) <= N /\ Rank(x) # N
    BY <2>1, FS_Subset
  <2>3. Rank(x) \in Nat
    BY <2>2, FS_CardinalityType
  <2>. HIDE DEF Rank, N
  <2>. QED
    BY <1>1, <2>2, <2>3
<1>3. ASSUME NEW x \in S, NEW z \in S, x < z
      PROVE  Rank(x) # Rank(z)
  <2>1. x \in Less(z) /\ x \notin Less(x)
    BY <1>3
  <2>2. ASSUME NEW y \in Less(x) PROVE y \in Less(z)
    <3>1. y \in S /\ y < x /\ y \in Nat /\ x \in Nat /\ z \in Nat
      OBVIOUS
    <3>2. y < z
      BY <1>3, <3>1
    <3>. QED
      BY <3>1, <3>2
  <2>3. Less(x) \in SUBSET Less(z)
    BY <2>2
  <2>4. IsFiniteSet(Less(z))
    BY <1>2
  <2>. HIDE DEF Less
  <2>. QED
    BY <2>1, <2>3, <2>4, FS_Subset
<1>4. ASSUME NEW x \in S, NEW z \in S, Rank(x) = Rank(z)
      PROVE  x = z
  <2>1. x = z \/ x < z \/ z < x
    <3>1. x \in Nat /\ z \in Nat
      OBVIOUS
    <3>. QED
      BY <3>1
  <2>. HIDE DEF Rank
  <2>. QED
    BY <1>3, <1>4, <2>1
<1>5. ASSUME NEW m \in 1 .. N, m - 1 \in good
      PROVE  \E x \in S : Rank(x) = m - 1
  <2>1. \E low \in SUBSET S : Cardinality(low) = m - 1 /\ \A y \in low, z \in S \ low : y < z
    <3>1. CASE m = 1
      <4>1. Cardinality({}) = m - 1
        BY <3>1, FS_EmptySet
      <4>. QED
        BY <4>1
    <3>2. CASE m # 1
      <4>1. m - 1 # 0 /\ m \in Nat
        BY <1>1, <3>2
      <4>2. PICK x \in S : Rank(x) = (m - 1) - 1
        BY <1>5, <4>1
      <4>. DEFINE low == Less(x) \cup {x}
      <4>3. x \notin Less(x)
        OBVIOUS
      <4>4. Cardinality(low) = Rank(x) + 1
        <5>. HIDE DEF Less
        <5>. QED
          BY <1>2, <4>3, FS_AddElement
      <4>5. (m - 1) - 1 + 1 = m - 1
        BY <4>1
      <4>6. Cardinality(low) = m - 1
        BY <4>2, <4>4, <4>5
      <4>7. low \in SUBSET S
        OBVIOUS
      <4>8. ASSUME NEW y \in low, NEW z \in S \ low PROVE y < z
        <5>1. y \in Nat /\ z \in Nat /\ x \in Nat /\ ~(z < x) /\ z # x /\ (y < x \/ y = x)
          OBVIOUS
        <5>. QED
          BY <5>1
      <4>. QED
        BY <4>6, <4>7, <4>8
    <3>. QED
      BY <3>1, <3>2
  <2>2. PICK low \in SUBSET S : Cardinality(low) = m - 1 /\ \A y \in low, z \in S \ low : y < z
    BY <2>1
  <2>3. S \ low # {}
    <3>1. m - 1 # N
      BY <1>1
    <3>2. low # S
      BY <2>2, <3>1
    <3>. QED
      BY <3>2
  <2>4. PICK x \in S \ low : \A y \in S \ low : x <= y
    <3>1. S \ low \in SUBSET Nat
      OBVIOUS
    <3>. QED
      BY <2>3, <3>1, LeastOf
  <2>5. ASSUME NEW y \in S PROVE y < x <=> y \in low
    <3>1. x \in Nat /\ y \in Nat /\ (y \in low => y < x) /\ (y \notin low => x <= y)
      BY <2>2, <2>4
    <3>. QED
      BY <3>1
  <2>6. Less(x) = low
    BY <2>5
  <2>. QED
    BY <2>2, <2>4, <2>6
<1>6. \A k \in 1 .. N : \E x \in S : Rank(x) = k - 1
  <2>1. \A m \in 1 .. N : m - 1 \in good => m \in good
    BY <1>5
  <2>2. 0 \in good /\ \A m \in 1 .. N : m \in 0 .. N /\ m # 0
    BY <1>1
  <2>3. \A m \in 0 .. N : m \in good
    <3>. HIDE DEF good
    <3>. QED
      BY <1>1, <2>1, <2>2, StepByStep
  <2>. QED
    BY <2>2, <2>3
<1>7. Ascending(S) = [k \in 1 .. N |-> Ith(k)]
  BY DEF Ascending
<1>. HIDE DEF Rank
<1>8. \A k \in 1 .. N : Ith(k) \in S /\ Rank(Ith(k)) = k - 1
  BY <1>6
<1>. HIDE DEF Ith, N
<1>9. Ascending(S) \in [1 .. N -> S]
  BY <1>7, <1>8
<1>10. Ascending(S) \in Seq(S) /\ DOMAIN Ascending(S) = 1 .. N
  BY <1>1, <1>9
<1>11. \A k \in 1 .. N : Ascending(S)[k] = Ith(k)
  BY <1>7
<1>12. OnceBut(Ascending(S), {})
  <2>. SUFFICES ASSUME NEW i \in 1 .. N, NEW j \in 1 .. N, Ith(i) = Ith(j)
                PROVE  i = j
    BY <1>10, <1>11 DEF OnceBut
  <2>1. i - 1 = j - 1
    BY <1>8
  <2>. QED
    BY <1>1, <2>1
<1>13. Range(Ascending(S)) = S
  <2>1. Range(Ascending(S)) \subseteq S
    BY <1>8, <1>10, <1>11 DEF Range
  <2>2. ASSUME NEW x \in S
        PROVE  x \in Range(Ascending(S))
    <3>. DEFINE k == Rank(x) + 1
    <3>0. Rank(x) \in 0 .. N - 1
      BY <1>2
    <3>1. k \in 1 .. N /\ k - 1 = Rank(x)
      BY <1>1, <3>0
    <3>. HIDE DEF k
    <3>2. Ith(k) = x
      BY <1>4, <1>8, <3>1
    <3>. QED
      BY <1>10, <1>11, <3>1, <3>2 DEF Range
  <2>. QED
    BY <2>1, <2>2
<1>. QED
  BY <1>1, <1>10, <1>12, <1>13 DEF N

\* Two lists, one after the other.
LEMMA ConcatRows ==
  ASSUME NEW S, NEW a \in Seq(S), NEW b \in Seq(S)
  PROVE  /\ a \o b \in Seq(S) /\ Range(a \o b) = Range(a) \cup Range(b)
         /\ OnceBut(a, {}) /\ OnceBut(b, {}) /\ Range(a) \cap Range(b) = {} => OnceBut(a \o b, {})
<1>. DEFINE n == Len(a)  m == Len(b)  c == a \o b
<1>1. n \in Nat /\ m \in Nat /\ c \in Seq(S) /\ Len(c) = n + m
  OBVIOUS
<1>2. /\ \A i \in 1 .. n : c[i] = a[i]
      /\ \A i \in 1 .. m : c[n + i] = b[i]
  OBVIOUS
<1>3. DOMAIN a = 1 .. n /\ DOMAIN b = 1 .. m /\ DOMAIN c = 1 .. n + m
  BY <1>1
<1>. HIDE DEF n, m, c
<1>4. \A i \in DOMAIN c : i \in 1 .. n \/ (i - n \in 1 .. m /\ n + (i - n) = i)
  BY <1>1, <1>3
<1>5. \A i \in DOMAIN c : \/ i \in 1 .. n /\ c[i] = a[i]
                          \/ i - n \in 1 .. m /\ c[i] = b[i - n]
  BY <1>2, <1>4
<1>6. 1 .. n \subseteq DOMAIN c /\ \A i \in 1 .. m : n + i \in DOMAIN c
  BY <1>1, <1>3
<1>7. Range(c) = Range(a) \cup Range(b)
  <2>1. ASSUME NEW i \in DOMAIN c PROVE c[i] \in Range(a) \cup Range(b)
    BY <1>3, <1>5 DEF Range
  <2>2. ASSUME NEW i \in DOMAIN a PROVE a[i] \in Range(c)
    <3>1. i \in DOMAIN c /\ c[i] = a[i]
      BY <1>2, <1>3, <1>6
    <3>. QED
      BY <3>1 DEF Range
  <2>3. ASSUME NEW i \in DOMAIN b PROVE b[i] \in Range(c)
    <3>1. n + i \in DOMAIN c /\ c[n + i] = b[i]
      BY <1>2, <1>3, <1>6
    <3>. QED
      BY <3>1 DEF Range
  <2>. QED
    BY <2>1, <2>2, <2>3 DEF Range
<1>8. ASSUME OnceBut(a, {}), OnceBut(b, {}), Range(a) \cap Range(b) = {},
             NEW i \in DOMAIN c, NEW j \in DOMAIN c, c[i] = c[j]
      PROVE  i = j
  <2>1. \A x \in 1 .. n, y \in 1 .. m : a[x] # b[y]
    BY <1>3, <1>8 DEF Range
  <2>2. CASE i \in 1 .. n /\ c[i] = a[i]
    <3>1. j \in 1 .. n /\ c[j] = a[j]
      BY <1>5, <1>8, <2>1, <2>2
    <3>. QED
      BY <1>3, <1>8, <2>2, <3>1 DEF OnceBut
  <2>3. CASE i - n \in 1 .. m /\ c[i] = b[i - n]
    <3>1. j - n \in 1 .. m /\ c[j] = b[j - n]
      BY <1>5, <1>8, <2>1, <2>3
    <3>2. i - n = j - n
      BY <1>3, <1>8, <2>3, <3>1 DEF OnceBut
    <3>. QED
      BY <1>1, <1>3, <3>2
  <2>. QED
    BY <1>5, <2>2, <2>3
<1>. QED
  BY <1>1, <1>7, <1>8 DEF c, OnceBut

----------------------------------------------------------------------------
(* The repeater: its rows and its parent's children follow the model.       *)

Shown == Values \cup Nat
DelegateProps == [index : Nat, shows : Shown, adding : BOOLEAN, removing : BOOLEAN]
RowList == Seq(Delegates \cup {Placeholder})

\* The rows and the properties: each delegate has one row or is on its way out, and only what
\* is on its way out is "removing".
RowsSound(v) ==
  /\ v.items \in RowList /\ OnceBut(v.items, {Placeholder})
  /\ DOMAIN v.props \subseteq Delegates /\ v.props \in [DOMAIN v.props -> DelegateProps]
  /\ DOMAIN v.props = LiveItems(v.items) \cup v.dyingItems
  /\ LiveItems(v.items) \cap v.dyingItems = {}
  /\ \A x \in DOMAIN v.props : v.props[x].removing <=> x \in v.dyingItems

\* The parent's children: the repeater and every delegate, once.
StackSound(v) ==
  /\ v.stack \in Seq(Delegates \cup {Self}) /\ OnceBut(v.stack, {})
  /\ Range(v.stack) = DOMAIN v.props \cup {Self}

\* The rows show the content c.
RowsShow(v, c) ==
  /\ Len(v.items) = Len(c)
  /\ \A i \in DOMAIN v.items : v.items[i] # Placeholder =>
       v.props[v.items[i]].index = i /\ v.props[v.items[i]].shows = c[i]

RepeaterInv ==
  /\ content \in Seq(Shown)
  /\ mode = "count" => \A i \in DOMAIN content : content[i] = i
  /\ RowsSound(State) /\ StackSound(State)
  /\ IF complete THEN RowsShow(State, content) ELSE items = <<>>

\* No delegate is the placeholder or the repeater itself.
LEMMA Apart == Placeholder \notin Delegates /\ Self \notin Delegates
<1>1. ~(-1 \in Nat)
  OBVIOUS
<1>. QED
  BY <1>1, RepeaterAssumption DEF Placeholder, Self

\* The delegates of a list are what it holds but for the placeholder.
LEMMA LiveRange ==
  ASSUME NEW list
  PROVE  LiveItems(list) = Range(list) \ {Placeholder}
BY DEF LiveItems, Range

\* updateIndices: each row from the first on has its number, nothing else changes.
HasIndexed(result, D, its, list, from) ==
  /\ result \in [D -> DelegateProps]
  /\ \A x \in D : /\ result[x].shows = its[x].shows /\ result[x].adding = its[x].adding
                  /\ result[x].removing = its[x].removing
  /\ \A i \in DOMAIN list :
       list[i] \in D => result[list[i]].index = IF i >= from THEN i ELSE its[list[i]].index

LEMMA IndexedRows ==
  ASSUME NEW D, D \subseteq Delegates, NEW its \in [D -> DelegateProps],
         NEW list \in RowList, OnceBut(list, {Placeholder}), NEW from \in Nat
  PROVE  HasIndexed(Indexed(its, list, from), D, its, list, from)
<1>. DEFINE Late(x) == \E i \in DOMAIN list : i >= from /\ list[i] = x
            at(x) == CHOOSE i \in DOMAIN list : list[i] = x
            new == Indexed(its, list, from)
<1>1. /\ new = [x \in D |-> IF Late(x) THEN [its[x] EXCEPT !.index = at(x)] ELSE its[x]]
      /\ DOMAIN list \subseteq Nat
  <2>1. DOMAIN its = D
    OBVIOUS
  <2>2. DOMAIN list \subseteq Nat
    BY DEF RowList
  <2>. QED
    BY <2>1, <2>2 DEF Indexed
<1>2. ASSUME NEW i \in DOMAIN list, list[i] \in D
      PROVE  at(list[i]) = i
  <2>1. list[i] # Placeholder
    BY <1>2, Apart
  <2>. QED
    BY <2>1 DEF OnceBut
<1>3. ASSUME NEW x \in D, Late(x)
      PROVE  at(x) \in Nat
  BY <1>1, <1>3
<1>. HIDE DEF new, at
<1>4. ASSUME NEW x \in D
      PROVE  /\ new[x] \in DelegateProps /\ new[x].shows = its[x].shows
             /\ new[x].adding = its[x].adding /\ new[x].removing = its[x].removing
             /\ new[x].index = IF Late(x) THEN at(x) ELSE its[x].index
  <2>. HIDE DEF Late
  <2>1. its[x] \in DelegateProps /\ new[x] = IF Late(x) THEN [its[x] EXCEPT !.index = at(x)] ELSE its[x]
    BY <1>1
  <2>2. Late(x) => at(x) \in Nat
    BY <1>3
  <2>. QED
    BY <2>1, <2>2 DEF DelegateProps
<1>5. new \in [D -> DelegateProps]
  BY <1>1, <1>4
<1>6. ASSUME NEW i \in DOMAIN list, list[i] \in D
      PROVE  new[list[i]].index = IF i >= from THEN i ELSE its[list[i]].index
  <2>1. Late(list[i]) <=> i >= from
    <3>1. \A j \in DOMAIN list : list[j] = list[i] => j = i
      BY <1>6, Apart DEF OnceBut
    <3>. QED
      BY <3>1
  <2>. HIDE DEF Late
  <2>. QED
    BY <1>2, <1>4, <1>6, <2>1
<1>. QED
  BY <1>4, <1>5, <1>6 DEF new, HasIndexed

\* restack moves what has a row to just before the repeater and loses nothing.
LEMMA RestackedRows ==
  ASSUME NEW children \in Seq(Delegates \cup {Self}), OnceBut(children, {}),
         Self \in Range(children), NEW list \in RowList, OnceBut(list, {Placeholder})
  PROVE  /\ Restacked(children, list) \in Seq(Delegates \cup {Self})
         /\ OnceBut(Restacked(children, list), {})
         /\ Range(Restacked(children, list)) = Range(children) \cup LiveItems(list)
<1>. DEFINE live == LiveItems(list)  others == Sifted(children, live)
            self == CHOOSE i \in DOMAIN others : others[i] = Self
            own == Sifted(list, {Placeholder})
<1>1. live \subseteq Delegates /\ Self \notin live /\ live = Range(list) \ {Placeholder}
  <2>1. live = Range(list) \ {Placeholder}
    BY LiveRange
  <2>2. Range(list) \subseteq Delegates \cup {Placeholder}
    BY DEF RowList, Range
  <2>. QED
    BY <2>1, <2>2, Apart
<1>. HIDE DEF live
<1>2. /\ others \in Seq(Delegates \cup {Self}) /\ Range(others) = Range(children) \ live
      /\ OnceBut(others, {})
  <2>1. OnceBut(children, live)
    BY DEF OnceBut
  <2>. QED
    BY <2>1, SiftedRows
<1>3. own \in Seq(Delegates) /\ Range(own) = live /\ OnceBut(own, {})
  <2>1. own \in RowList /\ Range(own) = live /\ OnceBut(own, {})
    BY <1>1, SiftedRows DEF RowList
  <2>2. \A i \in DOMAIN own : own[i] \in Delegates
    BY <1>1, <2>1 DEF Range
  <2>3. own = [i \in 1 .. Len(own) |-> own[i]] /\ Len(own) \in Nat /\ DOMAIN own = 1 .. Len(own)
    <3>. HIDE DEF own
    <3>. QED
      BY <2>1 DEF RowList
  <2>4. own \in [1 .. Len(own) -> Delegates]
    <3>. HIDE DEF own
    <3>. QED
      BY <2>2, <2>3
  <2>. QED
    <3>. HIDE DEF own
    <3>. QED
      BY <2>1, <2>3, <2>4
<1>. HIDE DEF others, own
<1>4. self \in DOMAIN others /\ others[self] = Self
  <2>1. \E i \in DOMAIN others : others[i] = Self
    BY <1>1, <1>2 DEF Range
  <2>. QED
    BY <2>1
<1>5. Restacked(children, list) = Spliced(others, self, own)
  BY DEF Restacked, Spliced, others, own, live
<1>. HIDE DEF self
<1>6. self \in 1 .. Len(others) + 1 /\ own \in Seq(Delegates \cup {Self})
  BY <1>2, <1>3, <1>4
<1>7. \A i \in DOMAIN others, j \in DOMAIN own : others[i] = own[j] => others[i] \in {}
  BY <1>2, <1>3 DEF Range
<1>8. /\ Spliced(others, self, own) \in Seq(Delegates \cup {Self})
      /\ Range(Spliced(others, self, own)) = Range(others) \cup Range(own)
  <2>. DEFINE S == Delegates \cup {Self}
  <2>. HIDE DEF S
  <2>1. others \in Seq(S) /\ own \in Seq(S) /\ self \in 1 .. Len(others) + 1
    BY <1>2, <1>6 DEF S
  <2>2. HasSpliced(Spliced(others, self, own), S, others, self, own)
    BY <2>1, SplicedRows
  <2>. QED
    BY <2>2 DEF S, HasSpliced
<1>9. OnceBut(Spliced(others, self, own), {})
  BY <1>2, <1>3, <1>6, <1>7, SplicedOnce
<1>. QED
  BY <1>2, <1>3, <1>5, <1>8, <1>9 DEF live

\* insertItems: whatever rows cannot have a delegate, the rest are sound and show what is put in.
LEMMA InsertedSound ==
  ASSUME NEW v, RowsSound(v), StackSound(v), NEW c \in Seq(Shown), RowsShow(v, c),
         NEW first \in 1 .. Len(c) + 1, NEW new \in Seq(Shown), Room(v, Len(new)),
         NEW failed, NEW entering \in BOOLEAN
  PROVE  /\ RowsSound(Inserted(v, first, new, failed, entering))
         /\ StackSound(Inserted(v, first, new, failed, entering))
         /\ RowsShow(Inserted(v, first, new, failed, entering), Spliced(c, first, new))
<1>. DEFINE D == DOMAIN v.props  free == Delegates \ D  n == Len(new)
            fresh == Ascending(free)
            made == [i \in DOMAIN new |-> IF i \in failed THEN Placeholder ELSE fresh[i]]
            list == Spliced(v.items, first, made)
            row(x) == CHOOSE i \in DOMAIN made : made[i] = x
            entry(x) == [index |-> first + row(x) - 1, shows |-> new[row(x)], adding |-> entering,
                         removing |-> FALSE]
            its == [x \in D \cup LiveItems(made) |-> IF x \in D THEN v.props[x] ELSE entry(x)]
            props2 == Indexed(its, list, first + n)
            stack2 == Restacked(v.stack \o Sifted(made, {Placeholder}), list)
            w == Inserted(v, first, new, failed, entering)
<1>1. /\ w.items = list /\ w.props = props2 /\ w.dyingItems = v.dyingItems /\ w.stack = stack2
  BY DEF Inserted
<1>. HIDE DEF w
<1>2. /\ v.items \in RowList /\ OnceBut(v.items, {Placeholder}) /\ Len(v.items) = Len(c)
      /\ D \subseteq Delegates /\ v.props \in [D -> DelegateProps]
      /\ D = LiveItems(v.items) \cup v.dyingItems /\ LiveItems(v.items) \cap v.dyingItems = {}
      /\ \A x \in D : v.props[x].removing <=> x \in v.dyingItems
  BY DEF RowsSound, RowsShow
<1>3. first \in 1 .. Len(v.items) + 1 /\ first \in Nat /\ first >= 1 /\ n \in Nat
      /\ DOMAIN new = 1 .. n /\ \A i \in 1 .. n : new[i] \in Shown
  BY <1>2
<1>4. /\ Cardinality(free) \in Nat /\ Cardinality(free) >= n
      /\ DOMAIN fresh = 1 .. Cardinality(free) /\ OnceBut(fresh, {}) /\ Range(fresh) = free
  <2>1. free \subseteq Nat /\ IsFiniteSet(free)
    BY RepeaterAssumption, FS_Subset
  <2>2. Cardinality(free) >= n
    BY DEF Room
  <2>. HIDE DEF free
  <2>. QED
    BY <2>1, <2>2, AscendingRows
<1>5. \A i \in 1 .. n : i \in DOMAIN fresh /\ fresh[i] \in free
  <2>. HIDE DEF n, free, fresh
  <2>1. \A i \in 1 .. n : i \in DOMAIN fresh
    BY <1>3, <1>4
  <2>. QED
    BY <1>4, <2>1 DEF Range
<1>. HIDE DEF fresh
<1>6. /\ made \in RowList /\ Len(made) = n /\ DOMAIN made = 1 .. n /\ OnceBut(made, {Placeholder})
      /\ \A i \in 1 .. n : made[i] \in free \cup {Placeholder}
  <2>1. made = [i \in 1 .. n |-> IF i \in failed THEN Placeholder ELSE fresh[i]]
    BY <1>3
  <2>2. \A i \in 1 .. n : made[i] = IF i \in failed THEN Placeholder ELSE fresh[i]
    BY <2>1
  <2>3. \A i \in 1 .. n : made[i] \in free \cup {Placeholder}
    BY <1>5, <2>2
  <2>4. made \in [1 .. n -> Delegates \cup {Placeholder}]
    BY <2>1, <2>3
  <2>. HIDE DEF made, free
  <2>5. made \in RowList /\ Len(made) = n /\ DOMAIN made = 1 .. n
    BY <1>3, <2>4 DEF RowList
  <2>6. OnceBut(made, {Placeholder})
    BY <1>4, <1>5, <2>2, <2>5 DEF OnceBut
  <2>. QED
    BY <2>3, <2>5, <2>6
<1>7. LiveItems(made) \subseteq free /\ LiveItems(made) \cap D = {}
  BY <1>6 DEF LiveItems
<1>. HIDE DEF made
<1>8. ASSUME NEW i \in 1 .. n, made[i] # Placeholder
      PROVE  row(made[i]) = i /\ made[i] \in LiveItems(made)
  <2>1. \A j \in DOMAIN made : made[j] = made[i] => j = i
    BY <1>6, <1>8 DEF OnceBut
  <2>. QED
    BY <1>6, <1>8, <2>1 DEF LiveItems
<1>9. ASSUME NEW x \in LiveItems(made)
      PROVE  row(x) \in 1 .. n
  BY <1>6 DEF LiveItems
<1>. HIDE DEF row
<1>10. /\ list \in RowList /\ OnceBut(list, {Placeholder}) /\ Len(list) = Len(v.items) + n
       /\ Range(list) = Range(v.items) \cup Range(made)
  <2>. DEFINE S == Delegates \cup {Placeholder}
  <2>1. v.items \in Seq(S) /\ made \in Seq(S)
    BY <1>2, <1>6 DEF RowList
  <2>. HIDE DEF S
  <2>2. \A i \in DOMAIN v.items, j \in DOMAIN made :
          v.items[i] = made[j] => v.items[i] \in {Placeholder}
    <3>1. \A i \in DOMAIN v.items : v.items[i] \in D \cup {Placeholder}
      BY <1>2 DEF LiveItems
    <3>. QED
      BY <1>6, <3>1
  <2>3. HasSpliced(list, S, v.items, first, made)
    BY <1>3, <2>1, SplicedRows
  <2>4. list \in Seq(S) /\ Len(list) = Len(v.items) + n
    BY <1>6, <2>3 DEF HasSpliced
  <2>5. Range(list) = Range(v.items) \cup Range(made)
    BY <2>3 DEF HasSpliced
  <2>6. OnceBut(list, {Placeholder})
    BY <1>2, <1>3, <1>6, <2>1, <2>2, SplicedOnce
  <2>. QED
    BY <2>4, <2>5, <2>6 DEF S, RowList
<1>11. LiveItems(list) = LiveItems(v.items) \cup LiveItems(made)
  BY <1>10, LiveRange
<1>12. /\ \A i \in DOMAIN list : i < first => i \in DOMAIN v.items /\ list[i] = v.items[i]
       /\ \A i \in DOMAIN list : i >= first /\ i < first + n =>
            i - (first - 1) \in 1 .. n /\ list[i] = made[i - (first - 1)]
       /\ \A i \in DOMAIN list : i >= first + n => i - n \in DOMAIN v.items /\ list[i] = v.items[i - n]
  <2>. DEFINE S == Delegates \cup {Placeholder}
  <2>1. v.items \in Seq(S) /\ made \in Seq(S)
    BY <1>2, <1>6 DEF RowList
  <2>. HIDE DEF S
  <2>2. HasSpliced(list, S, v.items, first, made)
    BY <1>3, <2>1, SplicedRows
  <2>. HIDE DEF list
  <2>. QED
    BY <1>6, <2>2 DEF HasSpliced
<1>13. /\ its \in [D \cup LiveItems(made) -> DelegateProps]
       /\ \A x \in D : its[x] = v.props[x]
       /\ \A x \in LiveItems(made) : its[x] = entry(x)
  <2>1. \A x \in LiveItems(made) : entry(x) \in DelegateProps
    <3>. SUFFICES ASSUME NEW x \in LiveItems(made) PROVE entry(x) \in DelegateProps
      OBVIOUS
    <3>1. row(x) \in 1 .. n /\ first + row(x) - 1 \in Nat /\ new[row(x)] \in Shown
      BY <1>3, <1>9
    <3>. QED
      BY <3>1 DEF DelegateProps
  <2>. HIDE DEF entry
  <2>. QED
    BY <1>2, <1>7, <2>1
<1>14. \A x \in LiveItems(made) :
         /\ its[x].index = first + row(x) - 1 /\ its[x].shows = new[row(x)] /\ its[x].removing = FALSE
  <2>. SUFFICES ASSUME NEW x \in LiveItems(made)
                PROVE  /\ its[x].index = first + row(x) - 1 /\ its[x].shows = new[row(x)]
                       /\ its[x].removing = FALSE
    OBVIOUS
  <2>1. its[x] = entry(x)
    BY <1>13
  <2>. HIDE DEF its
  <2>. QED
    BY <2>1
<1>. HIDE DEF list, its, entry
<1>15. /\ D \cup LiveItems(made) \subseteq Delegates /\ first + n \in Nat
  BY <1>2, <1>3, <1>7
<1>. DEFINE E == D \cup LiveItems(made)
<1>16. /\ props2 \in [E -> DelegateProps]
       /\ \A x \in E : props2[x].shows = its[x].shows /\ props2[x].removing = its[x].removing
       /\ \A i \in DOMAIN list : list[i] \in E =>
            props2[list[i]].index = IF i >= first + n THEN i ELSE its[list[i]].index
  <2>1. its \in [E -> DelegateProps] /\ E \subseteq Delegates
    BY <1>13, <1>15
  <2>. HIDE DEF E
  <2>2. HasIndexed(props2, E, its, list, first + n)
    BY <1>10, <1>15, <2>1, IndexedRows
  <2>. HIDE DEF props2
  <2>. QED
    BY <2>2 DEF HasIndexed
<1>. HIDE DEF props2
<1>17. RowsSound(w)
  <2>1. DOMAIN w.props = E
    BY <1>1, <1>16
  <2>2. E = LiveItems(list) \cup v.dyingItems /\ LiveItems(list) \cap v.dyingItems = {}
    BY <1>2, <1>7, <1>11
  <2>3. \A x \in E : props2[x].removing <=> x \in v.dyingItems
    <3>1. \A x \in LiveItems(made) : ~props2[x].removing /\ x \notin v.dyingItems
      BY <1>2, <1>7, <1>14, <1>16
    <3>2. \A x \in D : props2[x].removing <=> x \in v.dyingItems
      BY <1>2, <1>13, <1>16
    <3>. QED
      BY <3>1, <3>2
  <2>. HIDE DEF E
  <2>. QED
    BY <1>1, <1>10, <1>15, <1>16, <2>1, <2>2, <2>3 DEF RowsSound, E
<1>18. StackSound(w)
  <2>. DEFINE own == Sifted(made, {Placeholder})
  <2>1. v.stack \in Seq(Delegates \cup {Self}) /\ OnceBut(v.stack, {}) /\ Range(v.stack) = D \cup {Self}
    BY DEF StackSound
  <2>2. own \in RowList /\ Range(own) = LiveItems(made) /\ OnceBut(own, {})
    <3>1. made \in Seq(Delegates \cup {Placeholder})
      BY <1>6 DEF RowList
    <3>2. own \in Seq(Delegates \cup {Placeholder})
      BY <3>1, SiftedRows
    <3>3. Range(own) = Range(made) \ {Placeholder}
      BY <3>1, SiftedRows
    <3>4. OnceBut(own, {})
      BY <1>6, <3>1, SiftedRows
    <3>. QED
      BY <3>2, <3>3, <3>4, LiveRange DEF RowList
  <2>. HIDE DEF own
  <2>3. own \in Seq(Delegates \cup {Self})
    <3>1. own = [i \in 1 .. Len(own) |-> own[i]] /\ Len(own) \in Nat /\ DOMAIN own = 1 .. Len(own)
      BY <2>2 DEF RowList
    <3>2. \A i \in DOMAIN own : own[i] \in Delegates
      BY <1>7, <2>2 DEF Range
    <3>3. own \in [1 .. Len(own) -> Delegates \cup {Self}]
      BY <3>1, <3>2
    <3>. QED
      BY <3>1, <3>3
  <2>. DEFINE all == v.stack \o own
  <2>4. all \in Seq(Delegates \cup {Self}) /\ Range(all) = Range(v.stack) \cup Range(own)
    <3>. DEFINE S == Delegates \cup {Self}
    <3>1. v.stack \in Seq(S) /\ own \in Seq(S)
      BY <2>1, <2>3
    <3>. HIDE DEF S
    <3>2. all \in Seq(S)
      BY <3>1, ConcatRows
    <3>3. Range(all) = Range(v.stack) \cup Range(own)
      BY <3>1, ConcatRows
    <3>. QED
      BY <3>2, <3>3 DEF S
  <2>5. Range(v.stack) \cap Range(own) = {}
    BY <1>7, <2>1, <2>2, Apart
  <2>6. OnceBut(all, {})
    <3>. DEFINE S == Delegates \cup {Self}
    <3>1. v.stack \in Seq(S) /\ own \in Seq(S)
      BY <2>1, <2>3
    <3>. HIDE DEF S
    <3>. QED
      BY <2>1, <2>2, <2>5, <3>1, ConcatRows
  <2>. HIDE DEF all
  <2>7. Self \in Range(all)
    BY <2>1, <2>4
  <2>8. Restacked(all, list) \in Seq(Delegates \cup {Self})
    BY <1>10, <2>4, <2>6, <2>7, RestackedRows
  <2>9. OnceBut(Restacked(all, list), {})
    BY <1>10, <2>4, <2>6, <2>7, RestackedRows
  <2>10. Range(Restacked(all, list)) = Range(all) \cup LiveItems(list)
    BY <1>10, <2>4, <2>6, <2>7, RestackedRows
  <2>11. Range(Restacked(all, list)) = E \cup {Self}
    BY <1>2, <1>11, <2>1, <2>2, <2>4, <2>10
  <2>12. DOMAIN w.props = E /\ w.stack = Restacked(all, list)
    BY <1>1, <1>16 DEF all, own
  <2>. QED
    BY <2>8, <2>9, <2>11, <2>12 DEF StackSound
<1>19. RowsShow(w, Spliced(c, first, new))
  <2>. DEFINE shown == Spliced(c, first, new)
  <2>0. HasSpliced(shown, Shown, c, first, new)
    BY SplicedRows
  <2>. HIDE DEF shown
  <2>1. /\ Len(shown) = Len(c) + n /\ shown \in Seq(Shown)
    BY <2>0 DEF HasSpliced
  <2>2. \A i \in DOMAIN shown : i < first => shown[i] = c[i]
    BY <2>0 DEF HasSpliced
  <2>3. \A i \in DOMAIN shown : i >= first /\ i < first + n => shown[i] = new[i - (first - 1)]
    BY <2>0 DEF HasSpliced
  <2>4. \A i \in DOMAIN shown : i >= first + n => shown[i] = c[i - n]
    BY <2>0 DEF HasSpliced
  <2>5. Len(shown) = Len(list) /\ DOMAIN shown = DOMAIN list /\ DOMAIN list \subseteq Nat
    BY <1>2, <1>10, <2>1 DEF RowList
  <2>6. ASSUME NEW i \in DOMAIN list, list[i] # Placeholder
        PROVE  props2[list[i]].index = i /\ props2[list[i]].shows = shown[i]
    <3>0. list[i] \in E /\ i \in Nat
      BY <1>2, <1>11, <2>5, <2>6 DEF LiveItems
    <3>1. /\ props2[list[i]].shows = its[list[i]].shows
          /\ props2[list[i]].index = IF i >= first + n THEN i ELSE its[list[i]].index
      BY <1>16, <3>0
    <3>2. CASE i < first
      <4>1. i \in DOMAIN v.items /\ list[i] = v.items[i]
        BY <1>12, <3>2
      <4>2. list[i] \in D /\ v.props[list[i]].index = i /\ v.props[list[i]].shows = c[i]
        BY <1>2, <2>6, <4>1 DEF RowsShow, LiveItems
      <4>3. ~(i >= first + n)
        BY <1>3, <3>0, <3>2
      <4>. QED
        BY <1>13, <2>2, <2>5, <3>1, <3>2, <4>2, <4>3
    <3>3. CASE i >= first /\ i < first + n
      <4>. DEFINE k == i - (first - 1)
      <4>1. k \in 1 .. n /\ list[i] = made[k]
        BY <1>12, <3>3
      <4>2. first + k - 1 = i /\ ~(i >= first + n)
        BY <1>3, <3>0, <3>3
      <4>3. shown[i] = new[k]
        BY <2>3, <2>5, <3>3
      <4>. HIDE DEF k
      <4>4. row(list[i]) = k /\ list[i] \in LiveItems(made)
        BY <1>8, <2>6, <4>1
      <4>. QED
        BY <1>14, <3>1, <4>2, <4>3, <4>4
    <3>4. CASE i >= first + n
      <4>1. i - n \in DOMAIN v.items /\ list[i] = v.items[i - n]
        BY <1>12, <3>4
      <4>2. list[i] \in D /\ v.props[list[i]].shows = c[i - n]
        BY <1>2, <2>6, <4>1 DEF RowsShow, LiveItems
      <4>. QED
        BY <1>13, <2>4, <2>5, <3>1, <3>4, <4>2
    <3>. QED
      BY <1>3, <3>0, <3>2, <3>3, <3>4
  <2>. QED
    BY <1>1, <2>5, <2>6 DEF RowsShow, shown
<1>. QED
  BY <1>17, <1>18, <1>19 DEF w

\* removeItems: what is taken out is on its way out or gone, the rest moves up.
LEMMA RemovedSound ==
  ASSUME NEW v, RowsSound(v), StackSound(v), NEW first \in 1 .. Len(v.items),
         NEW last \in first .. Len(v.items), NEW animate \in BOOLEAN
  PROVE  /\ RowsSound(Removed(v, first, last, animate))
         /\ StackSound(Removed(v, first, last, animate))
         /\ Removed(v, first, last, animate).items = Cut(v.items, first, last)
         /\ \A c \in Seq(Shown) : RowsShow(v, c) =>
              RowsShow(Removed(v, first, last, animate), Cut(c, first, last))
<1>. DEFINE D == DOMAIN v.props  m == SubSeq(v.items, first, last)  out == LiveItems(m)
            list == Cut(v.items, first, last)  n == last - first + 1
            E == D \ (IF animate THEN {} ELSE out)
            its == [x \in E |-> IF x \in out THEN [v.props[x] EXCEPT !.removing = TRUE]
                                ELSE v.props[x]]
            props2 == Indexed(its, list, first)
            dying2 == IF animate THEN v.dyingItems \cup out ELSE v.dyingItems
            stack2 == IF animate THEN v.stack ELSE Sifted(v.stack, out)
            w == Removed(v, first, last, animate)
<1>1. /\ w.items = list /\ w.props = props2 /\ w.dyingItems = dying2 /\ w.stack = stack2
  BY DEF Removed
<1>. HIDE DEF w
<1>2. /\ v.items \in RowList /\ OnceBut(v.items, {Placeholder})
      /\ D \subseteq Delegates /\ v.props \in [D -> DelegateProps]
      /\ D = LiveItems(v.items) \cup v.dyingItems /\ LiveItems(v.items) \cap v.dyingItems = {}
      /\ \A x \in D : v.props[x].removing <=> x \in v.dyingItems
  BY DEF RowsSound
<1>3. /\ HasCut(list, Delegates \cup {Placeholder}, v.items, first, last)
      /\ OnceBut(list, {Placeholder}) /\ Range(v.items) = Range(list) \cup Range(m)
      /\ \A i \in DOMAIN list, j \in DOMAIN m : list[i] = m[j] => list[i] = Placeholder
  <2>. DEFINE S == Delegates \cup {Placeholder}
  <2>1. v.items \in Seq(S)
    BY <1>2 DEF RowList
  <2>. HIDE DEF S
  <2>2. HasCut(list, S, v.items, first, last)
    BY <2>1, CutRows
  <2>3. AreApart(list, m, S, v.items, first, last, {Placeholder})
    BY <2>1, CutKeeps
  <2>. QED
    BY <1>2, <2>2, <2>3 DEF S, AreApart
<1>. HIDE DEF list, m
<1>4. /\ list \in RowList /\ LiveItems(v.items) = LiveItems(list) \cup out /\ LiveItems(list) \cap out = {}
      /\ out \subseteq Delegates
  <2>1. list \in RowList
    BY <1>3 DEF HasCut, RowList
  <2>2. LiveItems(v.items) = LiveItems(list) \cup out
    BY <1>3, LiveRange
  <2>3. LiveItems(list) \cap out = {}
    BY <1>3 DEF LiveItems
  <2>. QED
    BY <1>2, <2>1, <2>2, <2>3
<1>. HIDE DEF out
<1>5. E \subseteq Delegates /\ E \subseteq D /\ first \in Nat
  BY <1>2
<1>6. /\ its \in [E -> DelegateProps]
      /\ \A x \in E : x \notin out => its[x] = v.props[x]
      /\ \A x \in E : its[x].removing <=> (x \in out \/ v.props[x].removing)
  <2>1. \A x \in E : v.props[x] \in DelegateProps
    BY <1>2, <1>5
  <2>. HIDE DEF E
  <2>2. \A x \in E : its[x] = IF x \in out THEN [v.props[x] EXCEPT !.removing = TRUE]
                              ELSE v.props[x]
    OBVIOUS
  <2>3. ASSUME NEW x \in E
        PROVE  its[x] \in DelegateProps /\ (its[x].removing <=> (x \in out \/ v.props[x].removing))
    <3>1. v.props[x] \in DelegateProps
      BY <2>1
    <3>. HIDE DEF its
    <3>. QED
      BY <2>2, <3>1 DEF DelegateProps
  <2>. QED
    BY <2>2, <2>3
<1>7. HasIndexed(props2, E, its, list, first)
  <2>. HIDE DEF E, its
  <2>. QED
    BY <1>3, <1>4, <1>5, <1>6, IndexedRows
<1>. HIDE DEF its, props2
<1>8. /\ props2 \in [E -> DelegateProps]
      /\ \A x \in E : props2[x].shows = its[x].shows /\ props2[x].removing = its[x].removing
      /\ \A i \in DOMAIN list : list[i] \in E =>
           props2[list[i]].index = IF i >= first THEN i ELSE its[list[i]].index
  <2>. HIDE DEF E
  <2>. QED
    BY <1>7 DEF HasIndexed
<1>9. E = LiveItems(list) \cup dying2 /\ LiveItems(list) \cap dying2 = {}
  BY <1>2, <1>4
<1>10. RowsSound(w)
  <2>1. \A x \in E : props2[x].removing <=> x \in dying2
    <3>. SUFFICES ASSUME NEW x \in E PROVE props2[x].removing <=> x \in dying2
      OBVIOUS
    <3>1. props2[x].removing <=> (x \in out \/ v.props[x].removing)
      BY <1>6, <1>8
    <3>2. v.props[x].removing <=> x \in v.dyingItems
      BY <1>2, <1>5
    <3>3. animate \/ x \notin out
      OBVIOUS
    <3>. QED
      BY <3>1, <3>2, <3>3
  <2>2. DOMAIN w.props = E
    BY <1>1, <1>8
  <2>. HIDE DEF E, dying2
  <2>. QED
    BY <1>1, <1>3, <1>4, <1>5, <1>8, <1>9, <2>1, <2>2 DEF RowsSound
<1>11. StackSound(w)
  <2>1. v.stack \in Seq(Delegates \cup {Self}) /\ OnceBut(v.stack, {}) /\ Range(v.stack) = D \cup {Self}
    BY DEF StackSound
  <2>2. DOMAIN w.props = E
    BY <1>1, <1>8
  <2>3. CASE animate
    <3>1. E = D /\ w.stack = v.stack
      BY <1>1, <2>3
    <3>. QED
      BY <2>1, <2>2, <3>1 DEF StackSound
  <2>4. CASE ~animate
    <3>1. w.stack = Sifted(v.stack, out) /\ E = D \ out
      BY <1>1, <2>4
    <3>2. OnceBut(v.stack, out)
      BY <2>1 DEF OnceBut
    <3>3. /\ w.stack \in Seq(Delegates \cup {Self}) /\ Range(w.stack) = Range(v.stack) \ out
          /\ OnceBut(w.stack, {})
      BY <2>1, <3>1, <3>2, SiftedRows
    <3>4. Range(w.stack) = E \cup {Self}
      BY <1>4, <2>1, <3>1, <3>3, Apart
    <3>. QED
      BY <2>2, <3>3, <3>4 DEF StackSound
  <2>. QED
    BY <2>3, <2>4
<1>12. ASSUME NEW c \in Seq(Shown), RowsShow(v, c)
       PROVE  RowsShow(w, Cut(c, first, last))
  <2>. DEFINE shown == Cut(c, first, last)
  <2>1. Len(c) = Len(v.items)
    BY <1>12 DEF RowsShow
  <2>2. HasCut(shown, Shown, c, first, last)
    BY <2>1, CutRows
  <2>. HIDE DEF shown
  <2>3. Len(shown) = Len(list) /\ DOMAIN shown = DOMAIN list /\ DOMAIN list \subseteq Nat
    BY <1>3, <2>1, <2>2 DEF HasCut
  <2>4. ASSUME NEW i \in DOMAIN list, list[i] # Placeholder
        PROVE  props2[list[i]].index = i /\ props2[list[i]].shows = shown[i]
    <3>1. list[i] \in E /\ i \in Nat /\ list[i] \notin out
      BY <1>4, <1>9, <2>3, <2>4 DEF LiveItems
    <3>2. /\ props2[list[i]].shows = v.props[list[i]].shows
          /\ props2[list[i]].index = IF i >= first THEN i ELSE v.props[list[i]].index
      BY <1>6, <1>8, <3>1
    <3>3. CASE i < first
      <4>1. i \in DOMAIN v.items /\ list[i] = v.items[i] /\ shown[i] = c[i]
        BY <1>3, <2>2, <2>3, <3>3 DEF HasCut
      <4>2. v.props[list[i]].index = i /\ v.props[list[i]].shows = c[i]
        BY <1>12, <2>4, <4>1 DEF RowsShow
      <4>. QED
        BY <3>1, <3>2, <3>3, <4>1, <4>2
    <3>4. CASE i >= first
      <4>1. i + n \in DOMAIN v.items /\ list[i] = v.items[i + n] /\ shown[i] = c[i + n]
        BY <1>3, <2>2, <2>3, <3>4 DEF HasCut
      <4>2. v.props[list[i]].shows = c[i + n]
        BY <1>12, <2>4, <4>1 DEF RowsShow
      <4>. QED
        BY <3>1, <3>2, <3>4, <4>1, <4>2
    <3>. QED
      BY <1>5, <3>1, <3>3, <3>4
  <2>. QED
    BY <1>1, <2>3, <2>4 DEF RowsShow, shown
<1>. QED
  BY <1>1, <1>10, <1>11, <1>12 DEF w, list

\* clearItems leaves no row.
LEMMA ClearedSound ==
  ASSUME NEW v, RowsSound(v), StackSound(v)
  PROVE  RowsSound(Cleared(v)) /\ StackSound(Cleared(v)) /\ Cleared(v).items = <<>>
<1>1. CASE v.items = <<>>
  BY <1>1 DEF Cleared
<1>2. CASE v.items # <<>>
  <2>. DEFINE n == Len(v.items)
  <2>1. v.items \in RowList
    BY DEF RowsSound
  <2>2. n \in 1 .. n /\ 1 \in 1 .. n
    BY <1>2, <2>1 DEF RowList
  <2>3. /\ RowsSound(Removed(v, 1, n, FALSE)) /\ StackSound(Removed(v, 1, n, FALSE))
        /\ Removed(v, 1, n, FALSE).items = Cut(v.items, 1, n)
    BY <2>2, RemovedSound
  <2>4. Cut(v.items, 1, n) = <<>>
    <3>1. HasCut(Cut(v.items, 1, n), Delegates \cup {Placeholder}, v.items, 1, n)
      BY <2>1, <2>2, CutRows DEF RowList
    <3>2. n \in Nat
      BY <2>1 DEF RowList
    <3>3. n - (n - 1 + 1) = 0
      BY <3>2
    <3>. QED
      BY <3>1, <3>3, EmptySeq DEF HasCut
  <2>. QED
    BY <1>2, <2>3, <2>4 DEF Cleared
<1>. QED
  BY <1>1, <1>2

\* Where the row i of a list was before the block first..last moved to begin at row to.
Source(i, first, last, to) ==
  LET n == last - first + 1
      left(k) == IF k < first THEN k ELSE k + n
  IN IF i < to THEN left(i) ELSE IF i < to + n THEN first + (i - to) ELSE left(i - n)

HasMoved(result, S, list, first, last, to) ==
  /\ result \in Seq(S) /\ Len(result) = Len(list) /\ Range(result) = Range(list)
  /\ OnceBut(list, {Placeholder}) => OnceBut(result, {Placeholder})
  /\ \A i \in DOMAIN result :
       Source(i, first, last, to) \in DOMAIN list /\ result[i] = list[Source(i, first, last, to)]

\* Rows moved: each row of the result was one of the list's, by its number alone.
LEMMA MovedRows ==
  ASSUME NEW S, NEW list \in Seq(S), NEW first \in 1 .. Len(list), NEW last \in first .. Len(list),
         NEW row \in 1 .. Len(list) + 1, row \notin first .. last + 1
  PROVE  /\ HasMoved(Moved(list, first, last, row), S, list, first, last, Landing(first, last, row))
         /\ Landing(first, last, row) \in Nat \ {0}
<1>. DEFINE n == last - first + 1  C == Cut(list, first, last)  m == SubSeq(list, first, last)
            to == Landing(first, last, row)  R == Spliced(C, to, m)
<1>1. /\ HasCut(C, S, list, first, last)
      /\ AreApart(C, m, S, list, first, last, {Placeholder})
  BY CutRows, CutKeeps
<1>2. Moved(list, first, last, row) = R
  BY DEF Moved
<1>3. /\ first \in Nat /\ last \in Nat /\ row \in Nat /\ first >= 1 /\ first <= last
      /\ last <= Len(list) /\ row >= 1 /\ row <= Len(list) + 1 /\ Len(list) \in Nat
      /\ (row < first \/ row > last + 1)
  OBVIOUS
<1>4. /\ C \in Seq(S) /\ m \in Seq(S) /\ Len(m) = n /\ Len(C) = Len(list) - n
      /\ Range(list) = Range(C) \cup Range(m)
      /\ \A k \in 1 .. n : first + k - 1 \in DOMAIN list /\ m[k] = list[first + k - 1]
      /\ \A i \in DOMAIN C : /\ i < first => i \in DOMAIN list /\ C[i] = list[i]
                             /\ i >= first => i + n \in DOMAIN list /\ C[i] = list[i + n]
  <2>. HIDE DEF C, m
  <2>. QED
    BY <1>1 DEF HasCut, AreApart
<1>. HIDE DEF C, m
<1>5. to \in 1 .. Len(C) + 1 /\ to \in Nat \ {0} /\ n \in Nat
  BY <1>3, <1>4 DEF Landing
<1>. HIDE DEF to
<1>6. HasSpliced(R, S, C, to, m)
  BY <1>4, <1>5, SplicedRows
<1>7. OnceBut(list, {Placeholder}) => OnceBut(R, {Placeholder})
  <2>. SUFFICES ASSUME OnceBut(list, {Placeholder}) PROVE OnceBut(R, {Placeholder})
    OBVIOUS
  <2>1. /\ OnceBut(C, {Placeholder}) /\ OnceBut(m, {Placeholder})
        /\ \A i \in DOMAIN C, j \in DOMAIN m : C[i] = m[j] => C[i] \in {Placeholder}
    BY <1>1 DEF AreApart
  <2>. QED
    BY <1>4, <1>5, <2>1, SplicedOnce
<1>. HIDE DEF R
<1>8. /\ R \in Seq(S) /\ Len(R) = Len(C) + Len(m) /\ Range(R) = Range(C) \cup Range(m)
  BY <1>6 DEF HasSpliced
<1>9. ASSUME NEW i \in DOMAIN R
      PROVE  Source(i, first, last, to) \in DOMAIN list /\ R[i] = list[Source(i, first, last, to)]
  <2>0. i \in Nat
    BY <1>8
  <2>. HIDE DEF n
  <2>1. CASE i < to
    <3>1. i \in DOMAIN C /\ R[i] = C[i]
      BY <1>6, <2>1 DEF HasSpliced
    <3>2. Source(i, first, last, to) = IF i < first THEN i ELSE i + n
      BY <2>1 DEF Source, n
    <3>. QED
      BY <1>3, <1>4, <2>0, <3>1, <3>2
  <2>2. CASE i >= to /\ i < to + n
    <3>1. i - (to - 1) \in DOMAIN m /\ R[i] = m[i - (to - 1)]
      BY <1>4, <1>6, <2>2 DEF HasSpliced
    <3>2. Source(i, first, last, to) = first + (i - to)
      BY <1>5, <2>0, <2>2 DEF Source, n
    <3>3. i - (to - 1) \in 1 .. n
      BY <1>4, <1>5, <3>1
    <3>4. first + (i - (to - 1)) - 1 = first + (i - to)
      BY <1>3, <1>5, <2>0
    <3>5. first + (i - (to - 1)) - 1 \in DOMAIN list /\ m[i - (to - 1)] = list[first + (i - (to - 1)) - 1]
      BY <1>4, <3>3
    <3>. QED
      BY <3>1, <3>2, <3>4, <3>5
  <2>3. CASE i >= to + n
    <3>1. i - n \in DOMAIN C /\ R[i] = C[i - n]
      BY <1>4, <1>6, <2>3 DEF HasSpliced
    <3>2. ~(i < to) /\ ~(i < to + n)
      BY <1>5, <2>0, <2>3
    <3>3. Source(i, first, last, to) = IF i - n < first THEN i - n ELSE (i - n) + n
      BY <3>2 DEF Source, n
    <3>4. i - n \in Int
      BY <1>5, <2>0
    <3>. QED
      BY <1>3, <1>4, <3>1, <3>3, <3>4
  <2>. QED
    BY <1>5, <2>0, <2>1, <2>2, <2>3
<1>10. Len(C) + Len(m) = Len(list)
  BY <1>3, <1>4, <1>5
<1>. QED
  BY <1>2, <1>4, <1>5, <1>7, <1>8, <1>9, <1>10 DEF HasMoved, to

----------------------------------------------------------------------------
\* The steps.

\* What is sound of a state is so of the state after the step that makes it.
LEMMA BecomesSound ==
  ASSUME NEW w, Becomes(w), RowsSound(w), StackSound(w)
  PROVE  /\ RowsSound(State)' /\ StackSound(State)'
         /\ \A c : RowsShow(w, c) /\ content' = c => RowsShow(State, content)'
         /\ w.items = <<>> => items' = <<>>
<1>1. items' = w.items /\ props' = w.props /\ dyingItems' = w.dyingItems /\ stack' = w.stack
  BY DEF Becomes
<1>2. RowsSound(State)'
  BY <1>1 DEF RowsSound, State
<1>3. StackSound(State)'
  BY <1>1 DEF StackSound, State
<1>4. ASSUME NEW c, RowsShow(w, c), content' = c
      PROVE  RowsShow(State, content)'
  BY <1>1, <1>4 DEF RowsShow, State
<1>. QED
  BY <1>1, <1>2, <1>3, <1>4

\* No rows show an empty model, and rows put into none are all there are.
LEMMA NothingShows ==
  ASSUME NEW v, v.items = <<>>
  PROVE  RowsShow(v, <<>>)
BY DEF RowsShow

LEMMA SplicedEmpty ==
  ASSUME NEW S, NEW c \in Seq(S)
  PROVE  Spliced(<<>>, 1, c) = c
<1>1. SubSeq(<<>>, 1, 1 - 1) = <<>> /\ SubSeq(<<>>, 1, Len(<<>>)) = <<>>
  OBVIOUS
<1>. QED
  BY <1>1, ConcatEmptySeq DEF Spliced

\* regenerate: the rows are those of the content of now, whatever they were.
LEMMA RegenerateSound ==
  ASSUME RowsSound(State), StackSound(State), content' \in Seq(Shown), Regenerate
  PROVE  /\ RowsSound(State)' /\ StackSound(State)'
         /\ IF complete' THEN RowsShow(State, content)' ELSE items' = <<>>
<1>. DEFINE v == Cleared(State)  n == Len(content')
<1>1. RowsSound(v) /\ StackSound(v) /\ v.items = <<>>
  BY ClearedSound
<1>2. n \in Nat /\ (n = 0 => content' = <<>>)
  BY EmptySeq
<1>3. \/ /\ complete' /\ n > 0 /\ Room(v, n)
         /\ \E failed \in Failures(n) : Becomes(Inserted(v, 1, content', failed, FALSE))
      \/ ~(complete' /\ n > 0) /\ Becomes(v)
  BY DEF Regenerate
<1>. HIDE DEF v
<1>4. CASE ~(complete' /\ n > 0) /\ Becomes(v)
  <2>1. RowsSound(State)' /\ StackSound(State)' /\ items' = <<>>
    BY <1>1, <1>4, BecomesSound
  <2>2. complete' => content' = <<>>
    BY <1>2, <1>4
  <2>3. complete' => RowsShow(State, content)'
    BY <2>1, <2>2 DEF RowsShow, State
  <2>. QED
    BY <2>1, <2>3
<1>5. ASSUME complete', n > 0, Room(v, n), NEW failed,
             Becomes(Inserted(v, 1, content', failed, FALSE))
      PROVE  RowsSound(State)' /\ StackSound(State)' /\ RowsShow(State, content)'
  <2>. DEFINE w == Inserted(v, 1, content', failed, FALSE)
  <2>1. <<>> \in Seq(Shown) /\ 1 \in 1 .. Len(<<>>) + 1
    OBVIOUS
  <2>2. RowsShow(v, <<>>)
    BY <1>1, NothingShows
  <2>3. RowsSound(w) /\ StackSound(w) /\ RowsShow(w, Spliced(<<>>, 1, content'))
    BY <1>1, <1>5, <2>1, <2>2, InsertedSound
  <2>4. RowsShow(w, content')
    BY <2>3, SplicedEmpty
  <2>. HIDE DEF w
  <2>5. Becomes(w)
    BY <1>5 DEF w
  <2>. QED
    BY <2>3, <2>4, <2>5, BecomesSound
<1>. QED
  BY <1>3, <1>4, <1>5

\* updateItemData: the rows asked for show what the model has now.
LEMMA RefreshSound ==
  ASSUME RowsSound(State), StackSound(State), NEW which, Refresh(which),
         content' \in Seq(Shown), Len(items) = Len(content')
  PROVE  /\ RowsSound(State)' /\ StackSound(State)'
         /\ \A i \in DOMAIN items : items[i] # Placeholder =>
              IF i \in which
              THEN props'[items[i]].index = i /\ props'[items[i]].shows = content'[i]
              ELSE props'[items[i]] = props[items[i]]
<1>. DEFINE D == DOMAIN props
            Asked(x) == \E i \in which \cap DOMAIN items : items[i] = x
            at(x) == CHOOSE i \in DOMAIN items : items[i] = x
<1>1. /\ items \in RowList /\ OnceBut(items, {Placeholder})
      /\ D \subseteq Delegates /\ props \in [D -> DelegateProps]
      /\ D = LiveItems(items) \cup dyingItems /\ LiveItems(items) \cap dyingItems = {}
      /\ \A x \in D : props[x].removing <=> x \in dyingItems
  BY DEF RowsSound, State
<1>2. /\ props' = [x \in D |-> IF Asked(x) THEN [props[x] EXCEPT !.index = at(x), !.shows = content'[at(x)]]
                               ELSE props[x]]
      /\ items' = items /\ dyingItems' = dyingItems /\ stack' = stack
  BY DEF Refresh, Updated
<1>3. ASSUME NEW i \in DOMAIN items, items[i] # Placeholder
      PROVE  items[i] \in D /\ at(items[i]) = i /\ (Asked(items[i]) <=> i \in which)
  <2>1. \A j \in DOMAIN items : items[j] = items[i] => j = i
    BY <1>1, <1>3 DEF OnceBut
  <2>2. items[i] \in D
    BY <1>1, <1>3 DEF LiveItems
  <2>. QED
    BY <2>1, <2>2
<1>4. \A x \in D : Asked(x) => at(x) \in DOMAIN items
  OBVIOUS
<1>5. DOMAIN items \subseteq Nat /\ DOMAIN items = DOMAIN content' /\ \A i \in DOMAIN items : content'[i] \in Shown
  BY <1>1 DEF RowList
<1>. HIDE DEF Asked, at, D
<1>6. ASSUME NEW x \in D
      PROVE  props'[x] \in DelegateProps /\ props'[x].removing = props[x].removing
  <2>1. props[x] \in DelegateProps
    BY <1>1
  <2>2. props'[x] = IF Asked(x) THEN [props[x] EXCEPT !.index = at(x), !.shows = content'[at(x)]]
                    ELSE props[x]
    BY <1>2
  <2>3. Asked(x) => at(x) \in Nat /\ content'[at(x)] \in Shown
    BY <1>4, <1>5
  <2>. QED
    BY <2>1, <2>2, <2>3 DEF DelegateProps
<1>7. DOMAIN props' = D /\ props' \in [D -> DelegateProps]
  BY <1>2, <1>6
<1>8. RowsSound(State)'
  <2>1. \A x \in DOMAIN props' : props'[x].removing <=> x \in dyingItems
    BY <1>1, <1>6, <1>7
  <2>2. /\ DOMAIN props' \subseteq Delegates /\ props' \in [DOMAIN props' -> DelegateProps]
        /\ DOMAIN props' = LiveItems(items) \cup dyingItems
    BY <1>1, <1>7
  <2>3. /\ items \in RowList /\ OnceBut(items, {Placeholder})
        /\ LiveItems(items) \cap dyingItems = {}
    BY <1>1
  <2>. QED
    BY <1>2, <2>1, <2>2, <2>3 DEF RowsSound, State
<1>9. StackSound(State)'
  BY <1>2, <1>7 DEF StackSound, State, D
<1>10. ASSUME NEW i \in DOMAIN items, items[i] # Placeholder
       PROVE  IF i \in which
              THEN props'[items[i]].index = i /\ props'[items[i]].shows = content'[i]
              ELSE props'[items[i]] = props[items[i]]
  <2>1. items[i] \in D /\ props[items[i]] \in DelegateProps
    BY <1>1, <1>3, <1>10
  <2>2. props'[items[i]] = IF i \in which THEN [props[items[i]] EXCEPT !.index = i, !.shows = content'[i]]
                           ELSE props[items[i]]
    BY <1>2, <1>3, <1>10, <2>1
  <2>. QED
    BY <2>1, <2>2 DEF DelegateProps
<1>. QED
  BY <1>8, <1>9, <1>10

\* What a model can hold is a list, and a number is the list of the numbers up to it.
LEMMA ContentTyped ==
  /\ \A c \in Contents \cup Numbers : c \in Seq(Shown)
  /\ \A c \in Numbers : \A i \in DOMAIN c : c[i] = i
<1>1. ASSUME NEW c \in Contents PROVE c \in Seq(Shown)
  <2>1. PICK n \in 0 .. MaxCount : c \in [1 .. n -> Values]
    BY DEF Contents
  <2>2. c \in [1 .. n -> Shown] /\ n \in Nat
    BY <2>1, RepeaterAssumption DEF Shown
  <2>. QED
    BY <2>2
<1>2. ASSUME NEW c \in Numbers PROVE c \in Seq(Shown) /\ \A i \in DOMAIN c : c[i] = i
  <2>1. PICK n \in 0 .. MaxCount : c = [i \in 1 .. n |-> i]
    BY DEF Numbers
  <2>2. c \in [1 .. n -> Shown] /\ n \in Nat
    BY <2>1, RepeaterAssumption DEF Shown
  <2>. QED
    BY <2>1, <2>2
<1>. QED
  BY <1>1, <1>2

\* When the repeater is not complete it has no rows and a change of the model leaves it so.
LEMMA IgnoredSound ==
  ASSUME RepeaterInv, ~complete, UNCHANGED <<itemState, complete>>, content' \in Seq(Shown),
         mode' = "count" => \A i \in DOMAIN content' : content'[i] = i
  PROVE  RepeaterInv'
<1>1. items' = items /\ props' = props /\ dyingItems' = dyingItems /\ stack' = stack /\ ~complete'
  BY DEF itemState
<1>2. RowsSound(State)'
  BY <1>1 DEF RepeaterInv, RowsSound, State
<1>3. StackSound(State)'
  BY <1>1 DEF RepeaterInv, StackSound, State
<1>. QED
  BY <1>1, <1>2, <1>3 DEF RepeaterInv

\* setModel from a number to a number: the difference alone is put in or taken out.
LEMMA CountSound ==
  ASSUME RepeaterInv, Count, complete' = complete, content' \in Numbers
  PROVE  RepeaterInv'
<1>1. complete /\ complete' /\ mode' = "count" /\ mode = "count"
  BY DEF Count
<1>2. /\ content' \in Seq(Shown) /\ \A i \in DOMAIN content' : content'[i] = i
      /\ content \in Seq(Shown) /\ \A i \in DOMAIN content : content[i] = i
  BY <1>1, ContentTyped DEF RepeaterInv
<1>3. RowsSound(State) /\ StackSound(State) /\ RowsShow(State, content)
  BY <1>1 DEF RepeaterInv
<1>. DEFINE n == Len(content)  k == Len(content')
<1>4. n \in Nat /\ k \in Nat /\ DOMAIN content = 1 .. n /\ DOMAIN content' = 1 .. k
  BY <1>2
<1>a. \/ /\ k > n
         /\ Room(State, Len(SubSeq(content', n + 1, k)))
         /\ \E failed \in Failures(Len(SubSeq(content', n + 1, k))) :
              Becomes(Inserted(State, n + 1, SubSeq(content', n + 1, k), failed, TRUE))
      \/ k < n /\ \E animate \in BOOLEAN : Becomes(Removed(State, k + 1, n, animate))
  BY Zenon DEF Count
<1>b. ~(k > n /\ k < n)
  BY <1>4
<1>5. CASE k > n
  <2>. DEFINE new == SubSeq(content', n + 1, k)
  <2>1. new \in Seq(Shown) /\ Len(new) = k - n /\ \A i \in 1 .. k - n : new[i] = n + i
    <3>0. /\ new \in Seq(Shown) /\ Len(new) = k - (n + 1) + 1
          /\ \A i \in 1 .. k - (n + 1) + 1 : new[i] = content'[n + 1 + i - 1]
      <4>1. n + 1 \in 1 .. k /\ k \in 1 .. k
        BY <1>4, <1>5
      <4>. QED
        BY <1>2, <1>4, <4>1
    <3>. HIDE DEF new, n, k
    <3>1. new \in Seq(Shown) /\ Len(new) = k - n /\ \A i \in 1 .. k - n : new[i] = content'[n + i]
      <4>1. k - (n + 1) + 1 = k - n /\ \A i \in 1 .. k - n : n + 1 + i - 1 = n + i
        BY <1>4, <1>5
      <4>. QED
        BY <3>0, <4>1
    <3>2. \A i \in 1 .. k - n : n + i \in 1 .. k
      BY <1>4, <1>5
    <3>. QED
      BY <1>2, <1>4, <3>1, <3>2
  <2>2. PICK failed : Room(State, Len(new)) /\ Becomes(Inserted(State, n + 1, new, failed, TRUE))
    BY <1>5, <1>a, <1>b, Zenon
  <2>. HIDE DEF new
  <2>. DEFINE w == Inserted(State, n + 1, new, failed, TRUE)
  <2>3. n + 1 \in 1 .. Len(content) + 1
    BY <1>4
  <2>4. RowsSound(w) /\ StackSound(w) /\ RowsShow(w, Spliced(content, n + 1, new))
    BY <1>2, <1>3, <2>1, <2>2, <2>3, InsertedSound
  <2>5. Becomes(w)
    BY <2>2
  <2>. HIDE DEF w
  <2>6. HasSpliced(Spliced(content, n + 1, new), Shown, content, n + 1, new)
    BY <1>2, <2>1, <2>3, SplicedRows
  <2>. DEFINE s == Spliced(content, n + 1, new)
  <2>. HIDE DEF s
  <2>7. s \in Seq(Shown) /\ Len(s) = n + Len(new)
    BY <2>6 DEF HasSpliced, s
  <2>8. Len(s) = Len(content') /\ DOMAIN s = 1 .. k
    BY <1>4, <2>1, <2>7
  <2>9. ASSUME NEW i \in 1 .. k PROVE s[i] = i
    <3>1. CASE i < n + 1
      <4>1. i \in DOMAIN content /\ s[i] = content[i]
        BY <2>6, <2>8, <3>1 DEF HasSpliced, s
      <4>. QED
        BY <1>2, <4>1
    <3>2. CASE i >= n + 1
      <4>1. i < n + 1 + Len(new)
        BY <1>4, <2>1
      <4>2. s[i] = new[i - (n + 1 - 1)]
        BY <2>6, <2>8, <3>2, <4>1 DEF HasSpliced, s
      <4>3. i - (n + 1 - 1) = i - n /\ i - n \in 1 .. k - n /\ n + (i - n) = i
        BY <1>4, <3>2
      <4>. QED
        BY <2>1, <4>2, <4>3
    <3>. QED
      BY <1>4, <3>1, <3>2
  <2>10. \A i \in 1 .. Len(s) : s[i] = content'[i]
    BY <1>2, <1>4, <2>8, <2>9
  <2>11. s = content'
    BY <1>2, <2>7, <2>8, <2>10, SeqEqual
  <2>. QED
    BY <1>1, <1>2, <2>4, <2>5, <2>11, BecomesSound DEF RepeaterInv, s
<1>6. CASE k < n
  <2>1. PICK animate \in BOOLEAN : Becomes(Removed(State, k + 1, n, animate))
    BY <1>6, <1>a, <1>b, Zenon
  <2>. DEFINE w == Removed(State, k + 1, n, animate)
  <2>2. Len(State.items) = n /\ k + 1 \in 1 .. n /\ n \in k + 1 .. n
    BY <1>3, <1>4, <1>6 DEF RowsShow
  <2>3. RowsSound(w) /\ StackSound(w) /\ RowsShow(w, Cut(content, k + 1, n))
    BY <1>2, <1>3, <2>2, RemovedSound
  <2>4. Becomes(w)
    BY <2>1
  <2>. HIDE DEF w
  <2>. DEFINE s == Cut(content, k + 1, n)
  <2>5. HasCut(s, Shown, content, k + 1, n)
    BY <1>2, <2>2, CutRows
  <2>. HIDE DEF s
  <2>6. s \in Seq(Shown) /\ Len(s) = n - (n - (k + 1) + 1)
    BY <2>5 DEF HasCut
  <2>7. Len(s) = Len(content') /\ DOMAIN s = 1 .. k
    BY <1>4, <2>6
  <2>8. ASSUME NEW i \in 1 .. k PROVE s[i] = content'[i]
    <3>1. i < k + 1
      BY <1>4
    <3>2. i \in DOMAIN content /\ s[i] = content[i]
      BY <2>5, <2>7, <3>1 DEF HasCut
    <3>. QED
      BY <1>2, <1>4, <3>2
  <2>9. s = content'
    BY <1>2, <1>4, <2>6, <2>7, <2>8, SeqEqual
  <2>. QED
    BY <1>1, <1>2, <2>3, <2>4, <2>9, BecomesSound DEF RepeaterInv, s
<1>. QED
  BY <1>5, <1>6, <1>a

\* setModel: whatever kind of model comes after whatever kind.
LEMMA SetModelSound ==
  ASSUME RepeaterInv, NEW m, NEW c \in Contents \cup Numbers, m = "count" => c \in Numbers,
         SetModel(m, c)
  PROVE  RepeaterInv'
<1>1. mode' = m /\ content' = c /\ complete' = complete
  BY DEF SetModel
<1>2. content' \in Seq(Shown) /\ (mode' = "count" => \A i \in DOMAIN content' : content'[i] = i)
  BY <1>1, ContentTyped
<1>3. CASE Count
  <2>1. mode' = "count"
    BY <1>3 DEF Count
  <2>. QED
    BY <1>1, <1>3, <2>1, CountSound
<1>4. CASE Regenerate
  BY <1>2, <1>4, RegenerateSound DEF RepeaterInv
<1>. QED
  BY <1>3, <1>4 DEF SetModel

\* onRowsInserted.
LEMMA RowsInsertedSound ==
  ASSUME RepeaterInv, NEW first \in 1 .. Len(content) + 1, NEW new \in Contents, RowsInserted(first, new)
  PROVE  RepeaterInv'
<1>1. /\ content' = Spliced(content, first, new) /\ complete' = complete /\ mode' = "model"
  BY DEF RowsInserted, Changed
<1>2. content \in Seq(Shown) /\ new \in Seq(Shown)
  BY ContentTyped DEF RepeaterInv
<1>3. content' \in Seq(Shown)
  BY <1>1, <1>2, SplicedRows DEF HasSpliced
<1>4. CASE complete /\ Room(State, Len(new)) /\
           \E failed \in Failures(Len(new)) : Becomes(Inserted(State, first, new, failed, TRUE))
  <2>1. PICK failed : Becomes(Inserted(State, first, new, failed, TRUE))
    BY <1>4
  <2>. DEFINE w == Inserted(State, first, new, failed, TRUE)
  <2>2. RowsSound(State) /\ StackSound(State) /\ RowsShow(State, content)
    BY <1>4 DEF RepeaterInv
  <2>3. RowsSound(w) /\ StackSound(w) /\ RowsShow(w, Spliced(content, first, new))
    BY <1>2, <1>4, <2>2, InsertedSound
  <2>4. Becomes(w)
    BY <2>1
  <2>. HIDE DEF w
  <2>. QED
    BY <1>1, <1>3, <1>4, <2>3, <2>4, BecomesSound DEF RepeaterInv
<1>5. CASE Ignored
  BY <1>1, <1>3, <1>5, IgnoredSound DEF Ignored
<1>. QED
  BY <1>4, <1>5 DEF RowsInserted

\* onRowsAboutToBeRemoved.
LEMMA RowsRemovedSound ==
  ASSUME RepeaterInv, NEW first \in DOMAIN content, NEW last \in first .. Len(content),
         RowsRemoved(first, last)
  PROVE  RepeaterInv'
<1>1. /\ content' = Cut(content, first, last) /\ complete' = complete /\ mode' = "model"
  BY DEF RowsRemoved, Changed
<1>2. content \in Seq(Shown) /\ first \in 1 .. Len(content)
  BY DEF RepeaterInv
<1>3. content' \in Seq(Shown)
  BY <1>1, <1>2, CutRows DEF HasCut
<1>4. CASE complete /\ \E animate \in BOOLEAN : Becomes(Removed(State, first, last, animate))
  <2>1. PICK animate \in BOOLEAN : Becomes(Removed(State, first, last, animate))
    BY <1>4
  <2>. DEFINE w == Removed(State, first, last, animate)
  <2>2. RowsSound(State) /\ StackSound(State) /\ RowsShow(State, content)
    BY <1>4 DEF RepeaterInv
  <2>3. Len(State.items) = Len(content)
    BY <2>2 DEF RowsShow
  <2>4. RowsSound(w) /\ StackSound(w) /\ RowsShow(w, Cut(content, first, last))
    BY <1>2, <2>2, <2>3, RemovedSound
  <2>5. Becomes(w)
    BY <2>1
  <2>. HIDE DEF w
  <2>. QED
    BY <1>1, <1>3, <1>4, <2>4, <2>5, BecomesSound DEF RepeaterInv
<1>5. CASE Ignored
  BY <1>1, <1>3, <1>5, IgnoredSound DEF Ignored
<1>. QED
  BY <1>4, <1>5 DEF RowsRemoved

\* onRowsMoved: the rows that moved, and all after the first of them, have new numbers.
LEMMA RowsMovedSound ==
  ASSUME RepeaterInv, NEW first \in DOMAIN content, NEW last \in DOMAIN content,
         NEW row \in 1 .. Len(content) + 1, first <= last, row \notin first .. last + 1,
         RowsMoved(first, last, row)
  PROVE  RepeaterInv'
<1>. DEFINE to == Landing(first, last, row)  list == Moved(items, first, last, row)
            shown == Moved(content, first, last, row)
            from == IF first < to THEN first ELSE to  D == DOMAIN props
<1>1. content' = shown /\ complete' = complete /\ mode' = "model"
  BY DEF RowsMoved, Changed
<1>2. /\ content \in Seq(Shown) /\ first \in 1 .. Len(content) /\ last \in first .. Len(content)
      /\ RowsSound(State) /\ StackSound(State)
  <2>1. content \in Seq(Shown) /\ RowsSound(State) /\ StackSound(State)
    BY DEF RepeaterInv
  <2>. QED
    BY <2>1
<1>3. HasMoved(shown, Shown, content, first, last, to) /\ to \in Nat \ {0}
  BY <1>2, MovedRows
<1>. HIDE DEF shown
<1>4. content' \in Seq(Shown)
  BY <1>1, <1>3 DEF HasMoved
<1>5. CASE Ignored
  BY <1>1, <1>4, <1>5, IgnoredSound DEF Ignored
<1>6. ASSUME complete, items' = list, props' = Indexed(props, list, from),
             stack' = Restacked(stack, list), dyingItems' = dyingItems
      PROVE  RepeaterInv'
  <2>1. /\ items \in RowList /\ OnceBut(items, {Placeholder})
        /\ D \subseteq Delegates /\ props \in [D -> DelegateProps]
        /\ D = LiveItems(items) \cup dyingItems /\ LiveItems(items) \cap dyingItems = {}
        /\ \A x \in D : props[x].removing <=> x \in dyingItems
    BY <1>2 DEF RowsSound, State
  <2>2. /\ Len(items) = Len(content)
        /\ \A i \in DOMAIN items : items[i] # Placeholder =>
             props[items[i]].index = i /\ props[items[i]].shows = content[i]
    BY <1>6 DEF RepeaterInv, RowsShow, State
  <2>3. HasMoved(list, Delegates \cup {Placeholder}, items, first, last, to)
    <3>1. items \in Seq(Delegates \cup {Placeholder})
      BY <2>1 DEF RowList
    <3>. QED
      BY <1>2, <2>2, <3>1, MovedRows
  <2>. HIDE DEF list, to
  <2>4. /\ list \in RowList /\ OnceBut(list, {Placeholder}) /\ Range(list) = Range(items)
        /\ Len(list) = Len(items)
    BY <2>1, <2>3 DEF HasMoved, RowList
  <2>5. LiveItems(list) = LiveItems(items)
    BY <2>4, LiveRange
  <2>6. from \in Nat /\ first \in Nat
    BY <1>2, <1>3
  <2>7. HasIndexed(props', D, props, list, from)
    <3>. HIDE DEF from, D
    <3>. QED
      BY <1>6, <2>1, <2>4, <2>6, IndexedRows
  <2>8. /\ props' \in [D -> DelegateProps]
        /\ \A x \in D : props'[x].shows = props[x].shows /\ props'[x].removing = props[x].removing
        /\ \A i \in DOMAIN list :
             list[i] \in D => props'[list[i]].index = IF i >= from THEN i ELSE props[list[i]].index
    <3>. HIDE DEF from, D
    <3>. QED
      BY <2>7 DEF HasIndexed
  <2>9. DOMAIN props' = D
    BY <2>8
  <2>10. RowsSound(State)'
    <3>1. \A x \in D : props'[x].removing <=> x \in dyingItems
      BY <2>1, <2>8
    <3>. HIDE DEF D
    <3>. QED
      BY <1>6, <2>1, <2>4, <2>5, <2>8, <2>9, <3>1 DEF RowsSound, State
  <2>11. StackSound(State)'
    <3>1. stack \in Seq(Delegates \cup {Self}) /\ OnceBut(stack, {}) /\ Range(stack) = D \cup {Self}
      BY <1>2 DEF StackSound, State
    <3>2. Self \in Range(stack)
      BY <3>1
    <3>3. /\ stack' \in Seq(Delegates \cup {Self}) /\ OnceBut(stack', {})
          /\ Range(stack') = Range(stack) \cup LiveItems(list)
      BY <1>6, <2>4, <3>1, <3>2, RestackedRows
    <3>4. Range(stack') = D \cup {Self}
      BY <2>1, <2>5, <3>1, <3>3
    <3>. QED
      BY <2>9, <3>3, <3>4 DEF StackSound, State
  <2>12. ASSUME NEW i \in DOMAIN list, list[i] # Placeholder
         PROVE  props'[list[i]].index = i /\ props'[list[i]].shows = shown[i]
    <3>. DEFINE j == Source(i, first, last, to)
    <3>1. /\ j \in DOMAIN items /\ list[i] = items[j]
          /\ i \in DOMAIN shown /\ shown[i] = content[j]
      <4>1. DOMAIN list = DOMAIN shown
        BY <1>3, <2>1, <2>2, <2>4 DEF HasMoved, RowList
      <4>. QED
        BY <1>3, <2>3, <4>1 DEF HasMoved
    <3>2. list[i] \in D /\ i \in Nat
      BY <2>1, <2>4, <2>5, <2>12, SMTT(30) DEF LiveItems, RowList
    <3>3. props[list[i]].shows = content[j] /\ props[list[i]].index = j
      <4>. HIDE DEF j
      <4>. QED
        BY <2>2, <2>12, <3>1
    <3>4. i >= from \/ j = i
      <4>1. ~(i >= from) => i < first /\ i < to
        BY <1>3, <2>6, <3>2
      <4>. QED
        BY <4>1 DEF Source
    <3>. HIDE DEF j, from, D
    <3>. QED
      BY <2>8, <3>1, <3>2, <3>3, <3>4
  <2>13. RowsShow(State, content)'
    <3>1. Len(list) = Len(content')
      BY <1>1, <1>3, <2>2, <2>4 DEF HasMoved
    <3>. QED
      BY <1>1, <1>6, <2>12, <3>1 DEF RowsShow, State
  <2>. QED
    BY <1>1, <1>4, <1>6, <2>10, <2>11, <2>13 DEF RepeaterInv
<1>. QED
  BY <1>5, <1>6 DEF RowsMoved

\* onDataChanged.
LEMMA DataChangedSound ==
  ASSUME RepeaterInv, NEW i \in DOMAIN content, NEW d \in Values, DataChanged(i, d)
  PROVE  RepeaterInv'
<1>1. /\ content' = [content EXCEPT ![i] = d] /\ complete' = complete /\ mode' = "model"
      /\ Refresh({i}) /\ RowsSound(State) /\ StackSound(State) /\ content \in Seq(Shown)
  BY DEF DataChanged, Changed, RepeaterInv
<1>2. /\ content' \in Seq(Shown) /\ Len(content') = Len(content)
      /\ \A j \in DOMAIN content : j # i => content'[j] = content[j]
  <2>1. d \in Shown
    BY DEF Shown
  <2>. QED
    BY <1>1, <2>1
<1>3. items' = items
  BY <1>1 DEF Refresh
<1>4. CASE complete
  <2>1. Len(items) = Len(content) /\ \A j \in DOMAIN items : items[j] # Placeholder =>
             props[items[j]].index = j /\ props[items[j]].shows = content[j]
    BY <1>4 DEF RepeaterInv, RowsShow, State
  <2>2. /\ RowsSound(State)' /\ StackSound(State)'
        /\ \A j \in DOMAIN items : items[j] # Placeholder =>
             IF j \in {i} THEN props'[items[j]].index = j /\ props'[items[j]].shows = content'[j]
             ELSE props'[items[j]] = props[items[j]]
    BY <1>1, <1>2, <2>1, RefreshSound
  <2>3. DOMAIN items = DOMAIN content
    BY <1>1, <2>1 DEF RowsSound, State, RowList
  <2>4. \A j \in DOMAIN items : items[j] # Placeholder =>
             props'[items[j]].index = j /\ props'[items[j]].shows = content'[j]
    BY <1>2, <2>1, <2>2, <2>3
  <2>5. RowsShow(State, content)'
    BY <1>2, <1>3, <2>1, <2>4 DEF RowsShow, State
  <2>. QED
    BY <1>1, <1>2, <1>4, <2>2, <2>5 DEF RepeaterInv
<1>5. CASE ~complete
  <2>1. items = <<>>
    BY <1>5 DEF RepeaterInv
  <2>2. props' = props
    BY <1>1, <2>1 DEF Refresh, Updated, RowsSound, State
  <2>3. UNCHANGED itemState
    BY <1>1, <2>2 DEF Refresh, itemState
  <2>. QED
    BY <1>1, <1>2, <1>5, <2>3, IgnoredSound
<1>. QED
  BY <1>4, <1>5

\* layoutChanged: all rows are read again.
LEMMA LayoutChangedSound ==
  ASSUME RepeaterInv, LayoutChanged
  PROVE  RepeaterInv'
<1>1. /\ content' = Reordered(content) /\ complete' = complete /\ mode' = "model"
      /\ Refresh(DOMAIN content) /\ RowsSound(State) /\ StackSound(State) /\ content \in Seq(Shown)
  BY DEF LayoutChanged, Changed, RepeaterInv
<1>2. content' \in Seq(Shown) /\ Len(content') = Len(content)
  BY <1>1 DEF Reordered, Reverse
<1>3. items' = items
  BY <1>1 DEF Refresh
<1>4. CASE complete
  <2>1. Len(items) = Len(content)
    BY <1>4 DEF RepeaterInv, RowsShow, State
  <2>2. /\ RowsSound(State)' /\ StackSound(State)'
        /\ \A j \in DOMAIN items : items[j] # Placeholder =>
             IF j \in DOMAIN content
             THEN props'[items[j]].index = j /\ props'[items[j]].shows = content'[j]
             ELSE props'[items[j]] = props[items[j]]
    BY <1>1, <1>2, <2>1, RefreshSound
  <2>3. DOMAIN items = DOMAIN content
    BY <1>1, <2>1 DEF RowsSound, State, RowList
  <2>4. RowsShow(State, content)'
    BY <1>2, <1>3, <2>1, <2>2, <2>3 DEF RowsShow, State
  <2>. QED
    BY <1>1, <1>2, <1>4, <2>2, <2>4 DEF RepeaterInv
<1>5. CASE ~complete
  <2>1. items = <<>>
    BY <1>5 DEF RepeaterInv
  <2>2. props' = props
    BY <1>1, <2>1 DEF Refresh, Updated, RowsSound, State
  <2>3. UNCHANGED itemState
    BY <1>1, <2>2 DEF Refresh, itemState
  <2>. QED
    BY <1>1, <1>2, <1>5, <2>3, IgnoredSound
<1>. QED
  BY <1>4, <1>5

\* The item model is destroyed.
LEMMA ModelDestroyedSound ==
  ASSUME RepeaterInv, ModelDestroyed
  PROVE  RepeaterInv'
<1>1. content' = <<>> /\ complete' = complete /\ mode' = "none" /\ Becomes(Cleared(State))
  BY DEF ModelDestroyed
<1>2. RowsSound(Cleared(State)) /\ StackSound(Cleared(State)) /\ Cleared(State).items = <<>>
  BY ClearedSound DEF RepeaterInv
<1>3. RowsSound(State)' /\ StackSound(State)' /\ items' = <<>>
  BY <1>1, <1>2, BecomesSound
<1>4. RowsShow(State, content)'
  BY <1>1, <1>3 DEF RowsShow, State
<1>5. content' \in Seq(Shown)
  BY <1>1
<1>. QED
  BY <1>1, <1>3, <1>4, <1>5 DEF RepeaterInv

\* A step that leaves the rows and the model alone.
LEMMA SameRows ==
  ASSUME RepeaterInv, UNCHANGED <<complete, mode, content, items>>, RowsSound(State)', StackSound(State)',
         \A x \in LiveItems(items) : props'[x].index = props[x].index /\ props'[x].shows = props[x].shows
  PROVE  RepeaterInv'
<1>1. complete => RowsShow(State, content)'
  <2>1. \A i \in DOMAIN items : items[i] # Placeholder => items[i] \in LiveItems(items)
    BY DEF LiveItems
  <2>. QED
    BY <2>1 DEF RowsShow, State, RepeaterInv
<1>. QED
  BY <1>1 DEF RepeaterInv

\* itemChange: the delegates, the dying ones too, follow the repeater.
LEMMA ParentChangedSound ==
  ASSUME RepeaterInv, ParentChanged
  PROVE  RepeaterInv'
<1>. DEFINE D == DOMAIN props  S == Delegates \cup {Self}
            live == Sifted(items, {Placeholder})  leaving == Ascending(dyingItems)
            others == live \o leaving  all == <<Self>> \o live \o leaving
<1>1. /\ UNCHANGED <<complete, mode, content, items, props, dyingItems>>
      /\ stack' = Restacked(all, items)
  BY DEF ParentChanged
<1>2. /\ items \in RowList /\ OnceBut(items, {Placeholder}) /\ D \subseteq Delegates
      /\ D = LiveItems(items) \cup dyingItems /\ LiveItems(items) \cap dyingItems = {}
  BY DEF RepeaterInv, RowsSound, State
<1>3. OnceBut(live, {}) /\ Range(live) = LiveItems(items) /\ live \in RowList
  <2>1. items \in Seq(Delegates \cup {Placeholder})
    BY <1>2 DEF RowList
  <2>2. live \in Seq(Delegates \cup {Placeholder})
    BY <2>1, SiftedRows
  <2>3. Range(live) = Range(items) \ {Placeholder}
    BY <2>1, SiftedRows
  <2>4. OnceBut(live, {})
    BY <1>2, <2>1, SiftedRows
  <2>. QED
    BY <2>2, <2>3, <2>4, LiveRange DEF RowList
<1>4. OnceBut(leaving, {}) /\ Range(leaving) = dyingItems /\ leaving \in Seq(dyingItems)
  <2>1. dyingItems \subseteq Nat /\ IsFiniteSet(dyingItems)
    BY <1>2, RepeaterAssumption, FS_Subset
  <2>. QED
    BY <2>1, AscendingRows
<1>. HIDE DEF live, leaving
<1>5. \A s \in Seq(Delegates \cup {Placeholder}) \cup Seq(dyingItems) :
        Range(s) \subseteq S => s \in Seq(S)
  <2>. SUFFICES ASSUME NEW s, Len(s) \in Nat, DOMAIN s = 1 .. Len(s),
                       s = [i \in 1 .. Len(s) |-> s[i]], Range(s) \subseteq S
                PROVE  s \in Seq(S)
    OBVIOUS
  <2>1. \A i \in 1 .. Len(s) : s[i] \in S
    BY DEF Range
  <2>2. s \in [1 .. Len(s) -> S]
    BY <2>1
  <2>. QED
    BY <2>2
<1>6. live \in Seq(S) /\ leaving \in Seq(S)
  BY <1>2, <1>3, <1>4, <1>5 DEF RowList
<1>7. <<Self>> \in Seq(S) /\ OnceBut(<<Self>>, {}) /\ Range(<<Self>>) = {Self}
  BY DEF OnceBut, Range
<1>8. all \in Seq(S) /\ OnceBut(all, {}) /\ Range(all) = D \cup {Self}
  <2>0. Self \notin D
    BY <1>2, Apart
  <2>. DEFINE me == <<Self>>  most == me \o live
  <2>a. me \in Seq(S) /\ OnceBut(me, {}) /\ Range(me) = {Self}
    BY <1>7
  <2>. HIDE DEF S, me
  <2>1. most \in Seq(S)
    BY <1>6, <2>a, ConcatRows
  <2>2. Range(most) = Range(me) \cup Range(live)
    BY <1>6, <2>a, ConcatRows
  <2>3. OnceBut(most, {})
    <3>1. Range(me) \cap Range(live) = {}
      BY <1>2, <1>3, <2>0, <2>a
    <3>. QED
      BY <1>3, <1>6, <2>a, <3>1, ConcatRows
  <2>4. most \in Seq(S) /\ Range(most) = {Self} \cup LiveItems(items) /\ OnceBut(most, {})
    BY <1>3, <2>1, <2>2, <2>3, <2>a
  <2>. HIDE DEF most
  <2>5. most \o leaving \in Seq(S)
    BY <1>6, <2>4, ConcatRows
  <2>6. Range(most \o leaving) = Range(most) \cup Range(leaving)
    BY <1>6, <2>4, ConcatRows
  <2>7. OnceBut(most \o leaving, {})
    <3>1. Range(most) \cap Range(leaving) = {}
      BY <1>2, <1>4, <2>0, <2>4
    <3>. QED
      BY <1>4, <1>6, <2>4, <3>1, ConcatRows
  <2>. QED
    BY <1>2, <1>4, <2>4, <2>5, <2>6, <2>7 DEF most, me
<1>. HIDE DEF all
<1>9. /\ stack' \in Seq(S) /\ OnceBut(stack', {})
      /\ Range(stack') = Range(all) \cup LiveItems(items)
  <2>1. Self \in Range(all)
    BY <1>8
  <2>. QED
    BY <1>1, <1>2, <1>8, <2>1, RestackedRows
<1>10. StackSound(State)'
  <2>1. Range(stack') = D \cup {Self}
    BY <1>2, <1>8, <1>9
  <2>. QED
    BY <1>1, <1>9, <2>1 DEF StackSound, State
<1>11. RowsSound(State)'
  BY <1>1 DEF RepeaterInv, RowsSound, State
<1>. QED
  BY <1>1, <1>10, <1>11, SameRows

\* flushPendingAdds.
LEMMA FlushAddsSound ==
  ASSUME RepeaterInv, FlushAdds
  PROVE  RepeaterInv'
<1>. DEFINE D == DOMAIN props
<1>1. /\ UNCHANGED <<complete, mode, content, items, dyingItems, stack>>
      /\ props' = [x \in D |-> IF x \in adds THEN [props[x] EXCEPT !.adding = FALSE] ELSE props[x]]
  BY DEF FlushAdds
<1>2. /\ D \subseteq Delegates /\ props \in [D -> DelegateProps]
      /\ D = LiveItems(items) \cup dyingItems /\ \A x \in D : props[x].removing <=> x \in dyingItems
      /\ RowsSound(State) /\ StackSound(State)
  BY DEF RepeaterInv, RowsSound, State
<1>3. ASSUME NEW x \in D
      PROVE  /\ props'[x] \in DelegateProps /\ props'[x].removing = props[x].removing
             /\ props'[x].index = props[x].index /\ props'[x].shows = props[x].shows
  <2>1. props[x] \in DelegateProps
    BY <1>2
  <2>2. props'[x] = IF x \in adds THEN [props[x] EXCEPT !.adding = FALSE] ELSE props[x]
    BY <1>1
  <2>. QED
    BY <2>1, <2>2 DEF DelegateProps
<1>4. DOMAIN props' = D /\ props' \in [D -> DelegateProps]
  BY <1>1, <1>3
<1>. HIDE DEF D
<1>5. RowsSound(State)'
  BY <1>1, <1>2, <1>3, <1>4 DEF RowsSound, State
<1>6. StackSound(State)'
  BY <1>1, <1>2, <1>4 DEF StackSound, State, D
<1>7. \A x \in LiveItems(items) : props'[x].index = props[x].index /\ props'[x].shows = props[x].shows
  BY <1>2, <1>3
<1>. QED
  BY <1>1, <1>5, <1>6, <1>7, SameRows

\* The timer of a delegate on its way out.
LEMMA DestroyItemSound ==
  ASSUME RepeaterInv, NEW z \in dyingItems, DestroyItem(z)
  PROVE  RepeaterInv'
<1>. DEFINE D == DOMAIN props  E == D \ {z}
<1>1. /\ UNCHANGED <<complete, mode, content, items>> /\ dyingItems' = dyingItems \ {z}
      /\ props' = [y \in E |-> props[y]] /\ stack' = Sifted(stack, {z})
  BY DEF DestroyItem
<1>2. /\ items \in RowList /\ OnceBut(items, {Placeholder})
      /\ D \subseteq Delegates /\ props \in [D -> DelegateProps]
      /\ D = LiveItems(items) \cup dyingItems /\ LiveItems(items) \cap dyingItems = {}
      /\ \A x \in D : props[x].removing <=> x \in dyingItems
  BY DEF RepeaterInv, RowsSound, State
<1>3. /\ DOMAIN props' = E /\ props' \in [E -> DelegateProps] /\ \A y \in E : props'[y] = props[y]
  BY <1>1, <1>2
<1>4. RowsSound(State)'
  <2>1. E = LiveItems(items) \cup dyingItems' /\ LiveItems(items) \cap dyingItems' = {}
    BY <1>1, <1>2
  <2>2. \A x \in E : props'[x].removing <=> x \in dyingItems'
    BY <1>1, <1>2, <1>3
  <2>3. E \subseteq Delegates
    BY <1>2
  <2>. HIDE DEF E
  <2>. QED
    BY <1>1, <1>2, <1>3, <2>1, <2>2, <2>3 DEF RowsSound, State
<1>5. StackSound(State)'
  <2>1. stack \in Seq(Delegates \cup {Self}) /\ OnceBut(stack, {}) /\ Range(stack) = D \cup {Self}
    BY DEF RepeaterInv, StackSound, State
  <2>2. OnceBut(stack, {z})
    BY <2>1 DEF OnceBut
  <2>3. /\ stack' \in Seq(Delegates \cup {Self}) /\ Range(stack') = Range(stack) \ {z}
        /\ OnceBut(stack', {})
    BY <1>1, <2>1, <2>2, SiftedRows
  <2>4. Range(stack') = E \cup {Self}
    BY <1>2, <2>1, <2>3, Apart
  <2>. QED
    BY <1>3, <2>3, <2>4 DEF StackSound, State
<1>6. \A x \in LiveItems(items) : props'[x].index = props[x].index /\ props'[x].shows = props[x].shows
  BY <1>2, <1>3
<1>. QED
  BY <1>1, <1>4, <1>5, <1>6, SameRows

\* Every step of the repeater, of its model and of the event loop keeps the rows, the properties
\* and the parent's children as the model says (animatedrepeater.cpp, insertItems to onRowsMoved).
THEOREM RepeaterInvariance == RepeaterSpec => []RepeaterInv
<1>1. RepeaterInit => RepeaterInv
  <2>. SUFFICES ASSUME RepeaterInit PROVE RepeaterInv
    OBVIOUS
  <2>1. /\ ~complete /\ mode = "none" /\ content = <<>> /\ items = <<>> /\ props = <<>>
        /\ dyingItems = {} /\ stack = <<Self>>
    BY DEF RepeaterInit
  <2>2. content \in Seq(Shown) /\ items \in RowList /\ DOMAIN props = {}
    BY <2>1 DEF RowList
  <2>3. LiveItems(items) = {} /\ OnceBut(items, {Placeholder}) /\ props \in [{} -> DelegateProps]
    BY <2>1 DEF LiveItems, OnceBut
  <2>4. RowsSound(State)
    BY <2>1, <2>2, <2>3 DEF RowsSound, State
  <2>5. stack \in Seq(Delegates \cup {Self}) /\ OnceBut(stack, {}) /\ Range(stack) = {Self}
    BY <2>1 DEF OnceBut, Range
  <2>6. StackSound(State)
    BY <2>2, <2>5 DEF StackSound, State
  <2>. QED
    BY <2>1, <2>2, <2>4, <2>6 DEF RepeaterInv
<1>2. RepeaterInv /\ [RepeaterNext]_repeaterVars => RepeaterInv'
  <2>. SUFFICES ASSUME RepeaterInv, [RepeaterNext]_repeaterVars PROVE RepeaterInv'
    OBVIOUS
  <2>1. CASE UNCHANGED repeaterVars
    BY <2>1 DEF repeaterVars, itemState, RepeaterInv, RowsSound, StackSound, RowsShow, State
  <2>2. CASE ModelSignals
    <3>1. ASSUME NEW first \in 1 .. Len(content) + 1, NEW new \in Contents, RowsInserted(first, new)
          PROVE  RepeaterInv'
      BY <3>1, RowsInsertedSound
    <3>2. ASSUME NEW first \in DOMAIN content, NEW last \in first .. Len(content),
                 RowsRemoved(first, last)
          PROVE  RepeaterInv'
      BY <3>2, RowsRemovedSound
    <3>3. ASSUME NEW m \in Moves(content), RowsMoved(m[1], m[2], m[3])
          PROVE  RepeaterInv'
      <4>1. /\ m[1] \in DOMAIN content /\ m[2] \in DOMAIN content /\ m[3] \in 1 .. Len(content) + 1
            /\ m[1] <= m[2] /\ m[3] \notin m[1] .. m[2] + 1
        BY DEF Moves
      <4>. QED
        BY <3>3, <4>1, RowsMovedSound
    <3>4. ASSUME NEW i \in DOMAIN content, NEW d \in Values, DataChanged(i, d)
          PROVE  RepeaterInv'
      BY <3>4, DataChangedSound
    <3>5. CASE LayoutChanged
      BY <3>5, LayoutChangedSound
    <3>6. ASSUME NEW c \in Contents, ModelReset(c)
          PROVE  RepeaterInv'
      <4>1. content' \in Seq(Shown) /\ mode' = "model"
        BY <3>6, ContentTyped DEF ModelReset, Changed
      <4>. QED
        BY <3>6, <4>1, RegenerateSound DEF ModelReset, RepeaterInv
    <3>7. CASE ModelDestroyed
      BY <3>7, ModelDestroyedSound
    <3>. QED
      BY <2>2, <3>1, <3>2, <3>3, <3>4, <3>5, <3>6, <3>7 DEF ModelSignals
  <2>3. CASE QmlCalls
    <3>1. ASSUME NEW c \in Numbers, SetModel("count", c) PROVE RepeaterInv'
      BY <3>1, SetModelSound
    <3>2. ASSUME NEW m \in {"list", "model"}, NEW c \in Contents, SetModel(m, c)
          PROVE  RepeaterInv'
      BY <3>2, SetModelSound
    <3>3. CASE SetModel("none", <<>>)
      <4>1. <<>> \in Contents
        <5>1. <<>> \in [1 .. 0 -> Values] /\ 0 \in 0 .. MaxCount
          BY RepeaterAssumption
        <5>. QED
          BY <5>1 DEF Contents
      <4>. QED
        BY <3>3, <4>1, SetModelSound
    <3>4. CASE SetDelegate
      <4>1. Regenerate /\ UNCHANGED <<complete, mode, content>>
        BY <3>4 DEF SetDelegate
      <4>. QED
        BY <4>1, RegenerateSound DEF RepeaterInv
    <3>5. CASE ComponentComplete
      <4>1. Regenerate /\ UNCHANGED <<mode, content>>
        BY <3>5 DEF ComponentComplete
      <4>. QED
        BY <4>1, RegenerateSound DEF RepeaterInv
    <3>6. CASE ParentChanged
      BY <3>6, ParentChangedSound
    <3>. QED
      BY <2>3, <3>1, <3>2, <3>3, <3>4, <3>5, <3>6 DEF QmlCalls
  <2>4. CASE EventLoop
    BY <2>4, FlushAddsSound, DestroyItemSound DEF EventLoop
  <2>. QED
    BY <2>1, <2>2, <2>3, <2>4 DEF RepeaterNext
<1>. QED
  BY <1>1, <1>2, PTL DEF RepeaterSpec

\* There is a delegate or a placeholder per row, with the index and the data of its row, whatever
\* models followed each other and however they changed (animatedrepeater.cpp, updateIndices,
\* updateItemData).
THEOREM RowsAreTheModels == RepeaterSpec => []ItemsFollowModel
<1>1. RepeaterInv => ItemsFollowModel
  BY DEF RepeaterInv, ItemsFollowModel, RowsShow, State
<1>. QED
  BY <1>1, RepeaterInvariance, PTL

\* No delegate is in m_items and dying, or in neither; the parent has each as a child once
\* (animatedrepeater.cpp, removeItems, itemChange).
THEOREM NoneForgotten == RepeaterSpec => []NoneLeftBehind
<1>1. RepeaterInv => NoneLeftBehind
  <2>. SUFFICES ASSUME RepeaterInv PROVE NoneLeftBehind
    OBVIOUS
  <2>. DEFINE D == DOMAIN props
  <2>1. /\ D \subseteq Delegates /\ D = LiveItems(items) \cup dyingItems
        /\ LiveItems(items) \cap dyingItems = {} /\ \A x \in D : props[x].removing <=> x \in dyingItems
    BY DEF RepeaterInv, RowsSound, State
  <2>2. stack \in Seq(Delegates \cup {Self}) /\ OnceBut(stack, {}) /\ Range(stack) = D \cup {Self}
    BY DEF RepeaterInv, StackSound, State
  <2>3. Cardinality(Range(stack)) = Len(stack)
    BY <2>2, OnceCount
  <2>4. IsFiniteSet(D) /\ Self \notin D
    BY <2>1, RepeaterAssumption, FS_Subset, Apart
  <2>5. Cardinality(D \cup {Self}) = Cardinality(D) + 1
    BY <2>4, FS_AddElement
  <2>6. {stack[i] : i \in DOMAIN stack} = D \cup {Self}
    BY <2>2 DEF Range
  <2>. QED
    BY <2>1, <2>2, <2>3, <2>5, <2>6 DEF NoneLeftBehind
<1>. QED
  BY <1>1, RepeaterInvariance, PTL

----------------------------------------------------------------------------
(* The lazy list: its tables follow the model.                              *)

RowRecord == [height : Heights \cup {0}, known : BOOLEAN, new : BOOLEAN]
DelegateData == [item : Items, pending : BOOLEAN, started : BOOLEAN]
ItemProps == [row : Nat, shows : Data, height : Heights, adding : BOOLEAN, ready : BOOLEAN]

\* The tables d and its of n rows, with the items of leaving: each item is that of one row or
\* is leaving, and knows its row.
TablesSound(d, its, leaving, n) ==
  /\ DOMAIN d \subseteq 1 .. n /\ d \in [DOMAIN d -> DelegateData]
  /\ \A i, j \in DOMAIN d : d[i].item = d[j].item => i = j
  /\ DOMAIN its \subseteq Items /\ its \in [DOMAIN its -> ItemProps]
  /\ DOMAIN its = Mapped(d) \cup leaving /\ Mapped(d) \cap leaving = {}
  /\ \A i \in DOMAIN d : its[d[i].item].row = i

\* The index is the inverse of the table d, and the items show the rows c.
IsIndex(d, index) == DOMAIN index = Mapped(d) /\ \A i \in DOMAIN d : index[d[i].item] = i
Showing(d, its, data) == \A i \in DOMAIN d : its[d[i].item].shows = data[i]

ViewInv ==
  /\ rows \in Seq(Data) /\ model \in BOOLEAN
  /\ layout \in Seq(RowRecord) /\ Len(layout) = IF model THEN Len(rows) ELSE 0
  /\ TablesSound(delegate, item, dying, Len(layout))
  /\ IsIndex(delegate, rowOf) /\ Showing(delegate, item, rows)
  /\ BoundItemsExist

\* A table's row is found by its item.
LEMMA RowFound ==
  ASSUME NEW d, \A i, j \in DOMAIN d : d[i].item = d[j].item => i = j, NEW i \in DOMAIN d
  PROVE  d[i].item \in Mapped(d) /\ RowIn(d, d[i].item) = i
<1>1. d[i].item \in Mapped(d)
  BY DEF Mapped
<1>2. \E j \in DOMAIN d : d[j].item = d[i].item
  OBVIOUS
<1>3. RowIn(d, d[i].item) \in DOMAIN d /\ d[RowIn(d, d[i].item)].item = d[i].item
  BY <1>2 DEF RowIn
<1>. QED
  BY <1>1, <1>3

\* Rows that go to rows of their own keep their delegates, index and items in step.
HasShifted(d, its, to) ==
  /\ DOMAIN delegate' = {to[i] : i \in DOMAIN d} /\ Mapped(delegate') = Mapped(d)
  /\ \A i \in DOMAIN d : delegate'[to[i]] = d[i]
  /\ \A x \in DOMAIN its : item'[x].shows = its[x].shows

LEMMA ShiftSound ==
  ASSUME NEW d, NEW its, NEW leaving, NEW n, TablesSound(d, its, leaving, n),
         NEW m, NEW to \in [DOMAIN d -> 1 .. m], \A i, j \in DOMAIN d : to[i] = to[j] => i = j,
         m \in Nat, Shift(d, its, to)
  PROVE  /\ TablesSound(delegate', item', leaving, m) /\ IsIndex(delegate', rowOf')
         /\ HasShifted(d, its, to)
<1>. DEFINE D == DOMAIN d
            new == {to[i] : i \in D}
            From(k) == CHOOSE i \in D : to[i] = k
            at == [x \in Mapped(d) |-> to[RowIn(d, x)]]
<1>1. /\ delegate' = [k \in new |-> d[From(k)]] /\ rowOf' = at
      /\ item' = [x \in DOMAIN its |->
                   IF x \in Mapped(d) THEN [its[x] EXCEPT !.row = at[x]] ELSE its[x]]
  BY DEF Shift
<1>2. /\ d \in [D -> DelegateData] /\ \A i, j \in D : d[i].item = d[j].item => i = j
      /\ its \in [DOMAIN its -> ItemProps] /\ DOMAIN its \subseteq Items
      /\ DOMAIN its = Mapped(d) \cup leaving /\ Mapped(d) \cap leaving = {}
  BY DEF TablesSound
<1>3. ASSUME NEW i \in D
      PROVE  to[i] \in new /\ From(to[i]) = i /\ delegate'[to[i]] = d[i]
  <2>1. to[i] \in new
    OBVIOUS
  <2>2. From(to[i]) \in D /\ to[From(to[i])] = to[i]
    OBVIOUS
  <2>3. From(to[i]) = i
    BY <2>2
  <2>4. delegate'[to[i]] = d[From(to[i])]
    BY <1>1, <2>1
  <2>. QED
    BY <2>1, <2>3, <2>4
<1>4. DOMAIN delegate' = new
  BY <1>1
<1>5. Mapped(delegate') = Mapped(d)
  BY <1>3, <1>4 DEF Mapped
<1>6. ASSUME NEW k \in new
      PROVE  \E i \in D : k = to[i] /\ delegate'[k] = d[i]
  BY <1>3
<1>7. ASSUME NEW i \in D
      PROVE  d[i].item \in Mapped(d) /\ at[d[i].item] = to[i]
  BY <1>2, RowFound
<1>8. ASSUME NEW x \in Mapped(d)
      PROVE  \E i \in D : x = d[i].item /\ at[x] = to[i] /\ at[x] \in Nat
  <2>1. PICK i \in D : x = d[i].item
    BY DEF Mapped
  <2>. QED
    BY <1>7, <2>1
<1>. HIDE DEF at, From, new
<1>9. DOMAIN item' = DOMAIN its
  BY <1>1
<1>10. ASSUME NEW x \in DOMAIN its
       PROVE  item'[x] \in ItemProps /\ item'[x].shows = its[x].shows
              /\ (x \in Mapped(d) => item'[x].row = at[x])
  <2>1. its[x] \in ItemProps
    BY <1>2
  <2>2. CASE x \in Mapped(d)
    <3>1. item'[x] = [its[x] EXCEPT !.row = at[x]] /\ at[x] \in Nat
      BY <1>1, <1>8, <2>2
    <3>. QED
      BY <2>1, <3>1 DEF ItemProps
  <2>3. CASE x \notin Mapped(d)
    BY <1>1, <2>1, <2>3
  <2>. QED
    BY <2>2, <2>3
<1>11. item' \in [DOMAIN item' -> ItemProps]
  BY <1>1, <1>9, <1>10
<1>12. delegate' \in [new -> DelegateData]
  BY <1>1, <1>2, <1>6
<1>13. new \subseteq 1 .. m
  BY DEF new
<1>14. ASSUME NEW k \in new, NEW l \in new, delegate'[k].item = delegate'[l].item
       PROVE  k = l
  <2>1. PICK i \in D : k = to[i] /\ delegate'[k] = d[i]
    BY <1>6
  <2>2. PICK j \in D : l = to[j] /\ delegate'[l] = d[j]
    BY <1>6
  <2>3. i = j
    BY <1>2, <1>14, <2>1, <2>2
  <2>. QED
    BY <2>1, <2>2, <2>3
<1>15. ASSUME NEW k \in new
       PROVE  item'[delegate'[k].item].row = k /\ rowOf'[delegate'[k].item] = k
  <2>1. PICK i \in D : k = to[i] /\ delegate'[k] = d[i]
    BY <1>6
  <2>2. d[i].item \in Mapped(d) /\ at[d[i].item] = k
    BY <1>7, <2>1
  <2>3. item'[d[i].item].row = k
    BY <1>2, <1>10, <2>2
  <2>. QED
    BY <1>1, <2>1, <2>2, <2>3
<1>16. TablesSound(delegate', item', leaving, m)
  BY <1>2, <1>4, <1>5, <1>9, <1>11, <1>12, <1>13, <1>14, <1>15 DEF TablesSound
<1>17. DOMAIN rowOf' = Mapped(delegate')
  BY <1>1, <1>5 DEF at
<1>18. IsIndex(delegate', rowOf')
  BY <1>4, <1>15, <1>17 DEF IsIndex
<1>19. HasShifted(d, its, to)
  BY <1>3, <1>4, <1>5, <1>10 DEF HasShifted, new
<1>. QED
  BY <1>16, <1>18, <1>19

\* A row that goes elsewhere is shown by the delegate it had.
LEMMA CarriedSound ==
  ASSUME ViewInv, model, model' = model, NEW d, NEW its, NEW to, Shift(d, its, to),
         TablesSound(d, its, dying', Len(layout)), Showing(d, its, rows),
         rows' \in Seq(Data), layout' \in Seq(RowRecord), Len(layout') = Len(rows'),
         to \in [DOMAIN d -> DOMAIN rows'], \A i, j \in DOMAIN d : to[i] = to[j] => i = j,
         \A i \in DOMAIN d : rows'[to[i]] = rows[i],
         bound' = ItemAt(delegate') \/ (bound' = bound /\ d = delegate)
  PROVE  ViewInv'
<1>1. DOMAIN rows' = 1 .. Len(layout') /\ Len(layout') \in Nat
  OBVIOUS
<1>2. TablesSound(delegate', item', dying', Len(layout')) /\ IsIndex(delegate', rowOf')
      /\ HasShifted(d, its, to)
  <2>. HIDE DEF TablesSound, IsIndex, HasShifted
  <2>. QED
    BY <1>1, ShiftSound
<1>3. \A i \in DOMAIN d : d[i].item \in DOMAIN its
  BY DEF TablesSound, Mapped
<1>4. Showing(delegate', item', rows')
  <2>1. ASSUME NEW k \in DOMAIN delegate'
        PROVE  item'[delegate'[k].item].shows = rows'[k]
    <3>1. PICK i \in DOMAIN d : k = to[i] /\ delegate'[k] = d[i]
      BY <1>2 DEF HasShifted
    <3>2. item'[d[i].item].shows = its[d[i].item].shows
      BY <1>2, <1>3, <3>1 DEF HasShifted
    <3>. QED
      BY <3>1, <3>2 DEF Showing
  <2>. QED
    BY <2>1 DEF Showing
<1>5. BoundItemsExist'
  <2>1. CASE bound' = ItemAt(delegate')
    BY <2>1 DEF BoundItemsExist, ItemAt, Mapped
  <2>2. CASE bound' = bound /\ d = delegate
    BY <1>2, <2>2 DEF BoundItemsExist, HasShifted, ViewInv
  <2>. QED
    BY <2>1, <2>2
<1>. QED
  BY <1>2, <1>4, <1>5 DEF ViewInv

\* A view without its model has no rows, whatever becomes of the model's.
LEMMA UnheardSound ==
  ASSUME ViewInv, ~model, UNCHANGED <<model, contents, bound>>, rows' \in Seq(Data)
  PROVE  ViewInv'
<1>1. /\ model' = model /\ layout' = layout /\ delegate' = delegate /\ rowOf' = rowOf
      /\ dying' = dying /\ item' = item /\ bound' = bound
  BY DEF contents
<1>2. DOMAIN delegate = {}
  <2>1. Len(layout) = 0 /\ DOMAIN delegate \subseteq 1 .. Len(layout)
    BY DEF ViewInv, TablesSound
  <2>2. 1 .. 0 = {}
    OBVIOUS
  <2>. QED
    BY <2>1, <2>2
<1>3. Showing(delegate', item', rows')
  BY <1>1, <1>2 DEF Showing
<1>4. TablesSound(delegate', item', dying', Len(layout')) /\ IsIndex(delegate', rowOf')
  BY <1>1 DEF ViewInv
<1>. QED
  BY <1>1, <1>3, <1>4 DEF ViewInv, BoundItemsExist

\* What the model can hold is a list of data.
LEMMA DistinctRows == \A r \in Distinct : r \in Seq(Data)
<1>1. MaxRows \in Nat
  BY ViewAssumption
<1>. QED
  BY <1>1 DEF Distinct

\* onRowsInserted: what was below goes down by as many rows as are new.
LEMMA ViewInserted ==
  ASSUME ViewInv, NEW first \in 1 .. Len(rows) + 1, NEW new \in Seq(Data), InsertRows(first, new)
  PROVE  ViewInv'
<1>1. HasSpliced(rows', Data, rows, first, new)
  BY SplicedRows DEF InsertRows, ViewInv
<1>2. rows' \in Seq(Data)
  BY <1>1 DEF HasSpliced
<1>3. CASE ~model
  BY <1>2, <1>3, UnheardSound DEF InsertRows, Heard
<1>4. CASE model
  <2>. DEFINE n == Len(new)
              blank == [i \in 1 .. n |-> NewRow]
              to == [i \in DOMAIN delegate |-> IF i >= first THEN i + n ELSE i]
  <2>0. n \in Nat /\ first \in Nat /\ rows \in Seq(Data) /\ layout \in Seq(RowRecord)
        /\ Len(layout) = Len(rows) /\ Len(rows) \in Nat
    BY <1>4 DEF ViewInv
  <2>1. /\ layout' = Spliced(layout, first, blank) /\ Shift(delegate, item, to)
        /\ bound' = ItemAt(delegate') /\ dying' = dying /\ model' = model
    BY <1>4, Zenon DEF InsertRows, Heard, OnRowsInserted
  <2>2. blank \in Seq(RowRecord) /\ Len(blank) = n
    <3>1. NewRow \in RowRecord
      BY DEF NewRow, RowRecord
    <3>. QED
      BY <2>0, <3>1
  <2>3. HasSpliced(layout', RowRecord, layout, first, blank)
    <3>. HIDE DEF blank
    <3>. QED
      BY <2>0, <2>1, <2>2, SplicedRows
  <2>4. layout' \in Seq(RowRecord) /\ Len(layout') = Len(rows')
    BY <1>1, <2>0, <2>2, <2>3 DEF HasSpliced
  <2>5. DOMAIN delegate \subseteq 1 .. Len(rows)
    BY <2>0 DEF ViewInv, TablesSound
  <2>6. Len(rows') = Len(rows) + n /\ DOMAIN rows' = 1 .. Len(rows) + n
    BY <1>1 DEF HasSpliced
  <2>7. to \in [DOMAIN delegate -> DOMAIN rows']
    BY <2>0, <2>5, <2>6
  <2>8. \A i, j \in DOMAIN delegate : to[i] = to[j] => i = j
    BY <2>0, <2>5
  <2>9. ASSUME NEW i \in DOMAIN delegate PROVE rows'[to[i]] = rows[i]
    <3>1. to[i] \in DOMAIN rows'
      BY <2>7
    <3>2. CASE i >= first
      <4>1. to[i] = i + n /\ to[i] >= first + n /\ to[i] - n = i
        BY <2>0, <2>5, <3>2
      <4>. QED
        BY <1>1, <3>1, <4>1 DEF HasSpliced
    <3>3. CASE ~(i >= first)
      <4>1. to[i] = i /\ i < first
        BY <2>0, <2>5, <3>3
      <4>. QED
        BY <1>1, <3>1, <4>1 DEF HasSpliced
    <3>. QED
      BY <3>2, <3>3
  <2>10. \A i \in DOMAIN delegate : rows'[to[i]] = rows[i]
    BY <2>9
  <2>. HIDE DEF to, n, blank
  <2>11. Shift(delegate, item, to)
    BY <2>1
  <2>12. TablesSound(delegate, item, dying', Len(layout))
    BY <2>1 DEF ViewInv
  <2>13. Showing(delegate, item, rows)
    BY DEF ViewInv
  <2>14. bound' = ItemAt(delegate') /\ model' = model
    BY <2>1
  <2>. QED
    BY <1>2, <1>4, <2>4, <2>7, <2>8, <2>10, <2>11, <2>12, <2>13, <2>14, CarriedSound
<1>. QED
  BY <1>3, <1>4

\* The delegates of the rows removed go: at once, or after their animation.
LEMMA KeptSound ==
  ASSUME ViewInv, NEW hit \in SUBSET DOMAIN delegate, NEW gone,
         gone \subseteq {delegate[i].item : i \in hit},
         NEW kept, kept = [i \in DOMAIN delegate \ hit |-> delegate[i]],
         NEW its, its = [x \in DOMAIN item \ gone |-> item[x]]
  PROVE  /\ TablesSound(kept, its, dying \cup ({delegate[i].item : i \in hit} \ gone), Len(layout))
         /\ Showing(kept, its, rows)
<1>. DEFINE D == DOMAIN delegate
            out == {delegate[i].item : i \in hit}
            leaving == dying \cup (out \ gone)
<1>1. /\ D \subseteq 1 .. Len(layout) /\ delegate \in [D -> DelegateData]
      /\ \A i, j \in D : delegate[i].item = delegate[j].item => i = j
      /\ DOMAIN item \subseteq Items /\ item \in [DOMAIN item -> ItemProps]
      /\ DOMAIN item = Mapped(delegate) \cup dying /\ Mapped(delegate) \cap dying = {}
      /\ \A i \in D : item[delegate[i].item].row = i
      /\ \A i \in D : item[delegate[i].item].shows = rows[i]
  BY DEF ViewInv, TablesSound, Showing
<1>2. DOMAIN kept = D \ hit /\ \A i \in D \ hit : kept[i] = delegate[i]
  OBVIOUS
<1>3. DOMAIN its = DOMAIN item \ gone /\ \A x \in DOMAIN item \ gone : its[x] = item[x]
  OBVIOUS
<1>4. Mapped(delegate) = Mapped(kept) \cup out
  BY <1>2 DEF Mapped
<1>5. Mapped(kept) \cap out = {}
  BY <1>1, <1>2 DEF Mapped
<1>6. DOMAIN its = Mapped(kept) \cup leaving /\ Mapped(kept) \cap leaving = {}
  <2>. HIDE DEF out
  <2>1. gone \subseteq out
    BY DEF out
  <2>. QED
    BY <1>1, <1>3, <1>4, <1>5, <2>1
<1>7. kept \in [DOMAIN kept -> DelegateData] /\ its \in [DOMAIN its -> ItemProps]
  BY <1>1, <1>2, <1>3
<1>8. ASSUME NEW i \in DOMAIN kept
      PROVE  its[kept[i].item].row = i /\ its[kept[i].item].shows = rows[i]
  <2>1. kept[i] = delegate[i] /\ i \in D
    BY <1>2
  <2>2. delegate[i].item \in Mapped(kept)
    BY <2>1 DEF Mapped
  <2>3. its[delegate[i].item] = item[delegate[i].item]
    BY <1>3, <1>6, <2>2
  <2>. QED
    BY <1>1, <2>1, <2>3
<1>9. \A i, j \in DOMAIN kept : kept[i].item = kept[j].item => i = j
  BY <1>1, <1>2
<1>10. DOMAIN kept \subseteq 1 .. Len(layout) /\ DOMAIN its \subseteq Items
  BY <1>1, <1>2, <1>3
<1>11. TablesSound(kept, its, leaving, Len(layout))
  BY <1>6, <1>7, <1>8, <1>9, <1>10 DEF TablesSound
<1>. QED
  BY <1>8, <1>11 DEF Showing

\* onRowsAboutToBeRemoved, onRowsRemoved: what was below comes up by as many rows as went.
LEMMA ViewRemoved ==
  ASSUME ViewInv, NEW first \in DOMAIN rows, NEW last \in first .. Len(rows),
         RemoveRows(first, last)
  PROVE  ViewInv'
<1>0. first \in 1 .. Len(rows) /\ rows \in Seq(Data)
  BY DEF ViewInv
<1>1. HasCut(rows', Data, rows, first, last)
  BY <1>0, CutRows DEF RemoveRows
<1>2. rows' \in Seq(Data)
  BY <1>1 DEF HasCut
<1>3. PICK animate \in BOOLEAN : Heard(OnRowsRemoved(first, last, animate))
  BY DEF RemoveRows
<1>4. CASE ~model
  BY <1>2, <1>3, <1>4, UnheardSound DEF Heard
<1>5. CASE model
  <2>. DEFINE n == last - first + 1
              hit == DOMAIN delegate \cap first .. last
              gone == {delegate[i].item : i \in {i \in hit : delegate[i].pending \/ ~animate}}
              kept == [i \in DOMAIN delegate \ hit |-> delegate[i]]
              its == [x \in DOMAIN item \ gone |-> item[x]]
              to == [i \in DOMAIN kept |-> IF i > last THEN i - (last - first + 1) ELSE i]
  <2>0. /\ first \in Nat /\ last \in Nat /\ n \in Nat
        /\ first >= 1 /\ first <= last /\ last <= Len(rows)
        /\ layout \in Seq(RowRecord) /\ Len(layout) = Len(rows) /\ Len(rows) \in Nat
    BY <1>0, <1>5 DEF ViewInv
  <2>1. /\ layout' = Cut(layout, first, last) /\ Shift(kept, its, to)
        /\ bound' = ItemAt(delegate') /\ model' = model
        /\ dying' = dying \cup ({delegate[i].item : i \in hit} \ gone)
    BY <1>3, <1>5, Zenon DEF Heard, OnRowsRemoved
  <2>2. HasCut(layout', RowRecord, layout, first, last)
    BY <1>0, <2>0, <2>1, CutRows
  <2>3. layout' \in Seq(RowRecord) /\ Len(layout') = Len(rows') /\ Len(rows') = Len(rows) - n
    BY <1>1, <2>0, <2>2 DEF HasCut
  <2>4. gone \subseteq {delegate[i].item : i \in hit} /\ hit \in SUBSET DOMAIN delegate
    OBVIOUS
  <2>5. TablesSound(kept, its, dying', Len(layout)) /\ Showing(kept, its, rows)
    <3>. HIDE DEF hit, gone
    <3>. QED
      BY <2>1, <2>4, KeptSound
  <2>6. ASSUME NEW i \in DOMAIN kept PROVE i \in 1 .. Len(rows) /\ (i < first \/ i > last)
    BY <2>0 DEF ViewInv, TablesSound
  <2>7. DOMAIN rows' = 1 .. Len(rows) - n
    BY <1>2, <2>3
  <2>. HIDE DEF kept, its, hit, gone
  <2>8. \A i, j \in DOMAIN kept : to[i] = to[j] => i = j
    BY <2>0, <2>6
  <2>9. to \in [DOMAIN kept -> DOMAIN rows']
    BY <2>0, <2>6, <2>7
  <2>10. ASSUME NEW i \in DOMAIN kept PROVE rows'[to[i]] = rows[i]
    <3>1. to[i] \in DOMAIN rows' /\ to[i] \in Nat
      BY <2>7, <2>9
    <3>2. CASE i > last
      <4>1. to[i] = i - n /\ to[i] >= first /\ to[i] + n = i
        BY <2>0, <2>6, <3>2
      <4>. QED
        BY <1>1, <3>1, <4>1 DEF HasCut
    <3>3. CASE i < first
      <4>1. to[i] = i /\ i < first
        BY <2>0, <2>6, <3>3
      <4>. QED
        BY <1>1, <3>1, <4>1 DEF HasCut
    <3>. QED
      BY <2>6, <3>2, <3>3
  <2>11. \A i \in DOMAIN kept : rows'[to[i]] = rows[i]
    BY <2>10
  <2>. HIDE DEF to
  <2>12. Shift(kept, its, to)
    BY <2>1
  <2>13. TablesSound(kept, its, dying', Len(layout))
    BY <2>5
  <2>14. Showing(kept, its, rows)
    BY <2>5
  <2>15. bound' = ItemAt(delegate') /\ model' = model
    BY <2>1
  <2>16. layout' \in Seq(RowRecord) /\ Len(layout') = Len(rows')
    BY <2>3
  <2>. QED
    BY <1>2, <1>5, <2>8, <2>9, <2>11, <2>12, <2>13, <2>14, <2>15, <2>16, CarriedSound
<1>. QED
  BY <1>4, <1>5

\* Row i of n went to row k.
MovedTo(k, i, n, first, last, to) == k \in 1 .. n /\ Source(k, first, last, to) = i

\* RowAfterMove and Source are inverse, and stay within the rows.
LEMMA MovedBack ==
  ASSUME NEW n \in Nat, NEW first \in 1 .. n, NEW last \in first .. n,
         NEW row \in 1 .. n + 1, row \notin first .. last + 1, NEW i \in 1 .. n
  PROVE  MovedTo(RowAfterMove(i, first, last, Landing(first, last, row)),
                 i, n, first, last, Landing(first, last, row))
<1>. DEFINE m == last - first + 1
            to == Landing(first, last, row)
            closed == IF i > last THEN i - m ELSE i
            after == RowAfterMove(i, first, last, to)
<1>. SUFFICES after \in 1 .. n /\ Source(after, first, last, to) = i
  BY DEF MovedTo
<1>0. /\ first \in Int /\ last \in Int /\ row \in Int /\ i \in Int
      /\ first >= 1 /\ first <= last /\ last <= n
      /\ 1 <= row /\ row <= n + 1 /\ 1 <= i /\ i <= n /\ (row < first \/ row > last + 1)
  OBVIOUS
<1>1. m \in Int /\ last = first + m - 1 /\ m >= 1
  BY <1>0
<1>2. to \in Int /\ 1 <= to /\ to + m <= n + 1
  BY <1>0 DEF Landing
<1>3. after = IF i \in first .. last THEN to + (i - first)
              ELSE IF closed >= to THEN closed + m ELSE closed
  BY DEF RowAfterMove
<1>4. Source(after, first, last, to) =
        IF after < to THEN IF after < first THEN after ELSE after + m
        ELSE IF after < to + m THEN first + (after - to)
        ELSE IF after - m < first THEN after - m ELSE after - m + m
  BY DEF Source
<1>5. closed = IF i > last THEN i - m ELSE i
  OBVIOUS
<1>. HIDE DEF m, to, closed, after
<1>6. CASE i \in first .. last
  <2>1. after = to + (i - first)
    BY <1>3, <1>6
  <2>. QED
    BY <1>0, <1>1, <1>2, <1>4, <1>6, <2>1
<1>7. CASE i < first
  <2>1. closed = i /\ after = IF i >= to THEN i + m ELSE i
    BY <1>0, <1>3, <1>5, <1>7
  <2>. QED
    BY <1>0, <1>1, <1>2, <1>4, <1>7, <2>1
<1>8. CASE i > last
  <2>1. closed = i - m /\ after = IF i - m >= to THEN i ELSE i - m
    BY <1>0, <1>1, <1>2, <1>3, <1>5, <1>8
  <2>. QED
    BY <1>0, <1>1, <1>2, <1>4, <1>8, <2>1
<1>9. after \in 1 .. n /\ Source(after, first, last, to) = i
  BY <1>0, <1>6, <1>7, <1>8
<1>. QED
  BY <1>9 DEF MovedTo, after, to

\* onRowsMoved: every delegate goes with its row.
LEMMA ViewMoved ==
  ASSUME ViewInv, NEW which \in Moves(rows), MoveRows(which[1], which[2], which[3])
  PROVE  ViewInv'
<1>. DEFINE first == which[1]  last == which[2]  row == which[3]
            place == Landing(first, last, row)
<1>0. /\ rows \in Seq(Data) /\ first \in 1 .. Len(rows) /\ last \in first .. Len(rows)
      /\ row \in 1 .. Len(rows) + 1 /\ row \notin first .. last + 1
  <2>1. rows \in Seq(Data)
    BY DEF ViewInv
  <2>. QED
    BY <2>1 DEF Moves
<1>1. rows' = Moved(rows, first, last, row) /\ Heard(OnRowsMoved(first, last, row))
  BY DEF MoveRows
<1>. HIDE DEF first, last, row
<1>2. HasMoved(rows', Data, rows, first, last, place)
  BY <1>0, <1>1, MovedRows
<1>3. rows' \in Seq(Data) /\ Len(rows') = Len(rows)
  BY <1>2 DEF HasMoved
<1>4. CASE ~model
  BY <1>1, <1>3, <1>4, UnheardSound DEF Heard
<1>5. CASE model
  <2>. DEFINE to == [i \in DOMAIN delegate |-> RowAfterMove(i, first, last, place)]
  <2>0. layout \in Seq(RowRecord) /\ Len(layout) = Len(rows) /\ Len(rows) \in Nat
    BY <1>0, <1>5 DEF ViewInv
  <2>1. /\ layout' = Moved(layout, first, last, row) /\ Shift(delegate, item, to)
        /\ bound' = bound /\ model' = model /\ dying' = dying
    BY <1>1, <1>5, Zenon DEF Heard, OnRowsMoved
  <2>2. HasMoved(layout', RowRecord, layout, first, last, place)
    BY <1>0, <2>0, <2>1, MovedRows
  <2>3. layout' \in Seq(RowRecord) /\ Len(layout') = Len(rows')
    BY <1>3, <2>0, <2>2 DEF HasMoved
  <2>4. ASSUME NEW i \in DOMAIN delegate
        PROVE  to[i] \in DOMAIN rows' /\ Source(to[i], first, last, place) = i
    <3>1. i \in 1 .. Len(rows)
      BY <2>0 DEF ViewInv, TablesSound
    <3>2. MovedTo(RowAfterMove(i, first, last, place), i, Len(rows), first, last, place)
      BY <1>0, <2>0, <3>1, MovedBack
    <3>. QED
      BY <1>3, <3>2 DEF MovedTo
  <2>5. to \in [DOMAIN delegate -> DOMAIN rows']
    BY <2>4
  <2>6. \A i, j \in DOMAIN delegate : to[i] = to[j] => i = j
    BY <2>4
  <2>7. \A i \in DOMAIN delegate : rows'[to[i]] = rows[i]
    BY <1>2, <2>4 DEF HasMoved
  <2>. HIDE DEF to, place
  <2>8. Shift(delegate, item, to)
    BY <2>1
  <2>9. TablesSound(delegate, item, dying', Len(layout))
    BY <2>1 DEF ViewInv
  <2>10. Showing(delegate, item, rows)
    BY DEF ViewInv
  <2>11. bound' = bound /\ model' = model
    BY <2>1
  <2>. QED
    BY <1>3, <1>5, <2>3, <2>5, <2>6, <2>7, <2>8, <2>9, <2>10, <2>11, CarriedSound
<1>. QED
  BY <1>4, <1>5

\* updateDelegateData, for every row that has other data.
LEMMA RefreshedSound ==
  ASSUME ViewInv, model, model' = model, NEW which, item' = Refreshed(which),
         UNCHANGED <<layout, delegate, rowOf, dying, bound>>,
         rows' \in Seq(Data), Len(rows') = Len(rows),
         \A i \in DOMAIN delegate : i \in which \/ rows'[i] = rows[i]
  PROVE  ViewInv'
<1>. DEFINE D == DOMAIN delegate
<1>1. /\ D \subseteq 1 .. Len(layout) /\ Len(layout) = Len(rows)
      /\ item \in [DOMAIN item -> ItemProps] /\ DOMAIN item \subseteq Items
      /\ Mapped(delegate) \subseteq DOMAIN item /\ DOMAIN rowOf = Mapped(delegate)
      /\ \A i \in D : rowOf[delegate[i].item] = i /\ item[delegate[i].item].row = i
                      /\ item[delegate[i].item].shows = rows[i]
  BY DEF ViewInv, TablesSound, IsIndex, Showing
<1>2. DOMAIN item' = DOMAIN item
  BY DEF Refreshed
<1>3. \A i \in D : delegate[i].item \in Mapped(delegate)
  BY DEF Mapped
<1>4. ASSUME NEW x \in DOMAIN item
      PROVE  /\ item'[x] \in ItemProps /\ item'[x].row = item[x].row
             /\ (x \in Mapped(delegate) /\ rowOf[x] \in which => item'[x].shows = rows'[rowOf[x]])
             /\ (~(x \in Mapped(delegate) /\ rowOf[x] \in which) => item'[x].shows = item[x].shows)
  <2>1. item[x] \in ItemProps
    BY <1>1
  <2>2. CASE x \in DOMAIN rowOf /\ rowOf[x] \in which
    <3>1. item'[x] = [item[x] EXCEPT !.shows = rows'[rowOf[x]]]
      BY <2>2 DEF Refreshed
    <3>2. PICK i \in D : x = delegate[i].item
      BY <1>1, <2>2 DEF Mapped
    <3>3. rowOf[x] \in DOMAIN rows'
      BY <1>1, <3>2
    <3>4. rows'[rowOf[x]] \in Data
      BY <3>3
    <3>. QED
      BY <1>1, <2>1, <2>2, <3>1, <3>4 DEF ItemProps
  <2>3. CASE ~(x \in DOMAIN rowOf /\ rowOf[x] \in which)
    <3>1. item'[x] = item[x]
      BY <2>3 DEF Refreshed
    <3>. QED
      BY <1>1, <2>1, <2>3, <3>1
  <2>. QED
    BY <2>2, <2>3
<1>5. item' \in [DOMAIN item' -> ItemProps]
  BY <1>2, <1>4 DEF Refreshed
<1>6. ASSUME NEW i \in D
      PROVE  item'[delegate[i].item].row = i /\ item'[delegate[i].item].shows = rows'[i]
  <2>1. delegate[i].item \in DOMAIN item /\ delegate[i].item \in Mapped(delegate)
    BY <1>1, <1>3
  <2>2. rowOf[delegate[i].item] = i /\ item[delegate[i].item].row = i
        /\ item[delegate[i].item].shows = rows[i]
    BY <1>1
  <2>. QED
    BY <1>4, <2>1, <2>2
<1>7. TablesSound(delegate, item', dying, Len(layout))
  BY <1>1, <1>2, <1>5, <1>6 DEF ViewInv, TablesSound
<1>8. Showing(delegate, item', rows')
  BY <1>6 DEF Showing
<1>9. layout \in Seq(RowRecord) /\ model \in BOOLEAN /\ BoundItemsExist /\ IsIndex(delegate, rowOf)
  BY DEF ViewInv
<1>. QED
  BY <1>1, <1>7, <1>8, <1>9 DEF ViewInv, BoundItemsExist

\* resetContent: nothing is left.
LEMMA ResetSound ==
  ASSUME rows' \in Seq(Data), model' \in BOOLEAN, ResetContent
  PROVE  ViewInv'
<1>1. /\ layout' = IF model' THEN [i \in DOMAIN rows' |-> OldRow] ELSE <<>>
      /\ delegate' = <<>> /\ rowOf' = <<>> /\ item' = <<>> /\ dying' = {} /\ bound' = <<>>
  BY DEF ResetContent
<1>2. OldRow \in RowRecord
  BY DEF OldRow, NewRow, RowRecord
<1>3. layout' \in Seq(RowRecord) /\ Len(layout') = IF model' THEN Len(rows') ELSE 0
  BY <1>1, <1>2
<1>4. DOMAIN delegate' = {} /\ DOMAIN item' = {} /\ DOMAIN rowOf' = {} /\ DOMAIN bound' = {}
  BY <1>1
<1>5. Mapped(delegate') = {}
  BY <1>4 DEF Mapped
<1>6. delegate' \in [{} -> DelegateData] /\ item' \in [{} -> ItemProps]
  BY <1>1
<1>7. TablesSound(delegate', item', dying', Len(layout')) /\ IsIndex(delegate', rowOf')
      /\ Showing(delegate', item', rows')
  BY <1>1, <1>4, <1>5, <1>6 DEF TablesSound, IsIndex, Showing
<1>. QED
  BY <1>3, <1>4, <1>7 DEF ViewInv, BoundItemsExist

\* onDataChanged: the row's delegate is told.
LEMMA ViewData ==
  ASSUME ViewInv, NEW i \in DOMAIN rows, NEW d \in Data, ChangeData(i, d)
  PROVE  ViewInv'
<1>1. rows' = [rows EXCEPT ![i] = d] /\ rows \in Seq(Data)
  BY DEF ChangeData, ViewInv
<1>2. /\ rows' \in Seq(Data) /\ Len(rows') = Len(rows)
      /\ \A k \in DOMAIN rows : k = i \/ rows'[k] = rows[k]
  BY <1>1
<1>3. CASE ~model
  BY <1>2, <1>3, UnheardSound DEF ChangeData, Heard
<1>4. CASE model
  <2>1. /\ item' = Refreshed({i}) /\ model' = model
        /\ UNCHANGED <<layout, delegate, rowOf, dying, bound>>
    BY <1>4 DEF ChangeData, Heard
  <2>2. DOMAIN delegate \subseteq DOMAIN rows
    BY <1>1, <1>4 DEF ViewInv, TablesSound
  <2>3. \A k \in DOMAIN delegate : k \in {i} \/ rows'[k] = rows[k]
    BY <1>2, <2>2
  <2>. QED
    BY <1>2, <1>4, <2>1, <2>3, RefreshedSound
<1>. QED
  BY <1>3, <1>4

\* layoutChanged: every delegate is told the data its row has now.
LEMMA ViewReordered ==
  ASSUME ViewInv, ReorderRows
  PROVE  ViewInv'
<1>1. rows' = Reverse(rows) /\ rows \in Seq(Data)
  BY DEF ReorderRows, Reordered, ViewInv
<1>2. rows' \in Seq(Data) /\ Len(rows') = Len(rows)
  BY <1>1 DEF Reverse
<1>3. CASE ~model
  BY <1>2, <1>3, UnheardSound DEF ReorderRows, Heard
<1>4. CASE model
  <2>1. /\ item' = Refreshed(DOMAIN rows) /\ model' = model
        /\ UNCHANGED <<layout, delegate, rowOf, dying, bound>>
    BY <1>4 DEF ReorderRows, Heard
  <2>2. DOMAIN delegate \subseteq DOMAIN rows
    BY <1>1, <1>4 DEF ViewInv, TablesSound
  <2>3. \A k \in DOMAIN delegate : k \in DOMAIN rows \/ rows'[k] = rows[k]
    BY <2>2
  <2>. QED
    BY <1>2, <1>4, <2>1, <2>3, RefreshedSound
<1>. QED
  BY <1>3, <1>4

\* onModelReset: the same rows in view are shown anew, others are not kept.
LEMMA ViewModelReset ==
  ASSUME ViewInv, NEW new \in Seq(Data), ResetModel(new)
  PROVE  ViewInv'
<1>1. rows' \in Seq(Data) /\ model \in BOOLEAN
  BY DEF ResetModel, ViewInv
<1>2. CASE ~model
  BY <1>1, <1>2, UnheardSound DEF ResetModel, Heard
<1>3. CASE model
  <2>1. OnModelReset /\ model' = model
    BY <1>3 DEF ResetModel, Heard
  <2>2. CASE ResetContent
    BY <1>1, <2>1, <2>2, ResetSound
  <2>3. CASE /\ Len(rows') = Len(layout) /\ item' = Refreshed(DOMAIN rows')
             /\ UNCHANGED <<layout, delegate, rowOf, dying, bound>>
    <3>1. Len(rows') = Len(rows)
      BY <1>3, <2>3 DEF ViewInv
    <3>2. DOMAIN delegate \subseteq DOMAIN rows'
      BY <1>1, <2>3 DEF ViewInv, TablesSound
    <3>3. \A k \in DOMAIN delegate : k \in DOMAIN rows' \/ rows'[k] = rows[k]
      BY <3>2
    <3>. QED
      BY <1>1, <1>3, <2>1, <2>3, <3>1, <3>3, RefreshedSound
  <2>. QED
    BY <2>1, <2>2, <2>3 DEF OnModelReset
<1>. QED
  BY <1>2, <1>3

\* at gives each row of made a fresh item of its own.
GivesItems(at, fresh, made) ==
  /\ DOMAIN at \subseteq fresh /\ at \in [DOMAIN at -> made]
  /\ \A x, y \in DOMAIN at : at[x] = at[y] => x = y
  /\ \A i \in made : \E x \in DOMAIN at : at[x] = i

\* The rows that get a delegate take the free items in order.
LEMMA ItemsGiven ==
  ASSUME NEW free \in SUBSET Nat, NEW made \in SUBSET Nat, IsFiniteSet(free), IsFiniteSet(made),
         Len(Ascending(made)) <= Len(Ascending(free))
  PROVE  GivesItems([x \in {Ascending(free)[k] : k \in DOMAIN Ascending(made)} |->
                       Ascending(made)[CHOOSE k \in DOMAIN Ascending(made) :
                                         Ascending(free)[k] = x]],
                    free, made)
<1>. DEFINE fresh == Ascending(free)
            order == Ascending(made)
            given == {fresh[k] : k \in DOMAIN order}
            Place(x) == CHOOSE k \in DOMAIN order : fresh[k] = x
            at == [x \in given |-> order[Place(x)]]
<1>1. /\ fresh \in Seq(free) /\ OnceBut(fresh, {}) /\ order \in Seq(made) /\ OnceBut(order, {})
      /\ Range(order) = made
  BY AscendingRows
<1>2. Len(order) <= Len(fresh)
  OBVIOUS
<1>. SUFFICES GivesItems(at, free, made)
  OBVIOUS
<1>. HIDE DEF fresh, order
<1>3. \A k \in DOMAIN order : k \in DOMAIN fresh
  BY <1>1, <1>2
<1>4. ASSUME NEW k \in DOMAIN order
      PROVE  fresh[k] \in given /\ Place(fresh[k]) = k
  <2>1. fresh[k] \in given
    OBVIOUS
  <2>2. Place(fresh[k]) \in DOMAIN order /\ fresh[Place(fresh[k])] = fresh[k]
    OBVIOUS
  <2>. QED
    BY <1>1, <1>3, <2>1, <2>2 DEF OnceBut
<1>. HIDE DEF Place
<1>5. \A k \in DOMAIN order : at[fresh[k]] = order[k]
  BY <1>4
<1>6. given \subseteq free
  BY <1>1, <1>3
<1>7. at \in [given -> made] /\ DOMAIN at = given
  BY <1>1, <1>4
<1>8. ASSUME NEW x \in given, NEW y \in given, at[x] = at[y] PROVE x = y
  <2>1. PICK k \in DOMAIN order : x = fresh[k]
    OBVIOUS
  <2>2. PICK j \in DOMAIN order : y = fresh[j]
    OBVIOUS
  <2>3. order[k] = order[j]
    BY <1>5, <1>8, <2>1, <2>2
  <2>. QED
    BY <1>1, <2>1, <2>2, <2>3 DEF OnceBut
<1>9. \A i \in made : \E x \in given : at[x] = i
  <2>1. \A i \in made : \E k \in DOMAIN order : order[k] = i
    BY <1>1 DEF Range
  <2>. QED
    BY <1>4, <1>5, <2>1
<1>. QED
  BY <1>6, <1>7, <1>8, <1>9 DEF GivesItems

\* What is measured is still a list of records, one per row.
LEMMA MeasuredRows ==
  ASSUME NEW l \in Seq(RowRecord), NEW which, NEW its,
         \A i \in which : its[delegate[i].item].height \in Heights
  PROVE  Measured(l, which, its) \in Seq(RowRecord) /\ Len(Measured(l, which, its)) = Len(l)
<1>. DEFINE M == Measured(l, which, its)
<1>1. \A i \in 1 .. Len(l) : l[i] \in RowRecord
  OBVIOUS
<1>2. M = [i \in 1 .. Len(l) |-> IF i \in which
             THEN [l[i] EXCEPT !.height = its[delegate[i].item].height, !.known = TRUE] ELSE l[i]]
  BY DEF Measured
<1>3. \A i \in 1 .. Len(l) : M[i] \in RowRecord
  BY <1>1, <1>2, ZenonT(60) DEF RowRecord
<1>4. M \in [1 .. Len(l) -> RowRecord]
  <2>1. DOMAIN M = 1 .. Len(l)
    BY <1>2
  <2>. HIDE DEF M
  <2>. QED
    BY <1>2, <1>3, <2>1
<1>. HIDE DEF M
<1>5. M \in Seq(RowRecord) /\ Len(M) = Len(l)
  BY <1>4
<1>. QED
  BY <1>5 DEF M

\* A flush changes what is pending and nothing else of the table.
LEMMA FlushKeepsItems ==
  ASSUME ViewInv, NEW delay \in BOOLEAN, NEW f, f = FlushPending(delay)
  PROVE  /\ f.table \in [DOMAIN delegate -> DelegateData] /\ f.shown \subseteq DOMAIN delegate
         /\ \A i \in DOMAIN delegate : f.table[i].item = delegate[i].item
<1>1. delegate \in [DOMAIN delegate -> DelegateData]
  BY DEF ViewInv, TablesSound
<1>2. ASSUME NEW i \in DOMAIN delegate
      PROVE  /\ f.table[i] \in DelegateData /\ f.table[i].item = delegate[i].item
  <2>1. delegate[i] \in DelegateData
    BY <1>1
  <2>2. \/ f.table[i] = delegate[i]
        \/ f.table[i] = [delegate[i] EXCEPT !.started = TRUE]
        \/ f.table[i] = [delegate[i] EXCEPT !.pending = FALSE]
    BY DEF FlushPending
  <2>. QED
    BY <2>1, <2>2 DEF DelegateData
<1>3. DOMAIN f.table = DOMAIN delegate /\ f.shown \subseteq DOMAIN delegate
  BY DEF FlushPending
<1>. QED
  BY <1>2, <1>3 DEF FlushPending

\* After a sync a delegate is a new one, that waits, or is one that stayed, as the flush f left
\* it; an item that the flush showed has appeared.
HasSynced(f, destroyed) ==
  \A i \in DOMAIN delegate' :
    \/ delegate'[i].pending /\ ~delegate'[i].started /\ polish'
    \/ /\ i \in DOMAIN delegate \ destroyed /\ delegate'[i] = f.table[i]
       /\ item'[f.table[i].item] = IF f.table[i].item \in {delegate[j].item : j \in f.shown}
                                   THEN Appeared(f.table[i].item) ELSE item[f.table[i].item]

\* syncDelegates: rows out of view lose their delegates and rows in view get one, and the
\* tables, the items and the bindings are told.
LEMMA SyncSound ==
  ASSUME ViewInv, model, NEW f, f.table \in [DOMAIN delegate -> DelegateData],
         \A i \in DOMAIN delegate : f.table[i].item = delegate[i].item,
         NEW l \in Seq(RowRecord), Len(l) = Len(layout),
         NEW async, NEW destroyed \in SUBSET DOMAIN delegate, NEW more,
         NEW wanted \in SUBSET ((1 .. Len(layout)) \ (DOMAIN f.table \ destroyed)), NEW failing,
         Sync(f, l, wanted, failing, async, destroyed, more), UNCHANGED <<rows, model, dying>>
  PROVE  ViewInv' /\ HasSynced(f, destroyed)
<1>. DEFINE D == DOMAIN delegate
            T == f.table
            rest == DOMAIN T \ destroyed
            made == Made(wanted, failing, async)
            gone == {T[i].item : i \in destroyed}
            free == Items \ DOMAIN item
            fresh == Ascending(free)
            order == Ascending(made)
            at == [x \in {fresh[k] : k \in DOMAIN order} |->
                    order[CHOOSE k \in DOMAIN order : fresh[k] = x]]
            showing == {delegate[i].item : i \in f.shown}
            Fresh(i) == CHOOSE x \in DOMAIN at : at[x] = i
            n == Len(layout)
<1>1. /\ Len(order) <= Len(fresh)
      /\ delegate' = [i \in rest \cup made |->
                       IF i \in made THEN [item |-> Fresh(i), pending |-> TRUE, started |-> FALSE]
                       ELSE T[i]]
      /\ rowOf' = [x \in (DOMAIN rowOf \ gone) \cup DOMAIN at |->
                    IF x \in DOMAIN at THEN at[x] ELSE rowOf[x]]
      /\ item' = [x \in (DOMAIN item \ gone) \cup DOMAIN at |->
                  IF x \in DOMAIN at
                  THEN [row |-> at[x], shows |-> rows[at[x]], height |-> HeightOf[rows[at[x]]],
                        adding |-> l[at[x]].new, ready |-> FALSE]
                  ELSE IF x \in showing THEN Appeared(x) ELSE item[x]]
      /\ layout' = [i \in DOMAIN l |-> [l[i] EXCEPT !.new = FALSE]]
      /\ bound' = IF made # {} \/ destroyed # {} THEN ItemAt(delegate') ELSE bound
      /\ polish' = PolishAgain(f.shown, made, wanted, more, async)
  BY Zenon DEF Sync, TellItemsDirty
<1>2. /\ D \subseteq 1 .. n /\ n = Len(rows) /\ n \in Nat /\ rows \in Seq(Data)
      /\ T \in [D -> DelegateData] /\ \A i \in D : T[i].item = delegate[i].item
      /\ \A i, j \in D : T[i].item = T[j].item => i = j
      /\ DOMAIN item \subseteq Items /\ item \in [DOMAIN item -> ItemProps]
      /\ DOMAIN item = Mapped(delegate) \cup dying /\ Mapped(delegate) \cap dying = {}
      /\ DOMAIN rowOf = Mapped(delegate)
      /\ \A i \in D : /\ rowOf[T[i].item] = i /\ item[T[i].item].row = i
                      /\ item[T[i].item].shows = rows[i]
  <2>1. /\ D \subseteq 1 .. n /\ \A i, j \in D : delegate[i].item = delegate[j].item => i = j
        /\ DOMAIN item \subseteq Items /\ item \in [DOMAIN item -> ItemProps]
        /\ DOMAIN item = Mapped(delegate) \cup dying /\ Mapped(delegate) \cap dying = {}
        /\ \A i \in D : item[delegate[i].item].row = i
    BY DEF ViewInv, TablesSound
  <2>2. /\ DOMAIN rowOf = Mapped(delegate) /\ \A i \in D : rowOf[delegate[i].item] = i
        /\ \A i \in D : item[delegate[i].item].shows = rows[i]
    BY DEF ViewInv, IsIndex, Showing
  <2>3. n = Len(rows) /\ n \in Nat /\ rows \in Seq(Data)
    BY DEF ViewInv
  <2>4. T \in [D -> DelegateData] /\ \A i \in D : T[i].item = delegate[i].item
    OBVIOUS
  <2>. HIDE DEF T, n
  <2>5. /\ \A i, j \in D : T[i].item = T[j].item => i = j
        /\ \A i \in D : /\ rowOf[T[i].item] = i /\ item[T[i].item].row = i
                        /\ item[T[i].item].shows = rows[i]
    BY <2>1, <2>2, <2>4
  <2>. QED
    BY <2>1, <2>2, <2>3, <2>4, <2>5
<1>3. made \subseteq wanted /\ made \subseteq 1 .. n /\ made \cap rest = {}
  BY DEF Made, Least
<1>4. made \in SUBSET Nat /\ IsFiniteSet(made) /\ made \subseteq 1 .. n
  <2>1. IsFiniteSet(1 .. n)
    <3>1. n \in Int
      BY <1>2
    <3>. HIDE DEF n
    <3>. QED
      BY <3>1, FS_Interval
  <2>2. made \subseteq 1 .. n
    BY <1>3
  <2>. HIDE DEF made, n
  <2>3. IsFiniteSet(made)
    BY <2>1, <2>2, FS_Subset
  <2>. QED
    BY <2>2, <2>3
<1>5. free \in SUBSET Nat /\ IsFiniteSet(free)
  <2>1. Items \subseteq Nat /\ IsFiniteSet(Items)
    BY ViewAssumption
  <2>. QED
    BY <2>1, FS_Subset
<1>6. GivesItems(at, free, made)
  <2>. HIDE DEF made, free
  <2>. QED
    BY <1>1, <1>4, <1>5, ItemsGiven
<1>. HIDE DEF at, made, T
<1>7. /\ DOMAIN at \subseteq free /\ \A x \in DOMAIN at : at[x] \in made
      /\ \A x, y \in DOMAIN at : at[x] = at[y] => x = y
      /\ \A i \in made : Fresh(i) \in DOMAIN at /\ at[Fresh(i)] = i
  BY <1>6 DEF GivesItems
<1>8. \A x \in DOMAIN at : Fresh(at[x]) = x
  BY <1>7
<1>. HIDE DEF Fresh
<1>9. DOMAIN T = D /\ rest = D \ destroyed /\ Mapped(T) = Mapped(delegate)
  <2>1. DOMAIN T = D /\ \A i \in D : T[i].item = delegate[i].item
    BY <1>2
  <2>2. Mapped(T) = Mapped(delegate)
    BY <2>1 DEF Mapped
  <2>. QED
    BY <2>1, <2>2
<1>10. DOMAIN at \cap DOMAIN item = {} /\ DOMAIN at \subseteq Items
  BY <1>7 DEF free
<1>11. DOMAIN delegate' = rest \cup made /\ DOMAIN delegate' \subseteq 1 .. n
  BY <1>1, <1>2, <1>4, <1>9
<1>12. ASSUME NEW i \in made
       PROVE  delegate'[i] \in DelegateData /\ delegate'[i].item = Fresh(i)
  <2>1. delegate'[i] = [item |-> Fresh(i), pending |-> TRUE, started |-> FALSE]
    BY <1>1
  <2>. QED
    BY <1>7, <1>10, <2>1 DEF DelegateData
<1>13. ASSUME NEW i \in rest
       PROVE  i \in D /\ delegate'[i] = T[i] /\ T[i].item \in Mapped(delegate)
  BY <1>1, <1>3, <1>9 DEF Mapped
<1>14. delegate' \in [DOMAIN delegate' -> DelegateData]
  <2>1. \A i \in DOMAIN delegate' : delegate'[i] \in DelegateData
    BY <1>2, <1>11, <1>12, <1>13
  <2>. QED
    BY <1>1, <2>1
<1>15. Mapped(delegate') = (Mapped(delegate) \ gone) \cup DOMAIN at
  <2>1. ASSUME NEW x \in Mapped(delegate) \ gone PROVE x \in Mapped(delegate')
    <3>1. PICK i \in D : x = T[i].item
      BY <1>2 DEF Mapped
    <3>2. i \in rest
      BY <1>9, <3>1
    <3>. QED
      BY <1>11, <1>13, <3>1, <3>2 DEF Mapped
  <2>2. ASSUME NEW x \in DOMAIN at PROVE x \in Mapped(delegate')
    <3>1. at[x] \in made /\ Fresh(at[x]) = x
      BY <1>7, <1>8
    <3>. QED
      BY <1>11, <1>12, <3>1 DEF Mapped
  <2>3. ASSUME NEW i \in rest PROVE delegate'[i].item \in Mapped(delegate) \ gone
    BY <1>2, <1>9, <1>13
  <2>4. ASSUME NEW i \in made PROVE delegate'[i].item \in DOMAIN at
    BY <1>7, <1>12
  <2>5. \A x \in Mapped(delegate') : x \in (Mapped(delegate) \ gone) \cup DOMAIN at
    BY <1>11, <2>3, <2>4 DEF Mapped
  <2>. QED
    BY <2>1, <2>2, <2>5
<1>16. gone \subseteq Mapped(delegate)
  BY <1>9 DEF Mapped
<1>17. DOMAIN item' = (DOMAIN item \ gone) \cup DOMAIN at /\ DOMAIN rowOf' = Mapped(delegate')
  BY <1>1, <1>2, <1>15
<1>18. /\ DOMAIN item' = Mapped(delegate') \cup dying /\ Mapped(delegate') \cap dying = {}
       /\ DOMAIN item' \subseteq Items
  <2>. HIDE DEF gone
  <2>. QED
    BY <1>2, <1>10, <1>15, <1>16, <1>17
<1>19. ASSUME NEW x \in DOMAIN at
       PROVE  item'[x] \in ItemProps /\ item'[x].row = at[x] /\ item'[x].shows = rows[at[x]]
              /\ rowOf'[x] = at[x]
  <2>1. at[x] \in 1 .. n /\ at[x] \in Nat
    BY <1>4, <1>7
  <2>2. rows[at[x]] \in Data /\ HeightOf[rows[at[x]]] \in Heights
    BY <1>2, <2>1, ViewAssumption
  <2>5. l[at[x]].new \in BOOLEAN
    <3>1. l[at[x]] \in RowRecord
      BY <2>1
    <3>. QED
      BY <3>1 DEF RowRecord
  <2>3. item'[x] = [row |-> at[x], shows |-> rows[at[x]], height |-> HeightOf[rows[at[x]]],
                    adding |-> l[at[x]].new, ready |-> FALSE]
    BY <1>1
  <2>4. rowOf'[x] = at[x]
    BY <1>1
  <2>. QED
    BY <2>1, <2>2, <2>3, <2>4, <2>5 DEF ItemProps
<1>20. ASSUME NEW x \in DOMAIN item \ gone
       PROVE  item'[x] \in ItemProps /\ item'[x].row = item[x].row /\ item'[x].shows = item[x].shows
  <2>1. item[x] \in ItemProps
    BY <1>2
  <2>2. item'[x] = Appeared(x) \/ item'[x] = item[x]
    BY <1>1, <1>10
  <2>. QED
    BY <2>1, <2>2 DEF ItemProps, Appeared
<1>21. item' \in [DOMAIN item' -> ItemProps]
  <2>1. \A x \in DOMAIN item' : item'[x] \in ItemProps
    BY <1>17, <1>19, <1>20
  <2>. QED
    BY <1>1, <2>1
<1>22. ASSUME NEW i \in made
       PROVE  item'[Fresh(i)].row = i /\ item'[Fresh(i)].shows = rows[i] /\ rowOf'[Fresh(i)] = i
  BY <1>7, <1>19
<1>23. ASSUME NEW i \in rest
       PROVE  item'[T[i].item].row = i /\ item'[T[i].item].shows = rows[i] /\ rowOf'[T[i].item] = i
  <2>1. i \in D /\ T[i].item \in Mapped(delegate) \ gone
    BY <1>2, <1>9, <1>13
  <2>2. /\ T[i].item \in DOMAIN item \ gone /\ T[i].item \in DOMAIN rowOf \ gone
        /\ T[i].item \notin DOMAIN at
    BY <1>2, <1>10, <2>1
  <2>3. rowOf'[T[i].item] = rowOf[T[i].item]
    BY <1>1, <2>2
  <2>. QED
    BY <1>2, <1>20, <2>1, <2>2, <2>3
<1>24. HasSynced(f, destroyed)
  <2>1. ASSUME NEW i \in made
        PROVE  delegate'[i].pending /\ ~delegate'[i].started /\ polish'
    <3>1. delegate'[i] = [item |-> Fresh(i), pending |-> TRUE, started |-> FALSE]
      BY <1>1
    <3>2. polish'
      BY <1>1 DEF PolishAgain
    <3>. QED
      BY <3>1, <3>2
  <2>2. ASSUME NEW i \in rest
        PROVE  /\ i \in DOMAIN delegate \ destroyed /\ delegate'[i] = T[i]
               /\ item'[T[i].item] = IF T[i].item \in showing THEN Appeared(T[i].item)
                                     ELSE item[T[i].item]
    <3>1. i \in D \ destroyed /\ delegate'[i] = T[i] /\ T[i].item \in Mapped(delegate) \ gone
      BY <1>2, <1>9, <1>13
    <3>2. T[i].item \in DOMAIN item \ gone /\ T[i].item \notin DOMAIN at
      BY <1>2, <1>10, <3>1
    <3>. QED
      BY <1>1, <3>1, <3>2
  <2>. QED
    BY <1>11, <2>1, <2>2 DEF HasSynced, T
<1>25. ASSUME NEW i \in DOMAIN delegate'
       PROVE  /\ item'[delegate'[i].item].row = i /\ item'[delegate'[i].item].shows = rows[i]
              /\ rowOf'[delegate'[i].item] = i
  BY <1>11, <1>12, <1>13, <1>22, <1>23
<1>26. \A i, j \in DOMAIN delegate' : delegate'[i].item = delegate'[j].item => i = j
  BY <1>25
<1>27. TablesSound(delegate', item', dying, n)
  BY <1>11, <1>14, <1>18, <1>21, <1>25, <1>26 DEF TablesSound
<1>28. IsIndex(delegate', rowOf') /\ Showing(delegate', item', rows)
  BY <1>17, <1>25 DEF IsIndex, Showing
<1>29. layout' \in Seq(RowRecord) /\ Len(layout') = n
  <2>1. \A i \in 1 .. n : l[i] \in RowRecord
    OBVIOUS
  <2>2. layout' = [i \in 1 .. n |-> [l[i] EXCEPT !.new = FALSE]]
    BY <1>1
  <2>3. \A i \in 1 .. n : layout'[i] \in RowRecord
    BY <2>1, <2>2 DEF RowRecord
  <2>4. layout' \in [1 .. n -> RowRecord] /\ n \in Nat
    BY <1>2, <2>2, <2>3
  <2>. HIDE DEF n
  <2>. QED
    BY <2>4
<1>30. BoundItemsExist'
  <2>1. CASE made # {} \/ destroyed # {}
    BY <1>1, <2>1 DEF BoundItemsExist, ItemAt, Mapped
  <2>2. CASE made = {} /\ destroyed = {}
    <3>1. bound' = bound /\ gone = {}
      BY <1>1, <2>2
    <3>2. Mapped(delegate') = Mapped(delegate) \cup DOMAIN at
      BY <1>15, <3>1
    <3>. QED
      BY <3>1, <3>2 DEF BoundItemsExist, ViewInv
  <2>. QED
    BY <2>1, <2>2
<1>. HIDE DEF n
<1>31. rows' \in Seq(Data) /\ model' = model /\ rows' = rows /\ dying' = dying /\ model \in BOOLEAN
       /\ n = Len(rows)
  BY <1>2 DEF ViewInv
<1>. QED
  BY <1>27, <1>28, <1>29, <1>30, <1>31, <1>24 DEF ViewInv

\* What updatePolish goes by: the flush f, the layout l with what it measured, the rows in view
\* and what is destroyed.
IsPolish(delay, f, l, range, async, destroyed, wanted, failing, more) ==
  /\ delay \in BOOLEAN /\ async \in BOOLEAN /\ f = FlushPending(delay)
  /\ f.table \in [DOMAIN delegate -> DelegateData]
  /\ \A i \in DOMAIN delegate : f.table[i].item = delegate[i].item
  /\ l \in Seq(RowRecord) /\ Len(l) = Len(layout)
  /\ range = VisibleRange(Relayout(l), Viewport(LayoutHeight(Relayout(l))))
  /\ range \in SUBSET (1 .. Len(layout)) /\ destroyed \in SUBSET DOMAIN delegate
  /\ wanted = range \ (DOMAIN f.table \ destroyed) /\ failing \subseteq wanted
  /\ Sync(f, l, wanted, failing, async, destroyed, more)

\* Every updatePolish of a view with a model and a component is one.
LEMMA PolishOf ==
  ASSUME ViewInv, model, component, UpdatePolish
  PROVE  /\ UNCHANGED <<rows, model, component, dying, window>>
         /\ \E delay, f, l, range, async, destroyed, wanted, failing, more :
              IsPolish(delay, f, l, range, async, destroyed, wanted, failing, more)
<1>1. UNCHANGED <<rows, model, component, dying, window>>
  BY DEF UpdatePolish
<1>2. PICK delay \in BOOLEAN, async \in BOOLEAN :
        \E f \in {FlushPending(delay)} : \E l \in {Measured(layout, f.shown, item)} :
        \E place \in {Relayout(l)} : \E view \in {Viewport(LayoutHeight(place))} :
        \E range \in {VisibleRange(place, view)} :
          Track(f.shown, item) /\ SyncRange(f, l, range, view, async)
  BY DEF UpdatePolish
<1>3. PICK f, l, place, view, range :
        /\ f = FlushPending(delay) /\ l = Measured(layout, f.shown, item) /\ place = Relayout(l)
        /\ view = Viewport(LayoutHeight(place)) /\ range = VisibleRange(place, view)
        /\ SyncRange(f, l, range, view, async)
  BY <1>2
<1>4. PICK removable \in Removable(f, range, view) :
        \E destroyed \in Batches(removable, async) :
        \E wanted \in {range \ (DOMAIN f.table \ destroyed)} : \E failing \in SUBSET wanted :
          Sync(f, l, wanted, failing, async, destroyed, destroyed # removable)
  BY <1>3, Zenon DEF SyncRange
<1>5. QED
  <2>1. PICK destroyed \in Batches(removable, async) :
          \E wanted \in {range \ (DOMAIN f.table \ destroyed)} : \E failing \in SUBSET wanted :
            Sync(f, l, wanted, failing, async, destroyed, destroyed # removable)
    BY <1>4, Zenon
  <2>2. PICK wanted, failing :
          /\ wanted = range \ (DOMAIN f.table \ destroyed) /\ failing \subseteq wanted
          /\ Sync(f, l, wanted, failing, async, destroyed, destroyed # removable)
    BY <2>1
  <2>3. /\ f.table \in [DOMAIN delegate -> DelegateData] /\ f.shown \subseteq DOMAIN delegate
        /\ \A i \in DOMAIN delegate : f.table[i].item = delegate[i].item
    BY <1>3, FlushKeepsItems
  <2>4. \A i \in f.shown : item[delegate[i].item].height \in Heights
    <3>1. ASSUME NEW i \in f.shown PROVE item[delegate[i].item].height \in Heights
      <4>1. item[delegate[i].item] \in ItemProps
        BY <2>3, <3>1 DEF ViewInv, TablesSound, Mapped
      <4>. QED
        BY <4>1 DEF ItemProps
    <3>. QED
      BY <3>1
  <2>5. l \in Seq(RowRecord) /\ Len(l) = Len(layout)
    <3>1. layout \in Seq(RowRecord)
      BY DEF ViewInv
    <3>. QED
      BY <1>3, <2>4, <3>1, MeasuredRows
  <2>6. range \in SUBSET (1 .. Len(layout))
    <3>1. DOMAIN place = 0 .. Len(l)
      BY <1>3, ZenonT(60) DEF Relayout
    <3>2. range \subseteq DOMAIN place \ {0}
      BY <1>3 DEF VisibleRange, PlacedRows
    <3>. QED
      BY <2>5, <3>1, <3>2, SMTT(30)
  <2>7. destroyed \in SUBSET DOMAIN delegate
    <3>1. removable \subseteq DOMAIN f.table
      BY <1>4 DEF Removable
    <3>2. destroyed \subseteq removable
      BY <2>1 DEF Batches, kSubset
    <3>. QED
      BY <2>3, <3>1, <3>2
  <2>8. IsPolish(delay, f, l, range, async, destroyed, wanted, failing, destroyed # removable)
    BY <1>3, <2>2, <2>3, <2>5, <2>6, <2>7 DEF IsPolish
  <2>. QED
    BY <1>1, <2>8

\* The steps that touch no table.
LEMMA ViewIdle ==
  ASSUME ViewInv, UNCHANGED <<rows, model, contents, bound>>
  PROVE  ViewInv'
<1>1. UNCHANGED <<rows, model, layout, delegate, rowOf, dying, item, bound>>
  BY DEF contents
<1>. QED
  BY <1>1 DEF ViewInv, BoundItemsExist

\* updatePolish
LEMMA ViewPolished ==
  ASSUME ViewInv, UpdatePolish
  PROVE  ViewInv'
<1>1. CASE ~(model /\ component)
  <2>1. UNCHANGED <<rows, model, contents, bound>>
    BY <1>1 DEF UpdatePolish
  <2>. QED
    BY <2>1, ViewIdle
<1>2. CASE model /\ component
  <2>1. PICK delay, f, l, range, async, destroyed, wanted, failing, more :
          IsPolish(delay, f, l, range, async, destroyed, wanted, failing, more)
    BY <1>2, PolishOf
  <2>2. UNCHANGED <<rows, model, dying>>
    BY <1>2, PolishOf
  <2>3. /\ wanted \in SUBSET ((1 .. Len(layout)) \ (DOMAIN f.table \ destroyed))
        /\ destroyed \in SUBSET DOMAIN delegate
    BY <2>1 DEF IsPolish
  <2>. QED
    BY <1>2, <2>1, <2>2, <2>3, SyncSound DEF IsPolish
<1>. QED
  BY <1>1, <1>2

\* What changes nothing but an item's looks, its row's height and whether it is pending.
LEMMA TouchedSound ==
  ASSUME ViewInv, UNCHANGED <<rows, model, rowOf, dying, bound>>,
         DOMAIN delegate' = DOMAIN delegate, delegate' \in [DOMAIN delegate -> DelegateData],
         \A i \in DOMAIN delegate : delegate'[i].item = delegate[i].item,
         DOMAIN item' = DOMAIN item, item' \in [DOMAIN item -> ItemProps],
         \A x \in DOMAIN item : item'[x].row = item[x].row /\ item'[x].shows = item[x].shows,
         layout' \in Seq(RowRecord), Len(layout') = Len(layout)
  PROVE  ViewInv'
<1>1. Mapped(delegate') = Mapped(delegate)
  BY DEF Mapped
<1>2. \A i \in DOMAIN delegate : delegate[i].item \in DOMAIN item
  BY DEF ViewInv, TablesSound, Mapped
<1>3. TablesSound(delegate', item', dying', Len(layout'))
  BY <1>1, <1>2 DEF ViewInv, TablesSound
<1>4. IsIndex(delegate', rowOf') /\ Showing(delegate', item', rows')
  <2>1. IsIndex(delegate, rowOf) /\ Showing(delegate, item, rows)
    BY DEF ViewInv
  <2>2. IsIndex(delegate', rowOf')
    BY <1>1, <2>1 DEF IsIndex
  <2>3. Showing(delegate', item', rows')
    BY <1>2, <2>1 DEF Showing
  <2>. QED
    BY <2>2, <2>3
<1>. QED
  BY <1>1, <1>3, <1>4 DEF ViewInv, BoundItemsExist

\* The readyDelay timer shows its item, if a row still waits for it.
LEMMA ViewShown ==
  ASSUME ViewInv, NEW x, ShowDelayed(x)
  PROVE  ViewInv'
<1>0. /\ delegate \in [DOMAIN delegate -> DelegateData] /\ item \in [DOMAIN item -> ItemProps]
      /\ layout \in Seq(RowRecord)
      /\ DOMAIN rowOf = Mapped(delegate) /\ Mapped(delegate) \subseteq DOMAIN item
      /\ \A i \in DOMAIN delegate : rowOf[delegate[i].item] = i
  BY DEF ViewInv, TablesSound, IsIndex
<1>1. UNCHANGED <<rows, model, rowOf, dying, bound>>
  BY DEF ShowDelayed
<1>2. CASE UNCHANGED <<delegate, item, layout>>
  BY <1>0, <1>1, <1>2, TouchedSound
<1>3. CASE /\ x \in DOMAIN rowOf /\ delegate[rowOf[x]].item = x
           /\ delegate' = [delegate EXCEPT
                            ![rowOf[x]] = [@ EXCEPT !.pending = FALSE, !.started = FALSE]]
           /\ item' = [item EXCEPT ![x] = Appeared(x)]
           /\ layout' = Measured(layout, {rowOf[x]}, item)
  <2>1. rowOf[x] \in DOMAIN delegate /\ x \in DOMAIN item
    <3>1. PICK i \in DOMAIN delegate : x = delegate[i].item
      BY <1>0, <1>3 DEF Mapped
    <3>. QED
      BY <1>0, <1>3, <3>1
  <2>2. delegate[rowOf[x]] \in DelegateData /\ item[x] \in ItemProps
    BY <1>0, <2>1
  <2>3. /\ DOMAIN delegate' = DOMAIN delegate /\ delegate' \in [DOMAIN delegate -> DelegateData]
        /\ \A i \in DOMAIN delegate : delegate'[i].item = delegate[i].item
    <3>1. [delegate[rowOf[x]] EXCEPT !.pending = FALSE, !.started = FALSE] \in DelegateData
          /\ [delegate[rowOf[x]] EXCEPT !.pending = FALSE, !.started = FALSE].item
               = delegate[rowOf[x]].item
      BY <2>2 DEF DelegateData
    <3>. QED
      BY <1>0, <1>3, <2>1, <3>1
  <2>4. /\ DOMAIN item' = DOMAIN item /\ item' \in [DOMAIN item -> ItemProps]
        /\ \A y \in DOMAIN item : item'[y].row = item[y].row /\ item'[y].shows = item[y].shows
    <3>1. /\ Appeared(x) \in ItemProps
          /\ Appeared(x).row = item[x].row /\ Appeared(x).shows = item[x].shows
      BY <2>2 DEF ItemProps, Appeared
    <3>. QED
      BY <1>0, <1>3, <2>1, <3>1
  <2>5. layout' \in Seq(RowRecord) /\ Len(layout') = Len(layout)
    <3>1. \A i \in {rowOf[x]} : item[delegate[i].item].height \in Heights
      BY <1>3, <2>2 DEF ItemProps
    <3>. QED
      BY <1>0, <1>3, <3>1, MeasuredRows
  <2>. QED
    BY <1>1, <2>3, <2>4, <2>5, TouchedSound
<1>. QED
  BY <1>2, <1>3 DEF ShowDelayed

\* The end of a remove animation takes an item that no table knows.
LEMMA ViewDestroyed ==
  ASSUME ViewInv, NEW x \in dying, DestroyDying(x)
  PROVE  ViewInv'
<1>1. /\ dying' = dying \ {x} /\ item' = [y \in DOMAIN item \ {x} |-> item[y]]
      /\ UNCHANGED <<rows, model, layout, delegate, rowOf, bound>>
  BY DEF DestroyDying
<1>2. x \notin Mapped(delegate) /\ Mapped(delegate) \subseteq DOMAIN item
  BY DEF ViewInv, TablesSound
<1>3. \A i \in DOMAIN delegate : delegate[i].item \in Mapped(delegate)
  BY DEF Mapped
<1>4. \A i \in DOMAIN delegate : item'[delegate[i].item] = item[delegate[i].item]
  BY <1>1, <1>2, <1>3
<1>5. /\ DOMAIN item' = Mapped(delegate) \cup dying' /\ Mapped(delegate) \cap dying' = {}
      /\ DOMAIN item' \subseteq Items /\ item' \in [DOMAIN item' -> ItemProps]
  BY <1>1, <1>2 DEF ViewInv, TablesSound
<1>6. TablesSound(delegate, item', dying', Len(layout))
  BY <1>4, <1>5 DEF ViewInv, TablesSound
<1>7. Showing(delegate, item', rows)
  BY <1>4 DEF ViewInv, Showing
<1>. QED
  BY <1>1, <1>6, <1>7 DEF ViewInv, BoundItemsExist

\* onHeightChanged
LEMMA ViewResized ==
  ASSUME ViewInv, NEW x \in DOMAIN item, NEW h \in Heights, Resize(x, h)
  PROVE  ViewInv'
<1>0. /\ delegate \in [DOMAIN delegate -> DelegateData] /\ item \in [DOMAIN item -> ItemProps]
      /\ layout \in Seq(RowRecord)
      /\ DOMAIN rowOf = Mapped(delegate) /\ Mapped(delegate) \subseteq DOMAIN item
      /\ \A i \in DOMAIN delegate : rowOf[delegate[i].item] = i
  BY DEF ViewInv, TablesSound, IsIndex
<1>1. /\ item' = [item EXCEPT ![x].height = h]
      /\ UNCHANGED <<rows, model, delegate, rowOf, dying, bound>>
  BY DEF Resize
<1>2. \A y \in DOMAIN item : item[y] \in ItemProps
  BY <1>0
<1>3. /\ DOMAIN item' = DOMAIN item /\ item' \in [DOMAIN item -> ItemProps]
      /\ \A y \in DOMAIN item : item'[y].row = item[y].row /\ item'[y].shows = item[y].shows
  <2>1. ASSUME NEW y \in DOMAIN item
        PROVE  /\ item'[y] \in ItemProps
               /\ item'[y].row = item[y].row /\ item'[y].shows = item[y].shows
    BY <1>1, <1>2 DEF ItemProps
  <2>. QED
    BY <1>1, <2>1
<1>4. layout' \in Seq(RowRecord) /\ Len(layout') = Len(layout)
  <2>1. CASE layout' = layout
    BY <1>0, <2>1
  <2>2. CASE x \in DOMAIN rowOf /\ layout' = Measured(layout, {rowOf[x]}, item')
    <3>1. PICK i \in DOMAIN delegate : x = delegate[i].item
      BY <1>0, <2>2 DEF Mapped
    <3>2. delegate[rowOf[x]].item = x /\ item'[x] \in ItemProps
      BY <1>0, <1>3, <3>1
    <3>3. \A k \in {rowOf[x]} : item'[delegate[k].item].height \in Heights
      BY <3>2 DEF ItemProps
    <3>. QED
      BY <1>0, <2>2, <3>3, MeasuredRows
  <2>. QED
    BY <2>1, <2>2 DEF Resize
<1>. QED
  BY <1>0, <1>1, <1>3, <1>4, TouchedSound

\* componentComplete: a record per row and no delegates.
LEMMA ViewBegins == ViewInit => ViewInv
<1>. SUFFICES ASSUME ViewInit PROVE ViewInv
  OBVIOUS
<1>1. rows \in Seq(Data) /\ model = TRUE
  BY ViewAssumption DEF ViewInit
<1>2. OldRow \in RowRecord
  BY DEF OldRow, NewRow, RowRecord
<1>3. layout \in Seq(RowRecord) /\ Len(layout) = Len(rows)
  BY <1>1, <1>2 DEF ViewInit
<1>4. delegate = <<>> /\ rowOf = <<>> /\ item = <<>> /\ dying = {} /\ bound = <<>>
  BY DEF ViewInit
<1>5. DOMAIN delegate = {} /\ DOMAIN item = {} /\ DOMAIN rowOf = {} /\ DOMAIN bound = {}
  BY <1>4
<1>6. Mapped(delegate) = {}
  BY <1>5 DEF Mapped
<1>7. delegate \in [{} -> DelegateData] /\ item \in [{} -> ItemProps]
  BY <1>4
<1>8. TablesSound(delegate, item, dying, Len(layout)) /\ IsIndex(delegate, rowOf)
      /\ Showing(delegate, item, rows)
  BY <1>4, <1>5, <1>6, <1>7 DEF TablesSound, IsIndex, Showing
<1>. QED
  BY <1>1, <1>3, <1>5, <1>8 DEF ViewInv, BoundItemsExist

\* Whatever the model, the user, polishes and timers do, the invariant stands.
THEOREM ViewInvariance == ViewSpec => []ViewInv
<1>1. ViewInv /\ [ViewNext]_viewVars => ViewInv'
  <2>. SUFFICES ASSUME ViewInv, [ViewNext]_viewVars PROVE ViewInv'
    OBVIOUS
  <2>1. ASSUME NEW first \in 1 .. Len(rows) + 1, NEW new \in Distinct, InsertRows(first, new)
        PROVE  ViewInv'
    BY <2>1, DistinctRows, ViewInserted
  <2>2. ASSUME NEW first \in DOMAIN rows, NEW last \in first .. Len(rows), RemoveRows(first, last)
        PROVE  ViewInv'
    BY <2>2, ViewRemoved
  <2>3. ASSUME NEW m \in Moves(rows), MoveRows(m[1], m[2], m[3])
        PROVE  ViewInv'
    BY <2>3, ViewMoved
  <2>4. ASSUME NEW i \in DOMAIN rows, NEW d \in Data \ Range(rows), ChangeData(i, d)
        PROVE  ViewInv'
    BY <2>4, ViewData
  <2>5. ASSUME NEW new \in Distinct, ResetModel(new)
        PROVE  ViewInv'
    BY <2>5, DistinctRows, ViewModelReset
  <2>6. CASE Model
    BY <2>1, <2>2, <2>3, <2>4, <2>5, <2>6, ViewReordered DEF Model
  <2>7. CASE SetViewModel
    BY <2>7, ResetSound DEF SetViewModel, ViewInv
  <2>8. ASSUME NEW y \in Tops, Scroll(y)
        PROVE  ViewInv'
    BY <2>8, ViewIdle DEF Scroll
  <2>9. CASE SetViewDelegate
    BY <2>9, ResetSound DEF SetViewDelegate, ViewInv
  <2>10. CASE SetUseCustomViewport
    BY <2>10, ViewIdle DEF SetUseCustomViewport
  <2>11. ASSUME NEW v \in Viewports, SetViewport(v)
         PROVE  ViewInv'
    BY <2>11, ViewIdle DEF SetViewport
  <2>12. CASE User
    BY <2>7, <2>8, <2>9, <2>10, <2>11, <2>12, ViewResized DEF User
  <2>13. CASE UpdatePolish
    BY <2>13, ViewPolished
  <2>14. CASE Timers
    BY <2>14, ViewShown, ViewDestroyed DEF Timers
  <2>15. CASE UNCHANGED viewVars
    BY <2>15, ViewIdle DEF viewVars
  <2>. QED
    BY <2>6, <2>12, <2>13, <2>14, <2>15 DEF ViewNext
<1>. QED
  BY <1>1, ViewBegins, PTL DEF ViewSpec

\* Whatever rows were inserted, removed, moved, changed or reset between two polishes, the
\* layout, the two tables and the delegates agree with the model (lazylistview.cpp,
\* onRowsInserted to onModelReset and syncDelegates).
THEOREM TablesAgree == ViewSpec => []TablesFollowModel
<1>1. ViewInv => TablesFollowModel
  BY DEF ViewInv, TablesSound, IsIndex, Showing, TablesFollowModel
<1>. QED
  BY <1>1, ViewInvariance, PTL

\* Every item is the delegate of one row or on its way out, and none is both
\* (lazylistview.cpp, onRowsAboutToBeRemoved, destroyDelegate).
THEOREM NoItemStrays == ViewSpec => []NoStrayItem
<1>1. ViewInv => NoStrayItem
  BY DEF ViewInv, TablesSound, NoStrayItem
<1>. QED
  BY <1>1, ViewInvariance, PTL

\* What a binding was last told never names an item that was destroyed (lazylistview.cpp,
\* itemsDirty).
THEOREM BoundItemsLive == ViewSpec => []BoundItemsExist
<1>1. ViewInv => BoundItemsExist
  BY DEF ViewInv
<1>. QED
  BY <1>1, ViewInvariance, PTL

----------------------------------------------------------------------------
(* The lazy list: it sleeps only when it is done.                           *)

\* A recursion over 0 .. n has a function that follows it.
LEMMA RecursionExists ==
  ASSUME NEW n \in Nat, NEW R, NEW first \in R, NEW G \in [1 .. n -> [R -> R]]
  PROVE  \E g \in [0 .. n -> R] : g[0] = first /\ \A i \in 1 .. n : g[i] = G[i][g[i - 1]]
<1>. DEFINE Upto(g, m) == /\ g \in [0 .. m -> R] /\ g[0] = first
                          /\ \A i \in 1 .. m : g[i] = G[i][g[i - 1]]
            good == {m \in 0 .. n : \E g : Upto(g, m)}
<1>1. 0 \in good
  <2>1. Upto([i \in 0 .. 0 |-> first], 0)
    <3>1. [i \in 0 .. 0 |-> first] \in [0 .. 0 -> R] /\ 0 \in 0 .. 0 /\ 1 .. 0 = {}
      OBVIOUS
    <3>. QED
      BY <3>1
  <2>2. 0 \in 0 .. n
    OBVIOUS
  <2>. HIDE DEF Upto
  <2>. QED
    BY <2>1, <2>2
<1>2. ASSUME NEW m \in 1 .. n, m - 1 \in good
      PROVE  m \in good
  <2>1. m \in Nat /\ m \in 0 .. n /\ m - 1 \in 0 .. m - 1 /\ m \notin 0 .. m - 1
    OBVIOUS
  <2>2. PICK g : Upto(g, m - 1)
    BY <1>2
  <2>. DEFINE end == G[m][g[m - 1]]
              h == [i \in 0 .. m |-> IF i = m THEN end ELSE g[i]]
  <2>3. end \in R
    BY <2>1, <2>2
  <2>. HIDE DEF end
  <2>4. \A i \in 0 .. m : i = m \/ i \in 0 .. m - 1
    BY <2>1
  <2>5. h \in [0 .. m -> R]
    BY <2>2, <2>3, <2>4
  <2>6. h[m] = end /\ \A i \in 0 .. m - 1 : h[i] = g[i]
    BY <2>1
  <2>7. 0 \in 0 .. m - 1 /\ \A i \in 1 .. m : i - 1 \in 0 .. m - 1 /\ (i = m \/ i \in 1 .. m - 1)
    BY <2>1
  <2>8. \A i \in 1 .. m - 1 : i \in 0 .. m - 1
    BY <2>1
  <2>. HIDE DEF h
  <2>9. ASSUME NEW i \in 1 .. m PROVE h[i] = G[i][h[i - 1]]
    <3>1. h[i - 1] = g[i - 1]
      BY <2>6, <2>7
    <3>2. CASE i = m
      BY <2>6, <3>1, <3>2 DEF end
    <3>3. CASE i \in 1 .. m - 1
      BY <2>2, <2>6, <2>8, <3>1, <3>3
    <3>. QED
      BY <2>7, <3>2, <3>3
  <2>10. Upto(h, m)
    BY <2>2, <2>5, <2>6, <2>7, <2>9
  <2>. QED
    BY <2>1, <2>10
<1>3. n \in good
  <2>. HIDE DEF good
  <2>1. n \in 0 .. n
    OBVIOUS
  <2>. QED
    BY <1>1, <1>2, <2>1, StepByStep
<1>. QED
  BY <1>3

\* Where each row is: below the one before, with a gap between rows that have a height.
RowPlace == [top : Nat, end : Nat]
PlaceAfter(before, h) ==
  LET gap == IF before > 0 /\ h > 0 THEN Spacing ELSE 0
  IN [top |-> before + gap, end |-> before + gap + h]
HasPlaces(p, l) ==
  /\ p \in [0 .. Len(l) -> RowPlace] /\ DOMAIN p = 0 .. Len(l) /\ p[0] = [top |-> 0, end |-> 0]
  /\ \A i \in 1 .. Len(l) : p[i] = PlaceAfter(p[i - 1].end, HeightIn(l, i))

\* A row has a height, measured or estimated.
LEMMA HeightTyped ==
  ASSUME NEW l \in Seq(RowRecord), NEW i \in 1 .. Len(l)
  PROVE  HeightIn(l, i) \in Nat
<1>1. l[i] \in RowRecord
  OBVIOUS
<1>2. l[i].height \in Nat
  <2>1. Heights \cup {0} \subseteq Nat
    BY ViewAssumption
  <2>. QED
    BY <1>1, <2>1 DEF RowRecord
<1>3. Estimate \in Nat
  BY ViewAssumption
<1>. QED
  BY <1>2, <1>3 DEF HeightIn

\* A row's place is one.
LEMMA PlaceTyped ==
  ASSUME NEW before \in Nat, NEW h \in Nat
  PROVE  /\ PlaceAfter(before, h) \in RowPlace
         /\ before <= PlaceAfter(before, h).top
         /\ PlaceAfter(before, h).end = PlaceAfter(before, h).top + h
<1>1. Spacing \in Nat
  BY ViewAssumption
<1>. QED
  BY <1>1 DEF PlaceAfter, RowPlace

\* relayout gives each row its place.
LEMMA PlacesOf ==
  ASSUME NEW l \in Seq(RowRecord)
  PROVE  HasPlaces(Relayout(l), l)
<1>. DEFINE n == Len(l)
            After(before, i) == PlaceAfter(before, HeightIn(l, i))
            begin == [top |-> 0, end |-> 0]
            Is(k) == k = [i \in 0 .. n |->
                           IF i = 0 THEN [top |-> 0, end |-> 0]
                           ELSE LET before == k[i - 1].end
                                    gap == IF before > 0 /\ HeightIn(l, i) > 0 THEN Spacing ELSE 0
                                IN [top |-> before + gap, end |-> before + gap + HeightIn(l, i)]]
            place == CHOOSE k : Is(k)
<1>1. n \in Nat /\ begin \in RowPlace /\ \A i \in 1 .. n : HeightIn(l, i) \in Nat
  BY HeightTyped DEF RowPlace
<1>2. Relayout(l) = [i \in 0 .. n |-> place[i]]
  BY DEF Relayout
<1>3. \A k : Is(k) => k = [i \in 0 .. n |-> IF i = 0 THEN begin ELSE After(k[i - 1].end, i)]
  BY DEF PlaceAfter
<1>4. \A k : k = [i \in 0 .. n |-> IF i = 0 THEN begin ELSE After(k[i - 1].end, i)] => Is(k)
  BY DEF PlaceAfter
<1>. HIDE DEF n, Is, place, begin
<1>5. \E g \in [0 .. n -> RowPlace] :
        g[0] = begin /\ \A i \in 1 .. n : g[i] = After(g[i - 1].end, i)
  <2>. DEFINE G == [i \in 1 .. n |-> [r \in RowPlace |-> After(r.end, i)]]
  <2>1. \A i \in 1 .. n, r \in RowPlace : After(r.end, i) \in RowPlace
    BY <1>1, PlaceTyped DEF RowPlace
  <2>2. G \in [1 .. n -> [RowPlace -> RowPlace]]
    BY <2>1
  <2>3. \A i \in 1 .. n, r \in RowPlace : G[i][r] = After(r.end, i)
    OBVIOUS
  <2>. HIDE DEF G, After
  <2>4. n \in Nat /\ begin \in RowPlace
    BY <1>1
  <2>5. ASSUME NEW H \in [1 .. n -> [RowPlace -> RowPlace]]
        PROVE  \E g \in [0 .. n -> RowPlace] :
                 g[0] = begin /\ \A i \in 1 .. n : g[i] = H[i][g[i - 1]]
    BY <2>4, RecursionExists, SMTT(30)
  <2>6. PICK g \in [0 .. n -> RowPlace] : g[0] = begin /\ \A i \in 1 .. n : g[i] = G[i][g[i - 1]]
    BY <2>2, <2>5
  <2>7. \A i \in 1 .. n : g[i - 1] \in RowPlace
    BY <1>1, <2>6
  <2>. QED
    BY <2>3, <2>6, <2>7
<1>. HIDE DEF After
<1>6. PICK g \in [0 .. n -> RowPlace] :
        g[0] = begin /\ \A i \in 1 .. n : g[i] = After(g[i - 1].end, i)
  BY <1>5
<1>7. Is(g)
  <2>1. \A i \in 0 .. n : i = 0 \/ i \in 1 .. n
    BY <1>1
  <2>2. \A i \in 0 .. n : g[i] = IF i = 0 THEN begin ELSE After(g[i - 1].end, i)
    BY <1>6, <2>1
  <2>3. g = [i \in 0 .. n |-> g[i]]
    BY <1>6
  <2>4. g = [i \in 0 .. n |-> IF i = 0 THEN begin ELSE After(g[i - 1].end, i)]
    BY <2>2, <2>3
  <2>. QED
    BY <1>4, <2>4
<1>8. Is(place)
  BY <1>7 DEF place
<1>9. place = [i \in 0 .. n |-> IF i = 0 THEN begin ELSE After(place[i - 1].end, i)]
  BY <1>3, <1>8
<1>10. \A i \in 0 .. n : place[i] = IF i = 0 THEN begin ELSE After(place[i - 1].end, i)
  <2>. DEFINE body(i) == IF i = 0 THEN begin ELSE After(place[i - 1].end, i)
  <2>1. place = [i \in 0 .. n |-> body(i)]
    BY <1>9
  <2>. HIDE DEF body
  <2>2. \A i \in 0 .. n : place[i] = body(i)
    BY <2>1
  <2>. QED
    BY <2>2 DEF body
<1>11. place[0] = begin /\ \A i \in 1 .. n : place[i] = After(place[i - 1].end, i)
  <2>1. 0 \in 0 .. n /\ \A i \in 1 .. n : i \in 0 .. n /\ i # 0
    BY <1>1
  <2>. QED
    BY <1>10, <2>1
<1>12. \A i \in 0 .. n : i \in {j \in 0 .. n : place[j] = g[j]}
  <2>. DEFINE same == {j \in 0 .. n : place[j] = g[j]}
  <2>1. 0 \in same
    BY <1>1, <1>6, <1>11
  <2>2. \A i \in 1 .. n : i - 1 \in same => i \in same
    BY <1>1, <1>6, <1>11
  <2>. HIDE DEF same
  <2>. QED
    BY <1>1, <2>1, <2>2, StepByStep DEF same
<1>13. Relayout(l) = g
  BY <1>2, <1>6, <1>12
<1>. QED
  BY <1>6, <1>13 DEF n, begin, After, HasPlaces

\* Layouts with the same heights have the same places.
LEMMA SamePlaces ==
  ASSUME NEW l \in Seq(RowRecord), NEW m \in Seq(RowRecord), Len(m) = Len(l),
         \A i \in 1 .. Len(l) : HeightIn(m, i) = HeightIn(l, i)
  PROVE  Relayout(m) = Relayout(l)
<1>. DEFINE n == Len(l)  p == Relayout(l)  q == Relayout(m)
            same == {i \in 0 .. n : q[i] = p[i]}
<1>1. HasPlaces(p, l) /\ HasPlaces(q, m)
  BY PlacesOf
<1>2. n \in Nat
  OBVIOUS
<1>. HIDE DEF p, q
<1>3. 0 \in same
  BY <1>1, <1>2 DEF HasPlaces
<1>4. \A i \in 1 .. n : i - 1 \in same => i \in same
  <2>1. \A i \in 1 .. n : p[i] = PlaceAfter(p[i - 1].end, HeightIn(l, i))
                       /\ q[i] = PlaceAfter(q[i - 1].end, HeightIn(m, i))
    BY <1>1 DEF HasPlaces
  <2>2. \A i \in 1 .. n : HeightIn(m, i) = HeightIn(l, i) /\ i \in 0 .. n
    BY <1>2
  <2>. QED
    BY <2>1, <2>2
<1>5. \A i \in 0 .. n : i \in same
  <2>. HIDE DEF same
  <2>. QED
    BY <1>2, <1>3, <1>4, StepByStep
<1>6. q = p
  BY <1>1, <1>5 DEF HasPlaces
<1>. QED
  BY <1>6 DEF p, q

\* Further down is not further up.
LEMMA PlacesAscend ==
  ASSUME NEW l \in Seq(RowRecord), NEW p, HasPlaces(p, l)
  PROVE  \A i, j \in 0 .. Len(l) : i <= j =>
           /\ p[i] \in RowPlace /\ p[j] \in RowPlace
           /\ p[i].end <= p[j].end /\ p[i].top <= p[j].top /\ p[j].top <= p[j].end
<1>. DEFINE n == Len(l)
<1>1. n \in Nat /\ \A i \in 0 .. n : p[i] \in RowPlace
  BY SMTT(30) DEF HasPlaces
<1>2. ASSUME NEW i \in 1 .. n
      PROVE  p[i - 1].end <= p[i].top /\ p[i].top <= p[i].end
  <2>1. p[i] = PlaceAfter(p[i - 1].end, HeightIn(l, i))
    BY DEF HasPlaces
  <2>2. HeightIn(l, i) \in Nat
    BY HeightTyped
  <2>3. p[i - 1].end \in Nat
    BY <1>1 DEF RowPlace
  <2>. HIDE DEF n
  <2>4. p[i] \in RowPlace /\ p[i - 1].end <= p[i].top /\ p[i].end = p[i].top + HeightIn(l, i)
    BY <2>1, <2>2, <2>3, PlaceTyped
  <2>. QED
    BY <2>2, <2>4 DEF RowPlace
<1>3. p[0].top = 0 /\ p[0].end = 0
  BY DEF HasPlaces
<1>4. \A i \in 0 .. n : p[i].top \in Nat /\ p[i].end \in Nat /\ p[i].top <= p[i].end
  <2>1. \A i \in 0 .. n : p[i].top \in Nat /\ p[i].end \in Nat
    BY <1>1 DEF RowPlace
  <2>2. \A i \in 0 .. n : i = 0 \/ i \in 1 .. n
    BY <1>1
  <2>. QED
    BY <1>2, <1>3, <2>1, <2>2
<1>. HIDE DEF n
<1>5. ASSUME NEW i \in 0 .. n
      PROVE  \A j \in 0 .. n : i <= j => p[i].end <= p[j].end /\ p[i].top <= p[j].top
  <2>. DEFINE below == {j \in 0 .. n : i <= j => p[i].end <= p[j].end /\ p[i].top <= p[j].top}
  <2>1. 0 \in below
    <3>1. i <= 0 => i = 0
      OBVIOUS
    <3>. QED
      BY <1>1, <1>3, <3>1
  <2>2. ASSUME NEW j \in 1 .. n, j - 1 \in below PROVE j \in below
    <3>1. j \in 0 .. n /\ j - 1 \in 0 .. n /\ (i <= j => i <= j - 1 \/ i = j)
      BY <1>1
    <3>2. CASE i = j
      BY <1>4, <3>1, <3>2
    <3>3. CASE i <= j - 1
      <4>1. p[i].end <= p[j - 1].end /\ p[i].top <= p[j - 1].top
        BY <2>2, <3>3
      <4>2. p[j - 1].end <= p[j].top /\ p[j].top <= p[j].end /\ p[j - 1].top <= p[j - 1].end
        BY <1>2, <1>4, <3>1
      <4>3. /\ p[i].end \in Nat /\ p[i].top \in Nat /\ p[j].end \in Nat /\ p[j].top \in Nat
            /\ p[j - 1].end \in Nat /\ p[j - 1].top \in Nat
        BY <1>4, <3>1
      <4>4. \A a, b, c \in Nat : a <= b /\ b <= c => a <= c
        OBVIOUS
      <4>5. p[i].end <= p[j].top
        BY <4>1, <4>2, <4>3, <4>4, Zenon
      <4>6. p[i].end <= p[j].end
        BY <4>2, <4>3, <4>4, <4>5, Zenon
      <4>7. p[i].top <= p[j - 1].end
        BY <4>1, <4>2, <4>3, <4>4, Zenon
      <4>8. p[i].top <= p[j].top
        BY <4>2, <4>3, <4>4, <4>7, Zenon
      <4>. QED
        BY <3>1, <4>6, <4>8
    <3>. QED
      BY <3>1, <3>2, <3>3
  <2>3. \A j \in 0 .. n : j \in below
    <3>. HIDE DEF below
    <3>. QED
      BY <1>1, <2>1, <2>2, StepByStep
  <2>. QED
    BY <2>3
<1>. QED
  BY <1>1, <1>4, <1>5 DEF n

\* The binary search stops no later than at the first row that ends at or below the view's top.
LEMMA SearchFinds ==
  ASSUME NEW l \in Seq(RowRecord), NEW p, HasPlaces(p, l), NEW view, view.top \in Int
  PROVE  /\ FirstVisible(p, view) \in Nat
         /\ \A i \in 1 .. Len(l) : p[i].end >= view.top => FirstVisible(p, view) <= i
<1>. DEFINE n == Cardinality(PlacedRows(p))
            pairs == (1 .. n + 1) \X (0 .. n)
            Mid(lo, hi) == lo + (hi - lo) \div 2
            Beyond(i) == p[i].end >= view.top
            Probe(S, lo, hi) == IF lo > hi THEN lo
                                ELSE IF Beyond(Mid(lo, hi)) THEN S[<<lo, Mid(lo, hi) - 1>>]
                                ELSE S[<<Mid(lo, hi) + 1, hi>>]
            Is(S) == S = [r \in pairs |->
                           LET lo == r[1]  hi == r[2]  mid == lo + (hi - lo) \div 2
                           IN IF lo > hi THEN lo
                              ELSE IF p[mid].end >= view.top THEN S[<<lo, mid - 1>>]
                              ELSE S[<<mid + 1, hi>>]]
            found == CHOOSE S : Is(S)
            IsFirst(x, lo, hi) == /\ x \in lo .. hi + 1 /\ \A j \in lo .. x - 1 : ~Beyond(j)
                                  /\ x <= hi => Beyond(x)
<1>1. FirstVisible(p, view) = found[<<1, n>>]
  BY DEF FirstVisible
<1>2. \A S : Is(S) => S = [r \in pairs |-> Probe(S, r[1], r[2])]
  OBVIOUS
<1>3. \A S : S = [r \in pairs |-> Probe(S, r[1], r[2])] => Is(S)
  OBVIOUS
<1>4. n = Len(l) /\ n \in Nat
  <2>1. PlacedRows(p) = 1 .. Len(l)
    BY DEF HasPlaces, PlacedRows
  <2>2. Cardinality(1 .. Len(l)) = Len(l)
    BY FS_Interval
  <2>. QED
    BY <2>1, <2>2
<1>5. \A i, j \in 0 .. n : i <= j /\ Beyond(i) => Beyond(j)
  <2>1. ASSUME NEW i \in 0 .. n, NEW j \in 0 .. n, i <= j, Beyond(i) PROVE Beyond(j)
    <3>1. p[i] \in RowPlace /\ p[j] \in RowPlace /\ p[i].end <= p[j].end
      BY <1>4, <2>1, PlacesAscend
    <3>2. p[i].end \in Nat /\ p[j].end \in Nat
      BY <3>1 DEF RowPlace
    <3>. QED
      BY <2>1, <3>1, <3>2
  <2>. QED
    BY <2>1
<1>. HIDE DEF n, Is, found, Beyond
<1>6. \A lo \in 1 .. n + 1, hi \in 0 .. n : lo <= hi => Mid(lo, hi) \in lo .. hi
  BY <1>4
<1>7. ASSUME NEW lo \in 1 .. n + 1, NEW hi \in 0 .. n, lo <= hi + 1
      PROVE  \E x : IsFirst(x, lo, hi)
  <2>. DEFINE T == {x \in lo .. hi + 1 : x = hi + 1 \/ Beyond(x)}
  <2>1. T \in SUBSET Nat /\ hi + 1 \in T
    BY <1>4, <1>7
  <2>2. PICK x \in T : \A y \in T : x <= y
    <3>. HIDE DEF T
    <3>. QED
      BY <2>1, LeastOf
  <2>3. x \in lo .. hi + 1 /\ (x <= hi => Beyond(x))
    BY <1>4, <2>2
  <2>4. ASSUME NEW j \in lo .. x - 1 PROVE ~Beyond(j)
    <3>1. j \in lo .. hi + 1 /\ ~(x <= j)
      BY <1>4, <2>3
    <3>. QED
      BY <2>2, <3>1
  <2>. QED
    BY <2>3, <2>4
<1>8. ASSUME NEW lo \in 1 .. n + 1, NEW hi \in 0 .. n,
             NEW x, NEW y, IsFirst(x, lo, hi), IsFirst(y, lo, hi)
      PROVE  x = y
  <2>1. /\ x \in Int /\ y \in Int
        /\ x < y => x \in lo .. y - 1 /\ x <= hi
        /\ y < x => y \in lo .. x - 1 /\ y <= hi
    BY <1>4, <1>8
  <2>2. ~(x < y) /\ ~(y < x)
    BY <1>8, <2>1
  <2>. QED
    BY <2>1, <2>2
<1>9. ASSUME NEW lo \in 1 .. n + 1, NEW hi \in 0 .. n, lo <= hi, NEW S,
             Beyond(Mid(lo, hi)) => IsFirst(S[<<lo, Mid(lo, hi) - 1>>], lo, Mid(lo, hi) - 1),
             ~Beyond(Mid(lo, hi)) => IsFirst(S[<<Mid(lo, hi) + 1, hi>>], Mid(lo, hi) + 1, hi)
      PROVE  IsFirst(Probe(S, lo, hi), lo, hi)
  <2>. DEFINE mid == Mid(lo, hi)
  <2>1. mid \in Int /\ lo <= mid /\ mid <= hi /\ lo \in Int /\ hi \in Int /\ 1 <= lo /\ hi <= n
    BY <1>4, <1>6, <1>9
  <2>. HIDE DEF mid, Mid
  <2>2. CASE Beyond(mid)
    <3>. DEFINE x == S[<<lo, mid - 1>>]
    <3>1. Probe(S, lo, hi) = x /\ IsFirst(x, lo, mid - 1)
      BY <1>9, <2>1, <2>2 DEF mid
    <3>. HIDE DEF x
    <3>2. x \in lo .. hi + 1 /\ \A j \in lo .. x - 1 : ~Beyond(j)
      BY <2>1, <3>1
    <3>3. x \in lo .. mid /\ (x <= mid - 1 => Beyond(x))
      BY <2>1, <3>1
    <3>4. Beyond(x)
      BY <2>1, <2>2, <3>3
    <3>5. IsFirst(x, lo, hi)
      BY <3>2, <3>4
    <3>. QED
      BY <3>1, <3>5
  <2>3. CASE ~Beyond(mid)
    <3>. DEFINE x == S[<<mid + 1, hi>>]
    <3>1. IsFirst(x, mid + 1, hi)
      BY <1>9, <2>3 DEF mid
    <3>2. ~(lo > hi)
      BY <2>1
    <3>3. Probe(S, lo, hi) = x /\ IsFirst(x, mid + 1, hi)
      BY <2>3, <3>1, <3>2 DEF mid
    <3>. HIDE DEF x
    <3>4. x \in lo .. hi + 1 /\ (x <= hi => Beyond(x))
      BY <2>1, <3>3
    <3>5. ASSUME NEW j \in lo .. x - 1 PROVE ~Beyond(j)
      <4>1. j \in 0 .. n /\ mid \in 0 .. n /\ (j <= mid \/ j \in mid + 1 .. x - 1)
        BY <1>4, <2>1, <3>4
      <4>. QED
        BY <1>5, <2>3, <3>3, <4>1
    <3>6. IsFirst(x, lo, hi)
      BY <3>4, <3>5
    <3>. QED
      BY <3>3, <3>6
  <2>. QED
    BY <2>2, <2>3
<1>10. \A lo \in 1 .. n + 1, hi \in 0 .. n : lo <= hi =>
         /\ Mid(lo, hi) - 1 \in 0 .. n /\ lo <= Mid(lo, hi) - 1 + 1
         /\ Mid(lo, hi) - 1 - lo < hi - lo
         /\ Mid(lo, hi) + 1 \in 1 .. n + 1 /\ Mid(lo, hi) + 1 <= hi + 1
         /\ hi - (Mid(lo, hi) + 1) < hi - lo
  BY <1>4, <1>6
<1>11. ASSUME NEW lo \in 1 .. n + 1, NEW hi \in 0 .. n, lo = hi + 1
       PROVE  IsFirst(lo, lo, hi)
  <2>1. lo \in Nat /\ lo \in lo .. hi + 1 /\ ~(lo <= hi)
    BY <1>4, <1>11
  <2>2. \A j \in lo .. lo - 1 : FALSE
    BY <2>1
  <2>. QED
    BY <2>1, <2>2
<1>. HIDE DEF Mid, Probe, IsFirst
<1>12. \E S : Is(S)
  <2>. DEFINE First(lo, hi) == CHOOSE x : IsFirst(x, lo, hi)
              F == [r \in pairs |-> IF r[1] > r[2] THEN r[1] ELSE First(r[1], r[2])]
  <2>1. \A lo \in 1 .. n + 1, hi \in 0 .. n :
          (\E x : IsFirst(x, lo, hi)) => IsFirst(First(lo, hi), lo, hi)
    OBVIOUS
  <2>. HIDE DEF First
  <2>2. ASSUME NEW lo \in 1 .. n + 1, NEW hi \in 0 .. n
        PROVE  F[<<lo, hi>>] = IF lo > hi THEN lo ELSE First(lo, hi)
    <3>1. <<lo, hi>> \in pairs /\ <<lo, hi>>[1] = lo /\ <<lo, hi>>[2] = hi
      OBVIOUS
    <3>. HIDE DEF pairs
    <3>. QED
      BY <3>1
  <2>. HIDE DEF F
  <2>3. ASSUME NEW lo \in 1 .. n + 1, NEW hi \in 0 .. n, lo <= hi + 1
        PROVE  IsFirst(F[<<lo, hi>>], lo, hi)
    <3>1. CASE lo > hi
      <4>1. lo = hi + 1
        BY <1>4, <2>3, <3>1
      <4>2. F[<<lo, hi>>] = lo
        BY <2>2, <3>1
      <4>. QED
        BY <1>11, <4>1, <4>2
    <3>2. CASE ~(lo > hi)
      <4>1. \E x : IsFirst(x, lo, hi)
        BY <1>7, <2>3
      <4>2. F[<<lo, hi>>] = First(lo, hi)
        BY <2>2, <3>2
      <4>. QED
        BY <2>1, <4>1, <4>2
    <3>. QED
      BY <3>1, <3>2
  <2>4. ASSUME NEW lo \in 1 .. n + 1, NEW hi \in 0 .. n
        PROVE  F[<<lo, hi>>] = Probe(F, lo, hi)
    <3>1. CASE lo > hi
      BY <2>2, <3>1 DEF Probe
    <3>2. CASE ~(lo > hi)
      <4>1. lo <= hi
        BY <1>4, <3>2
      <4>2. IsFirst(Probe(F, lo, hi), lo, hi)
        BY <1>9, <1>10, <2>3, <4>1
      <4>3. IsFirst(F[<<lo, hi>>], lo, hi)
        BY <1>4, <2>3, <4>1
      <4>. QED
        BY <1>8, <4>2, <4>3
    <3>. QED
      BY <3>1, <3>2
  <2>5. \A r \in pairs : F[r] = Probe(F, r[1], r[2])
    <3>1. \A r \in pairs : r[1] \in 1 .. n + 1 /\ r[2] \in 0 .. n /\ r = <<r[1], r[2]>>
      OBVIOUS
    <3>. QED
      BY <2>4, <3>1
  <2>6. F = [r \in pairs |-> F[r]]
    BY DEF F
  <2>. HIDE DEF pairs
  <2>7. F = [r \in pairs |-> Probe(F, r[1], r[2])]
    BY <2>5, <2>6
  <2>. QED
    BY <1>3, <2>7
<1>13. Is(found)
  BY <1>12 DEF found
<1>14. ASSUME NEW lo \in 1 .. n + 1, NEW hi \in 0 .. n
       PROVE  found[<<lo, hi>>] = Probe(found, lo, hi)
  <2>1. found = [r \in pairs |-> Probe(found, r[1], r[2])]
    BY <1>2, <1>13
  <2>2. <<lo, hi>> \in pairs /\ <<lo, hi>>[1] = lo /\ <<lo, hi>>[2] = hi
    OBVIOUS
  <2>. HIDE DEF pairs
  <2>. QED
    BY <2>1, <2>2
<1>. DEFINE good == {k \in 0 .. n : \A lo \in 1 .. n + 1, hi \in 0 .. n :
                       lo <= hi + 1 /\ hi - lo < k => IsFirst(found[<<lo, hi>>], lo, hi)}
<1>15. ASSUME NEW lo \in 1 .. n + 1, NEW hi \in 0 .. n, lo = hi + 1
       PROVE  IsFirst(found[<<lo, hi>>], lo, hi)
  <2>1. lo > hi
    BY <1>4, <1>15
  <2>2. found[<<lo, hi>>] = lo
    BY <1>14, <2>1 DEF Probe
  <2>. QED
    BY <1>15, <1>11, <2>2
<1>16. 0 \in good
  <2>1. \A lo \in 1 .. n + 1, hi \in 0 .. n : lo <= hi + 1 /\ hi - lo < 0 => lo = hi + 1
    BY <1>4
  <2>. QED
    BY <1>4, <1>15, <2>1
<1>17. ASSUME NEW k \in 1 .. n, k - 1 \in good PROVE k \in good
  <2>1. ASSUME NEW lo \in 1 .. n + 1, NEW hi \in 0 .. n, lo <= hi + 1, hi - lo < k
        PROVE  IsFirst(found[<<lo, hi>>], lo, hi)
    <3>1. CASE lo = hi + 1
      BY <1>15, <3>1
    <3>2. CASE lo <= hi
      <4>. DEFINE mid == Mid(lo, hi)
      <4>1. /\ mid - 1 \in 0 .. n /\ lo <= mid - 1 + 1 /\ mid - 1 - lo < hi - lo
            /\ mid + 1 \in 1 .. n + 1 /\ mid + 1 <= hi + 1 /\ hi - (mid + 1) < hi - lo
        BY <1>10, <3>2
      <4>. HIDE DEF mid
      <4>2. mid - 1 - lo < k - 1 /\ hi - (mid + 1) < k - 1
        BY <1>4, <2>1, <4>1
      <4>3. /\ IsFirst(found[<<lo, mid - 1>>], lo, mid - 1)
            /\ IsFirst(found[<<mid + 1, hi>>], mid + 1, hi)
        BY <1>17, <4>1, <4>2
      <4>. QED
        BY <1>9, <1>14, <3>2, <4>3 DEF mid
    <3>. QED
      BY <1>4, <2>1, <3>1, <3>2
  <2>. QED
    BY <1>4, <2>1
<1>18. n \in good
  <2>. HIDE DEF good
  <2>1. n \in 0 .. n
    BY <1>4
  <2>. QED
    BY <1>4, <1>16, <1>17, <2>1, StepByStep
<1>19. IsFirst(found[<<1, n>>], 1, n)
  BY <1>4, <1>18
<1>20. /\ found[<<1, n>>] \in Nat
       /\ \A i \in 1 .. n : Beyond(i) => found[<<1, n>>] <= i
  <2>. DEFINE x == found[<<1, n>>]
  <2>. HIDE DEF x
  <2>1. x \in 1 .. n + 1 /\ \A j \in 1 .. x - 1 : ~Beyond(j)
    BY <1>19 DEF IsFirst, x
  <2>2. \A i \in 1 .. n : x <= i \/ i \in 1 .. x - 1
    BY <1>4, <2>1
  <2>. QED
    BY <1>4, <2>1, <2>2 DEF x
<1>. QED
  BY <1>1, <1>4, <1>20 DEF Beyond

\* Where the view is scrolled to, and the viewport its user gave it.
WindowOK == contentY \in Tops /\ custom \in BOOLEAN /\ viewport \in Viewports

\* The viewport of effectiveViewport before its buffer holds all that the user sees of the layout.
LEMMA SeenIsInside ==
  ASSUME WindowOK, NEW H \in Nat \ {0}
  PROVE  /\ Seen.top \in Int /\ Seen.bottom \in Int
         /\ \E top, bottom \in Int :
              /\ top <= Seen.top /\ bottom >= Seen.bottom
              /\ Viewport(H) = [top    |-> Greater(0, top - CacheBuffer),
                                bottom |-> Lesser(H, bottom + CacheBuffer)]
<1>1. contentY \in Int /\ ViewHeight \in Nat /\ viewport \in [top : Int, bottom : Int]
  BY ViewAssumption DEF WindowOK
<1>2. CASE custom
  <2>1. Seen = viewport
    BY <1>2 DEF Seen
  <2>2. viewport.top \in Int /\ viewport.bottom \in Int
    BY <1>1
  <2>3. Viewport(H) = [top    |-> Greater(0, viewport.top - CacheBuffer),
                       bottom |-> Lesser(H, viewport.bottom + CacheBuffer)]
    BY <1>2 DEF Viewport
  <2>4. viewport.top <= Seen.top /\ viewport.bottom >= Seen.bottom
    BY <2>1, <2>2
  <2>. QED
    BY <2>1, <2>2, <2>3, <2>4
<1>3. CASE ~custom
  <2>. DEFINE t == Lesser(contentY, H)
              b == Greater(contentY + ViewHeight, 0)
  <2>1. Seen.top = contentY /\ Seen.bottom = contentY + ViewHeight
    BY <1>3 DEF Seen
  <2>2. t \in Int /\ b \in Int /\ t <= contentY /\ b >= contentY + ViewHeight
    BY <1>1 DEF Lesser, Greater
  <2>3. Viewport(H) = [top |-> Greater(0, t - CacheBuffer), bottom |-> Lesser(H, b + CacheBuffer)]
    BY <1>3 DEF Viewport
  <2>. HIDE DEF t, b
  <2>. QED
    BY <1>1, <2>1, <2>2, <2>3
<1>. QED
  BY <1>2, <1>3

\* What overlaps the view, or the viewport it was given, is in the range of
\* computeVisibleRange.
LEMMA InViewIsVisible ==
  ASSUME NEW l \in Seq(RowRecord), WindowOK, NEW i \in 1 .. Len(l), InView(Relayout(l)[i])
  PROVE  i \in VisibleRange(Relayout(l), Viewport(LayoutHeight(Relayout(l))))
<1>. DEFINE n == Len(l)  p == Relayout(l)  H == LayoutHeight(p)  view == Viewport(H)
            first == FirstVisible(p, view)
<1>1. HasPlaces(p, l)
  BY PlacesOf
<1>2. n \in Nat /\ CacheBuffer \in Nat
  BY ViewAssumption
<1>3. InView(p[i])
  OBVIOUS
<1>. HIDE DEF p
<1>4. PlacedRows(p) = 1 .. n
  BY <1>1 DEF HasPlaces, PlacedRows
<1>5. H = p[n].end
  <2>1. Cardinality(1 .. n) = n
    BY <1>2, FS_Interval, SMTT(30)
  <2>. QED
    BY <1>4, <2>1 DEF LayoutHeight
<1>6. \A j, k \in 0 .. n : j <= k =>
        p[j] \in RowPlace /\ p[k] \in RowPlace /\ p[j].end <= p[k].end /\ p[j].top <= p[k].top
  BY <1>1, PlacesAscend
<1>. HIDE DEF n, H
<1>7. /\ p[i].top \in Nat /\ p[i].end \in Nat /\ H \in Nat \ {0} /\ p[i].end <= H
      /\ p[i].end > p[i].top /\ p[i].top < Seen.bottom /\ p[i].end > Seen.top
      /\ Seen.top < Seen.bottom
  <2>1. i \in 0 .. n /\ n \in 0 .. n /\ i <= n
    BY <1>2 DEF n
  <2>2. p[i] \in RowPlace /\ p[n] \in RowPlace /\ p[i].end <= p[n].end
    BY <1>6, <2>1
  <2>. QED
    BY <1>3, <1>5, <2>2 DEF InView, RowPlace
<1>8. PICK top, bottom \in Int :
        /\ top <= Seen.top /\ bottom >= Seen.bottom /\ Seen.top \in Int /\ Seen.bottom \in Int
        /\ view = [top    |-> Greater(0, top - CacheBuffer),
                   bottom |-> Lesser(H, bottom + CacheBuffer)]
  BY <1>7, SeenIsInside
<1>9. /\ view.top \in Int /\ view.bottom \in Int /\ view.top <= p[i].end
      /\ p[i].top <= view.bottom /\ view.top < view.bottom
  <2>. DEFINE s == p[i].top  e == p[i].end  st == Seen.top  sb == Seen.bottom
  <2>1. s \in Nat /\ e \in Nat /\ e <= H /\ s < e /\ s < sb /\ e > st /\ st < sb
    BY <1>7
  <2>2. st \in Int /\ sb \in Int /\ top <= st /\ bottom >= sb /\ H \in Nat
    BY <1>7, <1>8
  <2>3. view.top = Greater(0, top - CacheBuffer) /\ view.bottom = Lesser(H, bottom + CacheBuffer)
    BY <1>8
  <2>. HIDE DEF s, e, st, sb, view
  <2>4. view.top \in Int /\ (view.top = 0 \/ view.top <= st)
    BY <1>2, <2>2, <2>3 DEF Greater
  <2>5. view.bottom \in Int /\ (view.bottom = H \/ view.bottom >= sb)
    BY <1>2, <2>2, <2>3 DEF Lesser
  <2>7. view.top <= e
    BY <2>1, <2>2, <2>4
  <2>8. s <= view.bottom
    BY <2>1, <2>2, <2>5
  <2>9. view.top < view.bottom
    BY <2>1, <2>2, <2>4, <2>5
  <2>. QED
    BY <2>4, <2>5, <2>7, <2>8, <2>9 DEF s, e
<1>. HIDE DEF view
<1>10. first \in Nat /\ first <= i
  <2>1. first \in Nat /\ \A j \in 1 .. Len(l) : p[j].end >= view.top => first <= j
    BY <1>1, <1>9, SearchFinds
  <2>2. p[i].end >= view.top
    BY <1>7, <1>9
  <2>. QED
    BY <2>1, <2>2
<1>. HIDE DEF first
<1>11. ~IsEmpty(view)
  BY <1>9 DEF IsEmpty
<1>12. \A j \in first + 1 .. i : p[j].top <= view.bottom
  <2>1. ASSUME NEW j \in first + 1 .. i PROVE p[j].top <= view.bottom
    <3>1. j \in 0 .. n /\ i \in 0 .. n /\ j <= i
      BY <1>2, <1>10 DEF n
    <3>2. p[j] \in RowPlace /\ p[j].top <= p[i].top
      BY <1>6, <3>1
    <3>3. p[j].top \in Nat
      BY <3>2 DEF RowPlace
    <3>. QED
      BY <1>7, <1>9, <3>2, <3>3
  <2>. QED
    BY <2>1
<1>13. i \in {k \in PlacedRows(p) : k >= first /\ \A j \in first + 1 .. k : p[j].top <= view.bottom}
  BY <1>4, <1>10, <1>12 DEF n
<1>14. VisibleRange(p, view)
       = {k \in PlacedRows(p) : k >= first /\ \A j \in first + 1 .. k : p[j].top <= view.bottom}
  BY <1>11 DEF VisibleRange, first
<1>15. i \in VisibleRange(p, view)
  BY <1>13, <1>14
<1>. QED
  BY <1>15 DEF view, H, p

\* Each row in view has a delegate, or no item could be made for it, and each delegate is
\* shown, or waits for its timer or for the next polish.
Covered(l, d, tried) ==
  \A i \in 1 .. Len(l) : InView(Relayout(l)[i]) => i \in DOMAIN d \cup tried
Attended(d, its, wait, due) ==
  \A i \in DOMAIN d :
    /\ d[i].pending => IF d[i].started THEN d[i].item \in wait ELSE due
    /\ ~d[i].pending => its[d[i].item].ready /\ ~its[d[i].item].adding

SleepInv ==
  /\ WindowOK /\ (~polish => Covered(layout, delegate, refused))
  /\ Attended(delegate, item, waiting, polish)

\* A view without a component makes nothing.
AwakeInv == WindowOK /\ (component => SleepInv)

\* Where the view looks, when nobody moves it.
LEMMA WindowStays ==
  ASSUME WindowOK, window' = window
  PROVE  WindowOK'
BY DEF WindowOK, window

\* Delegates that go to other rows are no less attended.
LEMMA ShiftAttends ==
  ASSUME NEW d, NEW its, NEW wait, NEW due, Mapped(d) \subseteq DOMAIN its,
         its \in [DOMAIN its -> ItemProps], NEW to, Attended(d, its, wait, due), Shift(d, its, to)
  PROVE  Attended(delegate', item', wait, due)
<1>. DEFINE new == {to[i] : i \in DOMAIN d}
            From(k) == CHOOSE i \in DOMAIN d : to[i] = k
            at == [x \in Mapped(d) |-> to[RowIn(d, x)]]
<1>1. /\ delegate' = [k \in new |-> d[From(k)]]
      /\ item' = [x \in DOMAIN its |-> IF x \in Mapped(d) THEN [its[x] EXCEPT !.row = at[x]]
                                      ELSE its[x]]
  BY DEF Shift
<1>2. \A k \in new : From(k) \in DOMAIN d
  OBVIOUS
<1>. HIDE DEF From, at
<1>3. ASSUME NEW x \in DOMAIN its
      PROVE  item'[x].ready = its[x].ready /\ item'[x].adding = its[x].adding
  <2>1. its[x] \in ItemProps
    OBVIOUS
  <2>. QED
    BY <1>1, <2>1 DEF ItemProps
<1>4. ASSUME NEW k \in DOMAIN delegate'
      PROVE  \E i \in DOMAIN d : delegate'[k] = d[i] /\ d[i].item \in DOMAIN its
  <2>1. delegate'[k] = d[From(k)] /\ From(k) \in DOMAIN d
    BY <1>1, <1>2
  <2>2. d[From(k)].item \in Mapped(d)
    BY <2>1 DEF Mapped
  <2>. QED
    BY <2>1, <2>2
<1>. QED
  BY <1>3, <1>4 DEF Attended

\* While a polish is due no row has to have its delegate.
LEMMA SleepsLater ==
  ASSUME WindowOK', polish' = TRUE, Attended(delegate', item', waiting', TRUE)
  PROVE  SleepInv'
BY DEF SleepInv

\* A delegate attended to stays so when a polish falls due.
LEMMA DueAttends ==
  ASSUME NEW d, NEW its, NEW wait, NEW due, Attended(d, its, wait, due)
  PROVE  Attended(d, its, wait, TRUE)
BY DEF Attended

\* What leaves the layout and the table alone, and no delegate less ready than it was.
LEMMA SleepKept ==
  ASSUME ViewInv, SleepInv, UNCHANGED <<layout, delegate, window, waiting>>,
         UNCHANGED <<polish, refused>> \/ polish' = TRUE,
         \A x \in Mapped(delegate) :
           item'[x].ready = item[x].ready /\ item'[x].adding = item[x].adding
  PROVE  SleepInv'
<1>1. \A i \in DOMAIN delegate : delegate[i].item \in Mapped(delegate)
  BY DEF Mapped
<1>2. Attended(delegate', item', waiting', polish')
  BY <1>1 DEF SleepInv, Attended
<1>3. (~polish => Covered(layout, delegate, refused))'
  <2>1. SUFFICES ASSUME ~polish' PROVE Covered(layout, delegate, refused)'
    OBVIOUS
  <2>2. Covered(layout, delegate, refused)
    BY <2>1 DEF SleepInv
  <2>. QED
    BY <2>1, <2>2 DEF Covered, InView, Seen, window
<1>4. WindowOK'
  BY WindowStays DEF SleepInv
<1>. QED
  BY <1>2, <1>3, <1>4 DEF SleepInv

\* What the view does not hear of changes nothing.
LEMMA SleepUnheard ==
  ASSUME ViewInv, SleepInv, UNCHANGED <<contents, polish, refused, window>>
  PROVE  SleepInv'
<1>1. UNCHANGED <<layout, delegate, item, waiting>>
  BY DEF contents
<1>. QED
  BY <1>1, SleepKept

\* The items of a table are items there are.
LEMMA ItemsThere ==
  ASSUME ViewInv
  PROVE  Mapped(delegate) \subseteq DOMAIN item /\ item \in [DOMAIN item -> ItemProps]
BY DEF ViewInv, TablesSound

\* onRowsInserted
LEMMA SleepInserted ==
  ASSUME ViewInv, SleepInv, NEW first, NEW new, InsertRows(first, new)
  PROVE  SleepInv'
<1>1. CASE ~model
  BY <1>1, SleepUnheard DEF InsertRows, Heard
<1>2. CASE model
  <2>. DEFINE to == [i \in DOMAIN delegate |-> IF i >= first THEN i + Len(new) ELSE i]
  <2>1. Shift(delegate, item, to) /\ polish' = TRUE /\ UNCHANGED <<waiting, window>>
    BY <1>2, Zenon DEF InsertRows, Heard, OnRowsInserted, AskPolish
  <2>. HIDE DEF to
  <2>2. Attended(delegate, item, waiting, TRUE)
    BY DueAttends DEF SleepInv
  <2>3. Attended(delegate', item', waiting, TRUE)
    BY <2>1, <2>2, ItemsThere, ShiftAttends
  <2>4. WindowOK'
    BY <2>1, WindowStays DEF SleepInv
  <2>. QED
    BY <2>1, <2>3, <2>4, SleepsLater
<1>. QED
  BY <1>1, <1>2

\* onRowsAboutToBeRemoved and onRowsRemoved: the timers of what stays run on.
LEMMA SleepRemoved ==
  ASSUME ViewInv, SleepInv, NEW first, NEW last, RemoveRows(first, last)
  PROVE  SleepInv'
<1>1. PICK animate \in BOOLEAN : Heard(OnRowsRemoved(first, last, animate))
  BY DEF RemoveRows
<1>2. CASE ~model
  BY <1>1, <1>2, SleepUnheard DEF Heard
<1>3. CASE model
  <2>. DEFINE hit == DOMAIN delegate \cap first .. last
              gone == {delegate[i].item : i \in {i \in hit : delegate[i].pending \/ ~animate}}
              kept == [i \in DOMAIN delegate \ hit |-> delegate[i]]
              its == [x \in DOMAIN item \ gone |-> item[x]]
              to == [i \in DOMAIN kept |-> IF i > last THEN i - (last - first + 1) ELSE i]
  <2>1. Shift(kept, its, to) /\ polish' = TRUE /\ waiting' = waiting \ gone /\ window' = window
    BY <1>1, <1>3, Zenon DEF Heard, OnRowsRemoved, AskPolish
  <2>2. gone \subseteq {delegate[i].item : i \in hit} /\ hit \subseteq DOMAIN delegate
    OBVIOUS
  <2>. HIDE DEF hit, gone, to
  <2>3. \A i \in DOMAIN kept : i \in DOMAIN delegate /\ kept[i] = delegate[i] /\ i \notin hit
    OBVIOUS
  <2>4. \A i \in DOMAIN kept : delegate[i].item \in DOMAIN item \ gone
    <3>1. \A i, j \in DOMAIN delegate : delegate[i].item = delegate[j].item => i = j
      BY DEF ViewInv, TablesSound
    <3>2. \A i \in DOMAIN delegate : delegate[i].item \in DOMAIN item
      BY ItemsThere DEF Mapped
    <3>. QED
      BY <2>2, <2>3, <3>1, <3>2
  <2>. HIDE DEF kept
  <2>5. Mapped(kept) \subseteq DOMAIN its
    BY <2>3, <2>4 DEF Mapped
  <2>6. its \in [DOMAIN its -> ItemProps] /\ \A x \in DOMAIN item \ gone : its[x] = item[x]
    BY ItemsThere
  <2>. HIDE DEF its
  <2>7. Attended(kept, its, waiting \ gone, TRUE)
    BY <2>3, <2>4, <2>6 DEF SleepInv, Attended
  <2>8. Attended(delegate', item', waiting \ gone, TRUE)
    BY <2>1, <2>5, <2>6, <2>7, ShiftAttends
  <2>9. WindowOK'
    BY <2>1, WindowStays DEF SleepInv
  <2>. QED
    BY <2>1, <2>8, <2>9, SleepsLater
<1>. QED
  BY <1>2, <1>3

\* onRowsMoved
LEMMA SleepMoved ==
  ASSUME ViewInv, SleepInv, NEW first, NEW last, NEW row, MoveRows(first, last, row)
  PROVE  SleepInv'
<1>1. CASE ~model
  BY <1>1, SleepUnheard DEF MoveRows, Heard
<1>2. CASE model
  <2>1. PICK to : Shift(delegate, item, to)
    BY <1>2 DEF MoveRows, Heard, OnRowsMoved, AskPolish
  <2>2. polish' = TRUE /\ UNCHANGED <<waiting, window>>
    BY <1>2 DEF MoveRows, Heard, OnRowsMoved, AskPolish
  <2>3. Attended(delegate, item, waiting, TRUE)
    BY DueAttends DEF SleepInv
  <2>4. Attended(delegate', item', waiting, TRUE)
    BY <2>1, <2>3, ItemsThere, ShiftAttends
  <2>5. WindowOK'
    BY <2>2, WindowStays DEF SleepInv
  <2>. QED
    BY <2>2, <2>4, <2>5, SleepsLater
<1>. QED
  BY <1>1, <1>2

\* updateDelegateData leaves ready and adding alone.
LEMMA SleepRefreshed ==
  ASSUME ViewInv, SleepInv, NEW which, item' = Refreshed(which),
         UNCHANGED <<layout, delegate, window, waiting>>, UNCHANGED <<polish, refused>> \/ polish' = TRUE
  PROVE  SleepInv'
<1>1. ASSUME NEW x \in Mapped(delegate)
      PROVE  item'[x].ready = item[x].ready /\ item'[x].adding = item[x].adding
  <2>1. x \in DOMAIN item /\ item[x] \in ItemProps
    BY ItemsThere
  <2>2. item'[x] = item[x] \/ item'[x] = [item[x] EXCEPT !.shows = rows'[rowOf[x]]]
    BY <2>1 DEF Refreshed
  <2>. QED
    BY <2>1, <2>2 DEF ItemProps
<1>. QED
  BY <1>1, SleepKept

\* onDataChanged
LEMMA SleepData ==
  ASSUME ViewInv, SleepInv, NEW i, NEW d, ChangeData(i, d)
  PROVE  SleepInv'
<1>1. CASE ~model
  BY <1>1, SleepUnheard DEF ChangeData, Heard
<1>2. CASE model
  <2>1. item' = Refreshed({i}) /\ UNCHANGED <<layout, delegate, window, waiting, polish, refused>>
    BY <1>2 DEF ChangeData, Heard
  <2>. QED
    BY <2>1, SleepRefreshed
<1>. QED
  BY <1>1, <1>2

\* layoutChanged
LEMMA SleepReordered ==
  ASSUME ViewInv, SleepInv, ReorderRows
  PROVE  SleepInv'
<1>1. CASE ~model
  BY <1>1, SleepUnheard DEF ReorderRows, Heard
<1>2. CASE model
  <2>1. item' = Refreshed(DOMAIN rows) /\ polish' = TRUE
        /\ UNCHANGED <<layout, delegate, window, waiting>>
    BY <1>2 DEF ReorderRows, Heard, AskPolish
  <2>. QED
    BY <2>1, SleepRefreshed
<1>. QED
  BY <1>1, <1>2

\* resetContent: there is no delegate to wait for.
LEMMA SleepReset ==
  ASSUME WindowOK, ResetContent, window' = window
  PROVE  SleepInv'
<1>1. delegate' = <<>> /\ polish' = TRUE
  BY DEF ResetContent, AskPolish
<1>2. Attended(delegate', item', waiting', TRUE)
  <2>1. DOMAIN delegate' = {}
    BY <1>1
  <2>. QED
    BY <2>1 DEF Attended
<1>. QED
  BY <1>1, <1>2, SleepsLater, WindowStays

\* onModelReset
LEMMA SleepModelReset ==
  ASSUME ViewInv, SleepInv, NEW new, ResetModel(new)
  PROVE  SleepInv'
<1>1. CASE ~model
  BY <1>1, SleepUnheard DEF ResetModel, Heard
<1>2. CASE model
  <2>1. OnModelReset /\ window' = window
    BY <1>2 DEF ResetModel, Heard
  <2>2. CASE ResetContent
    BY <2>1, <2>2, SleepReset DEF SleepInv
  <2>3. CASE item' = Refreshed(DOMAIN rows') /\ UNCHANGED <<layout, delegate, waiting, polish, refused>>
    BY <2>1, <2>3, SleepRefreshed
  <2>. QED
    BY <2>1, <2>2, <2>3 DEF OnModelReset
<1>. QED
  BY <1>1, <1>2

\* The readyDelay timer: its item is shown, and no other delegate waited for it.
LEMMA SleepShown ==
  ASSUME ViewInv, SleepInv, NEW x, ShowDelayed(x)
  PROVE  SleepInv'
<1>1. /\ waiting' = waiting \ {x} /\ window' = window
  BY DEF ShowDelayed
<1>2. /\ DOMAIN rowOf = Mapped(delegate) /\ \A i \in DOMAIN delegate : rowOf[delegate[i].item] = i
      /\ delegate \in [DOMAIN delegate -> DelegateData]
      /\ \A i \in DOMAIN delegate : delegate[i].item \in Mapped(delegate)
  BY DEF ViewInv, TablesSound, IsIndex, Mapped
<1>3. Mapped(delegate) \subseteq DOMAIN item /\ item \in [DOMAIN item -> ItemProps]
  BY ItemsThere
<1>4. CASE /\ x \in DOMAIN rowOf /\ delegate[rowOf[x]].item = x
           /\ delegate' = [delegate EXCEPT
                            ![rowOf[x]] = [@ EXCEPT !.pending = FALSE, !.started = FALSE]]
           /\ item' = [item EXCEPT ![x] = Appeared(x)] /\ polish' = TRUE
  <2>1. rowOf[x] \in DOMAIN delegate /\ x \in DOMAIN item
    <3>1. PICK i \in DOMAIN delegate : x = delegate[i].item
      BY <1>2, <1>4 DEF Mapped
    <3>. QED
      BY <1>2, <1>3, <1>4, <3>1
  <2>2. item'[x].ready /\ ~item'[x].adding
    <3>1. item[x] \in ItemProps
      BY <1>3, <2>1
    <3>2. item'[x] = Appeared(x)
      BY <1>4, <2>1
    <3>. QED
      BY <3>1, <3>2 DEF ItemProps, Appeared
  <2>3. delegate'[rowOf[x]].item = x /\ ~delegate'[rowOf[x]].pending
    <3>1. delegate[rowOf[x]] \in DelegateData
      BY <1>2, <2>1
    <3>2. delegate'[rowOf[x]] = [delegate[rowOf[x]] EXCEPT !.pending = FALSE, !.started = FALSE]
      BY <1>4, <2>1
    <3>3. \A d \in DelegateData : LET e == [d EXCEPT !.pending = FALSE, !.started = FALSE]
                                 IN e.item = d.item /\ ~e.pending
      BY DEF DelegateData
    <3>. QED
      BY <1>4, <3>1, <3>2, <3>3
  <2>4. ASSUME NEW i \in DOMAIN delegate, i # rowOf[x]
        PROVE  /\ delegate'[i] = delegate[i] /\ delegate[i].item # x
               /\ item'[delegate[i].item] = item[delegate[i].item]
    <3>1. delegate[i].item # x /\ delegate[i].item \in DOMAIN item
      BY <1>2, <1>3, <2>4
    <3>. QED
      BY <1>4, <2>4, <3>1
  <2>5. DOMAIN delegate' = DOMAIN delegate
    BY <1>4
  <2>6. Attended(delegate', item', waiting', TRUE)
    BY <1>1, <2>2, <2>3, <2>4, <2>5 DEF SleepInv, Attended
  <2>7. WindowOK'
    BY <1>1, WindowStays DEF SleepInv
  <2>. QED
    BY <1>4, <2>6, <2>7, SleepsLater
<1>5. CASE /\ ~(x \in DOMAIN rowOf /\ delegate[rowOf[x]].item = x /\ delegate[rowOf[x]].pending)
           /\ UNCHANGED <<delegate, item, layout, polish, refused>>
  <2>1. \A i \in DOMAIN delegate : delegate[i].item = x => ~delegate[i].pending
    BY <1>2, <1>5
  <2>2. Attended(delegate', item', waiting', polish')
    BY <1>1, <1>5, <2>1 DEF SleepInv, Attended
  <2>3. (~polish => Covered(layout, delegate, refused))' /\ WindowOK'
    BY <1>1, <1>5, WindowStays DEF SleepInv, Covered, InView, Seen, window
  <2>. QED
    BY <2>2, <2>3 DEF SleepInv
<1>. QED
  BY <1>4, <1>5 DEF ShowDelayed, AskPolish

\* What dies is no row's delegate.
LEMMA SleepDestroyed ==
  ASSUME ViewInv, SleepInv, NEW x \in dying, DestroyDying(x)
  PROVE  SleepInv'
<1>1. /\ waiting' = waiting \ {x} /\ item' = [y \in DOMAIN item \ {x} |-> item[y]]
      /\ UNCHANGED <<layout, delegate, window, polish, refused>>
  BY DEF DestroyDying
<1>2. x \notin Mapped(delegate) /\ Mapped(delegate) \subseteq DOMAIN item
  BY DEF ViewInv, TablesSound
<1>3. \A i \in DOMAIN delegate : delegate[i].item \in DOMAIN item \ {x}
  BY <1>2 DEF Mapped
<1>4. \A i \in DOMAIN delegate : item'[delegate[i].item] = item[delegate[i].item]
  BY <1>1, <1>3
<1>5. Attended(delegate', item', waiting', polish')
  BY <1>1, <1>3, <1>4 DEF SleepInv, Attended
<1>6. (~polish => Covered(layout, delegate, refused))' /\ WindowOK'
  BY <1>1, WindowStays DEF SleepInv, Covered, InView, Seen, window
<1>. QED
  BY <1>5, <1>6 DEF SleepInv

\* onHeightChanged: the row is measured and a polish asked for, or nobody looks.
LEMMA SleepResized ==
  ASSUME ViewInv, SleepInv, NEW x \in DOMAIN item, NEW h, Resize(x, h)
  PROVE  SleepInv'
<1>1. item' = [item EXCEPT ![x].height = h] /\ UNCHANGED <<delegate, waiting, window>>
  BY DEF Resize
<1>2. ASSUME NEW y \in Mapped(delegate)
      PROVE  item'[y].ready = item[y].ready /\ item'[y].adding = item[y].adding
  <2>1. y \in DOMAIN item /\ item[y] \in ItemProps
    BY ItemsThere
  <2>2. item'[y] = item[y] \/ item'[y] = [item[y] EXCEPT !.height = h]
    BY <1>1, <2>1
  <2>. QED
    BY <2>1, <2>2 DEF ItemProps
<1>3. CASE polish' = TRUE
  <2>1. Attended(delegate', item', waiting', TRUE)
    <3>1. \A i \in DOMAIN delegate : delegate[i].item \in Mapped(delegate)
      BY DEF Mapped
    <3>. QED
      BY <1>1, <1>2, <3>1 DEF SleepInv, Attended
  <2>. QED
    BY <1>1, <1>3, <2>1, SleepsLater, WindowStays DEF SleepInv
<1>4. CASE UNCHANGED <<layout, polish, refused>>
  BY <1>1, <1>2, <1>4, SleepKept
<1>. QED
  BY <1>3, <1>4 DEF Resize, AskPolish

\* A scroll, a viewport in use and the choice between the two ask for a polish; a viewport
\* that is not in use does not matter (SleepSetViewport).
LEMMA SleepLooksElsewhere ==
  ASSUME SleepInv, WindowOK', UNCHANGED <<contents>>, polish' = TRUE
  PROVE  SleepInv'
<1>1. UNCHANGED <<delegate, item, waiting>>
  BY DEF contents
<1>2. Attended(delegate', item', waiting', TRUE)
  BY <1>1, DueAttends DEF SleepInv
<1>. QED
  BY <1>2, SleepsLater

\* setContentY
LEMMA SleepScrolled ==
  ASSUME SleepInv, NEW y \in Tops, Scroll(y)
  PROVE  SleepInv'
BY SleepLooksElsewhere DEF Scroll, AskPolish, SleepInv, WindowOK

\* setUseCustomViewport
LEMMA SleepSwitched ==
  ASSUME SleepInv, SetUseCustomViewport
  PROVE  SleepInv'
BY SleepLooksElsewhere DEF SetUseCustomViewport, AskPolish, SleepInv, WindowOK

\* setViewport
LEMMA SleepSetViewport ==
  ASSUME SleepInv, NEW v \in Viewports, SetViewport(v)
  PROVE  SleepInv'
<1>1. WindowOK' /\ UNCHANGED <<contents, contentY, custom>>
  BY DEF SetViewport, SleepInv, WindowOK
<1>2. CASE custom
  BY <1>1, <1>2, SleepLooksElsewhere DEF SetViewport, AskPolish
<1>3. CASE ~custom
  <2>1. UNCHANGED <<layout, delegate, item, waiting, polish, refused>>
    BY <1>3 DEF SetViewport, contents
  <2>2. (~polish => Covered(layout, delegate, refused))'
    BY <1>1, <1>3, <2>1 DEF SleepInv, Covered, InView, Seen
  <2>. QED
    BY <1>1, <2>1, <2>2 DEF SleepInv, Attended
<1>. QED
  BY <1>2, <1>3

\* A delegate as a flush leaves it: shown, or with its timer running, or as it was.
LEMMA FlushAttends ==
  ASSUME ViewInv, NEW delay \in BOOLEAN, NEW f, f = FlushPending(delay),
         Attended(delegate, item, waiting, TRUE), NEW i \in DOMAIN delegate
  PROVE  LET x == delegate[i].item
         IN \/ f.table[i].pending /\ f.table[i].started /\ x \in waiting \cup f.started
            \/ /\ ~f.table[i].pending
               /\ x \in {delegate[j].item : j \in f.shown} \/ (item[x].ready /\ ~item[x].adding)
<1>. DEFINE due == {j \in DOMAIN delegate : delegate[j].pending}
<1>1. delegate[i] \in DelegateData
  BY DEF ViewInv, TablesSound
<1>2. /\ f.shown = IF delay THEN {} ELSE due
      /\ f.table[i] = IF i \notin due THEN delegate[i]
                      ELSE IF delay THEN [delegate[i] EXCEPT !.started = TRUE]
                      ELSE [delegate[i] EXCEPT !.pending = FALSE]
      /\ f.started = IF delay THEN {delegate[j].item : j \in {j \in due : ~delegate[j].started}}
                     ELSE {}
  BY DEF FlushPending
<1>3. CASE i \notin due
  BY <1>2, <1>3 DEF Attended
<1>4. CASE i \in due /\ delay
  <2>1. f.table[i] = [delegate[i] EXCEPT !.started = TRUE]
    BY <1>2, <1>4
  <2>2. f.table[i].pending /\ f.table[i].started
    BY <1>1, <1>4, <2>1 DEF DelegateData
  <2>3. delegate[i].item \in waiting \cup f.started
    BY <1>2, <1>4 DEF Attended
  <2>. QED
    BY <2>2, <2>3
<1>5. CASE i \in due /\ ~delay
  <2>1. f.table[i] = [delegate[i] EXCEPT !.pending = FALSE] /\ i \in f.shown
    BY <1>2, <1>5
  <2>2. ~f.table[i].pending
    BY <1>1, <2>1 DEF DelegateData
  <2>. QED
    BY <2>1, <2>2
<1>. QED
  BY <1>3, <1>4, <1>5

\* When a sync asks for no other polish, what is in view has a delegate.
LEMMA SyncCovers ==
  ASSUME NEW f, NEW l \in Seq(RowRecord), NEW range, NEW async \in BOOLEAN, NEW destroyed, NEW more,
         NEW wanted, NEW failing, Sync(f, l, wanted, failing, async, destroyed, more),
         ~polish', WindowOK,
         range = VisibleRange(Relayout(l), Viewport(LayoutHeight(Relayout(l)))),
         wanted = range \ (DOMAIN f.table \ destroyed), window' = window
  PROVE  Covered(layout, delegate, refused)'
<1>. DEFINE rest == DOMAIN f.table \ destroyed
            made == Made(wanted, failing, async)
<1>1. /\ DOMAIN delegate' = rest \cup made
      /\ layout' = [i \in DOMAIN l |-> [l[i] EXCEPT !.new = FALSE]]
      /\ polish' = PolishAgain(f.shown, made, wanted, more, async)
      /\ refused' = IF polish' THEN {} ELSE failing
  BY Zenon DEF Sync
<1>2. range \subseteq DOMAIN delegate' \cup refused'
  <2>1. made = {} /\ (async => made = wanted)
    BY <1>1 DEF PolishAgain
  <2>2. wanted \subseteq failing
    BY <2>1 DEF Made
  <2>3. range \subseteq rest \cup wanted
    OBVIOUS
  <2>. HIDE DEF rest, made
  <2>. QED
    BY <1>1, <2>1, <2>2, <2>3
<1>3. /\ layout' \in Seq(RowRecord) /\ Len(layout') = Len(l)
      /\ \A i \in 1 .. Len(l) : HeightIn(layout', i) = HeightIn(l, i)
  <2>1. \A i \in 1 .. Len(l) : l[i] \in RowRecord
    OBVIOUS
  <2>2. layout' = [i \in 1 .. Len(l) |-> [l[i] EXCEPT !.new = FALSE]]
    BY <1>1
  <2>3. \A i \in 1 .. Len(l) :
          /\ layout'[i] \in RowRecord
          /\ layout'[i].known = l[i].known /\ layout'[i].height = l[i].height
    BY <2>1, <2>2 DEF RowRecord
  <2>4. layout' \in [1 .. Len(l) -> RowRecord]
    BY <2>2, <2>3
  <2>. QED
    BY <2>3, <2>4 DEF HeightIn
<1>4. Relayout(layout') = Relayout(l)
  BY <1>3, SamePlaces
<1>5. \A i \in 1 .. Len(l) : InView(Relayout(l)[i]) => i \in range
  BY InViewIsVisible
<1>6. \A i \in 1 .. Len(layout') : InView(Relayout(l)[i])' => InView(Relayout(l)[i])
  BY DEF InView, Seen, window
<1>. QED
  BY <1>2, <1>3, <1>4, <1>5, <1>6 DEF Covered, InView, Seen, window

\* updatePolish: it goes to sleep only with every row in view served and every delegate
\* shown or its timer running.
LEMMA SleepPolished ==
  ASSUME ViewInv, SleepInv, component, UpdatePolish
  PROVE  SleepInv'
<1>0. window' = window /\ WindowOK' /\ WindowOK
  BY WindowStays DEF UpdatePolish, SleepInv
<1>1. CASE ~model
  <2>1. layout' = layout /\ delegate' = delegate
    BY <1>1 DEF UpdatePolish, contents
  <2>2. Len(layout) = 0 /\ DOMAIN delegate \subseteq 1 .. Len(layout)
    BY <1>1 DEF ViewInv, TablesSound
  <2>3. 1 .. 0 = {}
    OBVIOUS
  <2>4. 1 .. Len(layout') = {} /\ DOMAIN delegate' = {}
    BY <2>1, <2>2, <2>3
  <2>5. Covered(layout, delegate, refused)' /\ Attended(delegate', item', waiting', polish')
    BY <2>4 DEF Covered, Attended
  <2>. QED
    BY <1>0, <2>5 DEF SleepInv
<1>2. CASE model
  <2>1. UNCHANGED <<rows, model, dying>>
    BY <1>2, PolishOf
  <2>2. PICK delay, f, l, range, async, destroyed, wanted, failing, more :
          IsPolish(delay, f, l, range, async, destroyed, wanted, failing, more)
    BY <1>2, PolishOf
  <2>3. /\ delay \in BOOLEAN /\ async \in BOOLEAN /\ f = FlushPending(delay) /\ l \in Seq(RowRecord)
        /\ f.table \in [DOMAIN delegate -> DelegateData]
        /\ \A i \in DOMAIN delegate : f.table[i].item = delegate[i].item
        /\ range = VisibleRange(Relayout(l), Viewport(LayoutHeight(Relayout(l))))
        /\ destroyed \in SUBSET DOMAIN delegate /\ range \in SUBSET (1 .. Len(layout))
        /\ wanted = range \ (DOMAIN f.table \ destroyed)
        /\ Sync(f, l, wanted, failing, async, destroyed, more)
    BY <2>2 DEF IsPolish
  <2>4. HasSynced(f, destroyed)
    <3>1. wanted \in SUBSET ((1 .. Len(layout)) \ (DOMAIN f.table \ destroyed))
      BY <2>3
    <3>. QED
      BY <1>2, <2>1, <2>2, <3>1, SyncSound DEF IsPolish
  <2>5. (~polish => Covered(layout, delegate, refused))'
    BY <1>0, <2>3, SyncCovers
  <2>6. waiting' = (waiting \cup f.started) \ {f.table[i].item : i \in destroyed}
    BY <2>3, Zenon DEF Sync
  <2>7. Attended(delegate, item, waiting, TRUE)
    BY DueAttends DEF SleepInv
  <2>8. ASSUME NEW i \in DOMAIN delegate \ destroyed, delegate'[i] = f.table[i],
               item'[f.table[i].item] = IF f.table[i].item \in {delegate[j].item : j \in f.shown}
                                        THEN Appeared(f.table[i].item) ELSE item[f.table[i].item]
        PROVE  \/ /\ delegate'[i].pending /\ delegate'[i].started
                  /\ delegate'[i].item \in waiting'
               \/ /\ ~delegate'[i].pending
                  /\ item'[delegate'[i].item].ready /\ ~item'[delegate'[i].item].adding
    <3>. DEFINE x == delegate[i].item
                showing == {delegate[j].item : j \in f.shown}
    <3>1. f.table[i].item = x /\ delegate'[i].item = x
      BY <2>3, <2>8
    <3>2. \/ f.table[i].pending /\ f.table[i].started /\ x \in waiting \cup f.started
          \/ ~f.table[i].pending /\ (x \in showing \/ (item[x].ready /\ ~item[x].adding))
      BY <2>3, <2>7, FlushAttends
    <3>3. x \notin {f.table[j].item : j \in destroyed}
      BY <2>3 DEF ViewInv, TablesSound
    <3>4. item'[x] = IF x \in showing THEN Appeared(x) ELSE item[x]
      BY <2>8, <3>1
    <3>5. Appeared(x).ready /\ ~Appeared(x).adding
      <4>1. x \in DOMAIN item /\ item[x] \in ItemProps
        BY ItemsThere DEF Mapped
      <4>. QED
        BY <4>1 DEF ItemProps, Appeared
    <3>. HIDE DEF x, showing
    <3>. QED
      BY <2>6, <2>8, <3>1, <3>2, <3>3, <3>4, <3>5
  <2>9. Attended(delegate', item', waiting', polish')
    BY <2>4, <2>8 DEF HasSynced, Attended
  <2>. QED
    BY <1>0, <2>5, <2>9 DEF SleepInv
<1>. QED
  BY <1>1, <1>2

\* componentComplete asks for a polish.
LEMMA SleepBegins == ViewInit => AwakeInv
<1>. SUFFICES ASSUME ViewInit PROVE AwakeInv
  OBVIOUS
<1>1. WindowOK /\ polish = TRUE /\ DOMAIN delegate = {}
  BY ViewAssumption DEF ViewInit, WindowOK
<1>. QED
  BY <1>1 DEF AwakeInv, SleepInv, Attended

\* Where the view looks is always somewhere it can look, and only setDelegate touches the
\* component.
LEMMA WindowKept ==
  ASSUME WindowOK, [ViewNext]_viewVars
  PROVE  WindowOK' /\ (SetViewDelegate \/ component' = component)
<1>1. CASE Model
  <2>1. window' = window /\ component' = component
    BY <1>1 DEF Model, Heard, InsertRows, RemoveRows, MoveRows, ChangeData, ReorderRows, ResetModel
  <2>. QED
    BY <2>1, WindowStays
<1>2. CASE UpdatePolish \/ Timers
  <2>1. window' = window /\ component' = component
    BY <1>2 DEF UpdatePolish, Timers, ShowDelayed, DestroyDying
  <2>. QED
    BY <2>1, WindowStays
<1>3. CASE User
  <2>1. CASE SetViewModel \/ SetViewDelegate \/ \E x \in DOMAIN item, h \in Heights : Resize(x, h)
    <3>1. window' = window /\ (SetViewDelegate \/ component' = component)
      BY <2>1 DEF SetViewModel, SetViewDelegate, Resize
    <3>. QED
      BY <3>1, WindowStays
  <2>2. CASE \E y \in Tops : Scroll(y)
    BY <2>2 DEF Scroll, WindowOK
  <2>3. CASE SetUseCustomViewport
    BY <2>3 DEF SetUseCustomViewport, WindowOK
  <2>4. CASE \E v \in Viewports : SetViewport(v)
    BY <2>4 DEF SetViewport, WindowOK
  <2>. QED
    BY <1>3, <2>1, <2>2, <2>3, <2>4 DEF User
<1>4. CASE UNCHANGED viewVars
  BY <1>4, WindowStays DEF viewVars
<1>. QED
  BY <1>1, <1>2, <1>3, <1>4 DEF ViewNext

\* The view never sleeps with something to do: with no polish due and no timer running, every
\* row that overlaps what the user sees has a delegate that is shown and not "adding" any more,
\* unless the last polish tried to make its delegate and got none (lazylistview.cpp,
\* updatePolish, syncDelegates, createDelegate, relayout, effectiveViewport and
\* computeVisibleRange).
THEOREM SleepsDone == ViewSpec => []SleepsWhenDone
<1>1. ViewInv /\ AwakeInv /\ [ViewNext]_viewVars => AwakeInv'
  <2>. SUFFICES ASSUME ViewInv, AwakeInv, [ViewNext]_viewVars PROVE AwakeInv'
    OBVIOUS
  <2>1. WindowOK /\ WindowOK' /\ (SetViewDelegate \/ component' = component)
    BY WindowKept DEF AwakeInv
  <2>2. CASE SetViewDelegate
    <3>1. ResetContent /\ window' = window
      BY <2>2 DEF SetViewDelegate
    <3>. QED
      BY <2>1, <3>1, SleepReset DEF AwakeInv
  <2>3. CASE component' = component
    <3>. SUFFICES ASSUME component PROVE SleepInv'
      BY <2>1, <2>3 DEF AwakeInv
    <3>0. SleepInv
      BY DEF AwakeInv
    <3>1. CASE Model
      BY <3>0, <3>1, SleepInserted, SleepRemoved, SleepMoved, SleepData, SleepReordered,
         SleepModelReset DEF Model
    <3>2. CASE SetViewModel \/ SetViewDelegate
      BY <2>1, <3>2, SleepReset DEF SetViewModel, SetViewDelegate
    <3>3. CASE User
      BY <3>0, <3>2, <3>3, SleepScrolled, SleepSwitched, SleepSetViewport, SleepResized DEF User
    <3>4. CASE UpdatePolish
      BY <3>0, <3>4, SleepPolished
    <3>5. CASE Timers
      BY <3>0, <3>5, SleepShown, SleepDestroyed DEF Timers
    <3>6. CASE UNCHANGED viewVars
      BY <3>0, <3>6, SleepUnheard DEF viewVars
    <3>. QED
      BY <3>1, <3>3, <3>4, <3>5, <3>6 DEF ViewNext
  <2>. QED
    BY <2>1, <2>2, <2>3
<1>2. ViewInv /\ AwakeInv => SleepsWhenDone
  <2>1. ViewInv => DOMAIN layout = 1 .. Len(layout)
    BY DEF ViewInv
  <2>. QED
    BY <2>1 DEF AwakeInv, SleepInv, SleepsWhenDone, Covered, Attended
<1>3. ViewSpec => []AwakeInv
  BY <1>1, SleepBegins, ViewInvariance, PTL DEF ViewSpec
<1>. QED
  BY <1>2, <1>3, ViewInvariance, PTL

=============================================================================
