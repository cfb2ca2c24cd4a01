-------------------------- MODULE FileSystemModel ---------------------------
(***************************************************************************)
(* The list model of a directory (Models/filesystemmodel.cpp).  A scan runs *)
(* in the thread pool: it captures the entries of its directory when it is  *)
(* started, lists the directory later, and sends the difference to the main *)
(* thread, which applies it later still.  m_futures holds the last scan of  *)
(* each directory, so that the next one can cancel it.  Changes on the disk *)
(* come as signals of the watched directories.                              *)
(*                                                                         *)
(* One directory, Root, with one subdirectory, Sub.  A file is a number,    *)
(* and the order of the rows is the order of the numbers (compareEntries).  *)
(* showHidden stands for the options that choose files: itself, the filter  *)
(* and the name filters.                                                    *)
(***************************************************************************)
EXTENDS Integers, SequencesExt

CONSTANTS
  Files,                   \* paths a file may have, in the order of the rows
  SubFiles,                \* those of them below Sub
  HiddenFiles,             \* those only showHidden lists
  Slots,                   \* bound: scans in flight
  MaxSets,                 \* bound: calls of the setters
  MaxChanges               \* bound: files created and deleted

Root == "root"
Sub == "sub"
NoPath == ""
Dirs == {Root, Sub}
None == 0

ASSUME FilesAssumption ==
  /\ Files \subseteq Nat /\ SubFiles \subseteq Files /\ HiddenFiles \subseteq Files
  /\ Slots \subseteq Nat \ {None} /\ MaxSets \in Nat /\ MaxChanges \in Nat

VARIABLES
  path, recursive, watchChanges, showHidden, sortReverse,
  disk,                    \* the files there are
  watched,                 \* m_watcher.directories()
  changed,                 \* directories with a change the watcher has not told yet
  lookups,                 \* watchDirIfRecursive's listings of subdirectories in flight
  entries,                 \* m_entries, by path
  scan,                    \* the scans in flight
  futures,                 \* m_futures
  posted,                  \* scans that ended, in the order the main thread gets them
  phase,                   \* of applyChanges: "idle", "remove" or "insert"
  removing, adding,        \* removedPaths; addedPaths, then newEntries that are left
  start, batch,            \* insertStart, batchItems
  overlapped,              \* history: two scans not cancelled were once in flight
  flat,                    \* history: the model was never recursive
  sets, changes

options == <<path, recursive, watchChanges, showHidden, sortReverse, flat>>
watching == <<watched, changed, lookups>>
scanning == <<scan, futures, posted, overlapped>>
applying == <<phase, removing, adding, start, batch>>
bounds == <<sets, changes>>
vars == <<options, disk, watching, entries, scanning, applying, bounds>>

InFlight == DOMAIN scan
Live(scans) == {s \in DOMAIN scans : ~scans[s].cancelled}
DirOf(f) == IF f \in SubFiles THEN Sub ELSE Root
Under(d) == IF d = Root THEN Files ELSE SubFiles

\* The files of one directory on the disk that a scan's options let through.
Listed(d, hidden) == {f \in disk : DirOf(f) = d /\ (hidden \/ f \notin HiddenFiles)}

\* What the model is to show.
Listing == UNION {Listed(d, showHidden) : d \in IF recursive /\ path = Root THEN Dirs ELSE {path}}

----------------------------------------------------------------------------
(* The watcher.                                                             *)

\* The listing of subdirectories finds Sub below Root and nothing below Sub.
Lookups(d) ==
  IF recursive' /\ watchChanges' /\ d = Root THEN {[of |-> path', hidden |-> showHidden']} ELSE {}

\* updateWatcher: a watch that is taken off takes the changes it has not told along.
UpdateWatcher ==
  /\ watched' = IF watchChanges' /\ path' # NoPath THEN {path'} ELSE {}
  /\ changed' = {}
  /\ lookups' = lookups \cup (IF watched' = {} THEN {} ELSE Lookups(path'))

\* The continuation of the listing of subdirectories.
AddWatches ==
  /\ phase = "idle"
  /\ \E l \in lookups :
       /\ lookups' = lookups \ {l}
       /\ watched' = IF l.of = path /\ l.hidden = showHidden THEN watched \cup {Sub} ELSE watched
  /\ UNCHANGED <<options, disk, changed, entries, scanning, applying, bounds>>

----------------------------------------------------------------------------
(* Scans.                                                                   *)

Cancelled(scans, which) == [s \in DOMAIN scans |-> [scans[s] EXCEPT !.cancelled = @ \/ s \in which]]

\* updateEntriesForDir: starts a scan of d, and cancels those in which.
StartScan(d, which) ==
  \E s \in Slots \ InFlight :
    LET new == [dir |-> d, hidden |-> showHidden', cancelled |-> FALSE,
                old |-> {f \in Range(entries) : d = path' \/ f \in Under(d)},
                todo |-> IF recursive' /\ d = Root THEN Dirs ELSE {d}, found |-> {}]
    IN /\ \A r \in Slots \ InFlight : s <= r
       /\ scan' = [r \in InFlight \cup {s} |-> IF r = s THEN new ELSE Cancelled(scan, which)[r]]
       /\ overlapped' = (overlapped \/ Live(scan) \ which # {})

\* update(), once an option has changed.
Update ==
  /\ UpdateWatcher
  /\ \/ /\ path' = NoPath
        /\ entries' = <<>>
        /\ UNCHANGED <<scan, futures, overlapped>>
     \/ /\ path' # NoPath
        /\ StartScan(path', {futures[d] : d \in Dirs})
        /\ futures' = [d \in Dirs |-> IF d = path' THEN CHOOSE s \in DOMAIN scan' : s \notin InFlight
                                      ELSE None]
        /\ UNCHANGED entries
  /\ UNCHANGED <<posted, disk, applying, changes>>

Set == phase = "idle" /\ sets < MaxSets /\ sets' = sets + 1

SetPath(p) ==
  /\ Set
  /\ p # path /\ path' = p
  /\ UNCHANGED <<recursive, watchChanges, showHidden, sortReverse, flat>>
  /\ Update

SetRecursive ==
  /\ Set
  /\ recursive' = ~recursive /\ flat' = FALSE
  /\ UNCHANGED <<path, watchChanges, showHidden, sortReverse>>
  /\ Update

SetWatchChanges ==
  /\ Set
  /\ watchChanges' = ~watchChanges
  /\ UNCHANGED <<path, recursive, showHidden, sortReverse, flat>>
  /\ Update

SetShowHidden ==
  /\ Set
  /\ showHidden' = ~showHidden
  /\ UNCHANGED <<path, recursive, watchChanges, sortReverse, flat>>
  /\ Update

SetSortReverse ==
  /\ Set
  /\ sortReverse' = ~sortReverse
  /\ UNCHANGED <<path, recursive, watchChanges, showHidden, flat>>
  /\ Update

\* Faulty variant of DirectoryChanged: a scan in flight is left to finish instead.
DirectoryChangedUnlessScanned(d) ==
  /\ phase = "idle"
  /\ d \in changed /\ changed' = changed \ {d}
  /\ UNCHANGED <<options, watched>>
  /\ lookups' = lookups \cup Lookups(d)
  /\ \/ /\ futures[d] = None
        /\ StartScan(d, {})
        /\ futures' = [futures EXCEPT ![d] = CHOOSE s \in DOMAIN scan' : s \notin InFlight]
     \/ futures[d] # None /\ UNCHANGED <<scan, futures, overlapped>>
  /\ UNCHANGED <<disk, entries, posted, applying, bounds>>

\* directoryChanged: both of its slots.
DirectoryChanged(d) ==
  /\ phase = "idle"
  /\ d \in changed /\ changed' = changed \ {d}
  /\ UNCHANGED <<options, watched>>
  /\ lookups' = lookups \cup Lookups(d)
  /\ StartScan(d, {futures[d]})
  /\ futures' = [futures EXCEPT ![d] = CHOOSE s \in DOMAIN scan' : s \notin InFlight]
  /\ UNCHANGED <<disk, entries, posted, applying, bounds>>

\* A scan's thread lists one directory, the outer one first.
ListDir(s) ==
  /\ phase = "idle"
  /\ ~scan[s].cancelled
  /\ \E d \in scan[s].todo :
       /\ Root \in scan[s].todo => d = Root
       /\ scan' = [scan EXCEPT ![s].todo = @ \ {d}, ![s].found = @ \cup Listed(d, scan[s].hidden)]
  /\ UNCHANGED <<options, disk, watching, entries, futures, posted, overlapped, applying, bounds>>

\* It has listed everything, or sees that it was cancelled.
EndScan(s) ==
  /\ phase = "idle"
  /\ s \notin Range(posted)
  /\ scan[s].todo = {} \/ scan[s].cancelled
  /\ posted' = Append(posted, s)
  /\ UNCHANGED <<options, disk, watching, entries, scan, futures, overlapped, applying, bounds>>

Without(s) == [r \in InFlight \ {s} |-> scan[r]]

\* Faulty variant of Deliver: a result leaves m_futures as it is.
DeliverUnremoved ==
  /\ phase = "idle" /\ posted # <<>>
  /\ LET s == Head(posted)
         r == scan[s]
     IN /\ scan' = Without(s) /\ posted' = Tail(posted)
        /\ UNCHANGED futures
        /\ \/ /\ r.cancelled \/ r.old = r.found
              /\ UNCHANGED applying
           \/ /\ ~r.cancelled /\ r.old # r.found
              /\ phase' = "remove" /\ removing' = r.old \ r.found /\ adding' = r.found \ r.old
              /\ UNCHANGED <<start, batch>>
  /\ UNCHANGED <<options, disk, watching, entries, overlapped, bounds>>

\* The continuations of a scan: onCanceled when it was cancelled, even after it ended.
Deliver ==
  /\ phase = "idle" /\ posted # <<>>
  /\ LET s == Head(posted)
         r == scan[s]
     IN /\ scan' = Without(s) /\ posted' = Tail(posted)
        /\ futures' = [futures EXCEPT ![r.dir] = None]
        /\ \/ /\ r.cancelled \/ r.old = r.found
              /\ UNCHANGED applying
           \/ /\ ~r.cancelled /\ r.old # r.found
              /\ phase' = "remove" /\ removing' = r.old \ r.found /\ adding' = r.found \ r.old
              /\ UNCHANGED <<start, batch>>
  /\ UNCHANGED <<options, disk, watching, entries, overlapped, bounds>>

----------------------------------------------------------------------------
(* applyChanges, which the main thread runs to its end; what other threads  *)
(* do meanwhile commutes with it, and is left to before and after.          *)

Before(f, g) == IF sortReverse THEN f > g ELSE f < g

\* takeAt, from the last row to the first.
RemoveRow ==
  /\ phase = "remove"
  /\ \E i \in DOMAIN entries :
       /\ entries[i] \in removing
       /\ \A j \in DOMAIN entries : j > i => entries[j] \notin removing
       /\ entries' = RemoveAt(entries, i)
  /\ UNCHANGED <<options, disk, watching, scanning, applying, bounds>>

\* Faulty variant of MakeEntries: without a look at the rows there are.
MakeAllEntries ==
  /\ phase = "remove" /\ Range(entries) \cap removing = {}
  /\ phase' = "insert" /\ removing' = {}
  /\ start' = 0 /\ batch' = <<>>
  /\ UNCHANGED <<options, disk, watching, entries, scanning, adding, bounds>>

\* newEntries
MakeEntries ==
  /\ phase = "remove" /\ Range(entries) \cap removing = {}
  /\ phase' = "insert" /\ removing' = {}
  /\ adding' = adding \ Range(entries)
  /\ start' = 0 /\ batch' = <<>>
  /\ UNCHANGED <<options, disk, watching, entries, scanning, bounds>>

\* Where lower_bound may end: on a sorted list that is one row.
Rows(list, f) ==
  {r \in 0 .. Len(list) : /\ r > 0 => Before(list[r], f)
                          /\ r < Len(list) => ~Before(list[r + 1], f)}

Flushed == SubSeq(entries, 1, start) \o batch \o SubSeq(entries, start + 1, Len(entries))

\* The next of newEntries joins the batch, or the batch is inserted and a new one begun.
PlaceEntry ==
  /\ phase = "insert"
  /\ \E f \in adding :
       /\ \A g \in adding \ {f} : Before(f, g)
       /\ adding' = adding \ {f}
       /\ \E row \in Rows(entries, f) :
            \/ /\ batch = <<>>
               /\ start' = row /\ batch' = <<f>> /\ UNCHANGED entries
            \/ /\ batch # <<>> /\ row = start + Len(batch)
               /\ batch' = Append(batch, f) /\ UNCHANGED <<start, entries>>
            \/ /\ batch # <<>> /\ row # start + Len(batch)
               /\ entries' = Flushed
               /\ start' \in Rows(Flushed, f) /\ batch' = <<f>>
  /\ UNCHANGED <<options, disk, watching, scanning, phase, removing, bounds>>

\* The last batch.
EndApply ==
  /\ phase = "insert" /\ adding = {}
  /\ entries' = Flushed
  /\ phase' = "idle" /\ start' = 0 /\ batch' = <<>>
  /\ UNCHANGED <<options, disk, watching, scanning, removing, adding, bounds>>

----------------------------------------------------------------------------
\* Another program creates or deletes a file.
ChangeDisk(f) ==
  /\ phase = "idle"
  /\ changes < MaxChanges /\ changes' = changes + 1
  /\ disk' = IF f \in disk THEN disk \ {f} ELSE disk \cup {f}
  /\ changed' = changed \cup ({DirOf(f)} \cap watched)
  /\ UNCHANGED <<options, watched, lookups, entries, scanning, applying, sets>>

\* The options a client gives before the path only set their members.
Init ==
  /\ path = NoPath /\ recursive \in BOOLEAN /\ watchChanges = TRUE
  /\ showHidden = FALSE /\ sortReverse = FALSE
  /\ disk \in SUBSET Files
  /\ watched = {} /\ changed = {} /\ lookups = {}
  /\ entries = <<>>
  /\ scan = [s \in {} |-> {}] /\ futures = [d \in Dirs |-> None] /\ posted = <<>>
  /\ phase = "idle" /\ removing = {} /\ adding = {} /\ start = 0 /\ batch = <<>>
  /\ overlapped = FALSE /\ flat = ~recursive
  /\ sets = 0 /\ changes = 0

Setters ==
  \/ \E p \in Dirs \cup {NoPath} : SetPath(p)
  \/ SetRecursive \/ SetWatchChanges \/ SetShowHidden \/ SetSortReverse

Threads == \E s \in InFlight : ListDir(s) \/ EndScan(s)

MainLoop ==
  \/ AddWatches \/ Deliver \/ RemoveRow \/ MakeEntries \/ PlaceEntry \/ EndApply
  \/ \E d \in Dirs : DirectoryChanged(d)

Next == Setters \/ Threads \/ MainLoop \/ \E f \in Files : ChangeDisk(f)

Spec == Init /\ [][Next]_vars

\* The pool and the main thread go on; nobody has to call a setter or change a file.
FairSpec == Spec /\ WF_vars(Threads) /\ WF_vars(MainLoop)

----------------------------------------------------------------------------
(* Properties.                                                              *)

Scan == [dir : Dirs, hidden : BOOLEAN, cancelled : BOOLEAN, old : SUBSET Files,
         todo : SUBSET Dirs, found : SUBSET Files]

OptionsTyped ==
  /\ path \in Dirs \cup {NoPath}
  /\ recursive \in BOOLEAN /\ watchChanges \in BOOLEAN /\ showHidden \in BOOLEAN
  /\ sortReverse \in BOOLEAN /\ flat \in BOOLEAN
WatchTyped ==
  /\ watched \subseteq Dirs /\ changed \subseteq watched
  /\ lookups \subseteq [of : Dirs, hidden : BOOLEAN]
RowsTyped == disk \subseteq Files /\ entries \in Seq(Files)
ScansTyped ==
  /\ InFlight \subseteq Slots /\ scan \in [InFlight -> Scan]
  /\ futures \in [Dirs -> Slots \cup {None}]
  /\ posted \in Seq(InFlight) /\ overlapped \in BOOLEAN
ApplyTyped ==
  /\ phase \in {"idle", "remove", "insert"}
  /\ removing \subseteq Files /\ adding \subseteq Files
  /\ start \in Nat /\ batch \in Seq(Files)
BoundsTyped == sets \in 0 .. MaxSets /\ changes \in 0 .. MaxChanges

TypeOK == OptionsTyped /\ WatchTyped /\ RowsTyped /\ ScansTyped /\ ApplyTyped /\ BoundsTyped

\* No file has two rows, however many scans of it were applied (the set "existing" of
\* applyChanges).
RowsOnce == \A i, j \in DOMAIN entries : entries[i] = entries[j] => i = j

\* What m_futures holds can be cancelled with effect: a scan of that directory whose
\* result has not come, and which nobody has cancelled.
FuturesAreLive ==
  \A d \in Dirs : futures[d] # None =>
    futures[d] \in InFlight /\ scan[futures[d]].dir = d /\ ~scan[futures[d]].cancelled

\* A listing of subdirectories that comes late adds no watch outside the directory shown
\* by then (the test of the continuation in watchDirIfRecursive).
WatchesOwnTree ==
  /\ path = NoPath => watched = {}
  /\ path = Sub => watched \subseteq {Sub}

Resting == phase = "idle" /\ InFlight = {} /\ changed = {} /\ lookups = {}

\* A model that is not recursive shows, at rest, what its options let through of the
\* directory as it is - as long as no two scans that nobody cancelled have overlapped.
\* (They do when the cancellation of a scan takes its successor off m_futures.)
ShowsDirectory ==
  Resting /\ path # NoPath /\ watchChanges /\ flat /\ ~overlapped => Range(entries) = Listing

\* The rows are in order once a difference is applied (DEVLOG.md: the row is recomputed
\* after each batch).
RowsSorted ==
  phase = "idle" => \A i, j \in DOMAIN entries : i < j => Before(entries[i], entries[j])

\* Whatever is cancelled and restarted, scans end, and m_futures is empty again.
ScansSettle == <>[](Resting /\ \A d \in Dirs : futures[d] = None)

=============================================================================
