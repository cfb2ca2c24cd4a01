---------------------------- MODULE ConfigStore -----------------------------
(***************************************************************************)
(* The live configuration of the shell: the global object and one overlay   *)
(* per screen, each with the file backend of rootconfig.cpp (a watcher, a   *)
(* save timer, a cooldown, a reload debounce and a parse-retry timer), the  *)
(* files themselves, and an editor that rewrites them behind the shell's    *)
(* back.                                                                    *)
(*                                                                          *)
(* Timers are flags: a timer that was started may fire.  Qt delivers timers *)
(* that are due in the order of their deadlines, so a 500 ms timer does not *)
(* overtake a 50 ms one started before it, nor a 2000 ms one a 500 ms one   *)
(* restarted with it; every other order is allowed.                         *)
(*                                                                          *)
(* m_loading is not a variable: it is true only inside reloadFromFile, and  *)
(* propertiesChanged, where it is read, comes from the batch timer later.   *)
(***************************************************************************)
EXTENDS ConfigObject, Naturals

CONSTANTS
  Screens,      \* the screens that can ask for an overlay
  Global,       \* the name of the global object
  Default,      \* the members' initial values
  Missing,      \* a file that does not exist
  Torn,         \* a file that exists and does not parse
  Locked,       \* a file that exists and cannot be opened
  ParseRetries, \* 3 in the code
  Contents,     \* what the editor can leave in a file
  MaxSets,      \* bound: property writes and resets by the user interface
  MaxEdits,     \* bound: edits of a file by another program
  MaxCrashes,   \* bound: restarts of the shell
  MaxChanges    \* bound: all of these together

Roots == Screens \cup {Global}

Unread == {Missing, Torn, Locked}
Files == Json \cup Unread

ASSUME StoreAssumption ==
  /\ Global \notin Screens
  /\ Default \in [Keys -> Values]
  /\ Unread \cap Json = {} /\ Missing # Torn /\ Missing # Locked /\ Torn # Locked
  /\ Contents \subseteq Files
  /\ ParseRetries \in Nat /\ MaxSets \in Nat /\ MaxEdits \in Nat /\ MaxCrashes \in Nat
  /\ MaxChanges \in Nat

VARIABLES
  live,     \* the roots that have been constructed
  obj,      \* their ConfigObject
  io,       \* their file backend
  file,     \* the files
  sets, edits, crashes,  \* how much of each bound is used
  dropped,  \* history: options a reload took the loaded mark from
  deaf,     \* history: a change of the file was noticed and ignored
  unsaved   \* history: memory changed without a save, or a save failed

vars == <<live, obj, io, file, sets, edits, crashes, dropped, deaf, unsaved>>
budget == <<sets, edits, crashes>>
history == <<dropped, deaf, unsaved>>

----------------------------------------------------------------------------
(* The backend of one root.  sig compares m_lastSignature with the file:    *)
(* "none" it is empty, "current" it is the signature the file has now,      *)
(* "old" it is that of a file since changed or removed.                     *)

Backend == [sig : {"none", "current", "old"}, save : BOOLEAN, cooling : BOOLEAN,
            debounce : BOOLEAN, retry : BOOLEAN, retries : 0..ParseRetries,
            event : BOOLEAN]

NewBackend == [sig |-> "none", save |-> FALSE, cooling |-> FALSE, debounce |-> FALSE,
               retry |-> FALSE, retries |-> 0, event |-> FALSE]

NewObject == [value |-> Default, loaded |-> {}, pending |-> {}]

\* fileSignature() == m_lastSignature
SameSignature(b, f) == b.sig = "current" \/ (b.sig = "none" /\ f = Missing)

\* Faulty variant of SaveToFile: a save asked for in the cooldown is forgotten.
ThrottledSave(b) == IF b.cooling THEN b ELSE [b EXCEPT !.save = TRUE, !.cooling = TRUE]

\* saveToFile: (re)start the save timer and the cooldown.
SaveToFile(b) == [b EXCEPT !.save = TRUE, !.cooling = TRUE]

\* reloadFromFile, what it does to the backend ...
ReloadBackend(b, f) ==
  CASE f = Missing -> [b EXCEPT !.sig = "none"]
    [] f = Locked  -> [b EXCEPT !.sig = "current"]
    [] f = Torn    -> IF b.retries < ParseRetries
                      THEN [b EXCEPT !.sig = "current", !.retries = @ + 1, !.retry = TRUE]
                      ELSE [b EXCEPT !.sig = "current", !.retries = 0]
    [] OTHER       -> [b EXCEPT !.sig = "current", !.retries = 0]

\* ... and to the object.
ReloadObject(o, f) ==
  IF f \in Unread THEN o ELSE LoadFromJson(ClearLoadedKeys(o), f)

\* The file's signature once another program has changed it.
Outdated(b) == [b EXCEPT !.sig = IF @ = "current" THEN "old" ELSE @]

----------------------------------------------------------------------------
MayChange == sets + edits + crashes < MaxChanges

\* A process that has just constructed the global object from files f.
BootObjects(f) ==
  [r \in Roots |-> IF r = Global THEN ReloadObject(NewObject, f[r]) ELSE NewObject]
BootBackends(f) ==
  [r \in Roots |-> IF r = Global THEN ReloadBackend(NewBackend, f[r]) ELSE NewBackend]
NoHistory(x) == [r \in Roots |-> x]

Init ==
  /\ file \in [Roots -> Contents]
  /\ live = {Global}
  /\ obj = BootObjects(file) /\ io = BootBackends(file)
  /\ sets = 0 /\ edits = 0 /\ crashes = 0
  /\ dropped = NoHistory({}) /\ deaf = NoHistory(FALSE) /\ unsaved = NoHistory(FALSE)

\* MonitorConfigManager::configForScreen, first request: the overlay loads its
\* own file before it knows the global, then copies what it does not hold.
CreateOverlay(s) ==
  /\ s \notin live
  /\ live' = live \cup {s}
  /\ obj' = [obj EXCEPT ![s] = SyncFrom(ReloadObject(NewObject, file[s]), obj[Global], Keys)]
  /\ io' = [io EXCEPT ![s] = ReloadBackend(NewBackend, file[s])]
  /\ UNCHANGED <<file, budget, history>>

\* A property write from QML.
UserSet(r, k, v) ==
  /\ r \in live
  /\ sets < MaxSets /\ MayChange
  /\ sets' = sets + 1
  /\ obj' = [obj EXCEPT ![r] = SetProperty(@, k, v)]
  /\ UNCHANGED <<live, io, file, edits, crashes, history>>

\* resetOption, which the settings panels call on a monitor's overlay.  Taking
\* the mark off is not announced, so it is saved only if something else is.
UserReset(s, k) ==
  /\ s \in live
  /\ sets < MaxSets /\ MayChange
  /\ sets' = sets + 1
  /\ obj' = [obj EXCEPT ![s] = ResetOption(@, obj[Global], k)]
  /\ dropped' = [dropped EXCEPT ![s] = @ \ {k}]
  /\ unsaved' = [unsaved EXCEPT ![s] = @ \/ k \in obj[s].loaded]
  /\ UNCHANGED <<live, io, file, edits, crashes, deaf>>

\* Faulty variant of BatchTimeout: the announced changes are not cleared.
BatchKept(r) ==
  /\ r \in live
  /\ obj[r].pending # {}
  /\ io' = [io EXCEPT ![r] = SaveToFile(@)]
  /\ UNCHANGED <<live, obj, file, budget, history>>

\* emitBatchedChanges: the root saves itself; the overlays follow the global.
BatchTimeout(r) ==
  /\ r \in live
  /\ obj[r].pending # {}
  /\ io' = [io EXCEPT ![r] = SaveToFile(@)]
  /\ LET changed == obj[r].pending
         heard(s) == r = Global /\ s \in live \ {Global}
     IN /\ obj' = [s \in Roots |->
                     IF s = r THEN [obj[s] EXCEPT !.pending = {}]
                     ELSE IF heard(s) THEN SyncFrom(obj[s], obj[Global], changed)
                     ELSE obj[s]]
        /\ dropped' = [s \in Roots |->
                         IF heard(s) THEN dropped[s] \ changed ELSE dropped[s]]
  /\ UNCHANGED <<live, file, budget, deaf, unsaved>>

\* The save timer's handler: it writes what the object holds, notices its own
\* signature and leaves the watcher an event; or the file cannot be opened.
SaveTimeout(r) ==
  /\ r \in live
  /\ io[r].save /\ ~io[r].debounce
  /\ \/ /\ file' = [file EXCEPT ![r] = ToJson(obj[r], r # Global)]
        /\ io' = [io EXCEPT ![r].save = FALSE, ![r].sig = "current", ![r].event = TRUE]
        /\ deaf' = [deaf EXCEPT ![r] = FALSE]
        /\ unsaved' = [unsaved EXCEPT ![r] = FALSE]
     \/ /\ io' = [io EXCEPT ![r].save = FALSE]
        /\ unsaved' = [unsaved EXCEPT ![r] = TRUE]
        /\ UNCHANGED <<file, deaf>>
  /\ UNCHANGED <<live, obj, budget, dropped>>

CooldownTimeout(r) ==
  /\ r \in live
  /\ io[r].cooling /\ ~io[r].save
  /\ io' = [io EXCEPT ![r].cooling = FALSE]
  /\ UNCHANGED <<live, obj, file, budget, history>>

\* Faulty variant of WatcherEvent: the removal of the file is not followed up.
RemovalIgnored(r) ==
  /\ r \in live
  /\ io[r].event
  /\ LET same == SameSignature(io[r], file[r]) \/ file[r] = Missing
     IN /\ io' = [io EXCEPT ![r].event = FALSE,
                            ![r].debounce = @ \/ (~io[r].cooling /\ ~same)]
        /\ deaf' = [deaf EXCEPT ![r] = @ \/ (io[r].cooling /\ ~same)]
  /\ UNCHANGED <<live, obj, file, budget, dropped, unsaved>>

\* onWatcherEvent: ignored in the cooldown or when the file has not changed.
WatcherEvent(r) ==
  /\ r \in live
  /\ io[r].event
  /\ LET same == SameSignature(io[r], file[r])
     IN /\ io' = [io EXCEPT ![r].event = FALSE,
                            ![r].debounce = @ \/ (~io[r].cooling /\ ~same)]
        /\ deaf' = [deaf EXCEPT ![r] = @ \/ (io[r].cooling /\ ~same)]
  /\ UNCHANGED <<live, obj, file, budget, dropped, unsaved>>

\* reload, from the debounce or the retry timer.
Reload(r, timer) ==
  /\ r \in live
  /\ io[r][timer]
  /\ io' = [io EXCEPT ![r] = ReloadBackend([@ EXCEPT ![timer] = FALSE], file[r])]
  /\ obj' = [obj EXCEPT ![r] = ReloadObject(@, file[r])]
  /\ dropped' = [dropped EXCEPT ![r] =
                   IF file[r] \in Unread THEN @ ELSE @ \cup obj[r].loaded]
  /\ deaf' = [deaf EXCEPT ![r] = FALSE]
  /\ unsaved' = [unsaved EXCEPT ![r] = @ /\ file[r] \in Unread]
  /\ UNCHANGED <<live, file, budget>>

ReloadTimeout(r) == Reload(r, "debounce")
RetryTimeout(r) == Reload(r, "retry")

----------------------------------------------------------------------------
(* The environment.                                                         *)

\* Another program rewrites, tears or removes a file; a live root gets an event.
ExternalEdit(r, f) ==
  /\ edits < MaxEdits /\ MayChange
  /\ edits' = edits + 1
  /\ f # file[r]
  /\ file' = [file EXCEPT ![r] = f]
  /\ io' = [io EXCEPT ![r] = [Outdated(@) EXCEPT !.event = r \in live]]
  /\ UNCHANGED <<live, obj, sets, crashes, history>>

\* The directory is watched too: a change beside the file is an event as well.
SiblingEvent(r) ==
  /\ r \in live
  /\ ~io[r].event
  /\ io' = [io EXCEPT ![r].event = TRUE]
  /\ UNCHANGED <<live, obj, file, budget, history>>

\* The shell dies and is started again.  A save in progress has truncated its
\* file and not yet written it.
Crash ==
  /\ crashes < MaxCrashes /\ MayChange
  /\ crashes' = crashes + 1
  /\ \E torn \in {{}} \cup {{r} : r \in {x \in live : io[x].save /\ ~io[x].debounce}} :
       file' = [r \in Roots |-> IF r \in torn THEN Torn ELSE file[r]]
  /\ live' = {Global}
  /\ obj' = BootObjects(file') /\ io' = BootBackends(file')
  /\ dropped' = NoHistory({}) /\ deaf' = NoHistory(FALSE) /\ unsaved' = NoHistory(FALSE)
  /\ UNCHANGED <<sets, edits>>

Timers(r) ==
  \/ BatchTimeout(r)
  \/ SaveTimeout(r)
  \/ CooldownTimeout(r)
  \/ ReloadTimeout(r)
  \/ RetryTimeout(r)

Next ==
  \/ \E s \in Screens : CreateOverlay(s)
  \/ \E r \in Roots, k \in Keys, v \in Values : UserSet(r, k, v)
  \/ \E s \in Screens, k \in Keys : UserReset(s, k)
  \/ \E r \in Roots : Timers(r) \/ WatcherEvent(r)
  \/ \E r \in Roots, f \in Contents : ExternalEdit(r, f)
  \/ \E r \in Roots : SiblingEvent(r)
  \/ Crash

Spec == Init /\ [][Next]_vars

\* Timers and the watcher's notifier are served by a running event loop, whichever timer
\* comes first; what the user, the editor and a crash do is never owed.
FairSpec ==
  Spec /\ WF_vars(\E r \in Roots : Timers(r)) /\ \A r \in Roots : WF_vars(WatcherEvent(r))

----------------------------------------------------------------------------
(* Properties.                                                              *)

TypeOK ==
  /\ live \in SUBSET Roots /\ Global \in live
  /\ obj \in [Roots -> Object]
  /\ io \in [Roots -> Backend]
  /\ file \in [Roots -> Files]
  /\ sets \in 0..MaxSets /\ edits \in 0..MaxEdits /\ crashes \in 0..MaxCrashes
  /\ dropped \in [Roots -> SUBSET Keys]
  /\ deaf \in [Roots -> BOOLEAN] /\ unsaved \in [Roots -> BOOLEAN]

Overlays == live \ {Global}

\* Monitor overlays (configobject.cpp, syncFromGlobal / onGlobalPropertiesChanged):
\* an option an overlay does not hold shows the global's value, but for a change
\* the global has yet to announce and for options a reload of the overlay's own
\* file let go of.
OverlayMirrorsGlobal ==
  \A s \in Overlays, k \in Keys :
    k \notin obj[s].loaded \cup obj[Global].pending \cup dropped[s]
      => obj[s].value[k] = obj[Global].value[k]

InMemory(r) == ToJson(obj[r], r # Global)
OnDisk(f, isOverlay) ==
  [k \in DOMAIN f \ (IF isOverlay THEN GlobalOnly ELSE {}) |-> f[k]]

Settled(r) == obj[r].pending = {} /\ ~io[r].save

\* Auto-save (rootconfig.cpp, connectAutoSave and the save timer): when no change
\* waits to be announced or saved, the file the shell last saw lists exactly the
\* options in memory, whatever interleaving of writes, syncs, saves and reloads
\* led there -- unless a save failed or a reset was not announced.
MemoryIsOnDisk ==
  \A r \in live :
    /\ Settled(r) /\ ~unsaved[r]
    /\ file[r] \notin Unread /\ SameSignature(io[r], file[r])
    => InMemory(r) = OnDisk(file[r], r # Global)

\* Watching (onWatcherEvent): a file that is not the one last read or written has
\* an event on its way or a reload scheduled, or its event fell in the cooldown.
NoSilentEdit ==
  \A r \in live :
    ~SameSignature(io[r], file[r]) => io[r].event \/ io[r].debounce \/ deaf[r]

\* Overlays and the global feed each other's change signals, reloads feed saves
\* and saves feed the watcher: left alone, all of that comes to rest.
ComesToRest ==
  <>[](\A r \in live : /\ Settled(r)
                       /\ ~io[r].cooling /\ ~io[r].debounce /\ ~io[r].retry)

\* An edit that is neither swallowed by the cooldown nor overwritten is read.
EditIsRead ==
  \A r \in Roots :
    (r \in live /\ ~SameSignature(io[r], file[r]))
      ~> (r \notin live \/ SameSignature(io[r], file[r]) \/ deaf[r])

(* What the documentation says, and the code does not do.                   *)

\* README of the shell, "Options that you omit from the config file will use their
\* default values" and, for a monitor's file, "their values from the global config".
OmittedOptionsFallBack ==
  \A r \in live, k \in Keys :
    k \notin obj[r].loaded \cup obj[Global].pending
      => obj[r].value[k] = (IF r = Global THEN Default[k] ELSE obj[Global].value[k])

\* README: the listed options "will only read from the global config, and ignore
\* the respective option in per-monitor config files".
GlobalOnlyIgnoredInOverlay ==
  \A s \in Overlays, k \in GlobalOnly :
    k \notin obj[Global].pending => obj[s].value[k] = obj[Global].value[k]

\* resetOption gives an option back to the global config: the overlay no longer
\* holds it.
ResetReleasesOption ==
  [][\A s \in Screens, k \in Keys : UserReset(s, k) => k \notin obj'[s].loaded]_vars

=============================================================================
