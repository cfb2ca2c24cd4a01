------------------------- MODULE ConfigStoreProofs --------------------------
(***************************************************************************)
(* Proofs about ConfigStore, for any set of options, values and screens and *)
(* any bounds.                                                              *)
(***************************************************************************)
EXTENDS ConfigStore, TLAPS

USE DEF Files, Unread

(* What the operations of a ConfigObject return.                            *)

\* A JSON document is a function on some of the options.
LEMMA JsonFunction ==
  ASSUME NEW S \in SUBSET Keys, NEW f \in [S -> Values]
  PROVE  f \in Json
BY DEF Json

LEMMA JsonDomain ==
  ASSUME NEW f \in Json
  PROVE  DOMAIN f \subseteq Keys /\ \A k \in DOMAIN f : f[k] \in Values
BY DEF Json

\* A batch of property writes (loadFromJson, the sync functions) sets the listed
\* members, queues those that differ, and leaves the loaded marks alone.
LEMMA WrittenResult ==
  ASSUME NEW o \in Object, NEW f \in Json
  PROVE  /\ Written(o, f) \in Object
         /\ Written(o, f).loaded = o.loaded
         /\ Written(o, f).pending = o.pending \cup {k \in DOMAIN f : f[k] # o.value[k]}
         /\ \A k \in Keys : Written(o, f).value[k] = IF k \in DOMAIN f THEN f[k] ELSE o.value[k]
<1>1. DOMAIN f \subseteq Keys /\ \A k \in DOMAIN f : f[k] \in Values
  BY JsonDomain
<1>. QED
  BY <1>1 DEF Written, Object

\* The writes that follow the global: options the object holds are not touched.
LEMMA SyncResult ==
  ASSUME NEW o \in Object, NEW g \in Object, NEW keys
  PROVE  /\ SyncFrom(o, g, keys) \in Object
         /\ SyncFrom(o, g, keys).loaded = o.loaded
         /\ o.pending \subseteq SyncFrom(o, g, keys).pending
         /\ \A k \in Keys : SyncFrom(o, g, keys).value[k] =
              IF k \in keys /\ k \notin o.loaded THEN g.value[k] ELSE o.value[k]
<1>. DEFINE S == (keys \cap Keys) \ o.loaded
            f == [k \in S |-> g.value[k]]
<1>1. f \in Json
  BY JsonFunction DEF Object
<1>2. SyncFrom(o, g, keys) = Written(o, f)
  BY DEF SyncFrom
<1>3. DOMAIN f = S /\ \A k \in S : f[k] = g.value[k]
  OBVIOUS
<1>. HIDE DEF f
<1>. QED
  BY <1>1, <1>2, <1>3, WrittenResult

LEMMA SetPropertyResult ==
  ASSUME NEW o \in Object, NEW k \in Keys, NEW v \in Values
  PROVE  /\ SetProperty(o, k, v) \in Object
         /\ SetProperty(o, k, v).value = [o.value EXCEPT ![k] = v]
         /\ o.value[k] = v => SetProperty(o, k, v) = o
         /\ o.value[k] # v =>
              /\ SetProperty(o, k, v).loaded = o.loaded \cup {k}
              /\ SetProperty(o, k, v).pending = o.pending \cup {k}
<1>1. CASE o.value[k] = v
  BY <1>1 DEF SetProperty, Object
<1>2. CASE o.value[k] # v
  <2>. DEFINE f == [x \in {k} |-> v]
  <2>1. f \in Json
    BY JsonFunction
  <2>2. SetProperty(o, k, v) = [Written(o, f) EXCEPT !.loaded = @ \cup {k}]
    BY <1>2 DEF SetProperty
  <2>3. Written(o, f).value = [o.value EXCEPT ![k] = v]
    BY DEF Written, Object
  <2>. QED
    BY <1>2, <2>1, <2>2, <2>3, WrittenResult DEF Object
<1>. QED
  BY <1>1, <1>2

LEMMA ResetResult ==
  ASSUME NEW o \in Object, NEW g \in Object, NEW k \in Keys
  PROVE  ResetOption(o, g, k) \in Object
<1>1. [o EXCEPT !.loaded = @ \ {k}] \in Object /\ g.value[k] \in Values
  BY DEF Object
<1>. QED
  BY <1>1, SetPropertyResult DEF ResetOption

LEMMA LoadResult ==
  ASSUME NEW o \in Object, NEW f \in Json
  PROVE  LET n == LoadFromJson(ClearLoadedKeys(o), f)
         IN /\ n \in Object
            /\ n.loaded = DOMAIN f
            /\ o.pending \subseteq n.pending
            /\ \A k \in Keys : n.value[k] = IF k \in DOMAIN f THEN f[k] ELSE o.value[k]
<1>. DEFINE c == ClearLoadedKeys(o)
            w == Written(c, f)
<1>1. c \in Object /\ c.value = o.value /\ c.loaded = {} /\ c.pending = o.pending
  BY DEF ClearLoadedKeys, Object
<1>2. DOMAIN f \subseteq Keys
  BY JsonDomain
<1>3. LoadFromJson(c, f) = [w EXCEPT !.loaded = @ \cup DOMAIN f]
  BY DEF LoadFromJson
<1>. HIDE DEF c
<1>4. /\ w \in Object /\ w.loaded = {} /\ o.pending \subseteq w.pending
      /\ \A k \in Keys : w.value[k] = IF k \in DOMAIN f THEN f[k] ELSE o.value[k]
  BY <1>1, WrittenResult
<1>. HIDE DEF w
<1>5. LoadFromJson(c, f) \in Object /\ LoadFromJson(c, f).loaded = DOMAIN f
      /\ LoadFromJson(c, f).value = w.value /\ LoadFromJson(c, f).pending = w.pending
  BY <1>2, <1>3, <1>4 DEF Object
<1>. QED
  BY <1>4, <1>5 DEF c

LEMMA ToJsonResult ==
  ASSUME NEW o \in Object, NEW b \in BOOLEAN
  PROVE  ToJson(o, b) \in Json
<1>. DEFINE S == o.loaded \ (IF b THEN GlobalOnly ELSE {})
<1>1. [k \in S |-> o.value[k]] \in Json
  BY JsonFunction DEF Object
<1>. QED
  BY <1>1 DEF ToJson

LEMMA ReloadObjectResult ==
  ASSUME NEW o \in Object, NEW f \in Files
  PROVE  /\ ReloadObject(o, f) \in Object
         /\ f \in Unread => ReloadObject(o, f) = o
         /\ f \notin Unread =>
              /\ ReloadObject(o, f).loaded = DOMAIN f
              /\ o.pending \subseteq ReloadObject(o, f).pending
              /\ \A k \in Keys : ReloadObject(o, f).value[k] =
                   IF k \in DOMAIN f THEN f[k] ELSE o.value[k]
<1>1. CASE f \in Unread
  BY <1>1 DEF ReloadObject
<1>2. CASE f \notin Unread
  <2>1. f \in Json /\ ReloadObject(o, f) = LoadFromJson(ClearLoadedKeys(o), f)
    BY <1>2 DEF ReloadObject
  <2>. QED
    BY <1>2, <2>1, LoadResult
<1>. QED
  BY <1>1, <1>2

\* reloadFromFile takes the file's signature in every branch.
LEMMA ReloadBackendResult ==
  ASSUME NEW b \in Backend, NEW f \in Files
  PROVE  /\ ReloadBackend(b, f) \in Backend
         /\ SameSignature(ReloadBackend(b, f), f)
         /\ ReloadBackend(b, f).save = b.save
         /\ ReloadBackend(b, f).event = b.event
         /\ ReloadBackend(b, f).debounce = b.debounce
<1>1. ParseRetries \in Nat /\ Missing # Torn /\ Missing # Locked /\ Torn # Locked
  BY StoreAssumption
<1>0. 0 \in 0..ParseRetries
  BY <1>1
<1>2. CASE f = Missing
  <2>1. ReloadBackend(b, f) = [b EXCEPT !.sig = "none"]
    BY <1>1, <1>2 DEF ReloadBackend
  <2>2. /\ ReloadBackend(b, f) \in Backend /\ ReloadBackend(b, f).sig = "none"
        /\ ReloadBackend(b, f).save = b.save /\ ReloadBackend(b, f).event = b.event
        /\ ReloadBackend(b, f).debounce = b.debounce
    BY <2>1 DEF Backend
  <2>. QED
    BY <1>2, <2>2 DEF SameSignature
<1>3. CASE f = Torn
  <2>1. CASE b.retries < ParseRetries
    <3>1. b.retries + 1 \in 0..ParseRetries
      BY <1>1, <2>1 DEF Backend
    <3>2. ReloadBackend(b, f) =
            [b EXCEPT !.sig = "current", !.retries = b.retries + 1, !.retry = TRUE]
      BY <1>1, <1>3, <2>1 DEF ReloadBackend
    <3>. QED
      BY <3>1, <3>2 DEF SameSignature, Backend
  <2>2. CASE ~(b.retries < ParseRetries)
    <3>1. ReloadBackend(b, f) = [b EXCEPT !.sig = "current", !.retries = 0]
      BY <1>1, <1>3, <2>2 DEF ReloadBackend
    <3>. QED
      BY <1>0, <3>1 DEF SameSignature, Backend
  <2>. QED
    BY <2>1, <2>2
<1>4. CASE f = Locked
  <2>1. ReloadBackend(b, f) = [b EXCEPT !.sig = "current"]
    BY <1>1, <1>4 DEF ReloadBackend
  <2>. QED
    BY <2>1 DEF SameSignature, Backend
<1>5. CASE f \notin Unread
  <2>1. ReloadBackend(b, f) = [b EXCEPT !.sig = "current", !.retries = 0]
    BY <1>5 DEF ReloadBackend
  <2>. QED
    BY <1>0, <2>1 DEF SameSignature, Backend
<1>. QED
  BY <1>2, <1>3, <1>4, <1>5

\* What the timers and the watcher do to a backend keeps it one.
LEMMA BackendUpdates ==
  ASSUME NEW b \in Backend, NEW x \in BOOLEAN, NEW y \in BOOLEAN
  PROVE  /\ [b EXCEPT !.save = x] \in Backend
         /\ [b EXCEPT !.save = x, !.sig = "current", !.event = y] \in Backend
         /\ [b EXCEPT !.save = x, !.cooling = y] \in Backend
         /\ [b EXCEPT !.cooling = x] \in Backend
         /\ [b EXCEPT !.debounce = x] \in Backend
         /\ [b EXCEPT !.retry = x] \in Backend
         /\ [b EXCEPT !.event = x] \in Backend
         /\ [b EXCEPT !.event = x, !.debounce = y] \in Backend
         /\ Outdated(b) \in Backend
BY DEF Backend, Outdated

LEMMA NewTypes ==
  /\ NewObject \in Object /\ NewBackend \in Backend
BY StoreAssumption DEF NewObject, Object, NewBackend, Backend

(* Type correctness.                                                        *)

LEMMA TypeInit == Init => TypeOK
<1>. SUFFICES ASSUME Init PROVE TypeOK
  OBVIOUS
<1>1. file \in [Roots -> Files] /\ Global \in Roots
  BY StoreAssumption DEF Init, Roots
<1>2. obj \in [Roots -> Object]
  BY <1>1, NewTypes, ReloadObjectResult DEF Init, BootObjects
<1>3. io \in [Roots -> Backend]
  BY <1>1, NewTypes, ReloadBackendResult DEF Init, BootBackends
<1>. QED
  BY <1>1, <1>2, <1>3, StoreAssumption DEF Init, TypeOK, NoHistory

LEMMA TypeStep == TypeOK /\ [Next]_vars => TypeOK'
<1>. SUFFICES ASSUME TypeOK, [Next]_vars PROVE TypeOK'
  OBVIOUS
<1>0. /\ Global \in Roots /\ Global \notin Screens /\ Screens \subseteq Roots
      /\ 0 \in 0..MaxSets /\ MaxSets \in Nat /\ MaxEdits \in Nat /\ MaxCrashes \in Nat
  BY StoreAssumption DEF Roots
<1>1. ASSUME NEW s \in Screens, CreateOverlay(s) PROVE TypeOK'
  <2>1. SyncFrom(ReloadObject(NewObject, file[s]), obj[Global], Keys) \in Object
    BY <1>0, NewTypes, ReloadObjectResult, SyncResult DEF TypeOK
  <2>2. ReloadBackend(NewBackend, file[s]) \in Backend
    BY <1>0, NewTypes, ReloadBackendResult DEF TypeOK
  <2>. QED
    BY <1>0, <1>1, <2>1, <2>2 DEF CreateOverlay, TypeOK, budget, history
<1>2. ASSUME NEW r \in Roots, NEW k \in Keys, NEW v \in Values, UserSet(r, k, v)
      PROVE  TypeOK'
  <2>1. SetProperty(obj[r], k, v) \in Object
    BY SetPropertyResult DEF TypeOK
  <2>. QED
    BY <1>0, <1>2, <2>1 DEF UserSet, TypeOK, history
<1>3. ASSUME NEW s \in Screens, NEW k \in Keys, UserReset(s, k) PROVE TypeOK'
  <2>1. ResetOption(obj[s], obj[Global], k) \in Object
    BY <1>0, ResetResult DEF TypeOK
  <2>. QED
    BY <1>0, <1>3, <2>1 DEF UserReset, TypeOK
<1>4. ASSUME NEW r \in Roots, BatchTimeout(r) PROVE TypeOK'
  <2>1. obj' \in [Roots -> Object]
    <3>0. obj[r] \in Object
      BY DEF TypeOK
    <3>1. [obj[r] EXCEPT !.pending = {}] \in Object
      BY <3>0 DEF Object
    <3>2. \A s \in Roots : SyncFrom(obj[s], obj[Global], obj[r].pending) \in Object
      BY <1>0, SyncResult DEF TypeOK
    <3>. QED
      BY <1>4, <3>1, <3>2 DEF BatchTimeout, TypeOK
  <2>2. io' \in [Roots -> Backend]
    <3>1. SaveToFile(io[r]) \in Backend
      BY <1>0, BackendUpdates DEF TypeOK, SaveToFile
    <3>. QED
      BY <1>4, <3>1 DEF BatchTimeout, TypeOK
  <2>3. dropped' \in [Roots -> SUBSET Keys]
    BY <1>4 DEF BatchTimeout, TypeOK
  <2>. QED
    BY <1>4, <2>1, <2>2, <2>3 DEF BatchTimeout, TypeOK, budget
<1>5. ASSUME NEW r \in Roots, SaveTimeout(r) PROVE TypeOK'
  <2>1. /\ [io[r] EXCEPT !.save = FALSE] \in Backend
        /\ [io[r] EXCEPT !.save = FALSE, !.sig = "current", !.event = TRUE] \in Backend
    BY BackendUpdates DEF TypeOK
  <2>2. io' \in [Roots -> Backend]
    BY <1>5, <2>1 DEF SaveTimeout, TypeOK
  <2>3. ToJson(obj[r], r # Global) \in Json
    BY ToJsonResult DEF TypeOK
  <2>4. file' \in [Roots -> Files]
    BY <1>5, <2>3 DEF SaveTimeout, TypeOK
  <2>5. deaf' \in [Roots -> BOOLEAN] /\ unsaved' \in [Roots -> BOOLEAN]
    BY <1>5 DEF SaveTimeout, TypeOK
  <2>. QED
    BY <1>5, <2>2, <2>4, <2>5 DEF SaveTimeout, TypeOK, budget
<1>6. ASSUME NEW r \in Roots, CooldownTimeout(r) PROVE TypeOK'
  <2>1. [io[r] EXCEPT !.cooling = FALSE] \in Backend
    BY BackendUpdates DEF TypeOK
  <2>. QED
    BY <1>6, <2>1 DEF CooldownTimeout, TypeOK, budget, history
<1>7. ASSUME NEW r \in Roots, WatcherEvent(r) PROVE TypeOK'
  <2>. DEFINE same == SameSignature(io[r], file[r])
              d == io[r].debounce \/ (~io[r].cooling /\ ~same)
              h == deaf[r] \/ (io[r].cooling /\ ~same)
              n == [io[r] EXCEPT !.event = FALSE, !.debounce = d]
  <2>1. d \in BOOLEAN /\ h \in BOOLEAN
    OBVIOUS
  <2>2. io[r] \in Backend
    BY DEF TypeOK
  <2>3. io' = [io EXCEPT ![r] = n] /\ deaf' = [deaf EXCEPT ![r] = h]
    BY <1>7, <2>2 DEF WatcherEvent, TypeOK
  <2>. HIDE DEF d, h
  <2>4. n \in Backend
    BY <2>1, <2>2, BackendUpdates
  <2>. HIDE DEF n
  <2>5. deaf' \in [Roots -> BOOLEAN]
    BY <2>1, <2>3 DEF TypeOK
  <2>6. io' \in [Roots -> Backend]
    BY <2>3, <2>4 DEF TypeOK
  <2>7. /\ live' = live /\ obj' = obj /\ file' = file /\ dropped' = dropped
        /\ unsaved' = unsaved /\ sets' = sets /\ edits' = edits /\ crashes' = crashes
    BY <1>7 DEF WatcherEvent, budget
  <2>. QED
    BY <2>5, <2>6, <2>7 DEF TypeOK
<1>8. ASSUME NEW r \in Roots, NEW timer \in {"debounce", "retry"}, Reload(r, timer)
      PROVE  TypeOK'
  <2>1. [io[r] EXCEPT ![timer] = FALSE] \in Backend
    BY BackendUpdates DEF TypeOK
  <2>2. ReloadBackend([io[r] EXCEPT ![timer] = FALSE], file[r]) \in Backend
    BY <2>1, ReloadBackendResult DEF TypeOK
  <2>3. ReloadObject(obj[r], file[r]) \in Object
    BY ReloadObjectResult DEF TypeOK
  <2>4. obj[r].loaded \subseteq Keys
    BY DEF TypeOK, Object
  <2>. QED
    BY <1>8, <2>2, <2>3, <2>4 DEF Reload, TypeOK, budget
<1>9. ASSUME NEW r \in Roots, NEW f \in Contents, ExternalEdit(r, f) PROVE TypeOK'
  <2>. DEFINE e == r \in live
  <2>0. e \in BOOLEAN
    OBVIOUS
  <2>. HIDE DEF e
  <2>4. Outdated(io[r]) \in Backend
    BY BackendUpdates DEF TypeOK
  <2>1. [Outdated(io[r]) EXCEPT !.event = e] \in Backend
    BY <2>0, <2>4, BackendUpdates
  <2>3. io' = [io EXCEPT ![r] = [Outdated(io[r]) EXCEPT !.event = e]]
    BY <1>9 DEF ExternalEdit, TypeOK, e
  <2>2. f \in Files
    BY StoreAssumption
  <2>. QED
    BY <1>0, <1>9, <2>1, <2>2, <2>3 DEF ExternalEdit, TypeOK, history
<1>10. ASSUME NEW r \in Roots, SiblingEvent(r) PROVE TypeOK'
  <2>1. [io[r] EXCEPT !.event = TRUE] \in Backend
    BY BackendUpdates DEF TypeOK
  <2>. QED
    BY <1>10, <2>1 DEF SiblingEvent, TypeOK, budget, history
<1>11. CASE Crash
  <2>1. file' \in [Roots -> Files]
    BY <1>11 DEF Crash, TypeOK
  <2>2. obj' \in [Roots -> Object]
    BY <1>11, <2>1, NewTypes, ReloadObjectResult DEF Crash, BootObjects
  <2>3. io' \in [Roots -> Backend]
    BY <1>11, <2>1, NewTypes, ReloadBackendResult DEF Crash, BootBackends
  <2>. QED
    BY <1>0, <1>11, <2>1, <2>2, <2>3 DEF Crash, TypeOK, NoHistory
<1>12. CASE UNCHANGED vars
  BY <1>12 DEF vars, TypeOK
<1>. QED
  BY <1>1, <1>2, <1>3, <1>4, <1>5, <1>6, <1>7, <1>8, <1>9, <1>10, <1>11, <1>12
     DEF Next, Timers, ReloadTimeout, RetryTimeout

\* Every variable keeps its type, for any bounds.
THEOREM TypeCorrect == Spec => []TypeOK
<1>. QED
  BY TypeInit, TypeStep, PTL DEF Spec

(* No edit goes unnoticed.                                                  *)

LEMMA NoSilentEditInit == TypeOK /\ Init => NoSilentEdit
<1>. SUFFICES ASSUME TypeOK, Init PROVE SameSignature(io[Global], file[Global])
  BY DEF Init, NoSilentEdit
<1>1. io[Global] = ReloadBackend(NewBackend, file[Global])
  BY DEF Init, BootBackends, Roots
<1>2. Global \in Roots
  BY DEF Roots
<1>. QED
  BY <1>1, <1>2, NewTypes, ReloadBackendResult DEF TypeOK

LEMMA NoSilentEditStep == TypeOK /\ NoSilentEdit /\ [Next]_vars => NoSilentEdit'
<1>. SUFFICES ASSUME TypeOK, NoSilentEdit, [Next]_vars PROVE NoSilentEdit'
  OBVIOUS
<1>. DEFINE Heard(r) == ~SameSignature(io[r], file[r])
                          => io[r].event \/ io[r].debounce \/ deaf[r]
<1>0. /\ \A r \in Roots : io[r] \in Backend /\ file[r] \in Files
      /\ DOMAIN io = Roots /\ DOMAIN file = Roots /\ DOMAIN deaf = Roots
      /\ live \subseteq Roots /\ Screens \subseteq Roots /\ Global \in Roots
  BY DEF TypeOK, Roots
<1>1. ASSUME NEW r \in live', r \notin live PROVE Heard(r)'
  <2>1. PICK s \in Screens : CreateOverlay(s)
    BY <1>1 DEF Next, Timers, UserSet, UserReset, BatchTimeout, SaveTimeout, CooldownTimeout,
                WatcherEvent, ReloadTimeout, RetryTimeout, Reload, ExternalEdit, SiblingEvent,
                Crash, vars, TypeOK
  <2>2. r = s /\ r \in Roots /\ io'[r] = ReloadBackend(NewBackend, file[r]) /\ file' = file
    BY <1>0, <1>1, <2>1 DEF CreateOverlay
  <2>. QED
    BY <1>0, <2>2, NewTypes, ReloadBackendResult
<1>2. ASSUME NEW r \in live, r \in live' PROVE Heard(r)'
  <2>0. r \in Roots /\ io[r] \in Backend /\ Heard(r)
    BY <1>0 DEF NoSilentEdit
  <2>1. CASE /\ file'[r] = file[r] /\ deaf'[r] = deaf[r]
             /\ io'[r].sig = io[r].sig /\ io'[r].event = io[r].event
             /\ io'[r].debounce = io[r].debounce
    BY <2>0, <2>1 DEF SameSignature
  <2>2. ASSUME NEW t \in Roots, BatchTimeout(t) PROVE Heard(r)'
    <3>1. /\ file' = file /\ deaf' = deaf
          /\ io'[r] = io[r] \/ io'[r] = [io[r] EXCEPT !.save = TRUE, !.cooling = TRUE]
      BY <1>0, <2>0, <2>2 DEF BatchTimeout, SaveToFile, history
    <3>. QED
      BY <2>0, <2>1, <3>1 DEF Backend
  <2>3. ASSUME NEW t \in Roots, SaveTimeout(t) PROVE Heard(r)'
    <3>1. CASE r # t
      BY <1>0, <2>0, <2>1, <2>3, <3>1 DEF SaveTimeout
    <3>2. CASE r = t /\ io'[r] = [io[r] EXCEPT !.save = FALSE] /\ file' = file /\ deaf' = deaf
      BY <2>0, <2>1, <3>2 DEF Backend
    <3>3. CASE r = t /\ io'[r] = [io[r] EXCEPT !.save = FALSE, !.sig = "current", !.event = TRUE]
      BY <2>0, <3>3 DEF Backend
    <3>. QED
      BY <1>0, <2>0, <2>3, <3>1, <3>2, <3>3 DEF SaveTimeout
  <2>4. ASSUME NEW t \in Roots, CooldownTimeout(t) PROVE Heard(r)'
    <3>1. /\ file' = file /\ deaf' = deaf
          /\ io'[r] = io[r] \/ io'[r] = [io[r] EXCEPT !.cooling = FALSE]
      BY <1>0, <2>0, <2>4 DEF CooldownTimeout, history
    <3>. QED
      BY <2>0, <2>1, <3>1 DEF Backend
  <2>5. ASSUME NEW t \in Roots, WatcherEvent(t) PROVE Heard(r)'
    <3>1. CASE r # t
      BY <1>0, <2>0, <2>1, <2>5, <3>1 DEF WatcherEvent
    <3>2. CASE r = t
      <4>. DEFINE same == SameSignature(io[r], file[r])
                  d == io[r].debounce \/ (~io[r].cooling /\ ~same)
                  h == deaf[r] \/ (io[r].cooling /\ ~same)
      <4>1. /\ io'[r] = [io[r] EXCEPT !.event = FALSE, !.debounce = d]
            /\ deaf'[r] = h /\ file'[r] = file[r]
        BY <1>0, <2>0, <2>5, <3>2 DEF WatcherEvent
      <4>. HIDE DEF d, h
      <4>2. io'[r].debounce = d /\ io'[r].sig = io[r].sig
        BY <2>0, <4>1 DEF Backend
      <4>3. SameSignature(io'[r], file'[r]) <=> same
        BY <4>1, <4>2 DEF SameSignature
      <4>. QED
        BY <4>1, <4>2, <4>3 DEF d, h
    <3>. QED
      BY <3>1, <3>2
  <2>6. ASSUME NEW t \in Roots, NEW timer \in {"debounce", "retry"}, Reload(t, timer)
        PROVE  Heard(r)'
    <3>1. CASE r # t
      BY <1>0, <2>0, <2>1, <2>6, <3>1 DEF Reload
    <3>2. CASE r = t
      <4>1. [io[r] EXCEPT ![timer] = FALSE] \in Backend
        BY <2>0, BackendUpdates
      <4>2. /\ io'[r] = ReloadBackend([io[r] EXCEPT ![timer] = FALSE], file[r])
            /\ file'[r] = file[r]
        BY <1>0, <2>0, <2>6, <3>2 DEF Reload
      <4>. QED
        BY <1>0, <2>0, <4>1, <4>2, ReloadBackendResult
    <3>. QED
      BY <3>1, <3>2
  <2>7. ASSUME NEW t \in Roots, NEW f \in Contents, ExternalEdit(t, f) PROVE Heard(r)'
    <3>1. CASE r # t
      BY <1>0, <2>0, <2>1, <2>7, <3>1 DEF ExternalEdit, history
    <3>2. CASE r = t
      <4>1. io'[r] = [Outdated(io[r]) EXCEPT !.event = TRUE]
        BY <1>0, <2>0, <2>7, <3>2 DEF ExternalEdit
      <4>2. Outdated(io[r]) \in Backend
        BY <2>0, BackendUpdates
      <4>. QED
        BY <4>1, <4>2 DEF Backend
    <3>. QED
      BY <3>1, <3>2
  <2>8. ASSUME NEW t \in Roots, SiblingEvent(t) PROVE Heard(r)'
    <3>1. /\ file' = file /\ deaf' = deaf
          /\ io'[r] = io[r] \/ io'[r] = [io[r] EXCEPT !.event = TRUE]
      BY <1>0, <2>0, <2>8 DEF SiblingEvent, history
    <3>2. CASE io'[r] = io[r]
      BY <2>1, <3>1, <3>2
    <3>3. CASE io'[r] = [io[r] EXCEPT !.event = TRUE]
      BY <2>0, <3>3 DEF Backend
    <3>. QED
      BY <3>1, <3>2, <3>3
  <2>9. CASE Crash
    <3>1. r = Global /\ io'[r] = ReloadBackend(NewBackend, file'[r])
      BY <1>0, <1>2, <2>9 DEF Crash, BootBackends
    <3>2. file'[r] \in Files
      BY <1>0, <2>0, <2>9 DEF Crash
    <3>. QED
      BY <3>1, <3>2, NewTypes, ReloadBackendResult
  <2>10. ASSUME NEW s \in Screens, CreateOverlay(s) PROVE Heard(r)'
    <3>1. r # s /\ file' = file /\ deaf' = deaf /\ io'[r] = io[r]
      BY <1>0, <2>0, <2>10 DEF CreateOverlay, history
    <3>. QED
      BY <2>1, <3>1
  <2>11. CASE io' = io /\ file' = file /\ deaf' = deaf
    BY <2>1, <2>11
  <2>. QED
    BY <2>2, <2>3, <2>4, <2>5, <2>6, <2>7, <2>8, <2>9, <2>10, <2>11
       DEF Next, Timers, ReloadTimeout, RetryTimeout, UserSet, UserReset, history, vars
<1>. QED
  BY <1>1, <1>2 DEF NoSilentEdit

\* A file other than the one last read or written always has an event on its way
\* or a reload scheduled, unless its event fell in the cooldown (onWatcherEvent).
THEOREM EditsNoticed == Spec => []NoSilentEdit
<1>1. Init => TypeOK /\ NoSilentEdit
  BY TypeInit, NoSilentEditInit
<1>2. TypeOK /\ NoSilentEdit /\ [Next]_vars => (TypeOK /\ NoSilentEdit)'
  BY TypeStep, NoSilentEditStep
<1>. QED
  BY <1>1, <1>2, PTL DEF Spec

(* Overlays show the global's values.                                       *)

LEMMA MirrorStep == TypeOK /\ OverlayMirrorsGlobal /\ [Next]_vars => OverlayMirrorsGlobal'
<1>. DEFINE Free(s, k) == k \notin obj[s].loaded \cup obj[Global].pending \cup dropped[s]
            Same(s, k) == obj[s].value[k] = obj[Global].value[k]
<1>. SUFFICES ASSUME TypeOK, OverlayMirrorsGlobal, [Next]_vars,
                     NEW s \in Overlays', NEW k \in Keys, Free(s, k)'
              PROVE  Same(s, k)'
  BY DEF OverlayMirrorsGlobal
<1>0. /\ \A r \in Roots : obj[r] \in Object /\ file[r] \in Files
      /\ DOMAIN obj = Roots /\ DOMAIN dropped = Roots
      /\ live \subseteq Roots /\ Screens \subseteq Roots
      /\ Global \in Roots /\ Global \notin Screens
  BY StoreAssumption DEF TypeOK, Roots
<1>1. s \in Screens /\ s # Global
  BY TypeStep DEF Overlays, TypeOK, Roots
<1>2. s \in live => (Free(s, k) => Same(s, k))
  BY <1>1 DEF OverlayMirrorsGlobal, Overlays
<1>3. CASE obj'[s] = obj[s] /\ obj'[Global] = obj[Global] /\ dropped'[s] = dropped[s] /\ s \in live
  BY <1>2, <1>3
<1>4. ASSUME NEW t \in Screens, CreateOverlay(t) PROVE Same(s, k)'
  <2>1. CASE s = t
    <3>. DEFINE o == ReloadObject(NewObject, file[s])
    <3>1. o \in Object
      BY <1>0, <1>1, NewTypes, ReloadObjectResult
    <3>2. obj'[s] = SyncFrom(o, obj[Global], Keys) /\ obj'[Global] = obj[Global]
      BY <1>0, <1>1, <1>4, <2>1 DEF CreateOverlay
    <3>. HIDE DEF o
    <3>3. k \notin o.loaded /\ obj'[s].value[k] = obj[Global].value[k]
      BY <1>0, <3>1, <3>2, SyncResult
    <3>. QED
      BY <3>2, <3>3
  <2>2. CASE s # t
    BY <1>0, <1>1, <1>3, <1>4, <2>2 DEF CreateOverlay, history, Overlays
  <2>. QED
    BY <2>1, <2>2
<1>5. ASSUME NEW r \in Roots, NEW x \in Keys, NEW v \in Values, UserSet(r, x, v)
      PROVE  Same(s, k)'
  <2>1. s \in live /\ dropped' = dropped /\ obj' = [obj EXCEPT ![r] = SetProperty(obj[r], x, v)]
    BY <1>5 DEF UserSet, history, Overlays
  <2>. DEFINE n == SetProperty(obj[r], x, v)
  <2>2. /\ n.value = [obj[r].value EXCEPT ![x] = v]
        /\ obj[r].value[x] = v => n = obj[r]
        /\ obj[r].value[x] # v => /\ n.loaded = obj[r].loaded \cup {x}
                                  /\ n.pending = obj[r].pending \cup {x}
    BY <1>0, SetPropertyResult
  <2>3. obj[r].value \in [Keys -> Values]
    BY <1>0 DEF Object
  <2>. HIDE DEF n
  <2>4. k # x \/ obj[r].value[x] = v => n.value[k] = obj[r].value[k]
    BY <2>2, <2>3
  <2>5. CASE r = Global
    BY <1>0, <1>1, <1>2, <2>1, <2>2, <2>4, <2>5 DEF n
  <2>6. CASE r = s
    BY <1>0, <1>1, <1>2, <2>1, <2>2, <2>4, <2>6 DEF n
  <2>7. CASE r # s /\ r # Global
    BY <1>0, <1>1, <1>3, <2>1, <2>7
  <2>. QED
    BY <2>5, <2>6, <2>7
<1>6. ASSUME NEW t \in Screens, NEW x \in Keys, UserReset(t, x) PROVE Same(s, k)'
  <2>. DEFINE n == ResetOption(obj[t], obj[Global], x)
  <2>1. /\ s \in live /\ obj' = [obj EXCEPT ![t] = n]
        /\ dropped' = [dropped EXCEPT ![t] = dropped[t] \ {x}]
    BY <1>6 DEF UserReset, Overlays
  <2>2. /\ n.value[k] = IF k = x THEN obj[Global].value[x] ELSE obj[t].value[k]
        /\ obj[t].loaded \ {x} \subseteq n.loaded
    <3>. DEFINE c == [obj[t] EXCEPT !.loaded = @ \ {x}]
                v == obj[Global].value[x]
    <3>0. obj[t] \in Object /\ obj[Global] \in Object
      BY <1>0
    <3>1. /\ c \in Object /\ v \in Values /\ c.value \in [Keys -> Values]
          /\ c.value = obj[t].value /\ c.loaded = obj[t].loaded \ {x}
      BY <3>0 DEF Object
    <3>2. n = SetProperty(c, x, v)
      BY DEF ResetOption
    <3>. HIDE DEF n, c, v
    <3>3. n.value = [c.value EXCEPT ![x] = v] /\ c.loaded \subseteq n.loaded
      BY <3>1, <3>2, SetPropertyResult
    <3>4. n.value[k] = IF k = x THEN v ELSE c.value[k]
      BY <3>1, <3>3
    <3>. QED
      BY <3>1, <3>3, <3>4 DEF v
  <2>. HIDE DEF n
  <2>4. obj'[Global] = obj[Global]
    BY <1>0, <1>6, <2>1
  <2>5. CASE t = s /\ k = x
    BY <1>0, <1>1, <2>1, <2>2, <2>4, <2>5
  <2>6. CASE t = s /\ k # x
    BY <1>0, <1>1, <1>2, <2>1, <2>2, <2>4, <2>6
  <2>7. CASE t # s
    BY <1>0, <1>1, <1>3, <2>1, <2>4, <2>7
  <2>. QED
    BY <2>5, <2>6, <2>7
<1>7. ASSUME NEW r \in Roots, BatchTimeout(r) PROVE Same(s, k)'
  <2>. DEFINE changed == obj[r].pending
              heard(t) == r = Global /\ t \in live \ {Global}
  <2>1. /\ s \in live
        /\ obj' = [t \in Roots |-> IF t = r THEN [obj[t] EXCEPT !.pending = {}]
                                   ELSE IF heard(t) THEN SyncFrom(obj[t], obj[Global], changed)
                                   ELSE obj[t]]
        /\ dropped' = [t \in Roots |-> IF heard(t) THEN dropped[t] \ changed ELSE dropped[t]]
    BY <1>7 DEF BatchTimeout, Overlays
  <2>2. CASE r = Global
    <3>1. /\ obj'[s] = SyncFrom(obj[s], obj[Global], changed)
          /\ dropped'[s] = dropped[s] \ changed
          /\ obj'[Global] = [obj[Global] EXCEPT !.pending = {}]
      BY <1>0, <1>1, <2>1, <2>2
    <3>2. obj'[Global].value = obj[Global].value
      BY <1>0, <3>1 DEF Object
    <3>3. /\ obj'[s].loaded = obj[s].loaded
          /\ obj'[s].value[k] = IF k \in changed /\ k \notin obj[s].loaded
                                THEN obj[Global].value[k] ELSE obj[s].value[k]
      BY <1>0, <1>1, <3>1, SyncResult
    <3>. QED
      BY <1>2, <2>1, <2>2, <3>1, <3>2, <3>3
  <2>3. CASE r = s
    <3>1. /\ obj'[s] = [obj[s] EXCEPT !.pending = {}] /\ obj'[Global] = obj[Global]
          /\ dropped'[s] = dropped[s]
      BY <1>0, <1>1, <2>1, <2>3
    <3>2. obj'[s].value = obj[s].value /\ obj'[s].loaded = obj[s].loaded
      BY <1>0, <1>1, <3>1 DEF Object
    <3>. QED
      BY <1>2, <2>1, <3>1, <3>2
  <2>4. CASE r # Global /\ r # s
    BY <1>0, <1>1, <1>3, <2>1, <2>4
  <2>. QED
    BY <2>2, <2>3, <2>4
<1>8. ASSUME NEW r \in Roots, NEW timer, Reload(r, timer) PROVE Same(s, k)'
  <2>. DEFINE n == ReloadObject(obj[r], file[r])
  <2>1. /\ s \in live /\ obj' = [obj EXCEPT ![r] = n]
        /\ dropped' = [dropped EXCEPT ![r] = IF file[r] \in Unread THEN dropped[r]
                                             ELSE dropped[r] \cup obj[r].loaded]
    BY <1>8 DEF Reload, Overlays
  <2>2. CASE r # Global /\ r # s
    BY <1>0, <1>1, <1>3, <2>1, <2>2
  <2>3. CASE file[r] \in Unread
    <3>1. n = obj[r]
      BY <1>0, <2>3, ReloadObjectResult
    <3>. QED
      BY <1>0, <1>1, <1>3, <2>1, <2>3, <3>1
  <2>4. CASE file[r] \notin Unread
    <3>1. /\ n.loaded = DOMAIN file[r] /\ obj[r].pending \subseteq n.pending
          /\ n.value[k] = IF k \in DOMAIN file[r] THEN file[r][k] ELSE obj[r].value[k]
      BY <1>0, <2>4, ReloadObjectResult
    <3>2. k \in DOMAIN file[r] /\ file[r][k] # obj[r].value[k] => k \in n.pending
      BY <2>4 DEF ReloadObject, LoadFromJson, ClearLoadedKeys, Written
    <3>. HIDE DEF n
    <3>3. CASE r = Global
      BY <1>0, <1>1, <1>2, <2>1, <3>1, <3>2, <3>3
    <3>4. CASE r = s
      BY <1>0, <1>1, <1>2, <2>1, <2>4, <3>1, <3>4
    <3>. QED
      BY <2>2, <3>3, <3>4
  <2>. QED
    BY <2>3, <2>4
<1>9. CASE Crash
  BY <1>9 DEF Crash, Overlays
<1>10. CASE obj' = obj /\ dropped' = dropped /\ live' = live
  BY <1>3, <1>10 DEF Overlays
<1>. QED
  BY <1>4, <1>5, <1>6, <1>7, <1>8, <1>9, <1>10
     DEF Next, Timers, ReloadTimeout, RetryTimeout, SaveTimeout, CooldownTimeout, WatcherEvent,
         ExternalEdit, SiblingEvent, history, vars

\* An option a monitor's overlay does not hold shows the global's value, but for
\* a change still to be announced and options a reload let go of
\* (syncFromGlobal, onGlobalPropertiesChanged).
THEOREM OverlayFollowsGlobal == Spec => []OverlayMirrorsGlobal
<1>1. Init => TypeOK /\ OverlayMirrorsGlobal
  BY TypeInit DEF Init, OverlayMirrorsGlobal, Overlays
<1>2. TypeOK /\ OverlayMirrorsGlobal /\ [Next]_vars => (TypeOK /\ OverlayMirrorsGlobal)'
  BY TypeStep, MirrorStep
<1>. QED
  BY <1>1, <1>2, PTL DEF Spec

(* What is in memory is on disk.                                            *)

\* What a save writes depends on the values and the marks alone.
LEMMA SameJson ==
  ASSUME NEW o, NEW n, n.value = o.value, n.loaded = o.loaded, NEW b
  PROVE  ToJson(n, b) = ToJson(o, b)
BY DEF ToJson

\* A file just written, and a file just read, is what is in memory.
LEMMA JustWritten ==
  ASSUME NEW o, NEW b \in BOOLEAN
  PROVE  OnDisk(ToJson(o, b), b) = ToJson(o, b)
<1>. DEFINE S == o.loaded \ (IF b THEN GlobalOnly ELSE {})
            j == [k \in S |-> o.value[k]]
<1>1. ToJson(o, b) = j /\ DOMAIN j = S
  BY DEF ToJson
<1>2. \A k \in S : j[k] = o.value[k]
  OBVIOUS
<1>3. OnDisk(j, b) = [k \in S \ (IF b THEN GlobalOnly ELSE {}) |-> j[k]]
  BY <1>1 DEF OnDisk
<1>4. S \ (IF b THEN GlobalOnly ELSE {}) = S
  OBVIOUS
<1>. QED
  BY <1>1, <1>2, <1>3, <1>4

LEMMA JustRead ==
  ASSUME NEW o, NEW f, NEW b \in BOOLEAN,
         o.loaded = DOMAIN f, \A k \in DOMAIN f : o.value[k] = f[k]
  PROVE  ToJson(o, b) = OnDisk(f, b)
BY DEF ToJson, OnDisk

\* Writes that queue nothing change nothing.
LEMMA QuietSync ==
  ASSUME NEW o \in Object, NEW g \in Object, NEW keys, SyncFrom(o, g, keys).pending = {}
  PROVE  SyncFrom(o, g, keys).value = o.value /\ SyncFrom(o, g, keys).loaded = o.loaded
<1>. DEFINE S == (keys \cap Keys) \ o.loaded
            f == [k \in S |-> g.value[k]]
            n == SyncFrom(o, g, keys)
<1>1. f \in Json
  BY JsonFunction DEF Object
<1>2. n = Written(o, f)
  BY DEF SyncFrom
<1>. HIDE DEF n, f
<1>3. /\ n.loaded = o.loaded
      /\ \A k \in DOMAIN f : f[k] = o.value[k]
      /\ \A k \in Keys : n.value[k] = IF k \in DOMAIN f THEN f[k] ELSE o.value[k]
      /\ n \in Object
  BY <1>1, <1>2, WrittenResult DEF n
<1>4. n.value \in [Keys -> Values] /\ o.value \in [Keys -> Values]
  BY <1>3 DEF Object
<1>5. \A k \in Keys : n.value[k] = o.value[k]
  BY <1>3
<1>. QED
  BY <1>3, <1>4, <1>5 DEF n

LEMMA QuietSet ==
  ASSUME NEW o \in Object, NEW k \in Keys, NEW v \in Values, SetProperty(o, k, v).pending = {}
  PROVE  SetProperty(o, k, v) = o
<1>1. o.value[k] # v => SetProperty(o, k, v).pending = o.pending \cup {k}
  BY SetPropertyResult
<1>2. o.value[k] = v => SetProperty(o, k, v) = o
  BY SetPropertyResult
<1>. QED
  BY <1>1, <1>2

LEMMA OnDiskInit == TypeOK /\ Init => MemoryIsOnDisk
<1>. SUFFICES ASSUME TypeOK, Init, file[Global] \notin Unread
              PROVE  InMemory(Global) = OnDisk(file[Global], FALSE)
  BY DEF Init, MemoryIsOnDisk
<1>1. file[Global] \in Files
  BY DEF TypeOK, Roots
<1>2. obj[Global] = ReloadObject(NewObject, file[Global])
  BY DEF Init, BootObjects, Roots
<1>3. /\ obj[Global].loaded = DOMAIN file[Global]
      /\ \A k \in Keys : k \in DOMAIN file[Global] => obj[Global].value[k] = file[Global][k]
  BY <1>1, <1>2, NewTypes, ReloadObjectResult
<1>4. DOMAIN file[Global] \subseteq Keys
  BY <1>1, JsonDomain
<1>. QED
  BY <1>3, <1>4, JustRead DEF InMemory

LEMMA OnDiskStep == TypeOK /\ MemoryIsOnDisk /\ [Next]_vars => MemoryIsOnDisk'
<1>. DEFINE Safe(r) == /\ Settled(r) /\ ~unsaved[r]
                       /\ file[r] \notin Unread /\ SameSignature(io[r], file[r])
            Kept(r) == InMemory(r) = OnDisk(file[r], r # Global)
<1>. SUFFICES ASSUME TypeOK, MemoryIsOnDisk, [Next]_vars, NEW r \in live', Safe(r)'
              PROVE  Kept(r)'
  BY DEF MemoryIsOnDisk
<1>0. /\ \A x \in Roots : /\ obj[x] \in Object /\ io[x] \in Backend
                          /\ file[x] \in Files
      /\ DOMAIN obj = Roots /\ DOMAIN io = Roots /\ DOMAIN file = Roots /\ DOMAIN unsaved = Roots
      /\ live \subseteq Roots /\ Screens \subseteq Roots
      /\ Global \in Roots /\ Global \notin Screens /\ r \in Roots
  BY StoreAssumption, TypeStep DEF TypeOK, Roots
<1>1. r \in live => (Safe(r) => Kept(r))
  BY DEF MemoryIsOnDisk
\* Nothing the property reads has changed.
<1>2. CASE /\ r \in live
           /\ obj'[r].value = obj[r].value /\ obj'[r].loaded = obj[r].loaded
           /\ obj[r].pending = {} /\ ~io[r].save /\ ~unsaved[r]
           /\ io'[r].sig = io[r].sig /\ file'[r] = file[r]
  <2>1. Safe(r)
    BY <1>2 DEF SameSignature, Settled
  <2>2. InMemory(r)' = InMemory(r)
    BY <1>2, SameJson DEF InMemory
  <2>. QED
    BY <1>1, <1>2, <2>1, <2>2
\* The object has just been loaded from the file.
<1>3. ASSUME NEW o \in Object, obj'[r] = ReloadObject(o, file'[r]) PROVE Kept(r)'
  <2>1. file'[r] \in Files /\ file'[r] \notin Unread
    BY <1>0, TypeStep DEF TypeOK
  <2>2. /\ obj'[r].loaded = DOMAIN file'[r]
        /\ \A k \in Keys : k \in DOMAIN file'[r] => obj'[r].value[k] = file'[r][k]
    BY <1>3, <2>1, ReloadObjectResult
  <2>3. DOMAIN file'[r] \subseteq Keys
    BY <2>1, JsonDomain
  <2>. QED
    BY <2>2, <2>3, JustRead DEF InMemory
<1>4. ASSUME NEW s \in Screens, CreateOverlay(s) PROVE Kept(r)'
  <2>1. CASE r = s
    <3>. DEFINE o == ReloadObject(NewObject, file[r])
    <3>1. o \in Object
      BY <1>0, NewTypes, ReloadObjectResult
    <3>2. obj'[r] = SyncFrom(o, obj[Global], Keys) /\ file' = file
      BY <1>0, <1>4, <2>1 DEF CreateOverlay
    <3>3. file[r] \in Json /\ DOMAIN file[r] \subseteq Keys /\ file[r] \notin Unread
      BY <1>0, <3>2, JsonDomain
    <3>4. /\ o.loaded = DOMAIN file[r]
          /\ \A k \in Keys : k \in DOMAIN file[r] => o.value[k] = file[r][k]
      BY <1>0, <3>3, NewTypes, ReloadObjectResult
    <3>. HIDE DEF o
    <3>5. obj'[r].loaded = o.loaded /\ obj'[r].value = o.value
      BY <1>0, <3>1, <3>2, QuietSync DEF Settled
    <3>6. obj'[r].loaded = DOMAIN file'[r] /\ \A k \in DOMAIN file'[r] : obj'[r].value[k] = file'[r][k]
      BY <3>2, <3>3, <3>4, <3>5
    <3>. QED
      BY <3>6, JustRead DEF InMemory
  <2>2. CASE r # s
    BY <1>0, <1>2, <1>4, <2>2 DEF CreateOverlay, history, Settled
  <2>. QED
    BY <2>1, <2>2
<1>5. ASSUME NEW x \in Roots, NEW k \in Keys, NEW v \in Values, UserSet(x, k, v)
      PROVE  Kept(r)'
  <2>1. CASE x = r
    <3>1. obj'[r] = SetProperty(obj[r], k, v)
      BY <1>0, <1>5, <2>1 DEF UserSet
    <3>2. obj'[r] = obj[r]
      BY <1>0, <3>1, QuietSet DEF Settled
    <3>. QED
      BY <1>0, <1>2, <1>5, <3>2 DEF UserSet, history, Settled
  <2>2. CASE x # r
    BY <1>0, <1>2, <1>5, <2>2 DEF UserSet, history, Settled
  <2>. QED
    BY <2>1, <2>2
<1>6. ASSUME NEW s \in Screens, NEW k \in Keys, UserReset(s, k) PROVE Kept(r)'
  <2>1. CASE s = r
    <3>. DEFINE c == [obj[r] EXCEPT !.loaded = @ \ {k}]
                v == obj[Global].value[k]
                u == unsaved[r] \/ k \in obj[r].loaded
    <3>0. /\ obj[r] \in Object /\ obj[Global] \in Object
          /\ obj'[r] = ResetOption(obj[r], obj[Global], k) /\ unsaved'[r] = u
      BY <1>0, <1>6, <2>1 DEF UserReset
    <3>1. k \notin obj[r].loaded /\ ~unsaved[r]
      BY <3>0
    <3>2. /\ c \in Object /\ v \in Values
          /\ c.value = obj[r].value /\ c.loaded = obj[r].loaded /\ c.pending = obj[r].pending
      BY <3>0, <3>1 DEF Object
    <3>3. obj'[r] = SetProperty(c, k, v)
      BY <3>0 DEF ResetOption
    <3>. HIDE DEF c, v
    <3>4. obj'[r] = c /\ c.pending = {}
      BY <3>2, <3>3, QuietSet DEF Settled
    <3>. QED
      BY <1>0, <1>2, <1>6, <2>1, <3>1, <3>2, <3>4 DEF UserReset, Settled
  <2>2. CASE s # r
    BY <1>0, <1>2, <1>6, <2>2 DEF UserReset, Settled
  <2>. QED
    BY <2>1, <2>2
<1>7. ASSUME NEW x \in Roots, BatchTimeout(x) PROVE Kept(r)'
  <2>1. CASE x = r
    <3>1. io'[r] = SaveToFile(io[r])
      BY <1>0, <1>7, <2>1 DEF BatchTimeout
    <3>. QED
      BY <1>0, <3>1 DEF SaveToFile, Backend, Settled
  <2>2. CASE x # r
    <3>1. /\ r \in live /\ io'[r] = io[r] /\ file' = file /\ unsaved' = unsaved
          /\ \/ obj'[r] = obj[r]
             \/ obj'[r] = SyncFrom(obj[r], obj[Global], obj[x].pending)
      BY <1>0, <1>7, <2>2 DEF BatchTimeout
    <3>2. obj[r].pending \subseteq obj'[r].pending
      BY <1>0, <3>1, SyncResult
    <3>3. obj'[r].pending = {} /\ obj[r].pending = {}
      BY <3>2 DEF Settled
    <3>4. obj'[r].value = obj[r].value /\ obj'[r].loaded = obj[r].loaded
      BY <1>0, <3>1, <3>3, QuietSync
    <3>. QED
      BY <1>2, <3>1, <3>3, <3>4 DEF Settled
  <2>. QED
    BY <2>1, <2>2
<1>8. ASSUME NEW x \in Roots, SaveTimeout(x) PROVE Kept(r)'
  <2>1. CASE x = r
    <3>1. file' = [file EXCEPT ![r] = ToJson(obj[r], r # Global)] /\ obj' = obj
      BY <1>0, <1>8, <2>1 DEF SaveTimeout
    <3>2. file'[r] = ToJson(obj[r], r # Global)
      BY <1>0, <3>1
    <3>. QED
      BY <3>1, <3>2, JustWritten DEF InMemory
  <2>2. CASE x # r
    BY <1>0, <1>2, <1>8, <2>2 DEF SaveTimeout, Settled
  <2>. QED
    BY <2>1, <2>2
<1>9. ASSUME NEW x \in Roots, NEW timer \in {"debounce", "retry"}, Reload(x, timer)
      PROVE  Kept(r)'
  <2>1. CASE x = r
    BY <1>0, <1>3, <1>9, <2>1 DEF Reload
  <2>2. CASE x # r
    BY <1>0, <1>2, <1>9, <2>2 DEF Reload, Settled
  <2>. QED
    BY <2>1, <2>2
<1>10. ASSUME NEW x \in Roots, NEW f \in Contents, ExternalEdit(x, f) PROVE Kept(r)'
  <2>1. CASE x = r
    <3>. DEFINE e == x \in live
    <3>1. io'[r] = [Outdated(io[r]) EXCEPT !.event = e]
      BY <1>0, <1>10, <2>1 DEF ExternalEdit
    <3>. HIDE DEF e
    <3>2. io'[r].sig \in {"none", "old"}
      BY <1>0, <3>1 DEF Outdated, Backend
    <3>. QED
      BY <3>2 DEF SameSignature
  <2>2. CASE x # r
    BY <1>0, <1>2, <1>10, <2>2 DEF ExternalEdit, history, Settled
  <2>. QED
    BY <2>1, <2>2
<1>11. CASE Crash
  <2>1. r = Global /\ obj'[r] = ReloadObject(NewObject, file'[r])
    BY <1>0, <1>11 DEF Crash, BootObjects
  <2>. QED
    BY <1>3, <2>1, NewTypes
\* The other actions touch neither objects nor files, nor the saves and signatures.
<1>12. CASE /\ r \in live /\ obj' = obj /\ file' = file /\ unsaved' = unsaved
            /\ io'[r].save = io[r].save /\ io'[r].sig = io[r].sig
  BY <1>2, <1>12 DEF Settled
<1>13. ASSUME NEW x \in Roots, CooldownTimeout(x) \/ SiblingEvent(x) PROVE Kept(r)'
  <2>1. /\ r \in live /\ obj' = obj /\ file' = file /\ unsaved' = unsaved
        /\ \/ io'[r] = io[r] \/ io'[r] = [io[r] EXCEPT !.cooling = FALSE]
           \/ io'[r] = [io[r] EXCEPT !.event = TRUE]
    BY <1>0, <1>13 DEF CooldownTimeout, SiblingEvent, history
  <2>2. io'[r].save = io[r].save /\ io'[r].sig = io[r].sig
    BY <1>0, <2>1 DEF Backend
  <2>. QED
    BY <1>12, <2>1, <2>2
<1>14. ASSUME NEW x \in Roots, WatcherEvent(x) PROVE Kept(r)'
  <2>. DEFINE d == io[x].debounce \/ (~io[x].cooling /\ ~SameSignature(io[x], file[x]))
  <2>1. /\ r \in live /\ obj' = obj /\ file' = file /\ unsaved' = unsaved
        /\ r # x => io'[r] = io[r]
        /\ r = x => io'[r] = [io[r] EXCEPT !.event = FALSE, !.debounce = d]
    BY <1>0, <1>14 DEF WatcherEvent
  <2>. HIDE DEF d
  <2>2. io'[r].save = io[r].save /\ io'[r].sig = io[r].sig
    BY <1>0, <2>1 DEF Backend
  <2>. QED
    BY <1>12, <2>1, <2>2
<1>15. CASE UNCHANGED vars
  BY <1>12, <1>15 DEF vars
<1>. QED
  BY <1>4, <1>5, <1>6, <1>7, <1>8, <1>9, <1>10, <1>11, <1>13, <1>14, <1>15
     DEF Next, Timers, ReloadTimeout, RetryTimeout

\* With no change waiting to be announced or saved, and no failed save or silent
\* reset, the file the shell last saw lists exactly the options in memory
\* (connectAutoSave, the save timer, reloadFromFile).
THEOREM MemoryKept == Spec => []MemoryIsOnDisk
<1>1. Init => TypeOK /\ MemoryIsOnDisk
  BY TypeInit, OnDiskInit
<1>2. TypeOK /\ MemoryIsOnDisk /\ [Next]_vars => (TypeOK /\ MemoryIsOnDisk)'
  BY TypeStep, OnDiskStep
<1>. QED
  BY <1>1, <1>2, PTL DEF Spec

=============================================================================
