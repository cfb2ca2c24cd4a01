--------------------------- MODULE SettingsStore ----------------------------
(***************************************************************************)
(* Two layers of settings and their files (Settings/rootnode.cpp,          *)
(* settingsfile.cpp, changebatcher.cpp over SettingsNode): user writes are  *)
(* batched, saves are atomic and half a second apart, the watcher's events  *)
(* are coalesced for 50 ms, a file that does not parse is read again, and   *)
(* the overlay follows what it does not set itself.                         *)
(***************************************************************************)
EXTENDS SettingsNode

CONSTANTS
  Missing, Torn, Locked,    \* a file that is not there, does not parse, cannot be opened
  Contents,                 \* what another program leaves in a file
  StartContents,            \* and what is there when the layers are made
  LoadRetries,              \* k_maxLoadRetries
  MaxWrites,                \* bound: by the user
  MaxMishaps                \* bound: edits by others and saves that fail

ASSUME StoreAssumption ==
  /\ LoadRetries \in Nat /\ MaxWrites \in Nat /\ MaxMishaps \in Nat
  /\ Missing \notin {Torn, Locked}

Nothing == [k \in {} |-> Bad]

\* What another program writes, if it can be read, is an object, whose entries decode to
\* values and its list to a list of values, or do not decode.
Document(d) ==
  /\ DOMAIN d \subseteq Keys /\ d = [k \in DOMAIN d |-> d[k]]
  /\ \A k \in Options \cap DOMAIN d : d[k] \in Values \cup {Bad}
  /\ Members \in DOMAIN d => d[Members] \in Seq(Values) \cup {Bad}

ASSUME ContentsAssumption ==
  \A c \in (Contents \cup StartContents) \ {Missing, Torn, Locked} : Document(c)

VARIABLES
  node,                     \* the layers' trees
  dirty,                    \* ChangeBatcher's m_dirty: a flush is queued
  file,                     \* what is on disk
  lastData, pending,        \* m_lastData, m_pendingWrite: what they hold, if anything
  saveTimer, saveQueued,    \* m_saveDebounce runs; its timeout calls save()
  event,                    \* the watcher has something to say
  loadTimer, retries,       \* m_loadDebounce runs; m_loadRetries
  astray,                   \* history: the ways memory and file are left to differ
  revived,                  \* history: a write that waits is older than what memory read
  spent                     \* bounds

disk == <<file, lastData, pending, saveTimer, saveQueued>>
loads == <<event, loadTimer, retries>>
history == <<astray, revived>>
vars == <<node, dirty, disk, loads, history, spent>>

Readable(f) == f \notin {Missing, Torn, Locked}
Data(d) == IF d = {} THEN Nothing ELSE CHOOSE json \in d : TRUE

Other(layer) == CHOOSE l \in Layers : l # layer

Spend(what, bound) == spent[what] < bound /\ spent' = [spent EXCEPT ![what] = @ + 1]

----------------------------------------------------------------------------
(* Memory.                                                                  *)

\* A tree changed as a whole, and its list by change; the overlay follows the global.
\* Elements the overlay set in a list it does not own go or change unsaved.
Changed(layer, n, change, strayed) ==
  IF layer = "overlay"
  THEN /\ node' = [node EXCEPT !["overlay"] = n]
       /\ astray' = [astray EXCEPT !["overlay"] = strayed]
  ELSE \E o \in {Mirrored(node["overlay"], n)} :
       \E m \in {IF Members \in o.own THEN o ELSE [o EXCEPT !.list = Followed(@, change, n.list)]} :
         /\ node' = [global |-> n, overlay |-> m]
         /\ astray' = [global |-> strayed,
                       overlay |-> astray["overlay"] \/ Json(m) # Json(node["overlay"])]

NoChange == Change(<<>>, <<>>, <<>>)
Dirtied(layer, is) == dirty' = [dirty EXCEPT ![layer] = @ \/ is]

Allowed(layer, k) == layer = "overlay" => k \notin GlobalOnly

\* A property set from QML.
SetOption(layer, k, v) ==
  /\ Allowed(layer, k) /\ Spend("writes", MaxWrites)
  /\ \E n \in {Write(node[layer], k, v)} :
       /\ Changed(layer, n, NoChange, astray[layer])
       /\ Dirtied(layer, Recorded(node[layer], n, k))
  /\ UNCHANGED <<disk, loads, revived>>

\* resetOption for an option.
ResetOption(layer, k) ==
  /\ Allowed(layer, k) /\ Spend("writes", MaxWrites)
  /\ \E n \in {ResetTo(node[layer], k, IF layer = "overlay" THEN node["global"].val[k] ELSE Default[k])} :
       /\ Changed(layer, n, NoChange, astray[layer])
       /\ Dirtied(layer, Recorded(node[layer], n, k))
  /\ UNCHANGED <<disk, loads, revived>>

\* resetOption for the list: resetToDefaults opens a write scope of its own, as if the
\* reset came from the file, and nothing is saved.
ResetList(layer) ==
  /\ Spend("writes", MaxWrites)
  /\ \E list \in {IF layer = "overlay" THEN ValuesOf(node["global"].list) ELSE DefaultList} :
     \E n \in {[node[layer] EXCEPT !.list = Elements(list, FALSE), !.own = @ \ {Members}]} :
       Changed(layer, n, Replaced(node[layer].list, n.list),
               astray[layer] \/ Json(n) # Json(node[layer]))
  /\ UNCHANGED <<dirty, disk, loads, revived>>

\* insert, remove, move: the list becomes the layer's own.
ListChanged(layer, list, change) ==
  /\ Spend("writes", MaxWrites)
  /\ Changed(layer, [node[layer] EXCEPT !.list = list, !.own = @ \cup {Members}], change, astray[layer])
  /\ Dirtied(layer, TRUE)
  /\ UNCHANGED <<disk, loads, revived>>

Insert(layer, i, v) ==
  ListChanged(layer, Spliced(node[layer].list, i, Elements(<<v>>, FALSE)), Change(<<i>>, <<>>, <<>>))
RemoveAtRow(layer, i) ==
  ListChanged(layer, Cut(node[layer].list, i, i), Change(<<>>, <<i>>, <<>>))
Move(layer, from, to) ==
  ListChanged(layer, MoveRow(node[layer].list, from, to), Change(<<>>, <<>>, <<<<from, to>>>>))

\* clear; an empty list, and a row that does not exist for remove or move, change nothing
\* but make the list the layer's own.
Clear(layer) ==
  ListChanged(layer, <<>>, Replaced(node[layer].list, <<>>))
Touch(layer) ==
  /\ Spend("writes", MaxWrites)
  /\ Changed(layer, [node[layer] EXCEPT !.own = @ \cup {Members}], NoChange, astray[layer])
  /\ Dirtied(layer, Members \notin node[layer].own)
  /\ UNCHANGED <<disk, loads, revived>>

\* An element's option set from QML.  The overlay's element in the same place follows, if
\* its list is not its own and it was not set itself.
SetElement(layer, i, v) ==
  /\ Spend("writes", MaxWrites)
  /\ \E n \in {[node[layer] EXCEPT !.list[i] = [val |-> v, own |-> TRUE]]} :
     \E o \in {node["overlay"]} :
     \E m \in {IF layer = "overlay" THEN n
               ELSE IF Members \in o.own \/ o.list[i].own THEN o
               ELSE [o EXCEPT !.list[i].val = v]} :
       /\ node' = [node EXCEPT ![layer] = n, !["overlay"] = m]
       /\ Dirtied(layer, n # node[layer])
       /\ astray' = [astray EXCEPT !["overlay"] = @ \/ (layer = "global" /\ Json(m) # Json(o))]
  /\ UNCHANGED <<disk, loads, revived>>

----------------------------------------------------------------------------
(* Saving.                                                                  *)

\* The file is replaced at once or, if it cannot be, what was to be saved is dropped.
WriteFile(layer, json, strayed) ==
  /\ saveTimer' = [saveTimer EXCEPT ![layer] = TRUE]
  /\ pending' = [pending EXCEPT ![layer] = {}]
  /\ \/ /\ file' = [file EXCEPT ![layer] = json]
        /\ lastData' = [lastData EXCEPT ![layer] = {json}]
        /\ event' = [event EXCEPT ![layer] = TRUE]
        /\ astray' = [astray EXCEPT ![layer] = strayed]
        /\ UNCHANGED spent
     \/ /\ Spend("mishaps", MaxMishaps)
        /\ astray' = [astray EXCEPT ![layer] = TRUE]
        /\ UNCHANGED <<file, lastData, event>>

\* The batched changes are written, or wait for the debounce of the last save to end.
Flush(layer) ==
  /\ dirty[layer]
  /\ dirty' = [dirty EXCEPT ![layer] = FALSE]
  /\ \/ /\ saveTimer[layer]
        /\ pending' = [pending EXCEPT ![layer] = {Json(node[layer])}]
        /\ saveQueued' = [saveQueued EXCEPT ![layer] = TRUE]
        /\ astray' = [astray EXCEPT ![layer] = FALSE]
        /\ UNCHANGED <<file, lastData, saveTimer, event, spent>>
     \/ /\ ~saveTimer[layer]
        /\ WriteFile(layer, Json(node[layer]), FALSE)
        /\ UNCHANGED saveQueued
  /\ UNCHANGED <<node, loadTimer, retries, revived>>

SaveTimeout(layer) ==
  /\ saveTimer[layer]
  /\ saveQueued' = [saveQueued EXCEPT ![layer] = FALSE]
  /\ \/ /\ saveQueued[layer]
        /\ \E json \in pending[layer] : WriteFile(layer, json, astray[layer])
     \/ /\ ~saveQueued[layer] \/ pending[layer] = {}
        /\ saveTimer' = [saveTimer EXCEPT ![layer] = FALSE]
        /\ UNCHANGED <<file, lastData, pending, event, astray, spent>>
  /\ UNCHANGED <<node, dirty, loadTimer, retries, revived>>

----------------------------------------------------------------------------
(* Loading.                                                                 *)

\* Another program replaces, tears or removes the file.
ExternalEdit(layer, content) ==
  /\ Spend("mishaps", MaxMishaps) /\ file[layer] # content
  /\ file' = [file EXCEPT ![layer] = content]
  /\ event' = [event EXCEPT ![layer] = TRUE]
  /\ UNCHANGED <<node, dirty, lastData, pending, saveTimer, saveQueued, loadTimer, retries, history>>

\* Faulty variant of WatcherEvent: the shell's own saves hide other events.
WatcherIgnoringSaves(layer) ==
  /\ event[layer]
  /\ event' = [event EXCEPT ![layer] = FALSE]
  /\ loadTimer' = [loadTimer EXCEPT ![layer] = @ \/ ~saveTimer[layer]]
  /\ retries' = [retries EXCEPT ![layer] = IF loadTimer[layer] THEN @ ELSE 0]
  /\ UNCHANGED <<node, dirty, disk, history, spent>>

\* onFileChanged, onDirChanged: one load for the events of 50 ms.
WatcherEvent(layer) ==
  /\ event[layer]
  /\ event' = [event EXCEPT ![layer] = FALSE]
  /\ loadTimer' = [loadTimer EXCEPT ![layer] = TRUE]
  /\ retries' = [retries EXCEPT ![layer] = IF loadTimer[layer] THEN @ ELSE 0]
  /\ UNCHANGED <<node, dirty, disk, history, spent>>

\* reloadFromFile.
Synced(layer, json) ==
  IF layer = "overlay"
  THEN SyncJson(layer, node[layer], json, node["global"].val, ValuesOf(node["global"].list))
  ELSE SyncJson(layer, node[layer], json, Default, DefaultList)
Reload(layer, json, survives) ==
  /\ \E n \in {Synced(layer, json)} : Changed(layer, n, Replaced(node[layer].list, n.list), survives)
  /\ revived' = [revived EXCEPT ![layer] = survives]

LoadTimeout(layer) == loadTimer[layer] /\ loadTimer' = [loadTimer EXCEPT ![layer] = FALSE]

\* The file is gone: so are the settings, but not what waits to be saved.
LoadMissing(layer) ==
  /\ LoadTimeout(layer) /\ file[layer] = Missing
  /\ lastData' = [lastData EXCEPT ![layer] = {}]
  /\ \/ lastData[layer] # {} /\ Reload(layer, Nothing, pending[layer] # {})
     \/ lastData[layer] = {} /\ UNCHANGED <<node, history>>
  /\ UNCHANGED <<dirty, file, pending, saveTimer, saveQueued, event, retries, spent>>

\* Half-written, perhaps: it is read again, a few times.
LoadTorn(layer) ==
  /\ loadTimer[layer] /\ file[layer] = Torn
  /\ loadTimer' = [loadTimer EXCEPT ![layer] = retries[layer] < LoadRetries]
  /\ retries' = [retries EXCEPT ![layer] = IF @ < LoadRetries THEN @ + 1 ELSE @]
  /\ UNCHANGED <<node, dirty, disk, event, history, spent>>

LoadLocked(layer) ==
  /\ LoadTimeout(layer) /\ file[layer] = Locked
  /\ UNCHANGED <<node, dirty, disk, event, retries, history, spent>>

\* Faulty variant of LoadContent: what waits to be saved is saved over what was read.
LoadKeepingPending(layer) ==
  /\ LoadTimeout(layer) /\ Readable(file[layer])
  /\ lastData' = [lastData EXCEPT ![layer] = {file[layer]}]
  /\ \/ lastData[layer] # {file[layer]} /\ Reload(layer, file[layer], FALSE)
     \/ lastData[layer] = {file[layer]} /\ UNCHANGED <<node, history>>
  /\ UNCHANGED <<dirty, file, pending, saveTimer, saveQueued, event, retries, spent>>

\* What is news takes precedence over what waits to be saved.
LoadContent(layer) ==
  /\ LoadTimeout(layer) /\ Readable(file[layer])
  /\ lastData' = [lastData EXCEPT ![layer] = {file[layer]}]
  /\ \/ /\ lastData[layer] # {file[layer]} /\ Reload(layer, file[layer], FALSE)
        /\ pending' = [pending EXCEPT ![layer] = {}]
     \/ lastData[layer] = {file[layer]} /\ UNCHANGED <<node, history, pending>>
  /\ UNCHANGED <<dirty, file, saveTimer, saveQueued, event, retries, spent>>

----------------------------------------------------------------------------
\* RootNode::load of both layers, when the overlay copied the global's values.
Fresh(val) == [val |-> val, own |-> {}, list |-> <<>>, held |-> Nothing]
Read(f) == IF Readable(f) THEN {f} ELSE {}

Init ==
  /\ file \in [Layers -> StartContents]
  /\ lastData = [l \in Layers |-> Read(file[l])]
  /\ \E g \in {SyncJson("global", Fresh(Default), Data(Read(file["global"])), Default, DefaultList)} :
       node = [global |-> g,
               overlay |-> SyncJson("overlay", Fresh(g.val), Data(Read(file["overlay"])), g.val, ValuesOf(g.list))]
  /\ dirty = [l \in Layers |-> FALSE] /\ saveTimer = dirty /\ saveQueued = dirty
  /\ event = dirty /\ loadTimer = dirty /\ astray = dirty /\ revived = dirty
  /\ pending = [l \in Layers |-> {}] /\ retries = [l \in Layers |-> 0]
  /\ spent = [writes |-> 0, mishaps |-> 0]

UserWrite(l) ==
  \/ \E k \in Options : ResetOption(l, k) \/ \E v \in Values : SetOption(l, k, v)
  \/ ResetList(l) \/ Clear(l) \/ Touch(l)
  \/ \E i \in 1 .. Len(node[l].list) + 1, v \in Values : Insert(l, i, v)
  \/ \E i \in DOMAIN node[l].list :
       \/ RemoveAtRow(l, i)
       \/ \E j \in DOMAIN node[l].list : Move(l, i, j)
       \/ \E v \in Values : SetElement(l, i, v)

Load(l) == LoadMissing(l) \/ LoadTorn(l) \/ LoadLocked(l) \/ LoadContent(l)

Next ==
  \E l \in Layers :
    \/ UserWrite(l)
    \/ \E c \in Contents : ExternalEdit(l, c)
    \/ Flush(l) \/ SaveTimeout(l) \/ WatcherEvent(l) \/ Load(l)

Spec == Init /\ [][Next]_vars

\* The event loop serves the batcher, the timers and the watcher.
FairSpec ==
  /\ Spec
  /\ \A l \in Layers :
       WF_vars(Flush(l)) /\ WF_vars(SaveTimeout(l)) /\ WF_vars(WatcherEvent(l)) /\ WF_vars(Load(l))

----------------------------------------------------------------------------
(* Properties.                                                              *)

Tree(n) ==
  /\ n.val \in [Options -> Values] /\ n.own \subseteq Options \cup {Members}
  /\ n.list \in Seq(Element) /\ DOMAIN n.held \subseteq Keys
TypeOK ==
  /\ DOMAIN node = Layers /\ \A l \in Layers : Tree(node[l])
  /\ node["overlay"].own \cap GlobalOnly = {}
  /\ DOMAIN file = Layers /\ DOMAIN lastData = Layers /\ DOMAIN pending = Layers
  /\ dirty \in [Layers -> BOOLEAN] /\ saveTimer \in [Layers -> BOOLEAN]
  /\ saveQueued \in [Layers -> BOOLEAN] /\ event \in [Layers -> BOOLEAN]
  /\ loadTimer \in [Layers -> BOOLEAN] /\ astray \in [Layers -> BOOLEAN]
  /\ revived \in [Layers -> BOOLEAN]
  /\ retries \in [Layers -> 0..LoadRetries]
  /\ \A l \in Layers : pending[l] # {} => saveTimer[l] /\ saveQueued[l]

\* What the overlay does not set itself it shows as the global layer has it, element by
\* element of a list it does not own (node.cpp:268-279, listnode.cpp:425-444).
OverlayFollows ==
  \E g \in {node["global"]}, o \in {node["overlay"]} :
    /\ \A k \in Options \ (o.own \cup GlobalOnly) : o.val[k] = g.val[k]
    /\ Members \notin o.own =>
         /\ DOMAIN o.list = DOMAIN g.list
         /\ \A i \in DOMAIN o.list : ~o.list[i].own => o.list[i].val = g.list[i].val

\* A file that can be read was read as it is, or an event or a load is still to come: no
\* edit passes unnoticed, the shell's own saves in between included
\* (settingsfile.cpp:63-97, 141-152).
NoSilentEdit ==
  \A l \in Layers : ~event[l] /\ ~loadTimer[l] =>
    /\ Readable(file[l]) => lastData[l] = {file[l]}
    /\ file[l] = Missing => lastData[l] = {}

\* With nothing left to write the file last read or saved lists just what memory would
\* save, unless memory and file were left to differ: by a save that failed, a reset list,
\* a file removed under a waiting save, or an element set in a list that follows the
\* global's (settingsfile.cpp:110-213, node.cpp:195-242).
MemoryIsOnDisk ==
  \A l \in Layers : ~dirty[l] /\ pending[l] = {} /\ ~astray[l] =>
    Json(node[l]) = Data(lastData[l])

\* A save keeps the entries of the file that the layer cannot use, whatever was written,
\* reset and loaded in between: unknown options, and an overlay's global-only ones
\* (objectnode.cpp:104-108, quarantine.cpp:19-25) - unless what is saved was waiting when the
\* file was removed and memory went back to the defaults (settingsfile.cpp:113-119).
ForeignKept ==
  [][\A l \in Layers : \A d \in {Data(lastData[l])} :
       ~revived[l] /\ file'[l] # file[l] /\ lastData'[l] # lastData[l] =>
         \A k \in DOMAIN d :
           k = Foreign \/ (l = "overlay" /\ k \in GlobalOnly) =>
             k \in DOMAIN file'[l] /\ file'[l][k] = d[k]]_vars

\* The exchange of writes, saves, events, loads and what the overlay makes of them ends
\* once users and other programs leave the settings alone (settingsfile.cpp:90-108).
Rest == \A l \in Layers : ~dirty[l] /\ ~saveTimer[l] /\ ~event[l] /\ ~loadTimer[l]
ComesToRest == <>[]Rest
=============================================================================
