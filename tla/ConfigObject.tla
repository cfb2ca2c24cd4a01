---------------------------- MODULE ConfigObject ----------------------------
(***************************************************************************)
(* One ConfigObject of the shell's configuration tree, as a value, and the  *)
(* operations of configobject.cpp / configobject.hpp on it.                 *)
(*                                                                          *)
(* An object is a record of                                                 *)
(*   value   : the members behind the CONFIG_PROPERTY declarations,         *)
(*   loaded  : m_loadedKeys, the options this object holds for itself,      *)
(*   pending : the keys of m_pendingChanges, the changes the zero-length    *)
(*             batch timer has still to announce.  The value stored beside  *)
(*             a pending key is the member's: every change of the member    *)
(*             re-inserts it.                                               *)
(* A JSON document is a function from the options it lists to values.       *)
(***************************************************************************)

CONSTANTS
  Keys,        \* the option names
  Values,      \* the values an option can take
  GlobalOnly   \* the options declared with CONFIG_GLOBAL_PROPERTY

ASSUME GlobalOnlyAssumption == GlobalOnly \subseteq Keys

Object == [value : [Keys -> Values], loaded : SUBSET Keys, pending : SUBSET Keys]

Json == UNION {[S -> Values] : S \in SUBSET Keys}

\* Every property write of the batch `json`: members that differ change and are
\* queued for announcement.  Whether the keys count as loaded is the caller's.
Written(o, json) ==
  [o EXCEPT
     !.value   = [k \in Keys |-> IF k \in DOMAIN json THEN json[k] ELSE o.value[k]],
     !.pending = @ \cup {k \in DOMAIN json : json[k] # o.value[k]}]

\* set_##name: an unchanged value changes nothing, not even the loaded mark.
SetProperty(o, k, v) ==
  IF o.value[k] = v
  THEN o
  ELSE [Written(o, [x \in {k} |-> v]) EXCEPT !.loaded = @ \cup {k}]

ClearLoadedKeys(o) == [o EXCEPT !.loaded = {}]

\* A listed key is marked loaded even when its value is the member's already.
LoadFromJson(o, json) ==
  [Written(o, json) EXCEPT !.loaded = @ \cup DOMAIN json]

\* Faulty variant of SyncFrom: global-only options are left out.
SyncOverridable(o, global, keys) ==
  Written(o, [k \in (keys \cap Keys) \ (o.loaded \cup GlobalOnly) |-> global.value[k]])

\* The writes of syncFromGlobal (keys = Keys) and onGlobalPropertiesChanged
\* (keys = the announced ones): only options the object does not hold itself,
\* and the mark the setter adds is taken off again.
SyncFrom(o, global, keys) ==
  Written(o, [k \in (keys \cap Keys) \ o.loaded |-> global.value[k]])

\* resetOption on an overlay: the mark goes, then the global's value is written
\* through the ordinary setter, which puts the mark back when the value moves.
ResetOption(o, global, k) ==
  SetProperty([o EXCEPT !.loaded = @ \ {k}], k, global.value[k])

\* toJsonObject: loaded options only, and no global-only one from an overlay.
ToJson(o, isOverlay) ==
  [k \in o.loaded \ (IF isOverlay THEN GlobalOnly ELSE {}) |-> o.value[k]]

=============================================================================
