------------------------ MODULE SettingsStoreProofs -------------------------
(***************************************************************************)
(* Proofs about SettingsStore, for any options, contents of files and       *)
(* bounds: that edits are noticed, that memory and file agree, that a save  *)
(* keeps what its layer cannot use, and that the overlay shows what it does *)
(* not set as the global layer has it.                                      *)
(***************************************************************************)
EXTENDS SettingsStore, SequenceTheorems, NaturalsInduction, WellFoundedInduction, TLAPS

\* Keys whose entries a layer never uses.
Special(l) == {Foreign} \cup IF l = "overlay" THEN GlobalOnly ELSE {}

\* A tree has its four parts, and owns nothing that it cannot use.
Shaped(l, n) ==
  /\ n = [val |-> n.val, own |-> n.own, list |-> n.list, held |-> n.held]
  /\ n.val = [k \in Options |-> n.val[k]]
  /\ n.own \subseteq (Options \cup {Members}) \ Special(l)
  /\ DOMAIN n.held \subseteq Keys /\ n.held = [k \in DOMAIN n.held |-> n.held[k]]
  /\ Members \in DOMAIN n.held => n.held[Members] = Bad

\* An object with known keys; a document is one whose entries decode or are known not to.
Object(d) ==
  /\ DOMAIN d \subseteq Keys /\ d = [k \in DOMAIN d |-> d[k]]
  /\ Members \in DOMAIN d /\ d[Members] # Bad =>
       d[Members] = [i \in DOMAIN d[Members] |-> d[Members][i]]
Decoded(d) ==
  /\ \A k \in Options \cap DOMAIN d : d[k] \in Values \cup {Bad}
  /\ Members \in DOMAIN d => d[Members] \in Seq(Values) \cup {Bad}

Optional(o) == o # {} => \E d : o = {d} /\ Object(d)

\* The same entries, as far as they are of no use.
SameSpecial(l, d, held) ==
  \A k \in Special(l) :
    /\ k \in DOMAIN d <=> k \in DOMAIN held
    /\ k \in DOMAIN d => d[k] = held[k]

Tables ==
  /\ DOMAIN node = Layers /\ DOMAIN file = Layers /\ DOMAIN lastData = Layers
  /\ DOMAIN pending = Layers
  /\ dirty \in [Layers -> BOOLEAN] /\ event \in [Layers -> BOOLEAN]
  /\ loadTimer \in [Layers -> BOOLEAN]
  /\ astray \in [Layers -> BOOLEAN] /\ revived \in [Layers -> BOOLEAN]

ShapesOK(l) ==
  /\ Shaped(l, node[l])
  /\ Readable(file[l]) => Object(file[l])
  /\ Optional(lastData[l]) /\ Optional(pending[l])

Noticed(l) ==
  ~event[l] /\ ~loadTimer[l] =>
    /\ Readable(file[l]) => lastData[l] = {file[l]}
    /\ file[l] = Missing => lastData[l] = {}

\* What memory would save is what waits to be saved or, if nothing does, what was last
\* read or saved.
Waiting(l) == IF pending[l] # {} THEN pending[l] ELSE lastData[l]
Agrees(l) == ~dirty[l] /\ ~astray[l] => Json(node[l]) = Data(Waiting(l))

\* What memory put aside is in what waits and in what was last read or saved.
Held(l) ==
  ~revived[l] =>
    /\ SameSpecial(l, Data(lastData[l]), node[l].held)
    /\ pending[l] # {} => SameSpecial(l, Data(pending[l]), node[l].held)

LayerInv(l) == ShapesOK(l) /\ Noticed(l) /\ Agrees(l) /\ Held(l)
IInv == Tables /\ \A l \in Layers : LayerInv(l)

----------------------------------------------------------------------------
(* Trees and files.                                                         *)

LEMMA DataOf == /\ Data({}) = Nothing
                /\ \A d : Data({d}) = d
BY DEF Data

LEMMA DocumentParts == ASSUME NEW d, Document(d) PROVE Object(d) /\ Decoded(d)
<1>1. \A l \in Seq(Values) : l = [i \in DOMAIN l |-> l[i]]
  OBVIOUS
<1>. QED
  BY <1>1 DEF Document, Object, Decoded

LEMMA NothingIsObject == Object(Nothing) /\ DOMAIN Nothing = {}
<1>1. DOMAIN Nothing = {}
  BY DEF Nothing
<1>2. Nothing = [k \in DOMAIN Nothing |-> Nothing[k]]
  BY DEF Nothing
<1>. QED
  BY <1>1, <1>2 DEF Object

\* What a tree would save is a document, and lists what was put aside and is of no use.
LEMMA JsonShape ==
  ASSUME NEW l \in Layers, NEW n, Shaped(l, n)
  PROVE  Object(Json(n)) /\ SameSpecial(l, Json(n), n.held)
<1> DEFINE kept == (n.own \cap Options) \cup IF HasContent(n) THEN {Members} ELSE {}
           entry(k) == IF k \notin kept THEN n.held[k]
                       ELSE IF k = Members THEN ValuesOf(n.list) ELSE n.val[k]
<1>1. Json(n) = [k \in kept \cup DOMAIN n.held |-> entry(k)]
  BY DEF Json
<1>2. DOMAIN Json(n) = kept \cup DOMAIN n.held /\ \A k \in DOMAIN Json(n) : Json(n)[k] = entry(k)
  BY <1>1
<1>3. kept \subseteq Options \cup {Members}
  OBVIOUS
<1>4. Object(Json(n))
  <2>1. DOMAIN Json(n) \subseteq Keys
    BY <1>2, <1>3 DEF Shaped, Keys
  <2>2. Json(n) = [k \in DOMAIN Json(n) |-> Json(n)[k]]
    BY <1>1
  <2>3. ASSUME Members \in DOMAIN Json(n), Json(n)[Members] # Bad
        PROVE  Json(n)[Members] = [i \in DOMAIN Json(n)[Members] |-> Json(n)[Members][i]]
    <3>1. Members \in kept
      BY <1>2, <2>3 DEF Shaped
    <3>2. Json(n)[Members] = ValuesOf(n.list)
      BY <1>2, <3>1
    <3>. QED
      BY <3>2 DEF ValuesOf
  <2>. QED
    BY <2>1, <2>2, <2>3 DEF Object
<1>5. SameSpecial(l, Json(n), n.held)
  <2>1. ASSUME NEW k \in Special(l) PROVE k \notin kept
    BY <2>1, NodeAssumption DEF Special, Shaped
  <2>. HIDE DEF kept
  <2>. QED
    BY <1>2, <2>1 DEF SameSpecial
<1>. QED
  BY <1>4, <1>5

Visited(l, d) == {k \in DOMAIN d : Usable(l, d, k)}

\* A tree that reads a document is what the document says: it would save it as it is.
LEMMA SyncResult ==
  ASSUME NEW l \in Layers, NEW n, NEW d, NEW below, NEW list, Object(d)
  PROVE  LET s == SyncJson(l, n, d, below, list)
         IN  Shaped(l, s) /\ Json(s) = d /\ SameSpecial(l, d, s.held)
<1> DEFINE s == SyncJson(l, n, d, below, list)
           visited == Visited(l, d)
           rest == DOMAIN d \ visited
<1>1. /\ s = [val |-> s.val, own |-> s.own, list |-> s.list, held |-> s.held]
      /\ s.val = [k \in Options |-> IF k \in visited THEN d[k]
                                    ELSE IF l = "overlay" /\ k \in GlobalOnly THEN n.val[k] ELSE below[k]]
      /\ s.own = visited
      /\ s.list = IF Members \in visited THEN Elements(d[Members], TRUE) ELSE Elements(list, FALSE)
      /\ s.held = [k \in rest |-> d[k]]
  BY DEF SyncJson, Visited
<1>2. visited \subseteq (Options \cup {Members}) \ Special(l) /\ visited \subseteq DOMAIN d
  BY NodeAssumption DEF Visited, Usable, Special, Object, Keys
<1>3. DOMAIN s.held = rest /\ \A k \in rest : s.held[k] = d[k]
  BY <1>1
<1>4. Members \in rest => d[Members] = Bad
  BY NodeAssumption DEF Visited, Usable
<1>5. Shaped(l, s)
  <2>1. s.val = [k \in Options |-> s.val[k]]
    BY <1>1
  <2>2. s.held = [k \in DOMAIN s.held |-> s.held[k]]
    BY <1>1
  <2>3. DOMAIN s.held \subseteq Keys
    BY <1>3 DEF Object
  <2>. HIDE DEF s, visited, rest
  <2>. QED
    BY <1>1, <1>2, <1>3, <1>4, <2>1, <2>2, <2>3 DEF Shaped
<1>6. HasContent(s) <=> Members \in visited
  <2>1. CASE Members \in visited
    BY <1>1, <2>1 DEF HasContent
  <2>2. CASE Members \notin visited
    <3>1. s.list = [i \in DOMAIN list |-> [val |-> list[i], own |-> FALSE]]
      BY <1>1, <2>2 DEF Elements
    <3>2. \A i \in DOMAIN s.list : s.list[i].own = FALSE
      BY <3>1
    <3>. HIDE DEF s, visited
    <3>. QED
      BY <1>1, <2>2, <3>2 DEF HasContent
  <2>. QED
    BY <2>1, <2>2
<1>7. Json(s) = d
  <2> DEFINE kept == (s.own \cap Options) \cup IF HasContent(s) THEN {Members} ELSE {}
             entry(k) == IF k \notin kept THEN s.held[k]
                         ELSE IF k = Members THEN ValuesOf(s.list) ELSE s.val[k]
  <2>1. kept = visited
    BY <1>1, <1>2, <1>6
  <2>2. Json(s) = [k \in kept \cup DOMAIN s.held |-> entry(k)]
    BY DEF Json
  <2>3. kept \cup DOMAIN s.held = DOMAIN d
    BY <2>1, <1>2, <1>3
  <2>4. ASSUME NEW k \in DOMAIN d PROVE entry(k) = d[k]
    <3>1. CASE k \notin visited
      BY <3>1, <2>1, <1>3
    <3>2. CASE k \in visited /\ k = Members
      <4>1. s.list = Elements(d[Members], TRUE)
        BY <1>1, <3>2
      <4>2. ValuesOf(s.list) = [i \in DOMAIN d[Members] |-> d[Members][i]]
        BY <4>1 DEF Elements, ValuesOf
      <4>3. d[Members] # Bad
        BY <3>2 DEF Visited, Usable
      <4>. QED
        BY <3>2, <2>1, <4>2, <4>3 DEF Object
    <3>3. CASE k \in visited /\ k # Members
      <4>1. k \in Options
        BY <3>3, <1>2
      <4>. QED
        BY <3>3, <4>1, <2>1, <1>1
    <3>. QED
      BY <3>1, <3>2, <3>3
  <2>5. d = [k \in DOMAIN d |-> d[k]]
    BY DEF Object
  <2>. HIDE DEF kept, entry, s
  <2>. QED
    BY <2>2, <2>3, <2>4, <2>5
<1>8. SameSpecial(l, d, s.held)
  BY <1>2, <1>3 DEF SameSpecial
<1>. QED
  BY <1>5, <1>7, <1>8

----------------------------------------------------------------------------
(* Memory.                                                                  *)

\* A layer keeps what it put aside, and has something to save if that has changed.
Kept(l) ==
  /\ Shaped(l, node'[l])
  /\ SameSpecial(l, node[l].held, node'[l].held)
  /\ ~dirty'[l] /\ ~astray'[l] => ~dirty[l] /\ ~astray[l] /\ Json(node'[l]) = Json(node[l])

\* What becomes of the layers when one of them changes.
LEMMA ChangedResult ==
  ASSUME Tables, \A l \in Layers : Shaped(l, node[l]),
         NEW layer \in Layers, NEW n, NEW change, NEW strayed \in BOOLEAN,
         Shaped(layer, n), Changed(layer, n, change, strayed)
  PROVE  /\ DOMAIN node' = Layers /\ astray' \in [Layers -> BOOLEAN]
         /\ node'[layer] = n /\ astray'[layer] = strayed
         /\ \A l \in Layers \ {layer} :
              /\ Shaped(l, node'[l]) /\ node'[l].held = node[l].held
              /\ ~astray'[l] => ~astray[l] /\ Json(node'[l]) = Json(node[l])
<1>1. CASE layer = "overlay"
  <2>1. node' = [node EXCEPT !["overlay"] = n] /\ astray' = [astray EXCEPT !["overlay"] = strayed]
    BY <1>1 DEF Changed
  <2>. QED
    BY <1>1, <2>1 DEF Tables, Layers
<1>2. CASE layer = "global"
  <2> DEFINE b == node["overlay"]
             o == Mirrored(b, n)
  <2>1. PICK m \in {IF Members \in o.own THEN o ELSE [o EXCEPT !.list = Followed(@, change, n.list)]} :
          /\ node' = [global |-> n, overlay |-> m]
          /\ astray' = [global |-> strayed, overlay |-> astray["overlay"] \/ Json(m) # Json(b)]
    BY <1>2 DEF Changed
  <2>2. Shaped("overlay", b)
    BY DEF Layers
  <2>3. /\ o = [val |-> o.val, own |-> b.own, list |-> b.list, held |-> b.held]
        /\ o.val = [k \in Options |-> o.val[k]]
    BY <2>2 DEF Shaped, Mirrored
  <2>4. /\ m = [val |-> o.val, own |-> b.own, list |-> m.list, held |-> b.held]
    <3>. HIDE DEF o
    <3>. QED
      BY <2>1, <2>3
  <2>5. Shaped("overlay", m) /\ m.held = b.held
    <3>. HIDE DEF o, b
    <3>. QED
      BY <2>2, <2>3, <2>4 DEF Shaped
  <2>6. /\ DOMAIN node' = Layers /\ node'["global"] = n /\ node'["overlay"] = m
        /\ astray' \in [Layers -> BOOLEAN] /\ astray'["global"] = strayed
        /\ astray'["overlay"] = (astray["overlay"] \/ Json(m) # Json(b))
    <3>. DEFINE strays == Json(m) # Json(b)
    <3>1. strays \in BOOLEAN /\ astray["overlay"] \in BOOLEAN
      BY DEF Tables, Layers
    <3>2. astray' = [global |-> strayed, overlay |-> astray["overlay"] \/ strays]
      BY <2>1
    <3>3. DOMAIN node' = Layers /\ node'["global"] = n /\ node'["overlay"] = m
      BY <2>1 DEF Layers
    <3>. HIDE DEF strays
    <3>4. /\ astray' \in [Layers -> BOOLEAN] /\ astray'["global"] = strayed
          /\ astray'["overlay"] = (astray["overlay"] \/ strays)
      BY <3>1, <3>2 DEF Layers
    <3>. QED
      BY <3>3, <3>4 DEF strays
  <2>7. \A l \in Layers \ {layer} : l = "overlay"
    BY <1>2 DEF Layers
  <2>. QED
    BY <1>2, <2>5, <2>6, <2>7
<1>. QED
  BY <1>1, <1>2 DEF Layers

\* A layer whose file and timers stay, and whose memory is kept.
SameDisk(l) ==
  /\ file'[l] = file[l] /\ lastData'[l] = lastData[l] /\ pending'[l] = pending[l]
  /\ event'[l] = event[l] /\ loadTimer'[l] = loadTimer[l] /\ revived'[l] = revived[l]

LEMMA LayerKept ==
  ASSUME NEW l \in Layers, LayerInv(l), Kept(l), SameDisk(l)
  PROVE  LayerInv(l)'
<1>1. ShapesOK(l)'
  BY DEF LayerInv, ShapesOK, Kept, SameDisk
<1>2. Noticed(l)'
  BY DEF LayerInv, Noticed, SameDisk
<1>3. Agrees(l)'
  BY DEF LayerInv, Agrees, Waiting, Kept, SameDisk
<1>4. Held(l)'
  BY DEF LayerInv, Held, SameSpecial, Kept, SameDisk
<1>. QED
  BY <1>1, <1>2, <1>3, <1>4 DEF LayerInv

\* A layer that stays as it is.
Same(l) == node'[l] = node[l] /\ dirty'[l] = dirty[l] /\ astray'[l] = astray[l]

LEMMA SameKept ==
  ASSUME NEW l \in Layers, LayerInv(l), Same(l)
  PROVE  Kept(l)
  BY DEF Same, Kept, SameSpecial, LayerInv, ShapesOK

\* A step of memory alone.
LEMMA MemoryStep ==
  ASSUME IInv, UNCHANGED <<disk, loads, revived>>,
         DOMAIN node' = Layers, dirty' \in [Layers -> BOOLEAN], astray' \in [Layers -> BOOLEAN],
         \A l \in Layers : Kept(l)
  PROVE  IInv'
<1>1. Tables'
  BY DEF IInv, Tables, disk, loads
<1>2. ASSUME NEW l \in Layers PROVE LayerInv(l)'
  <2>1. SameDisk(l)
    BY DEF SameDisk, disk, loads
  <2>. QED
    BY <2>1, LayerKept DEF IInv
<1>. QED
  BY <1>1, <1>2 DEF IInv

\* A change of one layer by its user: what it put aside and is of no use stays, and if what
\* it would save has changed it is dirty or astray.
LEMMA WriteStep ==
  ASSUME IInv, UNCHANGED <<disk, loads, revived>>,
         NEW layer \in Layers, NEW n, NEW change, NEW is \in BOOLEAN, NEW strayed \in BOOLEAN,
         Shaped(layer, n), SameSpecial(layer, node[layer].held, n.held),
         Changed(layer, n, change, strayed), astray[layer] => strayed,
         dirty' = [dirty EXCEPT ![layer] = @ \/ is],
         ~is /\ ~strayed => Json(n) = Json(node[layer])
  PROVE  IInv'
<1>1. Tables /\ \A l \in Layers : Shaped(l, node[l])
  BY DEF IInv, LayerInv, ShapesOK
<1>3. /\ DOMAIN node' = Layers /\ astray' \in [Layers -> BOOLEAN]
      /\ node'[layer] = n /\ astray'[layer] = strayed
      /\ \A l \in Layers \ {layer} :
           /\ Shaped(l, node'[l]) /\ node'[l].held = node[l].held
           /\ ~astray'[l] => ~astray[l] /\ Json(node'[l]) = Json(node[l])
  BY <1>1, ChangedResult
<1>4. /\ dirty' \in [Layers -> BOOLEAN]
      /\ dirty'[layer] = (dirty[layer] \/ is)
      /\ \A l \in Layers \ {layer} : dirty'[l] = dirty[l]
  BY <1>1 DEF Tables
<1>5. ASSUME NEW l \in Layers \ {layer} PROVE Kept(l)
  BY <1>3, <1>4, <1>5 DEF Kept, SameSpecial
<1>6. Kept(layer)
  BY <1>3, <1>4 DEF Kept
<1>. QED
  BY <1>3, <1>4, <1>5, <1>6, MemoryStep

\* An option that may be written is not of the keys that are of no use.
LEMMA AllowedKey ==
  ASSUME NEW layer \in Layers, NEW k \in Options, Allowed(layer, k)
  PROVE  k \notin Special(layer) /\ k # Members
  BY NodeAssumption DEF Allowed, Special

\* A write and a reset: what they return, and that they record what they change.
LEMMA WrittenResult ==
  ASSUME NEW layer \in Layers, NEW n, Shaped(layer, n), NEW k \in Options, NEW v,
         Allowed(layer, k), NEW w \in {Write(n, k, v), ResetTo(n, k, v)}
  PROVE  /\ Shaped(layer, w) /\ SameSpecial(layer, n.held, w.held)
         /\ Recorded(n, w, k) \in BOOLEAN
         /\ ~Recorded(n, w, k) => w = n
<1>1. k \notin Special(layer) /\ k # Members
  BY AllowedKey
<1>2. /\ w = [val |-> [n.val EXCEPT ![k] = v], own |-> w.own, list |-> n.list, held |-> Forget(n.held, k)]
      /\ w.own \in {n.own \cup {k}, n.own \ {k}}
  BY DEF Write, ResetTo, Shaped
<1>3. /\ DOMAIN w.held = DOMAIN n.held \ {k} /\ w.held = [x \in DOMAIN w.held |-> w.held[x]]
      /\ \A x \in DOMAIN w.held : w.held[x] = n.held[x]
  BY <1>2 DEF Forget
<1>4. w.val = [x \in Options |-> w.val[x]] /\ \A x \in Options : w.val[x] = IF x = k THEN v ELSE n.val[x]
  BY <1>2 DEF Shaped
<1>5. Shaped(layer, w)
  BY <1>1, <1>2, <1>3, <1>4 DEF Shaped
<1>6. SameSpecial(layer, n.held, w.held)
  BY <1>1, <1>3 DEF SameSpecial
<1>7. ASSUME ~Recorded(n, w, k) PROVE w = n
  <2>1. w.val[k] = n.val[k] /\ (k \in n.own <=> k \in w.own) /\ k \notin DOMAIN n.held
    BY <1>7 DEF Recorded
  <2>2. w.val = n.val
    BY <2>1, <1>4 DEF Shaped
  <2>3. w.own = n.own
    BY <2>1, <1>2
  <2>4. w.held = n.held
    BY <2>1, <1>3 DEF Shaped
  <2>. QED
    BY <2>2, <2>3, <2>4, <1>2 DEF Shaped
<1>. QED
  BY <1>5, <1>6, <1>7 DEF Recorded

LEMMA OptionSet ==
  ASSUME IInv, NEW layer \in Layers, NEW k \in Options, NEW v, SetOption(layer, k, v)
  PROVE  IInv'
<1>. DEFINE n == Write(node[layer], k, v)
<1>1. Tables /\ Shaped(layer, node[layer]) /\ astray[layer] \in BOOLEAN
  BY DEF IInv, LayerInv, ShapesOK, Tables
<1>2. /\ Allowed(layer, k) /\ UNCHANGED <<disk, loads, revived>>
      /\ Changed(layer, n, NoChange, astray[layer])
      /\ dirty' = [dirty EXCEPT ![layer] = @ \/ Recorded(node[layer], n, k)]
  BY DEF SetOption, Dirtied
<1>3. /\ Shaped(layer, n) /\ SameSpecial(layer, node[layer].held, n.held)
      /\ Recorded(node[layer], n, k) \in BOOLEAN
      /\ ~Recorded(node[layer], n, k) => n = node[layer]
  BY <1>1, <1>2, WrittenResult
<1>. HIDE DEF n
<1>. QED
  BY <1>1, <1>2, <1>3, WriteStep

LEMMA OptionReset ==
  ASSUME IInv, NEW layer \in Layers, NEW k \in Options, ResetOption(layer, k)
  PROVE  IInv'
<1>. DEFINE v == IF layer = "overlay" THEN node["global"].val[k] ELSE Default[k]
            n == ResetTo(node[layer], k, v)
<1>1. Tables /\ Shaped(layer, node[layer]) /\ astray[layer] \in BOOLEAN
  BY DEF IInv, LayerInv, ShapesOK, Tables
<1>2. /\ Allowed(layer, k) /\ UNCHANGED <<disk, loads, revived>>
      /\ Changed(layer, n, NoChange, astray[layer])
      /\ dirty' = [dirty EXCEPT ![layer] = @ \/ Recorded(node[layer], n, k)]
  BY DEF ResetOption, Dirtied
<1>. HIDE DEF v
<1>3. /\ Shaped(layer, n) /\ SameSpecial(layer, node[layer].held, n.held)
      /\ Recorded(node[layer], n, k) \in BOOLEAN
      /\ ~Recorded(node[layer], n, k) => n = node[layer]
  BY <1>1, <1>2, WrittenResult
<1>. HIDE DEF n
<1>. QED
  BY <1>1, <1>2, <1>3, WriteStep

\* A tree whose list changes and is the layer's own, or is not any more.
LEMMA Relisted ==
  ASSUME NEW layer \in Layers, NEW n, Shaped(layer, n), NEW list, NEW own,
         own \in {n.own \cup {Members}, n.own \ {Members}, n.own}
  PROVE  LET w == [n EXCEPT !.list = list, !.own = own]
         IN  Shaped(layer, w) /\ SameSpecial(layer, n.held, w.held)
<1>. DEFINE w == [n EXCEPT !.list = list, !.own = own]
<1>1. w = [val |-> n.val, own |-> own, list |-> list, held |-> n.held]
  <2>1. DOMAIN n = {"val", "own", "list", "held"}
    BY DEF Shaped
  <2>2. DOMAIN w = DOMAIN n /\ w["val"] = n.val /\ w["own"] = own /\ w["list"] = list /\ w["held"] = n.held
    BY <2>1
  <2>3. w = [f \in {"val", "own", "list", "held"} |-> w[f]]
    BY <2>1
  <2>. HIDE DEF w
  <2>. QED
    BY <2>1, <2>2, <2>3
<1>2. Members \notin Special(layer)
  BY NodeAssumption DEF Special
<1>. HIDE DEF w
<1>3. Shaped(layer, w)
  BY <1>1, <1>2 DEF Shaped
<1>4. w.held = n.held
  BY <1>1
<1>. QED
  BY <1>3, <1>4 DEF SameSpecial, w

LEMMA ListReset ==
  ASSUME IInv, NEW layer \in Layers, ResetList(layer)
  PROVE  IInv'
<1>1. Tables /\ Shaped(layer, node[layer])
  BY DEF IInv, LayerInv, ShapesOK
<1>2. PICK list \in {IF layer = "overlay" THEN ValuesOf(node["global"].list) ELSE DefaultList} :
        \E n \in {[node[layer] EXCEPT !.list = Elements(list, FALSE), !.own = @ \ {Members}]} :
          Changed(layer, n, Replaced(node[layer].list, n.list),
                  astray[layer] \/ Json(n) # Json(node[layer]))
  BY DEF ResetList
<1>. DEFINE new == Elements(list, FALSE)
            own == node[layer].own \ {Members}
            n == [node[layer] EXCEPT !.list = new, !.own = own]
            differs == Json(n) # Json(node[layer])
            strayed == astray[layer] \/ differs
<1>3. Changed(layer, n, Replaced(node[layer].list, n.list), strayed)
  <2>1. [node[layer] EXCEPT !.list = new, !.own = @ \ {Members}] = n
    BY <1>1 DEF Shaped
  <2>. QED
    BY <1>2, <2>1
<1>4. UNCHANGED <<dirty, disk, loads, revived>>
  BY DEF ResetList
<1>5. dirty' = [dirty EXCEPT ![layer] = @ \/ FALSE]
  BY <1>1, <1>4 DEF Tables
<1>6. Shaped(layer, n) /\ SameSpecial(layer, node[layer].held, n.held)
  <2>. HIDE DEF new
  <2>. QED
    BY <1>1, Relisted
<1>7. differs \in BOOLEAN /\ astray[layer] \in BOOLEAN
  BY <1>1 DEF Tables
<1>8. ~differs => Json(n) = Json(node[layer])
  OBVIOUS
<1>. HIDE DEF differs, n
<1>9. strayed \in BOOLEAN /\ (astray[layer] => strayed) /\ (~strayed => Json(n) = Json(node[layer]))
  BY <1>7, <1>8
<1>. HIDE DEF strayed
<1>. QED
  BY <1>3, <1>4, <1>5, <1>6, <1>9, WriteStep

LEMMA ListWritten ==
  ASSUME IInv, NEW layer \in Layers, NEW list, NEW change, ListChanged(layer, list, change)
  PROVE  IInv'
<1>. DEFINE own == node[layer].own \cup {Members}
            n == [node[layer] EXCEPT !.list = list, !.own = own]
<1>1. Tables /\ Shaped(layer, node[layer]) /\ astray[layer] \in BOOLEAN
  BY DEF IInv, LayerInv, ShapesOK, Tables
<1>2. [node[layer] EXCEPT !.list = list, !.own = @ \cup {Members}] = n
  BY <1>1 DEF Shaped
<1>3. /\ Changed(layer, n, change, astray[layer])
      /\ dirty' = [dirty EXCEPT ![layer] = @ \/ TRUE] /\ UNCHANGED <<disk, loads, revived>>
  BY <1>2 DEF ListChanged, Dirtied
<1>4. Shaped(layer, n) /\ SameSpecial(layer, node[layer].held, n.held)
  BY <1>1, Relisted
<1>. HIDE DEF n
<1>. QED
  BY <1>1, <1>3, <1>4, WriteStep

LEMMA ListTouched ==
  ASSUME IInv, NEW layer \in Layers, Touch(layer)
  PROVE  IInv'
<1>. DEFINE list == node[layer].list
            own == node[layer].own \cup {Members}
            n == [node[layer] EXCEPT !.list = list, !.own = own]
            is == Members \notin node[layer].own
<1>1. Tables /\ Shaped(layer, node[layer]) /\ astray[layer] \in BOOLEAN
  BY DEF IInv, LayerInv, ShapesOK, Tables
<1>2. [node[layer] EXCEPT !.own = @ \cup {Members}] = n
  BY <1>1 DEF Shaped
<1>3. /\ Changed(layer, n, NoChange, astray[layer])
      /\ dirty' = [dirty EXCEPT ![layer] = @ \/ is] /\ UNCHANGED <<disk, loads, revived>>
  BY <1>2 DEF Touch, Dirtied
<1>4. Shaped(layer, n) /\ SameSpecial(layer, node[layer].held, n.held)
  BY <1>1, Relisted
<1>5. ~is => n = node[layer]
  <2>1. ~is => own = node[layer].own
    OBVIOUS
  <2>. HIDE DEF own
  <2>. QED
    BY <1>1, <2>1 DEF Shaped
<1>6. is \in BOOLEAN
  OBVIOUS
<1>. HIDE DEF n, is
<1>. QED
  BY <1>1, <1>3, <1>4, <1>5, <1>6, WriteStep

LEMMA ElementSet ==
  ASSUME IInv, NEW layer \in Layers, NEW i, NEW v, SetElement(layer, i, v)
  PROVE  IInv'
<1>. DEFINE mark == [val |-> v, own |-> TRUE]
            o == node["overlay"]
            new == [node[layer].list EXCEPT ![i] = mark]
            n == [node[layer] EXCEPT !.list = new, !.own = node[layer].own]
            follows == [o.list EXCEPT ![i].val = v]
            f == [o EXCEPT !.list = follows, !.own = o.own]
<1>1. /\ Tables /\ Shaped(layer, node[layer]) /\ Shaped("overlay", o) /\ LayerInv(layer)
      /\ "overlay" \in Layers
  BY DEF IInv, LayerInv, ShapesOK, Layers
<1>2. [node[layer] EXCEPT !.list[i] = mark] = n /\ [o EXCEPT !.list[i].val = v] = f
  BY <1>1 DEF Shaped
<1>3. PICK m \in {IF layer = "overlay" THEN n ELSE IF Members \in o.own \/ o.list[i].own THEN o ELSE f} :
        /\ node' = [node EXCEPT ![layer] = n, !["overlay"] = m]
        /\ Dirtied(layer, n # node[layer])
        /\ astray' = [astray EXCEPT !["overlay"] = @ \/ (layer = "global" /\ Json(m) # Json(o))]
        /\ UNCHANGED <<disk, loads, revived>>
  BY <1>2 DEF SetElement
<1>4. Shaped(layer, n) /\ SameSpecial(layer, node[layer].held, n.held)
  <2>. HIDE DEF new
  <2>. QED
    BY <1>1, Relisted
<1>5. Shaped("overlay", f) /\ SameSpecial("overlay", o.held, f.held)
  <2>. HIDE DEF follows
  <2>. QED
    BY <1>1, Relisted
<1>6. SameSpecial("overlay", o.held, o.held)
  BY DEF SameSpecial
<1>. DEFINE is == n # node[layer]
            strays == layer = "global" /\ Json(m) # Json(o)
<1>7. /\ is \in BOOLEAN /\ strays \in BOOLEAN
      /\ dirty' = [dirty EXCEPT ![layer] = @ \/ is]
      /\ astray' = [astray EXCEPT !["overlay"] = @ \/ strays]
  BY <1>3 DEF Dirtied
<1>8. /\ ~is => n = node[layer]
      /\ layer = "global" /\ ~strays => Json(m) = Json(o)
  OBVIOUS
<1>. HIDE DEF n, f, is, strays
<1>9. /\ dirty' \in [Layers -> BOOLEAN] /\ astray' \in [Layers -> BOOLEAN] /\ DOMAIN node' = Layers
      /\ dirty'[layer] = (dirty[layer] \/ is) /\ astray'["overlay"] = (astray["overlay"] \/ strays)
      /\ \A l \in Layers \ {layer} : dirty'[l] = dirty[l]
      /\ \A l \in Layers \ {"overlay"} : astray'[l] = astray[l]
  BY <1>1, <1>3, <1>7 DEF Tables
<1>10. CASE layer = "overlay"
  <2>1. node'["overlay"] = n /\ node'["global"] = node["global"]
    BY <1>1, <1>3, <1>10 DEF Tables, Layers
  <2>2. Kept("overlay")
    BY <2>1, <1>4, <1>8, <1>9, <1>10 DEF Kept
  <2>3. Same("global") /\ "global" \in Layers
    BY <2>1, <1>9, <1>10 DEF Same, Layers
  <2>4. Kept("global")
    BY <2>3, SameKept DEF IInv
  <2>. QED
    BY <2>2, <2>4, <1>3, <1>9, MemoryStep DEF Layers
<1>11. CASE layer = "global"
  <2>1. node'["global"] = n /\ node'["overlay"] = m /\ m \in {o, f}
    BY <1>1, <1>3, <1>11 DEF Tables, Layers
  <2>2. Kept("global")
    BY <2>1, <1>4, <1>8, <1>9, <1>11 DEF Kept, Layers
  <2>3. Shaped("overlay", m) /\ SameSpecial("overlay", o.held, m.held)
    BY <2>1, <1>1, <1>5, <1>6
  <2>4. dirty'["overlay"] = dirty["overlay"]
    BY <1>9, <1>11 DEF Layers
  <2>5. Kept("overlay")
    BY <2>1, <2>3, <2>4, <1>8, <1>9, <1>11 DEF Kept
  <2>. QED
    BY <2>2, <2>5, <1>3, <1>9, MemoryStep DEF Layers
<1>. QED
  BY <1>10, <1>11 DEF Layers

----------------------------------------------------------------------------
(* Saving.                                                                  *)

\* A layer that nothing happens to.
LEMMA LayerStays ==
  ASSUME NEW l \in Layers, LayerInv(l), Same(l), SameDisk(l)
  PROVE  LayerInv(l)'
  BY SameKept, LayerKept

\* A save of what memory would save, or what has been waiting.
LEMMA FileWritten ==
  ASSUME IInv, NEW layer \in Layers, NEW json, NEW strayed \in BOOLEAN,
         WriteFile(layer, json, strayed), UNCHANGED <<node, loadTimer, revived>>,
         dirty' \in [Layers -> BOOLEAN], \A l \in Layers \ {layer} : dirty'[l] = dirty[l],
         Object(json), ~revived[layer] => SameSpecial(layer, json, node[layer].held),
         ~strayed /\ ~dirty'[layer] => Json(node[layer]) = json
  PROVE  IInv'
<1>1. Tables /\ LayerInv(layer)
  BY DEF IInv
<1>2. pending' = [pending EXCEPT ![layer] = {}]
  BY DEF WriteFile
<1>3. CASE /\ file' = [file EXCEPT ![layer] = json]
           /\ lastData' = [lastData EXCEPT ![layer] = {json}]
           /\ event' = [event EXCEPT ![layer] = TRUE]
           /\ astray' = [astray EXCEPT ![layer] = strayed]
  <2>1. Tables'
    BY <1>1, <1>2, <1>3 DEF Tables
  <2>2. ASSUME NEW l \in Layers \ {layer} PROVE LayerInv(l)'
    <3>1. Same(l) /\ SameDisk(l)
      BY <1>1, <1>2, <1>3 DEF Tables, Same, SameDisk
    <3>. QED
      BY <3>1, LayerStays DEF IInv
  <2>3. /\ file'[layer] = json /\ lastData'[layer] = {json} /\ pending'[layer] = {}
        /\ event'[layer] = TRUE /\ astray'[layer] = strayed /\ node' = node
    BY <1>1, <1>2, <1>3 DEF Tables
  <2>4. ShapesOK(layer)'
    BY <1>1, <2>3 DEF LayerInv, ShapesOK, Optional
  <2>5. Noticed(layer)'
    BY <2>3 DEF Noticed
  <2>6. Agrees(layer)'
    BY <2>3, DataOf DEF Agrees, Waiting
  <2>7. Held(layer)'
    BY <2>3, DataOf DEF Held
  <2>. QED
    BY <2>1, <2>2, <2>4, <2>5, <2>6, <2>7 DEF IInv, LayerInv
<1>4. CASE astray' = [astray EXCEPT ![layer] = TRUE] /\ UNCHANGED <<file, lastData, event>>
  <2>1. Tables'
    BY <1>1, <1>2, <1>4 DEF Tables
  <2>2. ASSUME NEW l \in Layers \ {layer} PROVE LayerInv(l)'
    <3>1. Same(l) /\ SameDisk(l)
      BY <1>1, <1>2, <1>4 DEF Tables, Same, SameDisk
    <3>. QED
      BY <3>1, LayerStays DEF IInv
  <2>3. pending'[layer] = {} /\ astray'[layer] = TRUE /\ node' = node
    BY <1>1, <1>2, <1>4 DEF Tables
  <2>4. ShapesOK(layer)'
    BY <1>1, <1>4, <2>3 DEF LayerInv, ShapesOK, Optional
  <2>5. Noticed(layer)'
    BY <1>1, <1>4 DEF LayerInv, Noticed
  <2>6. Agrees(layer)'
    BY <2>3 DEF Agrees
  <2>7. Held(layer)'
    BY <1>1, <1>4, <2>3 DEF LayerInv, Held
  <2>. QED
    BY <2>1, <2>2, <2>4, <2>5, <2>6, <2>7 DEF IInv, LayerInv
<1>. QED
  BY <1>3, <1>4 DEF WriteFile

LEMMA Flushed ==
  ASSUME IInv, NEW layer \in Layers, Flush(layer)
  PROVE  IInv'
<1>. DEFINE json == Json(node[layer])
<1>1. Tables /\ LayerInv(layer)
  BY DEF IInv
<1>2. /\ dirty' = [dirty EXCEPT ![layer] = FALSE]
      /\ UNCHANGED <<node, loadTimer, retries, revived>>
  BY DEF Flush
<1>3. Object(json) /\ SameSpecial(layer, json, node[layer].held)
  BY <1>1, JsonShape DEF LayerInv, ShapesOK
<1>4. /\ dirty' \in [Layers -> BOOLEAN] /\ \A l \in Layers \ {layer} : dirty'[l] = dirty[l]
      /\ dirty'[layer] = FALSE
  BY <1>1, <1>2 DEF Tables
<1>5. CASE /\ pending' = [pending EXCEPT ![layer] = {json}]
           /\ astray' = [astray EXCEPT ![layer] = FALSE]
           /\ UNCHANGED <<file, lastData, event>>
  <2>1. Tables'
    BY <1>1, <1>2, <1>4, <1>5 DEF Tables
  <2>2. ASSUME NEW l \in Layers \ {layer} PROVE LayerInv(l)'
    <3>1. Same(l) /\ SameDisk(l)
      BY <1>1, <1>2, <1>4, <1>5 DEF Tables, Same, SameDisk
    <3>. QED
      BY <3>1, LayerStays DEF IInv
  <2>3. pending'[layer] = {json} /\ astray'[layer] = FALSE
    BY <1>1, <1>5 DEF Tables
  <2>4. ShapesOK(layer)'
    BY <1>1, <1>2, <1>3, <1>5, <2>3 DEF LayerInv, ShapesOK, Optional
  <2>5. Noticed(layer)'
    BY <1>1, <1>2, <1>5 DEF LayerInv, Noticed
  <2>6. Agrees(layer)'
    BY <1>2, <2>3, DataOf DEF Agrees, Waiting
  <2>7. Held(layer)'
    BY <1>1, <1>2, <1>3, <1>5, <2>3, DataOf DEF LayerInv, Held
  <2>. QED
    BY <2>1, <2>2, <2>4, <2>5, <2>6, <2>7 DEF IInv, LayerInv
<1>6. CASE WriteFile(layer, json, FALSE)
  BY <1>2, <1>3, <1>4, <1>6, FileWritten
<1>. QED
  BY <1>5, <1>6 DEF Flush

LEMMA Saved ==
  ASSUME IInv, NEW layer \in Layers, SaveTimeout(layer)
  PROVE  IInv'
<1>1. Tables /\ LayerInv(layer) /\ astray[layer] \in BOOLEAN
  BY DEF IInv, Tables
<1>2. UNCHANGED <<node, dirty, loadTimer, retries, revived>>
  BY DEF SaveTimeout
<1>3. ASSUME NEW json \in pending[layer], WriteFile(layer, json, astray[layer]) PROVE IInv'
  <2>1. pending[layer] = {json} /\ Object(json)
    BY <1>1, <1>3 DEF LayerInv, ShapesOK, Optional
  <2>2. Data(pending[layer]) = json /\ Waiting(layer) = pending[layer]
    BY <2>1, DataOf DEF Waiting
  <2>3. ~revived[layer] => SameSpecial(layer, json, node[layer].held)
    BY <1>1, <2>1, <2>2 DEF LayerInv, Held
  <2>4. ~astray[layer] /\ ~dirty[layer] => Json(node[layer]) = json
    BY <1>1, <2>2 DEF LayerInv, Agrees
  <2>5. dirty' \in [Layers -> BOOLEAN] /\ \A l \in Layers : dirty'[l] = dirty[l]
    BY <1>1, <1>2 DEF Tables
  <2>. QED
    BY <1>1, <1>2, <1>3, <2>1, <2>3, <2>4, <2>5, FileWritten
<1>4. CASE UNCHANGED <<file, lastData, pending, event, astray, spent>>
  <2>1. Tables'
    BY <1>1, <1>2, <1>4 DEF Tables
  <2>2. ASSUME NEW l \in Layers PROVE LayerInv(l)'
    <3>1. Same(l) /\ SameDisk(l)
      BY <1>2, <1>4 DEF Same, SameDisk
    <3>. QED
      BY <3>1, LayerStays DEF IInv
  <2>. QED
    BY <2>1, <2>2 DEF IInv
<1>. QED
  BY <1>3, <1>4 DEF SaveTimeout

----------------------------------------------------------------------------
(* Loading.                                                                 *)

\* A layer reads a document, and the other one may follow.
LEMMA Reloaded ==
  ASSUME IInv, NEW layer \in Layers, NEW json, Object(json), NEW survives \in BOOLEAN,
         Reload(layer, json, survives), UNCHANGED <<dirty, file, event>>,
         NEW read, lastData' = [lastData EXCEPT ![layer] = read],
         Optional(read), Data(read) = json,
         Readable(file[layer]) => read = {file[layer]},
         file[layer] = Missing => read = {},
         loadTimer' = [loadTimer EXCEPT ![layer] = FALSE],
         DOMAIN pending' = Layers, \A l \in Layers \ {layer} : pending'[l] = pending[l],
         Optional(pending'[layer]), ~survives => pending'[layer] = {}
  PROVE  IInv'
<1>1. Tables /\ LayerInv(layer) /\ \A l \in Layers : Shaped(l, node[l])
  BY DEF IInv, LayerInv, ShapesOK
<1>2. PICK n \in {Synced(layer, json)} : Changed(layer, n, Replaced(node[layer].list, n.list), survives)
  BY DEF Reload
<1>3. revived' = [revived EXCEPT ![layer] = survives]
  BY DEF Reload
<1>4. Shaped(layer, n) /\ Json(n) = json /\ SameSpecial(layer, json, n.held)
  BY <1>2, SyncResult DEF Synced
<1>5. /\ DOMAIN node' = Layers /\ astray' \in [Layers -> BOOLEAN]
      /\ node'[layer] = n /\ astray'[layer] = survives
      /\ \A l \in Layers \ {layer} :
           /\ Shaped(l, node'[l]) /\ node'[l].held = node[l].held
           /\ ~astray'[l] => ~astray[l] /\ Json(node'[l]) = Json(node[l])
  BY <1>1, <1>2, <1>4, ChangedResult
<1>6. Tables'
  BY <1>1, <1>3, <1>5 DEF Tables
<1>7. ASSUME NEW l \in Layers \ {layer} PROVE LayerInv(l)'
  <2>1. SameDisk(l)
    BY <1>1, <1>3 DEF Tables, SameDisk
  <2>2. Kept(l)
    BY <1>5 DEF Kept, SameSpecial
  <2>. QED
    BY <2>1, <2>2, LayerKept DEF IInv
<1>8. /\ lastData'[layer] = read /\ loadTimer'[layer] = FALSE
      /\ revived'[layer] = survives /\ file' = file
  BY <1>1, <1>3 DEF Tables
<1>9. ShapesOK(layer)'
  BY <1>1, <1>4, <1>5, <1>8 DEF LayerInv, ShapesOK
<1>10. Noticed(layer)'
  BY <1>8 DEF Noticed
<1>11. Agrees(layer)'
  BY <1>4, <1>5, <1>8 DEF Agrees, Waiting
<1>12. Held(layer)'
  BY <1>4, <1>5, <1>8 DEF Held
<1>. QED
  BY <1>6, <1>7, <1>9, <1>10, <1>11, <1>12 DEF IInv, LayerInv

\* A timer or the watcher, or an edit, that leaves memory as it is.
LEMMA MemoryStays ==
  ASSUME IInv, NEW layer \in Layers, UNCHANGED <<node, dirty, astray, revived, pending>>,
         Tables', \A l \in Layers \ {layer} : SameDisk(l), lastData'[layer] = lastData[layer],
         Readable(file'[layer]) => Object(file'[layer]), Noticed(layer)'
  PROVE  IInv'
<1>1. ASSUME NEW l \in Layers \ {layer} PROVE LayerInv(l)'
  <2>1. Same(l) /\ SameDisk(l)
    BY DEF Same
  <2>. QED
    BY <2>1, LayerStays DEF IInv
<1>2. LayerInv(layer)
  BY DEF IInv
<1>3. ShapesOK(layer)' /\ Agrees(layer)' /\ Held(layer)'
  BY <1>2 DEF LayerInv, ShapesOK, Agrees, Waiting, Held
<1>. QED
  BY <1>1, <1>3 DEF IInv, LayerInv

LEMMA Loaded ==
  ASSUME IInv, NEW layer \in Layers, Load(layer)
  PROVE  IInv'
<1>1. Tables /\ LayerInv(layer)
  BY DEF IInv
<1>2. Readable(file[layer]) => Object(file[layer]) /\ file[layer] # Missing
  BY <1>1 DEF LayerInv, ShapesOK, Readable
<1>3. CASE LoadMissing(layer)
  <2>1. /\ loadTimer' = [loadTimer EXCEPT ![layer] = FALSE] /\ file[layer] = Missing
        /\ lastData' = [lastData EXCEPT ![layer] = {}]
        /\ UNCHANGED <<dirty, file, pending, event>>
    BY <1>3 DEF LoadMissing, LoadTimeout
  <2>2. DOMAIN pending' = Layers /\ \A l \in Layers : pending'[l] = pending[l]
    BY <1>1, <2>1 DEF Tables
  <2>3. ~Readable(file[layer]) /\ Optional({}) /\ Optional(pending[layer])
    BY <1>1, <2>1 DEF Readable, Optional, LayerInv, ShapesOK
  <2>4. CASE Reload(layer, Nothing, pending[layer] # {})
    <3>. DEFINE survives == pending[layer] # {}
    <3>1. survives \in BOOLEAN /\ (~survives => pending[layer] = {})
      OBVIOUS
    <3>2. Reload(layer, Nothing, survives)
      BY <2>4
    <3>. HIDE DEF survives
    <3>. QED
      BY <2>1, <2>2, <2>3, <3>1, <3>2, DataOf, NothingIsObject, Reloaded
  <2>5. CASE lastData[layer] = {} /\ UNCHANGED <<node, history>>
    <3>1. Tables' /\ lastData'[layer] = lastData[layer]
      BY <1>1, <2>1, <2>5 DEF Tables, history
    <3>2. \A l \in Layers \ {layer} : SameDisk(l)
      BY <1>1, <2>1, <2>5 DEF Tables, SameDisk, history
    <3>3. Noticed(layer)'
      BY <1>1, <2>1, <2>3, <2>5 DEF Noticed, Tables
    <3>. QED
      BY <2>1, <2>3, <2>5, <3>1, <3>2, <3>3, MemoryStays DEF history
  <2>. QED
    BY <1>3, <2>4, <2>5 DEF LoadMissing
<1>4. CASE LoadTorn(layer) \/ LoadLocked(layer)
  <2>1. /\ UNCHANGED <<node, dirty, disk, event, history>> /\ file[layer] \in {Torn, Locked}
        /\ \E b \in BOOLEAN : loadTimer' = [loadTimer EXCEPT ![layer] = b]
    <3>1. CASE LoadTorn(layer)
      <4>. DEFINE again == retries[layer] < LoadRetries
      <4>1. loadTimer' = [loadTimer EXCEPT ![layer] = again] /\ again \in BOOLEAN
        BY <3>1 DEF LoadTorn
      <4>. HIDE DEF again
      <4>. QED
        BY <3>1, <4>1 DEF LoadTorn
    <3>2. CASE LoadLocked(layer)
      BY <3>2 DEF LoadLocked, LoadTimeout
    <3>. QED
      BY <1>4, <3>1, <3>2
  <2>2. ~Readable(file[layer]) /\ file[layer] # Missing
    BY <2>1, StoreAssumption DEF Readable
  <2>3. Tables'
    BY <1>1, <2>1 DEF Tables, disk, history
  <2>4. \A l \in Layers \ {layer} : SameDisk(l)
    BY <1>1, <2>1 DEF Tables, SameDisk, disk, history
  <2>5. Noticed(layer)'
    BY <2>1, <2>2 DEF Noticed, disk
  <2>. QED
    BY <2>1, <2>2, <2>3, <2>4, <2>5, MemoryStays DEF disk, history
<1>5. CASE LoadContent(layer)
  <2>1. /\ loadTimer' = [loadTimer EXCEPT ![layer] = FALSE] /\ Readable(file[layer])
        /\ lastData' = [lastData EXCEPT ![layer] = {file[layer]}]
        /\ UNCHANGED <<dirty, file, event>>
    BY <1>5 DEF LoadContent, LoadTimeout
  <2>2. CASE Reload(layer, file[layer], FALSE) /\ pending' = [pending EXCEPT ![layer] = {}]
    <3>1. Optional({file[layer]}) /\ Optional({})
      BY <1>2, <2>1 DEF Optional
    <3>2. /\ DOMAIN pending' = Layers /\ pending'[layer] = {}
          /\ \A l \in Layers \ {layer} : pending'[l] = pending[l]
      BY <1>1, <2>2 DEF Tables
    <3>. QED
      BY <1>2, <2>1, <2>2, <3>1, <3>2, DataOf, Reloaded
  <2>3. CASE lastData[layer] = {file[layer]} /\ UNCHANGED <<node, history, pending>>
    <3>1. Tables' /\ lastData'[layer] = lastData[layer]
      BY <1>1, <2>1, <2>3 DEF Tables, history
    <3>2. \A l \in Layers \ {layer} : SameDisk(l)
      BY <1>1, <2>1, <2>3 DEF Tables, SameDisk, history
    <3>3. Noticed(layer)'
      BY <1>1, <1>2, <2>1, <2>3 DEF Noticed, Tables
    <3>. QED
      BY <1>2, <2>1, <2>3, <3>1, <3>2, <3>3, MemoryStays DEF history
  <2>. QED
    BY <1>5, <2>2, <2>3 DEF LoadContent
<1>. QED
  BY <1>3, <1>4, <1>5 DEF Load

LEMMA Watched ==
  ASSUME IInv, NEW layer \in Layers, WatcherEvent(layer)
  PROVE  IInv'
<1>1. Tables /\ LayerInv(layer)
  BY DEF IInv
<1>2. /\ event' = [event EXCEPT ![layer] = FALSE] /\ loadTimer' = [loadTimer EXCEPT ![layer] = TRUE]
      /\ UNCHANGED <<node, dirty, disk, history>>
  BY DEF WatcherEvent
<1>3. Tables'
  BY <1>1, <1>2 DEF Tables, disk, history
<1>4. \A l \in Layers \ {layer} : SameDisk(l)
  BY <1>1, <1>2 DEF Tables, SameDisk, disk, history
<1>5. Noticed(layer)'
  BY <1>1, <1>2 DEF Noticed, Tables
<1>6. Readable(file'[layer]) => Object(file'[layer])
  BY <1>1, <1>2 DEF LayerInv, ShapesOK, disk
<1>. QED
  BY <1>2, <1>3, <1>4, <1>5, <1>6, MemoryStays DEF disk, history

LEMMA Edited ==
  ASSUME IInv, NEW layer \in Layers, NEW content \in Contents, ExternalEdit(layer, content)
  PROVE  IInv'
<1>1. Tables /\ LayerInv(layer)
  BY DEF IInv
<1>2. /\ file' = [file EXCEPT ![layer] = content] /\ event' = [event EXCEPT ![layer] = TRUE]
      /\ UNCHANGED <<node, dirty, lastData, pending, loadTimer, history>>
  BY DEF ExternalEdit
<1>3. Tables'
  BY <1>1, <1>2 DEF Tables, history
<1>4. \A l \in Layers \ {layer} : SameDisk(l)
  BY <1>1, <1>2 DEF Tables, SameDisk, history
<1>5. Noticed(layer)'
  BY <1>1, <1>2 DEF Noticed, Tables
<1>6. Readable(file'[layer]) => Object(file'[layer])
  BY <1>1, <1>2, ContentsAssumption, DocumentParts DEF Tables, Readable
<1>. QED
  BY <1>2, <1>3, <1>4, <1>5, <1>6, MemoryStays DEF history

----------------------------------------------------------------------------
(* What holds of files and memory.                                          *)

LEMMA Started == ASSUME Init PROVE IInv
<1>1. /\ file \in [Layers -> StartContents] /\ lastData = [l \in Layers |-> Read(file[l])]
      /\ dirty = [l \in Layers |-> FALSE] /\ event = dirty /\ loadTimer = dirty
      /\ astray = dirty /\ revived = dirty /\ pending = [l \in Layers |-> {}]
  BY DEF Init
<1>. DEFINE json(l) == Data(Read(file[l]))
<1>2. PICK g \in {SyncJson("global", Fresh(Default), json("global"), Default, DefaultList)} :
        node = [global |-> g,
                overlay |-> SyncJson("overlay", Fresh(g.val), json("overlay"), g.val, ValuesOf(g.list))]
  BY DEF Init
<1>3. ASSUME NEW l \in Layers
      PROVE  /\ Readable(file[l]) => Object(file[l])
             /\ Optional(Read(file[l])) /\ Object(json(l))
  <2>1. Readable(file[l]) => Object(file[l])
    BY <1>1, ContentsAssumption, DocumentParts DEF Readable
  <2>. QED
    BY <2>1, DataOf, NothingIsObject DEF Read, Optional
<1>. HIDE DEF json
<1>4. ASSUME NEW l \in Layers
      PROVE  Shaped(l, node[l]) /\ Json(node[l]) = json(l) /\ SameSpecial(l, json(l), node[l].held)
  <2>1. CASE l = "global"
    BY <1>2, <1>3, <2>1, SyncResult
  <2>2. CASE l = "overlay"
    BY <1>2, <1>3, <2>2, SyncResult
  <2>. QED
    BY <2>1, <2>2 DEF Layers
<1>5. Tables
  BY <1>1, <1>2 DEF Tables, Layers
<1>6. ASSUME NEW l \in Layers PROVE LayerInv(l)
  <2>1. /\ lastData[l] = Read(file[l]) /\ pending[l] = {} /\ Data(lastData[l]) = json(l)
    BY <1>1 DEF json
  <2>2. ShapesOK(l)
    BY <1>3, <1>4, <2>1 DEF ShapesOK, Optional
  <2>3. Noticed(l)
    BY <2>1 DEF Noticed, Read, Readable
  <2>4. Agrees(l) /\ Held(l)
    BY <1>4, <2>1 DEF Agrees, Waiting, Held
  <2>. QED
    BY <2>2, <2>3, <2>4 DEF LayerInv
<1>. QED
  BY <1>5, <1>6 DEF IInv

LEMMA Written ==
  ASSUME IInv, NEW layer \in Layers, UserWrite(layer)
  PROVE  IInv'
<1>1. ASSUME NEW k \in Options, ResetOption(layer, k) PROVE IInv'
  BY <1>1, OptionReset
<1>2. ASSUME NEW k \in Options, NEW v \in Values, SetOption(layer, k, v) PROVE IInv'
  BY <1>2, OptionSet
<1>3. CASE ResetList(layer)
  BY <1>3, ListReset
<1>4. CASE Clear(layer)
  BY <1>4, ListWritten DEF Clear
<1>5. CASE Touch(layer)
  BY <1>5, ListTouched
<1>6. ASSUME NEW i, NEW v, Insert(layer, i, v) PROVE IInv'
  BY <1>6, ListWritten DEF Insert
<1>7. ASSUME NEW i, RemoveAtRow(layer, i) PROVE IInv'
  BY <1>7, ListWritten DEF RemoveAtRow
<1>8. ASSUME NEW i, NEW j, Move(layer, i, j) PROVE IInv'
  BY <1>8, ListWritten DEF Move
<1>9. ASSUME NEW i, NEW v, SetElement(layer, i, v) PROVE IInv'
  BY <1>9, ElementSet
<1>. QED
  BY <1>1, <1>2, <1>3, <1>4, <1>5, <1>6, <1>7, <1>8, <1>9 DEF UserWrite

LEMMA Stuttered == ASSUME IInv, UNCHANGED vars PROVE IInv'
<1>1. Tables'
  BY DEF IInv, Tables, vars, disk, loads, history
<1>2. ASSUME NEW l \in Layers PROVE LayerInv(l)'
  <2>1. Same(l) /\ SameDisk(l)
    BY DEF Same, SameDisk, vars, disk, loads, history
  <2>. QED
    BY <2>1, LayerStays DEF IInv
<1>. QED
  BY <1>1, <1>2 DEF IInv

THEOREM Invariance == Spec => []IInv
<1>1. Init => IInv
  BY Started
<1>2. IInv /\ [Next]_vars => IInv'
  <2>. SUFFICES ASSUME IInv, [Next]_vars PROVE IInv'
    OBVIOUS
  <2>1. ASSUME NEW l \in Layers, UserWrite(l) PROVE IInv'
    BY <2>1, Written
  <2>2. ASSUME NEW l \in Layers, NEW c \in Contents, ExternalEdit(l, c) PROVE IInv'
    BY <2>2, Edited
  <2>3. ASSUME NEW l \in Layers, Flush(l) \/ SaveTimeout(l) PROVE IInv'
    BY <2>3, Flushed, Saved
  <2>4. ASSUME NEW l \in Layers, WatcherEvent(l) \/ Load(l) PROVE IInv'
    BY <2>4, Watched, Loaded
  <2>5. CASE UNCHANGED vars
    BY <2>5, Stuttered
  <2>. QED
    BY <2>1, <2>2, <2>3, <2>4, <2>5 DEF Next
<1>. QED
  BY <1>1, <1>2, PTL DEF Spec

\* A file that can be read was read as it is, or an event or a load is still to come,
\* however saves, retries and other programs' edits interleave (settingsfile.cpp:63-97, 141-152).
THEOREM EditsNoticed == Spec => []NoSilentEdit
<1>1. IInv => NoSilentEdit
  BY DEF IInv, LayerInv, Noticed, NoSilentEdit
<1>. QED
  BY <1>1, Invariance, PTL

\* With nothing left to write memory would save what was last read or saved, but for the
\* four known ways to differ (settingsfile.cpp:110-213, node.cpp:195-242).
THEOREM MemoryKept == Spec => []MemoryIsOnDisk
<1>1. IInv => MemoryIsOnDisk
  BY DEF IInv, LayerInv, Agrees, Waiting, MemoryIsOnDisk
<1>. QED
  BY <1>1, Invariance, PTL

\* What a layer cannot use is in the file that a step writes as it was in the one before.
Keeps(l) ==
  ~revived[l] /\ file'[l] # file[l] /\ lastData'[l] # lastData[l] =>
    \A k \in Special(l) \cap DOMAIN Data(lastData[l]) :
      k \in DOMAIN file'[l] /\ file'[l][k] = Data(lastData[l])[k]

LEMMA SaveKeeps ==
  ASSUME IInv, NEW layer \in Layers, NEW json, NEW strayed, WriteFile(layer, json, strayed),
         ~revived[layer] => SameSpecial(layer, json, node[layer].held),
         NEW l \in Layers
  PROVE  Keeps(l)
<1>1. Tables /\ Held(l)
  BY DEF IInv, LayerInv
<1>2. CASE file' = [file EXCEPT ![layer] = json] /\ l = layer
  <2>1. file'[l] = json
    BY <1>1, <1>2 DEF Tables
  <2>. QED
    BY <1>1, <1>2, <2>1 DEF Keeps, Held, SameSpecial
<1>3. CASE file' = [file EXCEPT ![layer] = json] /\ l # layer
  BY <1>1, <1>3 DEF Keeps, Tables
<1>4. CASE UNCHANGED file
  BY <1>4 DEF Keeps
<1>. QED
  BY <1>2, <1>3, <1>4 DEF WriteFile

LEMMA StepKeeps ==
  ASSUME IInv, [Next]_vars, NEW l \in Layers
  PROVE  Keeps(l)
<1>1. ASSUME UNCHANGED file \/ UNCHANGED lastData PROVE Keeps(l)
  BY <1>1 DEF Keeps
<1>2. ASSUME NEW layer \in Layers, UserWrite(layer) PROVE UNCHANGED file
  BY <1>2 DEF UserWrite, SetOption, ResetOption, ResetList, ListChanged, Clear, Touch, Insert,
              RemoveAtRow, Move, SetElement, disk
<1>3. ASSUME NEW layer \in Layers, NEW c \in Contents, ExternalEdit(layer, c) PROVE UNCHANGED lastData
  BY <1>3 DEF ExternalEdit
<1>4. ASSUME NEW layer \in Layers, WatcherEvent(layer) \/ Load(layer) PROVE UNCHANGED file
  BY <1>4 DEF WatcherEvent, Load, LoadMissing, LoadTorn, LoadLocked, LoadContent, disk
<1>5. ASSUME NEW layer \in Layers, Flush(layer) PROVE Keeps(l)
  <2>1. SameSpecial(layer, Json(node[layer]), node[layer].held)
    BY JsonShape DEF IInv, LayerInv, ShapesOK
  <2>2. CASE WriteFile(layer, Json(node[layer]), FALSE)
    BY <2>1, <2>2, SaveKeeps
  <2>3. CASE UNCHANGED file
    BY <2>3, <1>1
  <2>. QED
    BY <1>5, <2>2, <2>3 DEF Flush
<1>6. ASSUME NEW layer \in Layers, SaveTimeout(layer) PROVE Keeps(l)
  <2>1. LayerInv(layer)
    BY DEF IInv
  <2>2. ASSUME NEW json \in pending[layer], WriteFile(layer, json, astray[layer]) PROVE Keeps(l)
    <3>1. pending[layer] = {json}
      BY <2>1, <2>2 DEF LayerInv, ShapesOK, Optional
    <3>2. Data(pending[layer]) = json
      BY <3>1, DataOf
    <3>3. ~revived[layer] => SameSpecial(layer, json, node[layer].held)
      BY <2>1, <3>1, <3>2 DEF LayerInv, Held
    <3>. QED
      BY <2>2, <3>3, SaveKeeps
  <2>3. CASE UNCHANGED file
    BY <2>3, <1>1
  <2>. QED
    BY <1>6, <2>2, <2>3 DEF SaveTimeout
<1>7. CASE UNCHANGED vars
  BY <1>1, <1>7 DEF vars, disk
<1>. QED
  BY <1>1, <1>2, <1>3, <1>4, <1>5, <1>6, <1>7 DEF Next

\* A save keeps the entries of the file that its layer cannot use, unless what is saved was
\* waiting when the file was removed (objectnode.cpp:104-108, quarantine.cpp:19-25).
THEOREM NothingForeignLost == Spec => ForeignKept
<1>. DEFINE A == \A l \in Layers : \A d \in {Data(lastData[l])} :
                   ~revived[l] /\ file'[l] # file[l] /\ lastData'[l] # lastData[l] =>
                     \A k \in DOMAIN d :
                       k = Foreign \/ (l = "overlay" /\ k \in GlobalOnly) =>
                         k \in DOMAIN file'[l] /\ file'[l][k] = d[k]
<1>1. IInv /\ [Next]_vars => A
  <2>. SUFFICES ASSUME IInv, [Next]_vars PROVE A
    OBVIOUS
  <2>1. \A l \in Layers : Keeps(l)
    BY StepKeeps
  <2>. QED
    BY <2>1 DEF Keeps, Special
<1>2. IInv /\ [Next]_vars => [A]_vars
  BY <1>1
<1>. QED
  BY <1>2, Invariance, PTL DEF Spec, ForeignKept

----------------------------------------------------------------------------
(* Lists: one that follows another.                                         *)

\* What holds at 0, and at each number when it does at the one before, holds up to n.
LEMMA StepByStep ==
  ASSUME NEW n \in Nat, NEW good, 0 \in good, \A m \in 1 .. n : m - 1 \in good => m \in good
  PROVE  \A m \in 0 .. n : m \in good
<1>. DEFINE bad == (0 .. n) \ good
<1>. SUFFICES ASSUME bad # {} PROVE FALSE
  OBVIOUS
<1>1. PICK m \in bad : \A k \in bad : ~(k < m)
  <2>1. bad \in SUBSET Nat
    OBVIOUS
  <2>2. PICK m \in bad : \A k \in bad : ~(<<k, m>> \in OpToRel(<, Nat))
    BY <2>1, NatLessThanWellFounded, WFMin
  <2>. QED
    BY <2>1, <2>2 DEF OpToRel
<1>2. m \in 1 .. n /\ m - 1 \in 0 .. n /\ m - 1 < m
  BY <1>1
<1>3. m - 1 \in good
  BY <1>1, <1>2
<1>. QED
  BY <1>1, <1>2, <1>3

\* One row put in, and one taken out.
PutIn(r, S, a, i, e) ==
  /\ r \in Seq(S) /\ Len(r) = Len(a) + 1
  /\ \A j \in DOMAIN r : /\ j < i => j \in DOMAIN a /\ r[j] = a[j]
                         /\ j = i => r[j] = e
                         /\ j > i => j - 1 \in DOMAIN a /\ r[j] = a[j - 1]
TakenOut(r, S, a, i) ==
  /\ r \in Seq(S) /\ Len(r) = Len(a) - 1
  /\ \A j \in DOMAIN r : /\ j < i => j \in DOMAIN a /\ r[j] = a[j]
                         /\ j >= i => j + 1 \in DOMAIN a /\ r[j] = a[j + 1]

LEMMA SplicedOne ==
  ASSUME NEW S, NEW a \in Seq(S), NEW i \in 1 .. Len(a) + 1, NEW e \in S
  PROVE  PutIn(Spliced(a, i, <<e>>), S, a, i, e)
<1>. DEFINE p == SubSeq(a, 1, i - 1)  q == SubSeq(a, i, Len(a))  r == Spliced(a, i, <<e>>)
<1>1. p \in Seq(S) /\ Len(p) = i - 1 /\ \A j \in 1 .. i - 1 : p[j] = a[j]
  OBVIOUS
<1>2. q \in Seq(S) /\ Len(q) = Len(a) - i + 1 /\ \A j \in 1 .. Len(a) - i + 1 : q[j] = a[i + j - 1]
  OBVIOUS
<1>3. r = (p \o <<e>>) \o q
  BY DEF Spliced
<1>4. <<e>> \in Seq(S) /\ Len(<<e>>) = 1 /\ <<e>>[1] = e
  OBVIOUS
<1>5. i \in Int /\ Len(a) \in Nat
  OBVIOUS
<1>. HIDE DEF p, q, r
<1>6. /\ p \o <<e>> \in Seq(S) /\ Len(p \o <<e>>) = i
      /\ \A j \in 1 .. i : (p \o <<e>>)[j] = IF j < i THEN p[j] ELSE e
  BY <1>1, <1>4, <1>5
<1>. DEFINE pe == p \o <<e>>
<1>. HIDE DEF pe
<1>7. /\ pe \in Seq(S) /\ Len(pe) = i /\ r = pe \o q
      /\ \A j \in 1 .. i : pe[j] = IF j < i THEN p[j] ELSE e
  BY <1>3, <1>6 DEF pe
<1>8. /\ r \in Seq(S) /\ Len(r) = Len(a) + 1 /\ DOMAIN r = 1 .. Len(a) + 1
      /\ \A j \in 1 .. Len(a) + 1 : r[j] = IF j <= i THEN pe[j] ELSE q[j - i]
  BY <1>2, <1>5, <1>7
<1>9. ASSUME NEW j \in DOMAIN r, j < i PROVE j \in DOMAIN a /\ r[j] = a[j]
  BY <1>1, <1>5, <1>7, <1>8, <1>9
<1>10. ASSUME NEW j \in DOMAIN r, j = i PROVE r[j] = e
  BY <1>5, <1>7, <1>8, <1>10
<1>11. ASSUME NEW j \in DOMAIN r, j > i PROVE j - 1 \in DOMAIN a /\ r[j] = a[j - 1]
  <2>1. j \in Int /\ r[j] = q[j - i] /\ j - i \in 1 .. Len(a) - i + 1 /\ j - 1 \in 1 .. Len(a)
    BY <1>5, <1>8, <1>11
  <2>2. \A m \in 1 .. Len(a) - i + 1 : q[m] = a[i + m - 1]
    BY <1>2
  <2>3. q[j - i] = a[i + (j - i) - 1]
    BY <2>1, <2>2, Zenon
  <2>4. i + (j - i) - 1 = j - 1
    BY <1>5, <2>1
  <2>. QED
    BY <2>1, <2>3, <2>4
<1>. QED
  BY <1>8, <1>9, <1>10, <1>11 DEF PutIn, r

LEMMA CutOne ==
  ASSUME NEW S, NEW a \in Seq(S), NEW i \in DOMAIN a
  PROVE  TakenOut(Cut(a, i, i), S, a, i)
<1>. DEFINE p == SubSeq(a, 1, i - 1)  q == SubSeq(a, i + 1, Len(a))  r == Cut(a, i, i)
<1>1. p \in Seq(S) /\ Len(p) = i - 1 /\ \A j \in 1 .. i - 1 : p[j] = a[j]
  OBVIOUS
<1>2. q \in Seq(S) /\ Len(q) = Len(a) - i /\ \A j \in 1 .. Len(a) - i : q[j] = a[i + j]
  OBVIOUS
<1>3. r = p \o q
  BY DEF Cut
<1>4. i \in 1 .. Len(a) /\ Len(a) \in Nat
  OBVIOUS
<1>. HIDE DEF p, q, r
<1>5. /\ r \in Seq(S) /\ Len(r) = Len(a) - 1 /\ DOMAIN r = 1 .. Len(a) - 1
      /\ \A j \in 1 .. Len(a) - 1 : r[j] = IF j < i THEN p[j] ELSE q[j - i + 1]
  <2>1. r \in Seq(S) /\ Len(r) = Len(a) - 1
    BY <1>1, <1>2, <1>3, <1>4
  <2>2. ASSUME NEW j \in 1 .. Len(a) - 1 PROVE r[j] = IF j < i THEN p[j] ELSE q[j - i + 1]
    <3>1. j \in 1 .. Len(p) + Len(q) /\ (j <= Len(p) <=> j < i) /\ j - Len(p) = j - i + 1
      BY <1>1, <1>2, <1>4
    <3>2. r[j] = IF j <= Len(p) THEN p[j] ELSE q[j - Len(p)]
      BY <1>1, <1>2, <1>3, <3>1, ConcatProperties, Zenon
    <3>. QED
      BY <3>1, <3>2
  <2>. QED
    BY <2>1, <2>2
<1>6. ASSUME NEW j \in DOMAIN r, j < i PROVE j \in DOMAIN a /\ r[j] = a[j]
  BY <1>1, <1>4, <1>5, <1>6
<1>7. ASSUME NEW j \in DOMAIN r, j >= i PROVE j + 1 \in DOMAIN a /\ r[j] = a[j + 1]
  <2>1. j \in Int /\ r[j] = q[j - i + 1] /\ j - i + 1 \in 1 .. Len(a) - i /\ j + 1 \in 1 .. Len(a)
    BY <1>4, <1>5, <1>7
  <2>2. q[j - i + 1] = a[i + (j - i + 1)] /\ i + (j - i + 1) = j + 1
    BY <1>2, <1>4, <2>1
  <2>. QED
    BY <2>1, <2>2
<1>. QED
  BY <1>5, <1>6, <1>7 DEF TakenOut, r

\* a has b's rows, and what it did not set itself as b has it.
Matches(a, b) ==
  /\ a \in Seq(Element) /\ b \in Seq(Element) /\ Len(a) = Len(b)
  /\ \A i \in DOMAIN a : ~a[i].own => a[i].val = b[i].val

LEMMA SplicedMatches ==
  ASSUME NEW a, NEW b, Matches(a, b), NEW i \in 1 .. Len(b) + 1, NEW e \in Element, NEW f \in Element,
         ~e.own => e.val = f.val
  PROVE  Matches(Spliced(a, i, <<e>>), Spliced(b, i, <<f>>))
<1>. DEFINE r == Spliced(a, i, <<e>>)  s == Spliced(b, i, <<f>>)
<1>0. a \in Seq(Element) /\ b \in Seq(Element) /\ Len(a) = Len(b) /\ i \in 1 .. Len(a) + 1
  BY DEF Matches
<1>1. PutIn(r, Element, a, i, e)
  BY <1>0, SplicedOne, Zenon
<1>2. PutIn(s, Element, b, i, f)
  BY <1>0, SplicedOne, Zenon
<1>. HIDE DEF r, s
<1>3. r \in Seq(Element) /\ s \in Seq(Element) /\ Len(r) = Len(s)
  BY <1>0, <1>1, <1>2 DEF PutIn
<1>4. ASSUME NEW j \in DOMAIN r, ~r[j].own PROVE r[j].val = s[j].val
  <2>1. j \in DOMAIN s /\ j \in Int /\ i \in Int
    BY <1>3
  <2>2. CASE j < i
    BY <1>1, <1>2, <1>4, <2>1, <2>2 DEF PutIn, Matches
  <2>3. CASE j = i
    BY <1>1, <1>2, <1>4, <2>1, <2>3 DEF PutIn
  <2>4. CASE j > i
    BY <1>1, <1>2, <1>4, <2>1, <2>4 DEF PutIn, Matches
  <2>. QED
    BY <2>1, <2>2, <2>3, <2>4
<1>. QED
  BY <1>3, <1>4 DEF Matches, r, s

LEMMA CutMatches ==
  ASSUME NEW a, NEW b, Matches(a, b), NEW i \in DOMAIN b
  PROVE  Matches(Cut(a, i, i), Cut(b, i, i))
<1>. DEFINE r == Cut(a, i, i)  s == Cut(b, i, i)
<1>0. a \in Seq(Element) /\ b \in Seq(Element) /\ Len(a) = Len(b) /\ i \in DOMAIN a
  BY DEF Matches
<1>1. TakenOut(r, Element, a, i) /\ TakenOut(s, Element, b, i)
  BY <1>0, CutOne, Zenon
<1>. HIDE DEF r, s
<1>2. r \in Seq(Element) /\ s \in Seq(Element) /\ Len(r) = Len(s)
  BY <1>0, <1>1 DEF TakenOut
<1>3. ASSUME NEW j \in DOMAIN r, ~r[j].own PROVE r[j].val = s[j].val
  <2>1. j \in DOMAIN s /\ j \in Int /\ i \in Int
    BY <1>0, <1>2
  <2>2. CASE j < i
    BY <1>1, <1>3, <2>1, <2>2 DEF TakenOut, Matches
  <2>3. CASE j >= i
    BY <1>1, <1>3, <2>1, <2>3 DEF TakenOut, Matches
  <2>. QED
    BY <2>1, <2>2, <2>3
<1>. QED
  BY <1>2, <1>3 DEF Matches, r, s

LEMMA MoveMatches ==
  ASSUME NEW a, NEW b, Matches(a, b), NEW from \in DOMAIN b, NEW to \in DOMAIN b
  PROVE  Matches(MoveRow(a, from, to), MoveRow(b, from, to))
<1>1. Matches(Cut(a, from, from), Cut(b, from, from))
  BY CutMatches
<1>2. /\ from \in DOMAIN a /\ a[from] \in Element /\ b[from] \in Element
      /\ ~a[from].own => a[from].val = b[from].val
  BY DEF Matches
<1>3. to \in 1 .. Len(Cut(b, from, from)) + 1
  <2>1. TakenOut(Cut(b, from, from), Element, b, from)
    BY CutOne DEF Matches
  <2>2. b \in Seq(Element)
    BY DEF Matches
  <2>. QED
    BY <2>1, <2>2 DEF TakenOut
<1>. QED
  BY <1>1, <1>2, <1>3, SplicedMatches DEF MoveRow

\* Two tables that begin alike, and stay alike row by row, end alike.
LEMMA SameAtTheEnd ==
  ASSUME NEW n \in Nat, NEW f, NEW g, f[0] = g[0],
         \A k \in 1 .. n : f[k - 1] = g[k - 1] => f[k] = g[k]
  PROVE  f[n] = g[n]
<1>. DEFINE good == {k \in 0 .. n : f[k] = g[k]}
<1>1. 0 \in good
  OBVIOUS
<1>2. ASSUME NEW k \in 1 .. n, k - 1 \in good PROVE k \in good
  BY <1>2
<1>3. n \in 0 .. n
  OBVIOUS
<1>4. n \in good
  <2>. HIDE DEF good
  <2>. QED
    BY <1>1, <1>2, <1>3, StepByStep
<1>. QED
  BY <1>4

\* The folds of onFallbackListNotify go through their rows one by one: a table of lists
\* each of which is made from the one before holds the result at its end.
CutTable(g, n, list, which) ==
  /\ g = [k \in 0 .. n |-> g[k]] /\ g[0] = list
  /\ \A k \in 1 .. n : g[k] = Cut(g[k - 1], which[k], which[k])

LEMMA CutEachBy ==
  ASSUME NEW list, NEW which, NEW n \in Nat, Len(which) = n, NEW g, CutTable(g, n, list, which)
  PROVE  CutEach(list, which) = g[n]
<1>. DEFINE After(x, k) == Cut(x, which[k], which[k])
            Is(f) == f = [k \in 0 .. n |->
                            IF k = 0 THEN list ELSE Cut(f[k - 1], which[k], which[k])]
            cut == CHOOSE f : Is(f)
<1>1. CutEach(list, which) = cut[n]
  BY DEF CutEach
<1>2. \A f : Is(f) <=> f = [k \in 0 .. n |-> IF k = 0 THEN list ELSE After(f[k - 1], k)]
  OBVIOUS
<1>3. \A k \in 1 .. n : g[k] = After(g[k - 1], k)
  BY DEF CutTable
<1>4. 0 \in 0 .. n /\ \A k \in 0 .. n : k = 0 \/ k \in 1 .. n
  OBVIOUS
<1>5. \A k \in 1 .. n : k # 0 /\ k \in 0 .. n
  OBVIOUS
<1>. HIDE DEF After, Is, cut
<1>6. Is(cut)
  <2>1. \A k \in 0 .. n : g[k] = IF k = 0 THEN list ELSE After(g[k - 1], k)
    BY <1>3, <1>4, Zenon DEF CutTable
  <2>2. Is(g)
    BY <1>2, <2>1 DEF CutTable
  <2>. QED
    BY <2>2 DEF cut
<1>7. \A k \in 0 .. n : cut[k] = IF k = 0 THEN list ELSE After(cut[k - 1], k)
  <2>. DEFINE body(k) == IF k = 0 THEN list ELSE After(cut[k - 1], k)
  <2>1. cut = [k \in 0 .. n |-> body(k)]
    BY <1>2, <1>6
  <2>. HIDE DEF body
  <2>2. \A k \in 0 .. n : cut[k] = body(k)
    BY <2>1
  <2>. QED
    BY <2>2 DEF body
<1>8. cut[0] = g[0] /\ \A k \in 1 .. n : cut[k - 1] = g[k - 1] => cut[k] = g[k]
  BY <1>3, <1>4, <1>5, <1>7, Zenon DEF CutTable
<1>9. cut[n] = g[n]
  BY <1>8, SameAtTheEnd
<1>. QED
  BY <1>1, <1>9

CopyTable(g, n, list, which, up) ==
  /\ g = [k \in 0 .. n |-> g[k]] /\ g[0] = list
  /\ \A k \in 1 .. n :
       g[k] = Spliced(g[k - 1], which[k], Elements(<<up[which[k]].val>>, FALSE))

LEMMA CopyEachBy ==
  ASSUME NEW list, NEW which, NEW up, NEW n \in Nat, Len(which) = n, NEW g,
         CopyTable(g, n, list, which, up)
  PROVE  CopyEach(list, which, up) = g[n]
<1>. DEFINE After(x, k) == Spliced(x, which[k], Elements(<<up[which[k]].val>>, FALSE))
            Is(f) == f = [k \in 0 .. n |->
                            IF k = 0 THEN list
                            ELSE Spliced(f[k - 1], which[k], Elements(<<up[which[k]].val>>, FALSE))]
            grown == CHOOSE f : Is(f)
<1>1. CopyEach(list, which, up) = grown[n]
  BY DEF CopyEach
<1>2. \A f : Is(f) <=> f = [k \in 0 .. n |-> IF k = 0 THEN list ELSE After(f[k - 1], k)]
  OBVIOUS
<1>3. \A k \in 1 .. n : g[k] = After(g[k - 1], k)
  BY DEF CopyTable
<1>4. 0 \in 0 .. n /\ \A k \in 0 .. n : k = 0 \/ k \in 1 .. n
  OBVIOUS
<1>5. \A k \in 1 .. n : k # 0 /\ k \in 0 .. n
  OBVIOUS
<1>. HIDE DEF After, Is, grown
<1>6. Is(grown)
  <2>1. \A k \in 0 .. n : g[k] = IF k = 0 THEN list ELSE After(g[k - 1], k)
    BY <1>3, <1>4, Zenon DEF CopyTable
  <2>2. Is(g)
    BY <1>2, <2>1 DEF CopyTable
  <2>. QED
    BY <2>2 DEF grown
<1>7. \A k \in 0 .. n : grown[k] = IF k = 0 THEN list ELSE After(grown[k - 1], k)
  <2>. DEFINE body(k) == IF k = 0 THEN list ELSE After(grown[k - 1], k)
  <2>1. grown = [k \in 0 .. n |-> body(k)]
    BY <1>2, <1>6
  <2>. HIDE DEF body
  <2>2. \A k \in 0 .. n : grown[k] = body(k)
    BY <2>1
  <2>. QED
    BY <2>2 DEF body
<1>8. grown[0] = g[0] /\ \A k \in 1 .. n : grown[k - 1] = g[k - 1] => grown[k] = g[k]
  BY <1>3, <1>4, <1>5, <1>7, Zenon DEF CopyTable
<1>9. grown[n] = g[n]
  BY <1>8, SameAtTheEnd
<1>. QED
  BY <1>1, <1>9

MoveTable(g, n, list, moves) ==
  /\ g = [k \in 0 .. n |-> g[k]] /\ g[0] = list
  /\ \A k \in 1 .. n : g[k] = MoveRow(g[k - 1], moves[k][1], moves[k][2])

LEMMA MoveEachBy ==
  ASSUME NEW list, NEW moves, NEW n \in Nat, Len(moves) = n, NEW g, MoveTable(g, n, list, moves)
  PROVE  MoveEach(list, moves) = g[n]
<1>. DEFINE After(x, k) == MoveRow(x, moves[k][1], moves[k][2])
            Is(f) == f = [k \in 0 .. n |->
                            IF k = 0 THEN list ELSE MoveRow(f[k - 1], moves[k][1], moves[k][2])]
            moved == CHOOSE f : Is(f)
<1>1. MoveEach(list, moves) = moved[n]
  BY DEF MoveEach
<1>2. \A f : Is(f) <=> f = [k \in 0 .. n |-> IF k = 0 THEN list ELSE After(f[k - 1], k)]
  OBVIOUS
<1>3. \A k \in 1 .. n : g[k] = After(g[k - 1], k)
  BY DEF MoveTable
<1>4. 0 \in 0 .. n /\ \A k \in 0 .. n : k = 0 \/ k \in 1 .. n
  OBVIOUS
<1>5. \A k \in 1 .. n : k # 0 /\ k \in 0 .. n
  OBVIOUS
<1>. HIDE DEF After, Is, moved
<1>6. Is(moved)
  <2>1. \A k \in 0 .. n : g[k] = IF k = 0 THEN list ELSE After(g[k - 1], k)
    BY <1>3, <1>4, Zenon DEF MoveTable
  <2>2. Is(g)
    BY <1>2, <2>1 DEF MoveTable
  <2>. QED
    BY <2>2 DEF moved
<1>7. \A k \in 0 .. n : moved[k] = IF k = 0 THEN list ELSE After(moved[k - 1], k)
  <2>. DEFINE body(k) == IF k = 0 THEN list ELSE After(moved[k - 1], k)
  <2>1. moved = [k \in 0 .. n |-> body(k)]
    BY <1>2, <1>6
  <2>. HIDE DEF body
  <2>2. \A k \in 0 .. n : moved[k] = body(k)
    BY <2>1
  <2>. QED
    BY <2>2 DEF body
<1>8. moved[0] = g[0] /\ \A k \in 1 .. n : moved[k - 1] = g[k - 1] => moved[k] = g[k]
  BY <1>3, <1>4, <1>5, <1>7, Zenon DEF MoveTable
<1>9. moved[n] = g[n]
  BY <1>8, SameAtTheEnd
<1>. QED
  BY <1>1, <1>9

\* No row, and one.
LEMMA EachOfNone ==
  ASSUME NEW list, NEW up
  PROVE  /\ CutEach(list, <<>>) = list /\ CopyEach(list, <<>>, up) = list
         /\ MoveEach(list, <<>>) = list
<1>. DEFINE g == [k \in 0 .. 0 |-> list]
<1>1. g = [k \in 0 .. 0 |-> g[k]] /\ g[0] = list /\ 1 .. 0 = {} /\ Len(<<>>) = 0 /\ 0 \in Nat
  OBVIOUS
<1>. HIDE DEF g
<1>. QED
  BY <1>1, CutEachBy, CopyEachBy, MoveEachBy DEF CutTable, CopyTable, MoveTable

LEMMA EachOfOne ==
  ASSUME NEW list, NEW up, NEW i, NEW to
  PROVE  /\ CutEach(list, <<i>>) = Cut(list, i, i)
         /\ CopyEach(list, <<i>>, up) = Spliced(list, i, Elements(<<up[i].val>>, FALSE))
         /\ MoveEach(list, <<<<i, to>>>>) = MoveRow(list, i, to)
<1>. DEFINE n == 1
            table(x) == [k \in 0 .. n |-> IF k = 0 THEN list ELSE x]
            one == <<i>>  move == <<<<i, to>>>>
<1>1. /\ n \in Nat /\ \A k \in 1 .. n : k = 1 /\ k - 1 = 0
      /\ Len(one) = n /\ one[1] = i /\ Len(move) = n /\ move[1][1] = i /\ move[1][2] = to
  OBVIOUS
<1>2. \A x : table(x) = [k \in 0 .. n |-> table(x)[k]] /\ table(x)[0] = list /\ table(x)[1] = x
               /\ table(x)[n] = x
  OBVIOUS
<1>. HIDE DEF table, one, move, n
<1>3. CutEach(list, one) = Cut(list, i, i)
  <2>. DEFINE x == Cut(list, i, i)
              g == table(x)
  <2>1. g = [k \in 0 .. n |-> g[k]] /\ g[0] = list /\ g[1] = x /\ g[n] = x
    BY <1>2
  <2>. HIDE DEF g
  <2>2. \A k \in 1 .. n : g[k] = Cut(g[k - 1], one[k], one[k])
    BY <1>1, <2>1
  <2>3. CutTable(g, n, list, one)
    BY <2>1, <2>2 DEF CutTable
  <2>4. CutEach(list, one) = g[n]
    BY <1>1, <2>3, CutEachBy
  <2>. QED
    BY <2>1, <2>4
<1>4. CopyEach(list, one, up) = Spliced(list, i, Elements(<<up[i].val>>, FALSE))
  <2>. DEFINE x == Spliced(list, i, Elements(<<up[i].val>>, FALSE))
              g == table(x)
  <2>1. g = [k \in 0 .. n |-> g[k]] /\ g[0] = list /\ g[1] = x /\ g[n] = x
    BY <1>2
  <2>. HIDE DEF g
  <2>2. \A k \in 1 .. n : g[k] = Spliced(g[k - 1], one[k], Elements(<<up[one[k]].val>>, FALSE))
    BY <1>1, <2>1
  <2>3. CopyTable(g, n, list, one, up)
    BY <2>1, <2>2 DEF CopyTable
  <2>4. CopyEach(list, one, up) = g[n]
    BY <1>1, <2>3, CopyEachBy
  <2>. QED
    BY <2>1, <2>4
<1>5. MoveEach(list, move) = MoveRow(list, i, to)
  <2>. DEFINE x == MoveRow(list, i, to)
              g == table(x)
  <2>1. g = [k \in 0 .. n |-> g[k]] /\ g[0] = list /\ g[1] = x /\ g[n] = x
    BY <1>2
  <2>. HIDE DEF g
  <2>2. \A k \in 1 .. n : g[k] = MoveRow(g[k - 1], move[k][1], move[k][2])
    BY <1>1, <2>1
  <2>3. MoveTable(g, n, list, move)
    BY <2>1, <2>2 DEF MoveTable
  <2>4. MoveEach(list, move) = g[n]
    <3>1. n \in Nat /\ Len(move) = n
      BY <1>1
    <3>. QED
      BY <3>1, <2>3, MoveEachBy, Zenon
  <2>. QED
    BY <2>1, <2>4
<1>. QED
  BY <1>3, <1>4, <1>5 DEF one, move

LEMMA ElementParts == \A e \in Element : e.val \in Values /\ e.own \in BOOLEAN
BY DEF Element

\* A copy of one value.
Copy(v) == [val |-> v, own |-> FALSE]
LEMMA CopyOf ==
  ASSUME NEW v
  PROVE  /\ Elements(<<v>>, FALSE) = <<Copy(v)>> /\ Copy(v).val = v /\ ~Copy(v).own
         /\ v \in Values => Copy(v) \in Element
<1>1. DOMAIN <<v>> = {1} /\ <<v>>[1] = v
  OBVIOUS
<1>2. Elements(<<v>>, FALSE) = [i \in {1} |-> Copy(v)]
  BY <1>1 DEF Elements, Copy
<1>3. <<Copy(v)>> = [i \in {1} |-> Copy(v)]
  <2>1. DOMAIN <<Copy(v)>> = {1} /\ <<Copy(v)>>[1] = Copy(v)
    OBVIOUS
  <2>. QED
    BY <2>1
<1>4. FALSE \in BOOLEAN
  OBVIOUS
<1>. QED
  BY <1>2, <1>3, <1>4 DEF Copy, Element

\* The overlay's list, when it is not its own, takes each change of the global list over
\* and matches what the global list has become.
LEMMA FollowedNone ==
  ASSUME NEW a, NEW up
  PROVE  Followed(a, NoChange, up) = a
<1>1. Reverse(<<>>) = <<>>
  BY DEF Reverse
<1>2. NoChange.removed = <<>> /\ NoChange.added = <<>> /\ NoChange.moved = <<>>
  BY DEF NoChange, Change
<1>. QED
  BY <1>1, <1>2, EachOfNone DEF Followed

LEMMA FollowedInsert ==
  ASSUME NEW a, NEW b, Matches(a, b), NEW i \in 1 .. Len(b) + 1, NEW v \in Values,
         NEW up, up = Spliced(b, i, Elements(<<v>>, FALSE))
  PROVE  Matches(Followed(a, Change(<<i>>, <<>>, <<>>), up), up)
<1>. DEFINE e == Copy(v)  change == Change(<<i>>, <<>>, <<>>)
<1>1. e \in Element /\ e.val = v /\ Elements(<<v>>, FALSE) = <<e>>
  BY CopyOf
<1>2. change.removed = <<>> /\ change.added = <<i>> /\ change.moved = <<>>
  BY DEF Change
<1>3. Reverse(<<>>) = <<>>
  BY DEF Reverse
<1>. HIDE DEF e, change
<1>4. PutIn(up, Element, b, i, e)
  BY <1>1, SplicedOne DEF Matches
<1>5. i \in DOMAIN up /\ up[i] = e
  <2>1. i \in DOMAIN up
    <3>1. up \in Seq(Element) /\ Len(up) = Len(b) + 1
      BY <1>4 DEF PutIn
    <3>2. DOMAIN up = 1 .. Len(up)
      BY <3>1, LenProperties
    <3>. QED
      BY <3>1, <3>2, Zenon
  <2>2. i \in DOMAIN up => (i = i => up[i] = e)
    BY <1>4, Zenon DEF PutIn
  <2>. QED
    BY <2>1, <2>2
<1>6. Followed(a, change, up) = Spliced(a, i, <<e>>)
  <2>1. Followed(a, change, up) = MoveEach(CopyEach(CutEach(a, <<>>), <<i>>, up), <<>>)
    BY <1>2, <1>3 DEF Followed
  <2>2. CopyEach(a, <<i>>, up) = Spliced(a, i, Elements(<<up[i].val>>, FALSE))
    BY EachOfOne
  <2>3. CutEach(a, <<>>) = a /\ MoveEach(Spliced(a, i, <<e>>), <<>>) = Spliced(a, i, <<e>>)
    BY EachOfNone
  <2>. QED
    BY <1>1, <1>5, <2>1, <2>2, <2>3
<1>7. Matches(Spliced(a, i, <<e>>), Spliced(b, i, <<e>>))
  BY <1>1, SplicedMatches
<1>. QED
  BY <1>1, <1>6, <1>7 DEF change

LEMMA FollowedCut ==
  ASSUME NEW a, NEW b, Matches(a, b), NEW i \in DOMAIN b
  PROVE  Matches(Followed(a, Change(<<>>, <<i>>, <<>>), Cut(b, i, i)), Cut(b, i, i))
<1>. DEFINE change == Change(<<>>, <<i>>, <<>>)  up == Cut(b, i, i)
<1>1. change.removed = <<i>> /\ change.added = <<>> /\ change.moved = <<>>
  BY DEF Change
<1>2. Reverse(<<i>>) = <<i>>
  BY DEF Reverse
<1>3. Matches(Cut(a, i, i), up)
  BY CutMatches
<1>. HIDE DEF change, up
<1>4. Followed(a, change, up) = Cut(a, i, i)
  <2>1. Followed(a, change, up) = MoveEach(CopyEach(CutEach(a, <<i>>), <<>>, up), <<>>)
    BY <1>1, <1>2 DEF Followed
  <2>2. CutEach(a, <<i>>) = Cut(a, i, i)
    BY EachOfOne
  <2>3. /\ CopyEach(Cut(a, i, i), <<>>, up) = Cut(a, i, i)
        /\ MoveEach(Cut(a, i, i), <<>>) = Cut(a, i, i)
    BY EachOfNone
  <2>. QED
    BY <2>1, <2>2, <2>3
<1>. QED
  BY <1>3, <1>4 DEF change, up

LEMMA FollowedMove ==
  ASSUME NEW a, NEW b, Matches(a, b), NEW from \in DOMAIN b, NEW to \in DOMAIN b
  PROVE  Matches(Followed(a, Change(<<>>, <<>>, <<<<from, to>>>>), MoveRow(b, from, to)),
                 MoveRow(b, from, to))
<1>. DEFINE change == Change(<<>>, <<>>, <<<<from, to>>>>)  up == MoveRow(b, from, to)
<1>1. change.removed = <<>> /\ change.added = <<>> /\ change.moved = <<<<from, to>>>>
  BY DEF Change
<1>2. Reverse(<<>>) = <<>>
  BY DEF Reverse
<1>3. Matches(MoveRow(a, from, to), up)
  BY MoveMatches
<1>. HIDE DEF change, up
<1>4. Followed(a, change, up) = MoveRow(a, from, to)
  <2>1. Followed(a, change, up) = MoveEach(CopyEach(CutEach(a, <<>>), <<>>, up), <<<<from, to>>>>)
    BY <1>1, <1>2 DEF Followed
  <2>2. CutEach(a, <<>>) = a /\ CopyEach(a, <<>>, up) = a
    BY EachOfNone
  <2>3. MoveEach(a, <<<<from, to>>>>) = MoveRow(a, from, to)
    BY EachOfOne
  <2>. QED
    BY <2>1, <2>2, <2>3
<1>. QED
  BY <1>3, <1>4 DEF change, up

\* Every row taken out, from the last on.
LEMMA AllCut ==
  ASSUME NEW S, NEW a \in Seq(S), NEW which, NEW n \in Nat, Len(a) = n, Len(which) = n,
         \A k \in 1 .. n : which[k] = n + 1 - k
  PROVE  CutEach(a, which) = <<>>
<1>. DEFINE g == [k \in 0 .. n |-> SubSeq(a, 1, n - k)]
<1>1. g = [k \in 0 .. n |-> g[k]] /\ \A k \in 0 .. n : g[k] = SubSeq(a, 1, n - k)
  OBVIOUS
<1>2. \A k \in 0 .. n : /\ SubSeq(a, 1, n - k) \in Seq(S) /\ Len(SubSeq(a, 1, n - k)) = n - k
                        /\ \A j \in 1 .. n - k : SubSeq(a, 1, n - k)[j] = a[j]
  OBVIOUS
<1>3. SubSeq(a, 1, n - 0) = a
  <2>1. n - 0 = n /\ SubSeq(a, 1, n) = a
    OBVIOUS
  <2>. QED
    BY <2>1
<1>4. SubSeq(a, 1, n - n) = <<>>
  BY <1>2
<1>. HIDE DEF g
<1>5. ASSUME NEW k \in 1 .. n PROVE g[k] = Cut(g[k - 1], which[k], which[k])
  <2>. DEFINE x == g[k - 1]  m == n + 1 - k
  <2>1. k - 1 \in 0 .. n /\ k \in 0 .. n /\ n - (k - 1) = m /\ n - k = m - 1 /\ m \in 1 .. n
        /\ which[k] = m
    OBVIOUS
  <2>. HIDE DEF m
  <2>2. x \in Seq(S) /\ Len(x) = m /\ \A j \in 1 .. m : x[j] = a[j]
    <3>1. x = SubSeq(a, 1, n - (k - 1))
      BY <1>1, <2>1, Zenon
    <3>2. /\ x \in Seq(S) /\ Len(x) = n - (k - 1) /\ \A j \in 1 .. n - (k - 1) : x[j] = a[j]
      BY <1>2, <2>1, <3>1, Zenon
    <3>. QED
      BY <2>1, <3>2
  <2>3. g[k] \in Seq(S) /\ Len(g[k]) = m - 1 /\ \A j \in 1 .. m - 1 : g[k][j] = a[j]
    <3>1. /\ g[k] \in Seq(S) /\ Len(g[k]) = n - k /\ \A j \in 1 .. n - k : g[k][j] = a[j]
      BY <1>1, <1>2, <2>1, Zenon
    <3>. QED
      BY <2>1, <3>1
  <2>. HIDE DEF x
  <2>. DEFINE r == Cut(x, m, m)
  <2>4. TakenOut(r, S, x, m)
    BY <2>1, <2>2, CutOne
  <2>. HIDE DEF r
  <2>5. r \in Seq(S) /\ Len(r) = m - 1 /\ \A j \in 1 .. m - 1 : r[j] = x[j]
    <3>1. r \in Seq(S) /\ Len(r) = m - 1
      BY <2>2, <2>4 DEF TakenOut
    <3>2. \A j \in 1 .. m - 1 : j \in DOMAIN r /\ j < m
      BY <2>1, <3>1
    <3>. QED
      BY <2>4, <3>1, <3>2 DEF TakenOut
  <2>6. \A j \in 1 .. m - 1 : r[j] = g[k][j]
    BY <2>1, <2>2, <2>3, <2>5
  <2>7. r = g[k]
    BY <2>3, <2>5, <2>6, SeqEqual
  <2>. QED
    BY <2>1, <2>7 DEF r, x
<1>6. CutTable(g, n, a, which)
  <2>1. 0 \in 0 .. n
    OBVIOUS
  <2>2. g[0] = a
    BY <1>1, <1>3, <2>1
  <2>. QED
    BY <1>1, <1>5, <2>2 DEF CutTable
<1>7. CutEach(a, which) = g[n]
  BY <1>6, CutEachBy
<1>. QED
  BY <1>1, <1>4, <1>7

Copies(up, n) == [i \in 1 .. n |-> Copy(up[i].val)]

\* Rows put into an empty list, from the first on.
LEMMA AllCopied ==
  ASSUME NEW up \in Seq(Element), NEW which, NEW n \in Nat, Len(up) = n, Len(which) = n,
         \A k \in 1 .. n : which[k] = k
  PROVE  CopyEach(<<>>, which, up) = Copies(up, n)
<1>. DEFINE e(i) == Copy(up[i].val)
            copies(k) == [i \in 1 .. k |-> e(i)]
            g == [k \in 0 .. n |-> copies(k)]
<1>1. \A i \in 1 .. n : e(i) \in Element /\ Elements(<<up[i].val>>, FALSE) = <<e(i)>>
  <2>1. \A i \in 1 .. n : up[i] \in Element
    OBVIOUS
  <2>2. \A i \in 1 .. n : up[i].val \in Values
    BY <2>1, ElementParts
  <2>. QED
    BY <2>2, CopyOf
<1>2. g = [k \in 0 .. n |-> g[k]] /\ \A k \in 0 .. n : g[k] = copies(k)
  OBVIOUS
<1>. HIDE DEF e
<1>3. \A k \in 0 .. n : /\ copies(k) \in Seq(Element) /\ Len(copies(k)) = k
                        /\ \A j \in 1 .. k : copies(k)[j] = e(j)
  <2>1. ASSUME NEW k \in 0 .. n
        PROVE  /\ copies(k) \in Seq(Element) /\ Len(copies(k)) = k
               /\ \A j \in 1 .. k : copies(k)[j] = e(j)
    <3>1. \A i \in 1 .. k : i \in 1 .. n
      OBVIOUS
    <3>2. \A i \in 1 .. k : e(i) \in Element
      BY <1>1, <3>1
    <3>. QED
      BY <3>2
  <2>. QED
    BY <2>1
<1>4. copies(0) = <<>>
  BY <1>3
<1>. HIDE DEF g, copies
<1>5. ASSUME NEW k \in 1 .. n
      PROVE  g[k] = Spliced(g[k - 1], which[k], Elements(<<up[which[k]].val>>, FALSE))
  <2>. DEFINE x == copies(k - 1)  r == Spliced(x, k, <<e(k)>>)  y == copies(k)
  <2>1. k - 1 \in 0 .. n /\ k \in 0 .. n /\ k \in Nat
    OBVIOUS
  <2>2. x \in Seq(Element) /\ Len(x) = k - 1 /\ \A j \in 1 .. k - 1 : x[j] = e(j)
    BY <1>3, <2>1
  <2>3. y \in Seq(Element) /\ Len(y) = k /\ \A j \in 1 .. k : y[j] = e(j)
    BY <1>3, <2>1
  <2>4. e(k) \in Element
    BY <1>1
  <2>. HIDE DEF x, y
  <2>5. PutIn(r, Element, x, k, e(k))
    BY <2>1, <2>2, <2>4, SplicedOne
  <2>. HIDE DEF r
  <2>6. r \in Seq(Element) /\ Len(r) = k
    BY <2>1, <2>2, <2>5 DEF PutIn
  <2>7. ASSUME NEW j \in 1 .. k PROVE r[j] = y[j]
    <3>1. CASE j < k
      BY <2>1, <2>2, <2>3, <2>5, <2>6, <3>1 DEF PutIn
    <3>2. CASE j = k
      BY <2>1, <2>3, <2>5, <2>6, <3>2 DEF PutIn
    <3>. QED
      BY <2>1, <3>1, <3>2
  <2>8. r = y
    BY <2>3, <2>6, <2>7, SeqEqual
  <2>9. which[k] = k /\ Elements(<<up[k].val>>, FALSE) = <<e(k)>>
    BY <1>1
  <2>10. g[k] = y /\ g[k - 1] = x
    BY <1>2, <2>1 DEF x, y
  <2>. QED
    BY <2>8, <2>9, <2>10 DEF r
<1>6. 0 \in 0 .. n /\ n \in 0 .. n
  OBVIOUS
<1>7. CopyTable(g, n, <<>>, which, up)
  BY <1>2, <1>4, <1>5, <1>6 DEF CopyTable
<1>8. CopyEach(<<>>, which, up) = g[n]
  BY <1>7, CopyEachBy
<1>. QED
  BY <1>2, <1>6, <1>8 DEF copies, e, Copies

LEMMA CopiesMatch ==
  ASSUME NEW b \in Seq(Element)
  PROVE  Matches(Copies(b, Len(b)), b)
<1>. DEFINE c == Copies(b, Len(b))
<1>1. \A i \in 1 .. Len(b) : Copy(b[i].val) \in Element /\ Copy(b[i].val).val = b[i].val
  <2>1. \A i \in 1 .. Len(b) : b[i] \in Element
    OBVIOUS
  <2>2. \A i \in 1 .. Len(b) : b[i].val \in Values
    BY <2>1, ElementParts
  <2>. QED
    BY <2>2, CopyOf
<1>2. c \in Seq(Element) /\ Len(c) = Len(b) /\ \A i \in 1 .. Len(b) : c[i].val = b[i].val
  BY <1>1 DEF Copies
<1>. HIDE DEF c
<1>3. DOMAIN c = 1 .. Len(b)
  BY <1>2
<1>. QED
  BY <1>2, <1>3 DEF Matches, c

LEMMA FollowedReplaced ==
  ASSUME NEW a \in Seq(Element), NEW before \in Seq(Element), NEW after \in Seq(Element),
         Len(a) = Len(before)
  PROVE  Matches(Followed(a, Replaced(before, after), after), after)
<1>. DEFINE out == [i \in DOMAIN before |-> i]  in == [i \in DOMAIN after |-> i]
            n == Len(before)  m == Len(after)
<1>1. /\ Replaced(before, after).removed = out /\ Replaced(before, after).added = in
      /\ Replaced(before, after).moved = <<>>
  BY DEF Replaced, Change
<1>2. /\ n \in Nat /\ m \in Nat /\ Len(in) = m /\ \A k \in 1 .. m : in[k] = k
      /\ Len(out) = n /\ \A k \in 1 .. n : out[k] = k
  OBVIOUS
<1>. HIDE DEF out, in, n
<1>3. Len(Reverse(out)) = n /\ \A k \in 1 .. n : Reverse(out)[k] = n + 1 - k
  <2>1. Reverse(out) = [k \in 1 .. n |-> out[(n - k) + 1]]
    BY <1>2 DEF Reverse
  <2>2. \A k \in 1 .. n : (n - k) + 1 \in 1 .. n /\ (n - k) + 1 = n + 1 - k
    BY <1>2
  <2>. QED
    BY <1>2, <2>1, <2>2
<1>4. CutEach(a, Reverse(out)) = <<>>
  BY <1>2, <1>3, AllCut DEF n
<1>5. CopyEach(<<>>, in, after) = Copies(after, m)
  BY <1>2, AllCopied
<1>6. Followed(a, Replaced(before, after), after) = Copies(after, m)
  BY <1>1, <1>4, <1>5, EachOfNone DEF Followed
<1>. QED
  BY <1>6, CopiesMatch

----------------------------------------------------------------------------
(* What the overlay does not set itself it shows as the global layer has it. *)

\* A tree holds what decodes.
TreeTyped(n) ==
  /\ n.val \in [Options -> Values] /\ n.list \in Seq(Element)
  /\ \A k \in Options \cap DOMAIN n.held : n.held[k] \in Values \cup {Bad}

Follows(o, g) ==
  /\ \A k \in Options \ (o.own \cup GlobalOnly) : o.val[k] = g.val[k]
  /\ Members \notin o.own => Matches(o.list, g.list)

Memory ==
  /\ \A l \in Layers : TreeTyped(node[l])
  /\ Follows(node["overlay"], node["global"])
Files == \A l \in Layers : /\ Readable(file[l]) => Decoded(file[l])
                           /\ \A json \in pending[l] : Decoded(json)
FInv == Memory /\ Files

LEMMA ElementsTyped ==
  ASSUME NEW vals \in Seq(Values), NEW own \in BOOLEAN
  PROVE  /\ Elements(vals, own) \in Seq(Element) /\ Len(Elements(vals, own)) = Len(vals)
         /\ \A i \in 1 .. Len(vals) : Elements(vals, own)[i].val = vals[i]
<1>1. \A i \in 1 .. Len(vals) : [val |-> vals[i], own |-> own] \in Element
  BY DEF Element
<1>. QED
  BY <1>1 DEF Elements

LEMMA ValuesTyped ==
  ASSUME NEW list \in Seq(Element)
  PROVE  /\ ValuesOf(list) \in Seq(Values) /\ Len(ValuesOf(list)) = Len(list)
         /\ \A i \in 1 .. Len(list) : ValuesOf(list)[i] = list[i].val
<1>1. \A i \in 1 .. Len(list) : list[i] \in Element
  OBVIOUS
<1>2. \A i \in 1 .. Len(list) : list[i].val \in Values
  BY <1>1, ElementParts
<1>. QED
  BY <1>2 DEF ValuesOf

\* A list that is a copy of the global one.
LEMMA CopyMatches ==
  ASSUME NEW list \in Seq(Element)
  PROVE  Matches(Elements(ValuesOf(list), FALSE), list)
<1>. DEFINE vals == ValuesOf(list)  c == Elements(vals, FALSE)
<1>1. /\ vals \in Seq(Values) /\ Len(vals) = Len(list)
      /\ \A i \in 1 .. Len(list) : vals[i] = list[i].val
  BY ValuesTyped
<1>. HIDE DEF vals
<1>2. /\ c \in Seq(Element) /\ Len(c) = Len(vals)
      /\ \A i \in 1 .. Len(vals) : c[i].val = vals[i]
  BY <1>1, ElementsTyped
<1>. HIDE DEF c
<1>3. DOMAIN c = 1 .. Len(list)
  BY <1>1, <1>2, LenProperties
<1>4. Matches(c, list)
  BY <1>1, <1>2, <1>3 DEF Matches
<1>. QED
  BY <1>4 DEF c, vals

LEMMA JsonDecoded ==
  ASSUME NEW l \in Layers, NEW n, Shaped(l, n), TreeTyped(n)
  PROVE  Decoded(Json(n))
<1>. DEFINE kept == (n.own \cap Options) \cup IF HasContent(n) THEN {Members} ELSE {}
            entry(k) == IF k \notin kept THEN n.held[k]
                        ELSE IF k = Members THEN ValuesOf(n.list) ELSE n.val[k]
<1>1. Json(n) = [k \in kept \cup DOMAIN n.held |-> entry(k)]
  BY DEF Json
<1>2. Members \notin Options
  BY NodeAssumption
<1>3. ASSUME NEW k \in Options \cap (kept \cup DOMAIN n.held) PROVE entry(k) \in Values \cup {Bad}
  BY <1>2, <1>3 DEF TreeTyped
<1>4. Members \in kept \cup DOMAIN n.held => entry(Members) \in Seq(Values) \cup {Bad}
  <2>1. ValuesOf(n.list) \in Seq(Values)
    BY ValuesTyped DEF TreeTyped
  <2>2. Members \in DOMAIN n.held => n.held[Members] = Bad
    BY DEF Shaped
  <2>. HIDE DEF kept
  <2>. QED
    BY <2>1, <2>2
<1>. HIDE DEF kept, entry
<1>. QED
  BY <1>1, <1>3, <1>4 DEF Decoded

\* What a reload returns.
LEMMA SyncTyped ==
  ASSUME NEW l \in Layers, NEW n, TreeTyped(n), NEW d, Object(d), Decoded(d),
         NEW below \in [Options -> Values], NEW list \in Seq(Values)
  PROVE  TreeTyped(SyncJson(l, n, d, below, list))
<1>. DEFINE s == SyncJson(l, n, d, below, list)
            visited == Visited(l, d)
            value(k) == IF k \in visited THEN d[k]
                        ELSE IF l = "overlay" /\ k \in GlobalOnly THEN n.val[k] ELSE below[k]
<1>1. /\ s.val = [k \in Options |-> value(k)]
      /\ s.list = IF Members \in visited THEN Elements(d[Members], TRUE) ELSE Elements(list, FALSE)
      /\ s.held = [k \in DOMAIN d \ visited |-> d[k]]
  BY DEF SyncJson, Visited
<1>2. \A k \in visited : k \in DOMAIN d /\ d[k] # Bad
  BY DEF Visited, Usable
<1>3. \A k \in Options : value(k) \in Values
  BY <1>2 DEF Decoded, TreeTyped
<1>4. Members \in visited => d[Members] \in Seq(Values)
  BY <1>2 DEF Decoded
<1>5. s.list \in Seq(Element)
  <2>1. Elements(list, FALSE) \in Seq(Element)
    BY ElementsTyped
  <2>2. Members \in visited => Elements(d[Members], TRUE) \in Seq(Element)
    BY <1>4, ElementsTyped
  <2>. HIDE DEF s, visited
  <2>. QED
    BY <1>1, <2>1, <2>2
<1>. HIDE DEF value, visited, s
<1>6. s.val \in [Options -> Values]
  BY <1>1, <1>3
<1>7. \A k \in Options \cap DOMAIN s.held : s.held[k] \in Values \cup {Bad}
  BY <1>1 DEF Decoded
<1>. QED
  BY <1>5, <1>6, <1>7 DEF TreeTyped, s

LEMMA SyncFollows ==
  ASSUME NEW n, NEW d, NEW g, g.list \in Seq(Element)
  PROVE  Follows(SyncJson("overlay", n, d, g.val, ValuesOf(g.list)), g)
<1>. DEFINE s == SyncJson("overlay", n, d, g.val, ValuesOf(g.list))
            visited == Visited("overlay", d)
            value(k) == IF k \in visited THEN d[k]
                        ELSE IF k \in GlobalOnly THEN n.val[k] ELSE g.val[k]
<1>1. /\ s.own = visited /\ s.val = [k \in Options |-> value(k)]
      /\ Members \notin visited => s.list = Elements(ValuesOf(g.list), FALSE)
  BY DEF SyncJson, Visited
<1>2. \A k \in Options \ (visited \cup GlobalOnly) : value(k) = g.val[k]
  OBVIOUS
<1>. HIDE DEF s, value, visited
<1>3. \A k \in Options \ (s.own \cup GlobalOnly) : s.val[k] = g.val[k]
  BY <1>1, <1>2
<1>4. Members \notin s.own => Matches(s.list, g.list)
  BY <1>1, CopyMatches
<1>. QED
  BY <1>3, <1>4 DEF Follows, s

\* change is what makes up of before: a list that matches the one follows to the other.
Reports(change, before, up) ==
  \A a : Matches(a, before) => Matches(Followed(a, change, up), up)

LEMMA ReportsNone == ASSUME NEW list PROVE Reports(NoChange, list, list)
BY FollowedNone DEF Reports

LEMMA ReportsAll ==
  ASSUME NEW before \in Seq(Element), NEW after \in Seq(Element)
  PROVE  Reports(Replaced(before, after), before, after)
<1>. SUFFICES ASSUME NEW a, Matches(a, before)
              PROVE  Matches(Followed(a, Replaced(before, after), after), after)
  BY DEF Reports
<1>1. a \in Seq(Element) /\ Len(a) = Len(before)
  BY DEF Matches
<1>. QED
  BY <1>1, FollowedReplaced

\* A layer changes, and the overlay still follows.
LEMMA ChangedFollows ==
  ASSUME Tables, \A l \in Layers : Shaped(l, node[l]), Memory,
         NEW layer \in Layers, NEW n, NEW change, NEW strayed, TreeTyped(n),
         Changed(layer, n, change, strayed),
         layer = "overlay" => Follows(n, node["global"]),
         layer = "global" => Reports(change, node["global"].list, n.list)
  PROVE  Memory'
<1>1. CASE layer = "overlay"
  <2>1. node'["overlay"] = n /\ node'["global"] = node["global"]
    BY <1>1 DEF Changed, Tables, Layers
  <2>. QED
    BY <1>1, <2>1 DEF Memory, Layers
<1>2. CASE layer = "global"
  <2>. DEFINE b == node["overlay"]
              o == Mirrored(b, n)
  <2>1. PICK m \in {IF Members \in o.own THEN o
                      ELSE [o EXCEPT !.list = Followed(@, change, n.list)]} :
          node' = [global |-> n, overlay |-> m]
    BY <1>2 DEF Changed
  <2>2. Shaped("overlay", b) /\ TreeTyped(b) /\ Follows(b, node["global"])
    BY DEF Layers, Memory
  <2>3. /\ o = [val |-> o.val, own |-> b.own, list |-> b.list, held |-> b.held]
        /\ o.val = [k \in Options |-> IF k \in b.own \cup GlobalOnly THEN b.val[k] ELSE n.val[k]]
    BY <2>2 DEF Shaped, Mirrored
  <2>. HIDE DEF o, b
  <2>4. /\ m = [val |-> o.val, own |-> b.own, list |-> m.list, held |-> b.held]
        /\ m.list = IF Members \in b.own THEN b.list ELSE Followed(b.list, change, n.list)
    BY <2>1, <2>3
  <2>5. Members \notin b.own => Matches(m.list, n.list)
    BY <1>2, <2>2, <2>4 DEF Reports, Follows
  <2>6. /\ m.val \in [Options -> Values]
        /\ \A k \in Options \ (b.own \cup GlobalOnly) : m.val[k] = n.val[k]
    BY <2>2, <2>3, <2>4 DEF TreeTyped
  <2>7. m.list \in Seq(Element)
    BY <2>2, <2>4, <2>5 DEF TreeTyped, Matches
  <2>8. TreeTyped(m)
    BY <2>2, <2>4, <2>6, <2>7 DEF TreeTyped
  <2>9. Follows(m, n)
    BY <2>4, <2>5, <2>6 DEF Follows
  <2>10. node'["global"] = n /\ node'["overlay"] = m
    BY <2>1
  <2>. QED
    BY <2>8, <2>9, <2>10 DEF Memory, Layers
<1>. QED
  BY <1>1, <1>2 DEF Layers

\* A write and a reset of an option.
LEMMA WrittenFollows ==
  ASSUME NEW layer \in Layers, NEW n, Shaped(layer, n), TreeTyped(n), NEW g,
         NEW k \in Options, NEW v \in Values,
         NEW w, w = Write(n, k, v) \/ (w = ResetTo(n, k, v) /\ (layer = "overlay" => v = g.val[k]))
  PROVE  /\ TreeTyped(w) /\ w.list = n.list
         /\ layer = "overlay" /\ Follows(n, g) => Follows(w, g)
<1>1. k # Members
  BY NodeAssumption
<1>2. /\ w.val = [n.val EXCEPT ![k] = v] /\ w.list = n.list /\ w.held = Forget(n.held, k)
      /\ w.own = n.own \cup {k} \/ (w.own = n.own \ {k} /\ (layer = "overlay" => v = g.val[k]))
  BY DEF Write, ResetTo, Shaped
<1>3. DOMAIN w.held = DOMAIN n.held \ {k} /\ \A x \in DOMAIN w.held : w.held[x] = n.held[x]
  BY <1>2 DEF Forget
<1>4. w.val \in [Options -> Values] /\ \A x \in Options : w.val[x] = IF x = k THEN v ELSE n.val[x]
  BY <1>2 DEF TreeTyped
<1>5. TreeTyped(w)
  BY <1>2, <1>3, <1>4 DEF TreeTyped
<1>6. ASSUME layer = "overlay", Follows(n, g) PROVE Follows(w, g)
  <2>1. \A x \in Options \ (w.own \cup GlobalOnly) : w.val[x] = g.val[x]
    BY <1>2, <1>4, <1>6 DEF Follows
  <2>2. Members \notin w.own => Members \notin n.own
    BY <1>1, <1>2
  <2>. QED
    BY <1>2, <1>6, <2>1, <2>2 DEF Follows
<1>. QED
  BY <1>2, <1>5, <1>6

\* A change that leaves the list as it is.
LEMMA OptionFollows ==
  ASSUME IInv, Memory, NEW layer \in Layers, NEW n, TreeTyped(n), n.list = node[layer].list,
         layer = "overlay" => Follows(n, node["global"]),
         Changed(layer, n, NoChange, astray[layer])
  PROVE  Memory'
<1>1. Tables /\ \A l \in Layers : Shaped(l, node[l])
  BY DEF IInv, LayerInv, ShapesOK
<1>2. layer = "global" => Reports(NoChange, node["global"].list, n.list)
  BY ReportsNone
<1>. QED
  BY <1>1, <1>2, ChangedFollows

\* A change of the list, which becomes the layer's own.
LEMMA ListFollows ==
  ASSUME IInv, Memory, NEW layer \in Layers, NEW list \in Seq(Element), NEW change,
         ListChanged(layer, list, change), Reports(change, node[layer].list, list)
  PROVE  Memory'
<1>. DEFINE own == node[layer].own \cup {Members}
            n == [node[layer] EXCEPT !.list = list, !.own = own]
            g == node["global"]
<1>1. Tables /\ \A l \in Layers : Shaped(l, node[l]) /\ TreeTyped(node[l])
  BY DEF IInv, LayerInv, ShapesOK, Memory
<1>2. [node[layer] EXCEPT !.list = list, !.own = @ \cup {Members}] = n
  BY <1>1 DEF Shaped
<1>3. Changed(layer, n, change, astray[layer])
  BY <1>2 DEF ListChanged
<1>4. n.val = node[layer].val /\ n.own = own /\ n.list = list /\ n.held = node[layer].held
  BY <1>1 DEF Shaped
<1>. HIDE DEF n
<1>5. TreeTyped(n)
  BY <1>1, <1>4 DEF TreeTyped
<1>6. layer = "overlay" => Follows(n, g)
  BY <1>4 DEF Memory, Follows
<1>7. layer = "global" => Reports(change, g.list, n.list)
  BY <1>4
<1>. QED
  BY <1>1, <1>3, <1>5, <1>6, <1>7, ChangedFollows

LEMMA ListTouchedFollows ==
  ASSUME IInv, Memory, NEW layer \in Layers, Touch(layer)
  PROVE  Memory'
<1>. DEFINE own == node[layer].own \cup {Members}
            n == [node[layer] EXCEPT !.own = own]
<1>1. Shaped(layer, node[layer]) /\ TreeTyped(node[layer])
  BY DEF IInv, LayerInv, ShapesOK, Memory
<1>2. [node[layer] EXCEPT !.own = @ \cup {Members}] = n
  BY <1>1 DEF Shaped
<1>3. Changed(layer, n, NoChange, astray[layer])
  BY <1>2 DEF Touch
<1>4. /\ n.val = node[layer].val /\ n.own = own
      /\ n.list = node[layer].list /\ n.held = node[layer].held
  BY <1>1 DEF Shaped
<1>. HIDE DEF n
<1>5. TreeTyped(n)
  BY <1>1, <1>4 DEF TreeTyped
<1>6. layer = "overlay" => Follows(n, node["global"])
  BY <1>4 DEF Memory, Follows
<1>. QED
  BY <1>3, <1>4, <1>5, <1>6, OptionFollows

LEMMA ListResetFollows ==
  ASSUME IInv, Memory, NEW layer \in Layers, ResetList(layer)
  PROVE  Memory'
<1>1. Tables /\ \A l \in Layers : Shaped(l, node[l]) /\ TreeTyped(node[l])
  BY DEF IInv, LayerInv, ShapesOK, Memory
<1>. DEFINE g == node["global"]
            list == IF layer = "overlay" THEN ValuesOf(g.list) ELSE DefaultList
            new == Elements(list, FALSE)
            own == node[layer].own \ {Members}
            n == [node[layer] EXCEPT !.list = new, !.own = own]
            strayed == astray[layer] \/ Json(n) # Json(node[layer])
<1>2. [node[layer] EXCEPT !.list = new, !.own = @ \ {Members}] = n
  BY <1>1 DEF Shaped
<1>3. Changed(layer, n, Replaced(node[layer].list, n.list), strayed)
  BY <1>2 DEF ResetList
<1>4. n.val = node[layer].val /\ n.own = own /\ n.list = new /\ n.held = node[layer].held
  BY <1>1 DEF Shaped
<1>5. g.list \in Seq(Element)
  BY <1>1 DEF Layers, TreeTyped
<1>6. new \in Seq(Element) /\ (layer = "overlay" => Matches(new, g.list))
  <2>1. list \in Seq(Values)
    BY <1>5, ValuesTyped, NodeAssumption
  <2>2. new \in Seq(Element)
    <3>. HIDE DEF list
    <3>. QED
      BY <2>1, ElementsTyped
  <2>3. layer = "overlay" => new = Elements(ValuesOf(g.list), FALSE)
    OBVIOUS
  <2>. HIDE DEF new, g
  <2>. QED
    BY <1>5, <2>2, <2>3, CopyMatches
<1>. HIDE DEF strayed, n, new, g
<1>7. TreeTyped(n)
  BY <1>1, <1>4, <1>6 DEF TreeTyped
<1>8. layer = "overlay" => Follows(n, g)
  <2>1. layer = "overlay" => Follows(node[layer], g)
    BY DEF Memory, g
  <2>2. Members \notin Options
    BY NodeAssumption
  <2>. QED
    BY <1>4, <1>6, <2>1, <2>2 DEF Follows
<1>9. layer = "global" => Reports(Replaced(node[layer].list, n.list), g.list, n.list)
  <2>1. node[layer].list \in Seq(Element)
    BY <1>1 DEF TreeTyped
  <2>. QED
    BY <1>4, <1>6, <2>1, ReportsAll DEF g
<1>. QED
  BY <1>1, <1>3, <1>7, <1>8, <1>9, ChangedFollows DEF g

LEMMA ReloadFollows ==
  ASSUME IInv, Memory, NEW layer \in Layers, NEW json, Object(json), Decoded(json), NEW survives,
         Reload(layer, json, survives)
  PROVE  Memory'
<1>1. Tables /\ \A l \in Layers : Shaped(l, node[l]) /\ TreeTyped(node[l])
  BY DEF IInv, LayerInv, ShapesOK, Memory
<1>. DEFINE n == Synced(layer, json)  g == node["global"]
<1>2. Changed(layer, n, Replaced(node[layer].list, n.list), survives)
  BY DEF Reload
<1>3. TreeTyped(g) /\ TreeTyped(node[layer])
  BY <1>1 DEF Layers
<1>4. g.val \in [Options -> Values] /\ g.list \in Seq(Element) /\ ValuesOf(g.list) \in Seq(Values)
  BY <1>3, ValuesTyped DEF TreeTyped
<1>5. TreeTyped(n)
  <2>1. layer = "overlay" => n = SyncJson(layer, node[layer], json, g.val, ValuesOf(g.list))
    BY DEF Synced
  <2>2. layer # "overlay" => n = SyncJson(layer, node[layer], json, Default, DefaultList)
    BY DEF Synced
  <2>3. Default \in [Options -> Values] /\ DefaultList \in Seq(Values)
    BY NodeAssumption
  <2>. HIDE DEF n, g
  <2>. QED
    BY <1>3, <1>4, <2>1, <2>2, <2>3, SyncTyped
<1>6. layer = "overlay" => Follows(n, g)
  <2>1. layer = "overlay" => n = SyncJson("overlay", node[layer], json, g.val, ValuesOf(g.list))
    BY DEF Synced
  <2>. HIDE DEF n, g
  <2>. QED
    BY <1>4, <2>1, SyncFollows
<1>. HIDE DEF n
<1>7. layer = "global" => Reports(Replaced(node[layer].list, n.list), g.list, n.list)
  BY <1>3, <1>5, ReportsAll DEF TreeTyped
<1>. QED
  BY <1>1, <1>2, <1>5, <1>6, <1>7, ChangedFollows

LEMMA ElementFollows ==
  ASSUME IInv, Memory, NEW layer \in Layers, NEW i \in DOMAIN node[layer].list, NEW v \in Values,
         SetElement(layer, i, v)
  PROVE  Memory'
<1>. DEFINE mark == [val |-> v, own |-> TRUE]
            g == node["global"]
            o == node["overlay"]
            new == [node[layer].list EXCEPT ![i] = mark]
            n == [node[layer] EXCEPT !.list = new]
            follow == [o.list EXCEPT ![i].val = v]
            f == [o EXCEPT !.list = follow]
<1>1. /\ Tables /\ \A l \in Layers : Shaped(l, node[l]) /\ TreeTyped(node[l])
      /\ Follows(o, g)
  BY DEF IInv, LayerInv, ShapesOK, Memory
<1>2. Shaped("overlay", o) /\ TreeTyped(o) /\ TreeTyped(g)
  BY <1>1 DEF Layers
<1>3. [node[layer] EXCEPT !.list[i] = mark] = n /\ [o EXCEPT !.list[i].val = v] = f
  BY <1>1, <1>2 DEF Shaped
<1>4. PICK m \in {IF layer = "overlay" THEN n
                   ELSE IF Members \in o.own \/ o.list[i].own THEN o ELSE f} :
        node' = [node EXCEPT ![layer] = n, !["overlay"] = m]
  BY <1>3 DEF SetElement
<1>5. /\ n.val = node[layer].val /\ n.own = node[layer].own
      /\ n.list = new /\ n.held = node[layer].held
  BY <1>1 DEF Shaped
<1>6. f.val = o.val /\ f.own = o.own /\ f.list = follow /\ f.held = o.held
  BY <1>2 DEF Shaped
<1>7. mark \in Element /\ mark.own /\ mark.val = v
  BY DEF Element
<1>8. /\ new \in Seq(Element) /\ Len(new) = Len(node[layer].list)
      /\ \A j \in DOMAIN node[layer].list : new[j] = IF j = i THEN mark ELSE node[layer].list[j]
  <2>1. node[layer].list \in Seq(Element)
    BY <1>1 DEF TreeTyped
  <2>. HIDE DEF mark
  <2>. QED
    BY <1>7, <2>1
<1>. HIDE DEF n, f, new, mark
<1>9. TreeTyped(n)
  BY <1>1, <1>5, <1>8 DEF TreeTyped
<1>10. CASE layer = "overlay"
  <2>1. node'["overlay"] = n /\ node'["global"] = g
    BY <1>1, <1>4, <1>10 DEF Tables, Layers
  <2>2. Follows(n, g)
    <3>1. Members \notin o.own => Matches(new, g.list)
      <4>1. o.list \in Seq(Element)
        BY <1>2 DEF TreeTyped
      <4>2. DOMAIN new = DOMAIN o.list
        BY <1>8, <1>10, <4>1
      <4>. QED
        BY <1>1, <1>7, <1>8, <1>10, <4>2 DEF Follows, Matches
    <3>. QED
      BY <1>1, <1>5, <1>10, <3>1 DEF Follows
  <2>. QED
    BY <1>2, <1>9, <2>1, <2>2 DEF Memory, Layers
<1>11. CASE layer = "global"
  <2>1. node'["overlay"] = m /\ node'["global"] = n /\ m \in {o, f}
    BY <1>1, <1>4, <1>11 DEF Tables, Layers
  <2>2. CASE Members \in o.own
    <3>1. m = o
      BY <1>4, <1>11, <2>2
    <3>2. Follows(m, n)
      BY <1>1, <1>5, <1>11, <2>2, <3>1 DEF Follows
    <3>. QED
      BY <1>2, <1>9, <2>1, <3>1, <3>2 DEF Memory, Layers
  <2>3. CASE Members \notin o.own
    <3>1. /\ o.list \in Seq(Element) /\ g.list \in Seq(Element) /\ Len(o.list) = Len(g.list)
          /\ \A j \in DOMAIN o.list : ~o.list[j].own => o.list[j].val = g.list[j].val
      BY <1>1, <2>3 DEF Follows, Matches
    <3>2. DOMAIN o.list = DOMAIN g.list /\ i \in DOMAIN o.list
      BY <1>11, <3>1
    <3>3. DOMAIN new = DOMAIN g.list /\ Len(new) = Len(o.list)
      BY <1>8, <1>11, <3>1
    <3>4. CASE o.list[i].own
      <4>1. m = o
        BY <1>4, <1>11, <3>4
      <4>2. Matches(o.list, new)
        BY <1>8, <1>11, <3>1, <3>2, <3>3, <3>4 DEF Matches
      <4>3. Follows(m, n)
        BY <1>1, <1>5, <1>11, <4>1, <4>2 DEF Follows
      <4>. QED
        BY <1>2, <1>9, <2>1, <4>1, <4>3 DEF Memory, Layers
    <3>5. CASE ~o.list[i].own
      <4>1. m = f
        BY <1>4, <1>11, <2>3, <3>5
      <4>2. /\ follow \in Seq(Element) /\ Len(follow) = Len(o.list)
            /\ \A j \in DOMAIN o.list :
                 follow[j] = IF j = i THEN [o.list[i] EXCEPT !.val = v] ELSE o.list[j]
            /\ [o.list[i] EXCEPT !.val = v].val = v
        <5>1. o.list[i] \in Element
          BY <3>1, <3>2
        <5>. DEFINE e == [o.list[i] EXCEPT !.val = v]
        <5>2. e \in Element /\ e.val = v
          BY <5>1 DEF Element
        <5>3. follow = [o.list EXCEPT ![i] = e]
          OBVIOUS
        <5>. HIDE DEF e, follow
        <5>4. /\ follow \in Seq(Element) /\ Len(follow) = Len(o.list)
              /\ \A j \in DOMAIN o.list : follow[j] = IF j = i THEN e ELSE o.list[j]
          <6>1. i \in 1 .. Len(o.list) /\ DOMAIN o.list = 1 .. Len(o.list)
            BY <3>1, <3>2, LenProperties
          <6>. QED
            BY <3>1, <5>2, <5>3, <6>1, ExceptSeq
        <5>. QED
          BY <5>2, <5>4 DEF e
      <4>. HIDE DEF follow
      <4>3. DOMAIN follow = DOMAIN o.list
        BY <3>1, <4>2
      <4>4. Matches(follow, new)
        BY <1>7, <1>8, <1>11, <3>1, <3>2, <3>3, <4>2, <4>3 DEF Matches
      <4>5. Follows(m, n)
        BY <1>1, <1>5, <1>6, <1>11, <4>1, <4>4 DEF Follows
      <4>6. TreeTyped(m)
        BY <1>2, <1>6, <4>1, <4>2 DEF TreeTyped
      <4>. QED
        BY <1>9, <2>1, <4>5, <4>6 DEF Memory, Layers
    <3>. QED
      BY <3>4, <3>5
  <2>. QED
    BY <2>2, <2>3
<1>. QED
  BY <1>10, <1>11 DEF Layers

LEMMA UserFollows ==
  ASSUME IInv, Memory, NEW layer \in Layers, UserWrite(layer)
  PROVE  Memory'
<1>. DEFINE n == node[layer]  g == node["global"]
<1>1. /\ \A l \in Layers : Shaped(l, node[l]) /\ TreeTyped(node[l])
      /\ layer = "overlay" => Follows(n, g)
      /\ Shaped(layer, n) /\ TreeTyped(n) /\ TreeTyped(g)
  BY DEF IInv, LayerInv, ShapesOK, Memory, Layers
<1>2. n.list \in Seq(Element) /\ DOMAIN n.list = 1 .. Len(n.list)
  BY <1>1, LenProperties DEF TreeTyped
<1>3. ASSUME NEW k \in Options, NEW v \in Values, SetOption(layer, k, v) PROVE Memory'
  <2>. DEFINE w == Write(n, k, v)
  <2>1. Changed(layer, w, NoChange, astray[layer])
    BY <1>3 DEF SetOption
  <2>. HIDE DEF n, g
  <2>2. TreeTyped(w) /\ w.list = n.list /\ (layer = "overlay" => Follows(w, g))
    BY <1>1, WrittenFollows
  <2>. HIDE DEF w
  <2>. QED
    BY <2>1, <2>2, OptionFollows DEF n, g
<1>4. ASSUME NEW k \in Options, ResetOption(layer, k) PROVE Memory'
  <2>. DEFINE v == IF layer = "overlay" THEN g.val[k] ELSE Default[k]
              w == ResetTo(n, k, v)
  <2>1. Changed(layer, w, NoChange, astray[layer])
    BY <1>4 DEF ResetOption
  <2>2. v \in Values /\ (layer = "overlay" => v = g.val[k])
    BY <1>1, NodeAssumption DEF TreeTyped
  <2>. HIDE DEF v, n, g
  <2>3. TreeTyped(w) /\ w.list = n.list /\ (layer = "overlay" => Follows(w, g))
    BY <1>1, <2>2, WrittenFollows
  <2>. HIDE DEF w
  <2>. QED
    BY <2>1, <2>3, OptionFollows DEF n, g
<1>5. CASE Clear(layer)
  <2>1. <<>> \in Seq(Element) /\ ListChanged(layer, <<>>, Replaced(n.list, <<>>))
    BY <1>5 DEF Clear
  <2>2. Reports(Replaced(n.list, <<>>), n.list, <<>>)
    BY <1>2, <2>1, ReportsAll
  <2>. QED
    BY <2>1, <2>2, ListFollows
<1>6. ASSUME NEW i \in 1 .. Len(n.list) + 1, NEW v \in Values, Insert(layer, i, v) PROVE Memory'
  <2>. DEFINE up == Spliced(n.list, i, Elements(<<v>>, FALSE))  change == Change(<<i>>, <<>>, <<>>)
  <2>1. ListChanged(layer, up, change)
    BY <1>6 DEF Insert
  <2>2. up \in Seq(Element)
    <3>1. Copy(v) \in Element /\ up = Spliced(n.list, i, <<Copy(v)>>)
      BY CopyOf
    <3>. HIDE DEF up, n
    <3>2. PutIn(up, Element, n.list, i, Copy(v))
      BY <1>2, <3>1, SplicedOne
    <3>. QED
      BY <3>2 DEF PutIn
  <2>. HIDE DEF n
  <2>3. Reports(change, n.list, up)
    BY FollowedInsert DEF Reports
  <2>. HIDE DEF up, change
  <2>. QED
    BY <2>1, <2>2, <2>3, ListFollows DEF n
<1>7. ASSUME NEW i \in DOMAIN n.list, RemoveAtRow(layer, i) PROVE Memory'
  <2>. DEFINE up == Cut(n.list, i, i)  change == Change(<<>>, <<i>>, <<>>)
  <2>1. ListChanged(layer, up, change)
    BY <1>7 DEF RemoveAtRow
  <2>. HIDE DEF n
  <2>2. TakenOut(up, Element, n.list, i)
    BY <1>2, CutOne
  <2>3. Reports(change, n.list, up)
    BY FollowedCut DEF Reports
  <2>. HIDE DEF up, change
  <2>. QED
    BY <2>1, <2>2, <2>3, ListFollows DEF n, TakenOut
<1>8. ASSUME NEW i \in DOMAIN n.list, NEW j \in DOMAIN n.list, Move(layer, i, j) PROVE Memory'
  <2>. DEFINE up == MoveRow(n.list, i, j)  change == Change(<<>>, <<>>, <<<<i, j>>>>)
  <2>1. ListChanged(layer, up, change)
    BY <1>8 DEF Move
  <2>. HIDE DEF n
  <2>2. Matches(n.list, n.list)
    BY <1>2 DEF Matches
  <2>3. up \in Seq(Element)
    BY <2>2, MoveMatches DEF Matches
  <2>4. Reports(change, n.list, up)
    BY FollowedMove DEF Reports
  <2>. HIDE DEF up, change
  <2>. QED
    BY <2>1, <2>3, <2>4, ListFollows DEF n
<1>9. ASSUME NEW i \in DOMAIN n.list, NEW v \in Values, SetElement(layer, i, v) PROVE Memory'
  BY <1>9, ElementFollows
<1>10. CASE ResetList(layer)
  BY <1>10, ListResetFollows
<1>11. CASE Touch(layer)
  BY <1>11, ListTouchedFollows
<1>. QED
  BY <1>3, <1>4, <1>5, <1>6, <1>7, <1>8, <1>9, <1>10, <1>11 DEF UserWrite

\* A save of what decodes, and the files.
LEMMA WriteDecoded ==
  ASSUME Tables, Files, NEW layer \in Layers, NEW json, NEW strayed,
         WriteFile(layer, json, strayed), Decoded(json)
  PROVE  Files'
<1>1. pending' = [pending EXCEPT ![layer] = {}]
  BY DEF WriteFile
<1>2. file' = [file EXCEPT ![layer] = json] \/ file' = file
  BY DEF WriteFile
<1>3. ASSUME NEW l \in Layers
      PROVE  /\ pending'[l] = {} \/ pending'[l] = pending[l]
             /\ file'[l] = json \/ file'[l] = file[l]
  BY <1>1, <1>2 DEF Tables
<1>. QED
  BY <1>3 DEF Files

LEMMA StoreFollows ==
  ASSUME IInv, FInv, [Next]_vars
  PROVE  FInv'
<1>1. Tables /\ \A l \in Layers : Shaped(l, node[l]) /\ TreeTyped(node[l])
  BY DEF IInv, LayerInv, ShapesOK, FInv, Memory
<1>2. ASSUME UNCHANGED node PROVE Memory'
  BY <1>2 DEF FInv, Memory
<1>3. ASSUME UNCHANGED <<file, pending>> PROVE Files'
  BY <1>3 DEF FInv, Files
<1>4. ASSUME NEW layer \in Layers, UserWrite(layer) PROVE FInv'
  <2>1. UNCHANGED <<file, pending>>
    BY <1>4 DEF UserWrite, SetOption, ResetOption, ResetList, ListChanged, Clear, Touch, Insert,
                RemoveAtRow, Move, SetElement, disk
  <2>. QED
    BY <1>3, <1>4, <2>1, UserFollows DEF FInv
<1>5. ASSUME NEW layer \in Layers, NEW c \in Contents, ExternalEdit(layer, c) PROVE FInv'
  <2>1. UNCHANGED <<node, pending>> /\ file' = [file EXCEPT ![layer] = c]
    BY <1>5 DEF ExternalEdit
  <2>2. Readable(c) => Decoded(c)
    BY ContentsAssumption, DocumentParts DEF Readable
  <2>3. \A l \in Layers : file'[l] = c \/ file'[l] = file[l]
    BY <1>1, <2>1 DEF Tables
  <2>4. Files'
    BY <2>1, <2>2, <2>3 DEF FInv, Files
  <2>. QED
    BY <1>2, <2>1, <2>4 DEF FInv
<1>6. ASSUME NEW layer \in Layers, Flush(layer) PROVE FInv'
  <2>. DEFINE json == Json(node[layer])
  <2>1. UNCHANGED node
    BY <1>6 DEF Flush
  <2>2. Decoded(json)
    BY <1>1, JsonDecoded
  <2>3. ASSUME WriteFile(layer, json, FALSE) PROVE Files'
    BY <1>1, <2>2, <2>3, WriteDecoded DEF FInv
  <2>4. ASSUME pending' = [pending EXCEPT ![layer] = {json}], UNCHANGED file PROVE Files'
    <3>1. \A l \in Layers : pending'[l] = {json} \/ pending'[l] = pending[l]
      BY <1>1, <2>4 DEF Tables
    <3>. HIDE DEF json
    <3>. QED
      BY <2>2, <2>4, <3>1 DEF FInv, Files
  <2>5. Files'
    BY <1>6, <2>3, <2>4 DEF Flush
  <2>. QED
    BY <1>2, <2>1, <2>5 DEF FInv
<1>7. ASSUME NEW layer \in Layers, SaveTimeout(layer) PROVE FInv'
  <2>1. UNCHANGED node
    BY <1>7 DEF SaveTimeout
  <2>2. ASSUME NEW json \in pending[layer], WriteFile(layer, json, astray[layer]) PROVE Files'
    <3>1. Decoded(json)
      BY DEF FInv, Files
    <3>. QED
      BY <1>1, <2>2, <3>1, WriteDecoded DEF FInv
  <2>3. ASSUME UNCHANGED <<file, pending>> PROVE Files'
    BY <1>3, <2>3
  <2>4. Files'
    BY <1>7, <2>2, <2>3 DEF SaveTimeout
  <2>. QED
    BY <1>2, <2>1, <2>4 DEF FInv
<1>8. ASSUME NEW layer \in Layers, WatcherEvent(layer) PROVE FInv'
  BY <1>2, <1>3, <1>8 DEF WatcherEvent, disk, FInv
<1>9. ASSUME NEW layer \in Layers, Load(layer) PROVE FInv'
  <2>1. CASE LoadTorn(layer) \/ LoadLocked(layer)
    BY <1>2, <1>3, <2>1 DEF LoadTorn, LoadLocked, disk, FInv
  <2>2. CASE LoadMissing(layer)
    <3>1. Files'
      BY <1>3, <2>2 DEF LoadMissing
    <3>2. ASSUME NEW survives, Reload(layer, Nothing, survives) PROVE Memory'
      <4>1. Object(Nothing) /\ Decoded(Nothing)
        BY NothingIsObject DEF Decoded
      <4>. QED
        BY <3>2, <4>1, ReloadFollows DEF FInv
    <3>. QED
      BY <1>2, <2>2, <3>1, <3>2 DEF LoadMissing, FInv
  <2>3. CASE LoadContent(layer)
    <3>1. Readable(file[layer]) /\ UNCHANGED file
      BY <2>3 DEF LoadContent
    <3>2. Object(file[layer]) /\ Decoded(file[layer])
      BY <3>1 DEF IInv, LayerInv, ShapesOK, FInv, Files
    <3>3. Reload(layer, file[layer], FALSE) => Memory'
      BY <3>2, ReloadFollows DEF FInv
    <3>4. Memory'
      BY <1>2, <2>3, <3>3 DEF LoadContent
    <3>5. \A l \in Layers : pending'[l] = {} \/ pending'[l] = pending[l]
      <4>1. pending' = [pending EXCEPT ![layer] = {}] \/ pending' = pending
        BY <2>3 DEF LoadContent
      <4>. QED
        BY <1>1, <4>1 DEF Tables
    <3>6. Files'
      BY <3>1, <3>5 DEF FInv, Files
    <3>. QED
      BY <3>4, <3>6 DEF FInv
  <2>. QED
    BY <1>9, <2>1, <2>2, <2>3 DEF Load
<1>10. CASE UNCHANGED vars
  BY <1>2, <1>3, <1>10 DEF vars, disk, FInv
<1>. QED
  BY <1>4, <1>5, <1>6, <1>7, <1>8, <1>9, <1>10 DEF Next

LEMMA StartFollows == ASSUME Init PROVE FInv
<1>. DEFINE json(l) == Data(Read(file[l]))
<1>1. file \in [Layers -> StartContents] /\ pending = [l \in Layers |-> {}]
  BY DEF Init
<1>2. PICK g \in {SyncJson("global", Fresh(Default), json("global"), Default, DefaultList)} :
        node = [global |-> g,
                overlay |-> SyncJson("overlay", Fresh(g.val), json("overlay"), g.val,
                                     ValuesOf(g.list))]
  BY DEF Init
<1>3. ASSUME NEW l \in Layers
      PROVE  (Readable(file[l]) => Decoded(file[l])) /\ Object(json(l)) /\ Decoded(json(l))
  <2>1. Readable(file[l]) => Object(file[l]) /\ Decoded(file[l])
    BY <1>1, ContentsAssumption, DocumentParts DEF Readable
  <2>2. Object(Nothing) /\ Decoded(Nothing)
    BY NothingIsObject DEF Decoded
  <2>. QED
    BY <2>1, <2>2, DataOf DEF Read
<1>. HIDE DEF json
<1>4. \A val \in [Options -> Values] : TreeTyped(Fresh(val))
  <2>1. <<>> \in Seq(Element)
    OBVIOUS
  <2>. QED
    BY <2>1, NothingIsObject DEF Fresh, TreeTyped
<1>5. Default \in [Options -> Values] /\ DefaultList \in Seq(Values) /\ TreeTyped(Fresh(Default))
  BY <1>4, NodeAssumption
<1>6. TreeTyped(g)
  BY <1>2, <1>3, <1>5, SyncTyped DEF Layers
<1>7. g.val \in [Options -> Values] /\ g.list \in Seq(Element) /\ ValuesOf(g.list) \in Seq(Values)
      /\ TreeTyped(Fresh(g.val))
  BY <1>4, <1>6, ValuesTyped DEF TreeTyped
<1>. DEFINE o == SyncJson("overlay", Fresh(g.val), json("overlay"), g.val, ValuesOf(g.list))
<1>8. TreeTyped(o)
  BY <1>3, <1>7, SyncTyped DEF Layers
<1>9. Follows(o, g)
  BY <1>7, SyncFollows
<1>10. node["global"] = g /\ node["overlay"] = o
  BY <1>2
<1>. HIDE DEF o
<1>11. Memory
  BY <1>6, <1>8, <1>9, <1>10 DEF Memory, Layers
<1>12. Files
  BY <1>1, <1>3 DEF Files
<1>. QED
  BY <1>11, <1>12 DEF FInv

\* What the overlay does not set itself it shows as the global layer has it, element by
\* element of a list it does not own, through writes, resets, moves and reloads of both
\* (node.cpp:268-279, listnode.cpp:425-444).
THEOREM OverlayShows == Spec => []OverlayFollows
<1>1. Init => FInv
  BY StartFollows
<1>2. IInv /\ FInv /\ [Next]_vars => FInv'
  BY StoreFollows
<1>3. FInv => OverlayFollows
  <2>. SUFFICES ASSUME FInv PROVE OverlayFollows
    OBVIOUS
  <2>. DEFINE g == node["global"]  o == node["overlay"]
  <2>1. Follows(o, g)
    BY DEF FInv, Memory
  <2>2. ASSUME Members \notin o.own
        PROVE  /\ DOMAIN o.list = DOMAIN g.list
               /\ \A i \in DOMAIN o.list : ~o.list[i].own => o.list[i].val = g.list[i].val
    <3>1. Matches(o.list, g.list)
      BY <2>1, <2>2 DEF Follows
    <3>2. DOMAIN o.list = DOMAIN g.list
      BY <3>1, LenProperties DEF Matches
    <3>. QED
      BY <3>1, <3>2 DEF Matches
  <2>3. \A k \in Options \ (o.own \cup GlobalOnly) : o.val[k] = g.val[k]
    BY <2>1 DEF Follows
  <2>. QED
    BY <2>2, <2>3 DEF OverlayFollows
<1>. QED
  BY <1>1, <1>2, <1>3, Invariance, PTL DEF Spec

\* What waits to be saved is queued behind a timer that runs.
Timers ==
  /\ saveTimer \in [Layers -> BOOLEAN] /\ saveQueued \in [Layers -> BOOLEAN]
  /\ retries \in [Layers -> 0 .. LoadRetries]
  /\ \A l \in Layers : pending[l] # {} => saveTimer[l] /\ saveQueued[l]

LEMMA TimersStay ==
  ASSUME Tables, Timers, UNCHANGED <<saveTimer, saveQueued>>,
         retries' \in [Layers -> 0 .. LoadRetries],
         NEW layer \in Layers, pending' = pending \/ pending' = [pending EXCEPT ![layer] = {}]
  PROVE  Timers'
<1>1. \A l \in Layers : pending'[l] = {} \/ pending'[l] = pending[l]
  BY DEF Tables
<1>. QED
  BY <1>1 DEF Timers

\* A save empties what waits and starts the timer.
LEMMA TimersWrite ==
  ASSUME Tables, Timers, NEW layer \in Layers, NEW json, NEW strayed,
         WriteFile(layer, json, strayed), UNCHANGED retries,
         NEW b \in BOOLEAN, saveQueued' = [saveQueued EXCEPT ![layer] = b]
  PROVE  Timers'
<1>1. /\ saveTimer' = [saveTimer EXCEPT ![layer] = TRUE]
      /\ pending' = [pending EXCEPT ![layer] = {}]
  BY DEF WriteFile
<1>2. \A l \in Layers : IF l = layer THEN pending'[l] = {}
                        ELSE /\ pending'[l] = pending[l] /\ saveTimer'[l] = saveTimer[l]
                             /\ saveQueued'[l] = saveQueued[l]
  BY <1>1 DEF Tables, Timers
<1>. QED
  BY <1>1, <1>2 DEF Timers

LEMMA TimersStep ==
  ASSUME Tables, Timers, [Next]_vars
  PROVE  Timers'
<1>0. LoadRetries \in Nat
  BY StoreAssumption
<1>1. ASSUME UNCHANGED <<saveTimer, saveQueued, retries, pending>> PROVE Timers'
  BY <1>1 DEF Timers
<1>2. ASSUME NEW layer \in Layers, UserWrite(layer) PROVE Timers'
  <2>1. UNCHANGED <<disk, loads>>
    BY <1>2 DEF UserWrite, SetOption, ResetOption, ResetList, ListChanged, Clear, Touch, Insert,
                RemoveAtRow, Move, SetElement
  <2>. QED
    BY <1>1, <2>1 DEF disk, loads
<1>3. ASSUME NEW layer \in Layers, NEW c \in Contents, ExternalEdit(layer, c) PROVE Timers'
  BY <1>1, <1>3 DEF ExternalEdit
<1>4. ASSUME NEW layer \in Layers, Flush(layer) PROVE Timers'
  <2>1. UNCHANGED retries
    BY <1>4 DEF Flush
  <2>2. ASSUME WriteFile(layer, Json(node[layer]), FALSE), UNCHANGED saveQueued PROVE Timers'
    <3>1. /\ saveQueued' = [saveQueued EXCEPT ![layer] = saveQueued[layer]]
          /\ saveQueued[layer] \in BOOLEAN
      BY <2>2 DEF Timers
    <3>. QED
      BY <2>1, <2>2, <3>1, TimersWrite
  <2>3. ASSUME saveTimer[layer], UNCHANGED saveTimer,
               pending' = [pending EXCEPT ![layer] = {Json(node[layer])}],
               saveQueued' = [saveQueued EXCEPT ![layer] = TRUE]
        PROVE  Timers'
    <3>1. \A l \in Layers : IF l = layer THEN saveTimer'[l] /\ saveQueued'[l]
                            ELSE /\ pending'[l] = pending[l] /\ saveTimer'[l] = saveTimer[l]
                                 /\ saveQueued'[l] = saveQueued[l]
      BY <2>3 DEF Tables, Timers
    <3>. QED
      BY <2>1, <2>3, <3>1 DEF Timers
  <2>. QED
    BY <1>4, <2>2, <2>3 DEF Flush
<1>5. ASSUME NEW layer \in Layers, SaveTimeout(layer) PROVE Timers'
  <2>1. UNCHANGED retries /\ saveQueued' = [saveQueued EXCEPT ![layer] = FALSE]
    BY <1>5 DEF SaveTimeout
  <2>2. ASSUME NEW json \in pending[layer], WriteFile(layer, json, astray[layer]) PROVE Timers'
    BY <2>1, <2>2, TimersWrite
  <2>3. ASSUME ~saveQueued[layer] \/ pending[layer] = {}, UNCHANGED pending,
               saveTimer' = [saveTimer EXCEPT ![layer] = FALSE]
        PROVE  Timers'
    <3>1. pending[layer] = {}
      BY <2>3 DEF Timers
    <3>2. \A l \in Layers : IF l = layer THEN pending'[l] = {}
                            ELSE /\ pending'[l] = pending[l] /\ saveTimer'[l] = saveTimer[l]
                                 /\ saveQueued'[l] = saveQueued[l]
      BY <2>1, <2>3, <3>1 DEF Timers
    <3>. QED
      BY <2>1, <2>3, <3>2 DEF Timers
  <2>. QED
    BY <1>5, <2>2, <2>3 DEF SaveTimeout
<1>6. ASSUME NEW layer \in Layers, WatcherEvent(layer) PROVE Timers'
  <2>1. UNCHANGED disk /\ retries' = [retries EXCEPT ![layer] = IF loadTimer[layer] THEN @ ELSE 0]
    BY <1>6 DEF WatcherEvent
  <2>2. retries' \in [Layers -> 0 .. LoadRetries]
    BY <1>0, <2>1 DEF Timers
  <2>. QED
    BY <2>1, <2>2, TimersStay DEF disk
<1>7. ASSUME NEW layer \in Layers, LoadTorn(layer) PROVE Timers'
  <2>1. /\ UNCHANGED disk
        /\ retries' = [retries EXCEPT ![layer] = IF @ < LoadRetries THEN @ + 1 ELSE @]
    BY <1>7 DEF LoadTorn
  <2>2. retries[layer] \in 0 .. LoadRetries
    BY DEF Timers
  <2>3. (IF retries[layer] < LoadRetries THEN retries[layer] + 1 ELSE retries[layer])
          \in 0 .. LoadRetries
    BY <1>0, <2>2
  <2>4. retries' \in [Layers -> 0 .. LoadRetries]
    BY <2>1, <2>3 DEF Timers
  <2>. QED
    BY <2>1, <2>4, TimersStay DEF disk
<1>8. ASSUME NEW layer \in Layers, LoadMissing(layer) \/ LoadLocked(layer) \/ LoadContent(layer)
      PROVE  Timers'
  <2>1. /\ UNCHANGED <<saveTimer, saveQueued, retries>>
        /\ pending' = pending \/ pending' = [pending EXCEPT ![layer] = {}]
    BY <1>8 DEF LoadMissing, LoadLocked, LoadContent, disk
  <2>2. retries' \in [Layers -> 0 .. LoadRetries]
    BY <2>1 DEF Timers
  <2>. QED
    BY <2>1, <2>2, TimersStay
<1>9. CASE UNCHANGED vars
  BY <1>1, <1>9 DEF vars, disk, loads
<1>. QED
  BY <1>2, <1>3, <1>4, <1>5, <1>6, <1>7, <1>8, <1>9 DEF Next, Load

LEMMA TimersStart == ASSUME Init PROVE Timers
<1>1. /\ dirty = [l \in Layers |-> FALSE] /\ saveTimer = dirty /\ saveQueued = dirty
      /\ pending = [l \in Layers |-> {}] /\ retries = [l \in Layers |-> 0]
  BY DEF Init
<1>2. 0 \in 0 .. LoadRetries
  BY StoreAssumption
<1>. QED
  BY <1>1, <1>2 DEF Timers

\* Every tree holds what decodes and owns no more than it may, and what waits to be saved
\* has its timer running and its save queued (settingsfile.cpp:164-212).
THEOREM TypeCorrect == Spec => []TypeOK
<1>1. Init => FInv /\ Timers
  BY StartFollows, TimersStart
<1>2. IInv /\ FInv /\ Timers /\ [Next]_vars => FInv' /\ Timers'
  BY StoreFollows, TimersStep DEF IInv
<1>3. IInv /\ FInv /\ Timers => TypeOK
  <2>. SUFFICES ASSUME IInv, FInv, Timers PROVE TypeOK
    OBVIOUS
  <2>1. Tables /\ \A l \in Layers : Shaped(l, node[l]) /\ TreeTyped(node[l])
    BY DEF IInv, LayerInv, ShapesOK, FInv, Memory
  <2>2. \A l \in Layers : Tree(node[l])
    BY <2>1 DEF Tree, Shaped, TreeTyped
  <2>3. node["overlay"].own \cap GlobalOnly = {}
    BY <2>1 DEF Shaped, Special, Layers
  <2>. QED
    BY <2>1, <2>2, <2>3 DEF Tables, Timers, TypeOK
<1>. QED
  BY <1>1, <1>2, <1>3, Invariance, PTL DEF Spec
=============================================================================
