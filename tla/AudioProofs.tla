---------------------------- MODULE AudioProofs -----------------------------
(***************************************************************************)
(* Proofs about AudioServices, for any clients, providers and number of     *)
(* events, and about AudioBuffers, for any capacity, sizes of chunk and     *)
(* readers: the ring's operations, what the ring holds, what is heard.      *)
(***************************************************************************)
EXTENDS AudioServices, AudioBuffers, SequenceTheorems, TLAPS

(* Queues.                                                                  *)

\* What serving a queue of switches leaves: b, if its last entry is "on", or if it is
\* empty and the switch stands so now.
Ends(q, now, on, b) ==
  /\ q = <<>> => (now <=> b)
  /\ q # <<>> => ((q[Len(q)] = on) <=> b)

\* What is appended is last.
LEMMA AppendedLast ==
  ASSUME NEW S, NEW q \in Seq(S), NEW x \in S
  PROVE  /\ Append(q, x) \in Seq(S) /\ Append(q, x) # <<>>
         /\ Append(q, x)[Len(Append(q, x))] = x
<1>1. Append(q, x) \in Seq(S) /\ Len(Append(q, x)) = Len(q) + 1
  OBVIOUS
<1>2. Append(q, x)[Len(q) + 1] = x /\ Append(q, x) # <<>>
  OBVIOUS
<1>. QED
  BY <1>1, <1>2

\* Serving the first entry leaves the last one, unless it was the only one.
LEMMA ServedLast ==
  ASSUME NEW S, NEW q \in Seq(S), q # <<>>
  PROVE  /\ Head(q) \in S /\ Tail(q) \in Seq(S)
         /\ Tail(q) = <<>> => q[Len(q)] = Head(q)
         /\ Tail(q) # <<>> => Tail(q)[Len(Tail(q))] = q[Len(q)]
<1>1. /\ Head(q) \in S /\ Tail(q) \in Seq(S) /\ Len(q) \in Nat \ {0}
      /\ Head(q) = q[1] /\ Len(Tail(q)) = Len(q) - 1
  OBVIOUS
<1>2. Tail(q) = <<>> => q[Len(q)] = Head(q)
  <2>1. Len(<<>>) = 0
    OBVIOUS
  <2>2. Tail(q) = <<>> => Len(q) = 1
    BY <1>1, <2>1
  <2>. QED
    BY <1>1, <2>2
<1>3. ASSUME Tail(q) # <<>> PROVE Tail(q)[Len(Tail(q))] = q[Len(q)]
  <2>1. Len(Tail(q)) \in Nat \ {0}
    BY <1>1, <1>3
  <2>. QED
    BY <1>1, <2>1
<1>. QED
  BY <1>1, <1>2, <1>3

----------------------------------------------------------------------------
(* Type correctness, in parts.                                              *)

ClientsOK ==
  service \in [Clients -> Providers \cup {NoProvider}] /\ refs \in [Providers -> SUBSET Clients]
QueuesOK ==
  /\ calls \in [Providers -> Seq({"start", "stop"})]
  /\ posted \in [Providers -> Seq({"ref", "unref"})]
  /\ timer \in [Providers -> BOOLEAN]
ThreadOK ==
  /\ worker \in {"none", "running", "ended"} /\ stopRequested \in BOOLEAN
  /\ streams \in [monitor : Capturing \cup {"absent"}, mic : Capturing \cup {"absent"}]
  /\ armed \in BOOLEAN
  /\ worker # "running" => streams = NoStreams /\ ~armed
MainOK ==
  /\ users \subseteq Providers /\ mic \in BOOLEAN
  /\ main \in {"free", "stop", "rebuild"}

LEMMA Parts == TypeOK <=> ClientsOK /\ QueuesOK /\ ThreadOK /\ MainOK /\ events \in 0..MaxEvents
BY DEF TypeOK, ClientsOK, QueuesOK, ThreadOK, MainOK

LEMMA PartsAfter ==
  ClientsOK' /\ QueuesOK' /\ ThreadOK' /\ MainOK' /\ events' \in 0..MaxEvents => TypeOK'
BY DEF TypeOK, ClientsOK, QueuesOK, ThreadOK, MainOK

LEMMA ClientsKept == ClientsOK /\ UNCHANGED clients => ClientsOK'
BY DEF ClientsOK, clients
LEMMA QueuesKept == QueuesOK /\ UNCHANGED queues => QueuesOK'
BY DEF QueuesOK, queues
LEMMA ThreadKept == ThreadOK /\ UNCHANGED thread => ThreadOK'
BY DEF ThreadOK, thread

LEMMA EventTypes == Event /\ events \in 0..MaxEvents => events' \in 0..MaxEvents
BY ServicesAssumption DEF Event

\* A worker that is started is typed, and captures the microphone only by the option.
LEMMA StartWorkerTypes ==
  ASSUME StartWorker
  PROVE  ThreadOK' /\ worker' # "none" /\ (streams'["mic"] # "absent" => mic)
<1>1. CASE worker' = "ended" /\ armed' = FALSE /\ streams' = NoStreams
  BY <1>1 DEF StartWorker, ThreadOK, NoStreams
<1>2. CASE /\ worker' = "running" /\ armed' = TRUE
           /\ streams' \in [monitor : {"connecting"},
                            mic : {"absent"} \cup IF mic THEN {"connecting"} ELSE {}]
  BY <1>2 DEF StartWorker, ThreadOK, Capturing
<1>. QED
  BY <1>1, <1>2 DEF StartWorker

LEMMA WorkerEndsTypes ==
  ASSUME WorkerEnds, stopRequested \in BOOLEAN, UNCHANGED stopRequested
  PROVE  ThreadOK' /\ worker' = "ended" /\ streams'["mic"] = "absent"
BY DEF WorkerEnds, ThreadOK, NoStreams

LEMMA RequestStopTypes ==
  ASSUME ThreadOK, NEW why, RequestStop(why)
  PROVE  ThreadOK' /\ main' = why /\ UNCHANGED <<worker, streams>>
BY DEF RequestStop, ThreadOK

\* What the worker does by itself: it ends, or a stream changes its state.
WorkerStep ==
  \/ HandleTimeout
  \/ Callback
  \/ \E s \in {"monitor", "mic"} :
       \/ StreamError(s)
       \/ \E to \in {"paused", "streaming", "unconnected"} : StreamStateChanged(s, to)

LEMMA WorkerStepTypes ==
  ASSUME TypeOK, WorkerStep
  PROVE  /\ ThreadOK' /\ events' \in 0..MaxEvents /\ worker = "running" /\ worker' # "none"
         /\ UNCHANGED <<clients, queues, users, mic, main>>
         /\ streams'["mic"] # "absent" => streams["mic"] # "absent"
<1>1. ThreadOK /\ events \in 0..MaxEvents
  BY Parts
<1>2. CASE HandleTimeout
  BY <1>1, <1>2, WorkerEndsTypes DEF HandleTimeout, ThreadOK
<1>3. CASE Callback
  BY <1>1, <1>3, WorkerEndsTypes DEF Callback, ProcessStream, ThreadOK
<1>4. CASE \E s \in {"monitor", "mic"} : StreamError(s)
  BY <1>1, <1>4, WorkerEndsTypes, EventTypes DEF StreamError, ThreadOK
<1>5. CASE \E s \in {"monitor", "mic"}, to \in {"paused", "streaming", "unconnected"} :
             StreamStateChanged(s, to)
  <2>1. PICK s \in {"monitor", "mic"}, to \in {"paused", "streaming", "unconnected"} :
             StreamStateChanged(s, to)
    BY <1>5
  <2>2. /\ worker = "running" /\ worker' = worker /\ stopRequested' = stopRequested
        /\ events' \in 0..MaxEvents
    BY <1>1, <2>1, EventTypes DEF StreamStateChanged
  <2>3. armed' \in BOOLEAN
    BY <2>1 DEF StreamStateChanged
  <2>4. streams' = [streams EXCEPT ![s] = to] /\ streams[s] # "absent"
    BY <2>1 DEF StreamStateChanged
  <2>5. streams' \in [monitor : Capturing \cup {"absent"}, mic : Capturing \cup {"absent"}]
    BY <1>1, <2>4 DEF ThreadOK, Capturing
  <2>6. streams'["mic"] # "absent" => streams["mic"] # "absent"
    BY <1>1, <2>4 DEF ThreadOK
  <2>. QED
    BY <1>1, <2>1, <2>2, <2>3, <2>5, <2>6 DEF StreamStateChanged, ThreadOK
<1>. QED
  BY <1>2, <1>3, <1>4, <1>5 DEF WorkerStep

----------------------------------------------------------------------------
(* The inductive invariant.                                                 *)

\* A provider's references are the ServiceRefs that hold it.
Counted == \A p \in Providers : refs[p] = {c \in Clients : service[c] = p}

\* What is queued leads each processor to what its provider's references ask for, and
\* each use of the collector to what its processor does.
CallsEnd == \A p \in Providers : Ends(calls[p], timer[p], "start", refs[p] # {})
PostedEnd == \A p \in Providers : Ends(posted[p], p \in users, "ref", timer[p])

\* There is a worker while there are users, and while a stop is waited for.
WorkerKnown ==
  /\ main = "free" => ((worker # "none") <=> (users # {}))
  /\ main = "stop" => worker # "none" /\ users = {}
  /\ main = "rebuild" => worker # "none" /\ users # {}

\* The microphone's stream belongs to a worker that was built under the option.
MicKnown == main = "free" /\ streams["mic"] # "absent" => mic

IInv == TypeOK /\ Counted /\ CallsEnd /\ PostedEnd /\ WorkerKnown /\ MicKnown

LEMMA InitIInv == Init => IInv
<1>. SUFFICES ASSUME Init PROVE IInv
  OBVIOUS
<1>1. TypeOK
  <2>1. <<>> \in Seq({"start", "stop"}) /\ <<>> \in Seq({"ref", "unref"})
    OBVIOUS
  <2>2. ClientsOK /\ QueuesOK
    BY <2>1 DEF Init, ClientsOK, QueuesOK
  <2>3. ThreadOK /\ MainOK /\ events \in 0..MaxEvents
    <3>1. NoStreams \in [monitor : Capturing \cup {"absent"}, mic : Capturing \cup {"absent"}]
      BY DEF NoStreams
    <3>2. ThreadOK
      BY <3>1 DEF Init, ThreadOK
    <3>. QED
      BY <3>2, ServicesAssumption DEF Init, MainOK
  <2>. QED
    BY <2>2, <2>3, Parts
<1>2. Counted
  <2>1. \A p \in Providers : refs[p] = {} /\ p # NoProvider
    BY ServicesAssumption DEF Init
  <2>2. \A c \in Clients : service[c] = NoProvider
    BY DEF Init
  <2>. QED
    BY <2>1, <2>2 DEF Counted
<1>3. CallsEnd /\ PostedEnd
  BY DEF Init, CallsEnd, PostedEnd, Ends
<1>4. WorkerKnown /\ MicKnown
  BY DEF Init, WorkerKnown, MicKnown, NoStreams
<1>. QED
  BY <1>1, <1>2, <1>3, <1>4 DEF IInv

LEMMA SetServiceKeeps ==
  ASSUME IInv, NEW c \in Clients, NEW to \in Providers \cup {NoProvider}, SetService(c, to)
  PROVE  IInv'
<1>. USE DEF IInv
<1>1. /\ service' = [service EXCEPT ![c] = to] /\ refs' = Referred(c, to)
      /\ calls' = Called(refs') /\ UNCHANGED <<timer, posted, collector>>
  BY DEF SetService
<1>2. ClientsOK'
  BY <1>1, Parts DEF ClientsOK, Referred
<1>3. Counted'
  BY <1>1, Parts DEF Counted, Referred, ClientsOK
<1>4. ASSUME NEW p \in Providers
      PROVE  /\ calls'[p] \in Seq({"start", "stop"})
             /\ Ends(calls'[p], timer[p], "start", refs'[p] # {})
  <2>. /\ calls[p] \in Seq({"start", "stop"})
       /\ Ends(calls[p], timer[p], "start", refs[p] # {})
    BY Parts DEF QueuesOK, CallsEnd
  <2>1. CASE refs[p] = {} /\ refs'[p] # {}
    <3>1. calls'[p] = Append(calls[p], "start")
      BY <1>1, <2>1 DEF Called
    <3>. QED
      BY <2>1, <3>1, AppendedLast DEF Ends
  <2>2. CASE refs[p] # {} /\ refs'[p] = {}
    <3>1. calls'[p] = Append(calls[p], "stop")
      BY <1>1, <2>2 DEF Called
    <3>. QED
      BY <2>2, <3>1, AppendedLast DEF Ends
  <2>3. CASE (refs[p] = {}) <=> (refs'[p] = {})
    <3>1. calls'[p] = calls[p]
      BY <1>1, <2>3 DEF Called
    <3>. QED
      BY <2>3, <3>1 DEF Ends
  <2>. QED
    BY <2>1, <2>2, <2>3
<1>5. QueuesOK' /\ CallsEnd'
  <2>1. calls' = [p \in Providers |-> calls'[p]]
    BY <1>1 DEF Called
  <2>. QED
    BY <1>1, <1>4, <2>1, Parts DEF QueuesOK, CallsEnd
<1>6. /\ ThreadOK' /\ MainOK' /\ PostedEnd' /\ WorkerKnown' /\ MicKnown'
      /\ events' \in 0..MaxEvents
  BY <1>1, Parts, EventTypes
     DEF SetService, ThreadOK, MainOK, PostedEnd, WorkerKnown, MicKnown, collector, thread
<1>. QED
  BY <1>2, <1>3, <1>5, <1>6, PartsAfter

\* A processor's step moves the front of its queue to the end of the collector's.
LEMMA ProcessorKeeps ==
  ASSUME IInv, NEW p \in Providers, Processor(p)
  PROVE  IInv'
<1>. USE DEF IInv
<1>. DEFINE on == Head(calls[p]) = "start"
<1>1. /\ calls[p] # <<>> /\ calls' = [calls EXCEPT ![p] = Tail(calls[p])]
      /\ Head(calls[p]) \in {"start", "stop"}
      /\ timer' = [timer EXCEPT ![p] = timer'[p]] /\ timer'[p] \in BOOLEAN
      /\ (timer'[p] <=> on)
      /\ posted' = [posted EXCEPT ![p] = posted'[p]]
      /\ on => posted'[p] = Append(posted[p], "ref")
      /\ ~on => posted'[p] = Append(posted[p], "unref")
      /\ UNCHANGED <<clients, collector, events>>
  BY Parts DEF Processor, ProcessorStart, ProcessorStop, QueuesOK
<1>2. /\ posted'[p] \in Seq({"ref", "unref"}) /\ posted'[p] # <<>>
      /\ (posted'[p][Len(posted'[p])] = "ref") <=> on
  <2>1. posted[p] \in Seq({"ref", "unref"})
    BY Parts DEF QueuesOK
  <2>2. Append(posted[p], "ref") \in Seq({"ref", "unref"}) /\ Append(posted[p], "ref") # <<>>
        /\ Append(posted[p], "ref")[Len(Append(posted[p], "ref"))] = "ref"
    BY <2>1, AppendedLast
  <2>3. Append(posted[p], "unref") \in Seq({"ref", "unref"}) /\ Append(posted[p], "unref") # <<>>
        /\ Append(posted[p], "unref")[Len(Append(posted[p], "unref"))] = "unref"
    BY <2>1, AppendedLast
  <2>4. CASE on
    BY <1>1, <2>2, <2>4
  <2>5. CASE ~on
    BY <1>1, <2>3, <2>5
  <2>. QED
    BY <2>4, <2>5
<1>3. /\ Tail(calls[p]) \in Seq({"start", "stop"})
      /\ Ends(Tail(calls[p]), timer'[p], "start", refs[p] # {})
  <2>1. calls[p] \in Seq({"start", "stop"})
    BY Parts DEF QueuesOK
  <2>2. Ends(calls[p], timer[p], "start", refs[p] # {})
    BY DEF CallsEnd
  <2>. QED
    BY <1>1, <2>1, <2>2, ServedLast DEF Ends
<1>4. QueuesOK'
  BY <1>1, <1>2, <1>3, Parts DEF QueuesOK
<1>5. CallsEnd'
  BY <1>1, <1>3, Parts DEF CallsEnd, QueuesOK, clients
<1>6. PostedEnd'
  <2>1. Ends(posted'[p], p \in users, "ref", timer'[p])
    BY <1>1, <1>2 DEF Ends
  <2>. QED
    BY <1>1, <2>1, Parts DEF PostedEnd, QueuesOK, collector
<1>7. /\ ClientsOK' /\ ThreadOK' /\ MainOK' /\ Counted' /\ WorkerKnown' /\ MicKnown'
      /\ events' \in 0..MaxEvents
  BY <1>1, Parts
     DEF ClientsOK, ThreadOK, MainOK, Counted, WorkerKnown, MicKnown, clients, collector, thread
<1>. QED
  BY <1>4, <1>5, <1>6, <1>7, PartsAfter

\* What a reference or its end does to the queue it is served from.
LEMMA CollectorServes ==
  ASSUME IInv, NEW p \in Providers, posted[p] # <<>>,
         posted' = [posted EXCEPT ![p] = Tail(posted[p])],
         (p \in users') <=> (Head(posted[p]) = "ref"),
         \A q \in Providers \ {p} : (q \in users') <=> (q \in users),
         UNCHANGED <<calls, timer, clients>>
  PROVE  QueuesOK' /\ ClientsOK' /\ CallsEnd' /\ PostedEnd' /\ Counted'
<1>. USE DEF IInv
<1>1. posted[p] \in Seq({"ref", "unref"}) /\ Ends(posted[p], p \in users, "ref", timer[p])
  BY Parts DEF QueuesOK, PostedEnd
<1>2. /\ Tail(posted[p]) \in Seq({"ref", "unref"})
      /\ Ends(Tail(posted[p]), p \in users', "ref", timer[p])
  BY <1>1, ServedLast DEF Ends
<1>3. QueuesOK' /\ PostedEnd'
  BY <1>2, Parts DEF QueuesOK, PostedEnd
<1>. QED
  BY <1>3, Parts DEF ClientsOK, CallsEnd, Counted, clients

LEMMA CollectorRefKeeps ==
  ASSUME IInv, NEW p \in Providers, CollectorRef(p)
  PROVE  IInv'
<1>. USE DEF IInv
<1>1. QueuesOK' /\ ClientsOK' /\ CallsEnd' /\ PostedEnd' /\ Counted'
  BY CollectorServes DEF CollectorRef
<1>2. main = "free" /\ users' = users \cup {p} /\ UNCHANGED <<mic, main, events>>
  BY DEF CollectorRef
<1>3. ThreadOK' /\ worker' # "none" /\ (streams'["mic"] # "absent" => mic)
  <2>1. CASE users = {} /\ worker = "none" /\ StartWorker
    BY <2>1, StartWorkerTypes
  <2>2. CASE (users # {} \/ worker # "none") /\ UNCHANGED thread
    BY <1>2, <2>2, Parts, ThreadKept DEF WorkerKnown, MicKnown, thread
  <2>. QED
    BY <2>1, <2>2 DEF CollectorRef
<1>4. MainOK' /\ WorkerKnown' /\ MicKnown' /\ events' \in 0..MaxEvents
  BY <1>2, <1>3, Parts DEF MainOK, WorkerKnown, MicKnown
<1>. QED
  BY <1>1, <1>3, <1>4, PartsAfter

LEMMA CollectorUnrefKeeps ==
  ASSUME IInv, NEW p \in Providers, CollectorUnref(p)
  PROVE  IInv'
<1>. USE DEF IInv
<1>1. QueuesOK' /\ ClientsOK' /\ CallsEnd' /\ PostedEnd' /\ Counted'
  BY CollectorServes DEF CollectorUnref
<1>2. main = "free" /\ users' = users \ {p} /\ UNCHANGED <<mic, events>>
  BY DEF CollectorUnref
<1>3. CASE users = {p} /\ worker # "none" /\ RequestStop("stop")
  <2>1. ThreadOK' /\ main' = "stop" /\ worker' # "none" /\ users' = {}
    BY <1>2, <1>3, Parts, RequestStopTypes
  <2>2. MainOK' /\ WorkerKnown' /\ MicKnown' /\ events' \in 0..MaxEvents
    BY <1>2, <2>1, Parts DEF MainOK, WorkerKnown, MicKnown
  <2>. QED
    BY <1>1, <2>1, <2>2, PartsAfter
<1>4. CASE ~(users = {p} /\ worker # "none") /\ UNCHANGED <<main, thread>>
  <2>1. (users' # {}) <=> (users # {})
    BY <1>2, <1>4 DEF WorkerKnown
  <2>2. ThreadOK' /\ worker' = worker /\ streams' = streams /\ main' = "free"
    BY <1>2, <1>4, Parts, ThreadKept DEF thread
  <2>3. MainOK' /\ WorkerKnown' /\ MicKnown' /\ events' \in 0..MaxEvents
    BY <1>2, <2>1, <2>2, Parts DEF MainOK, WorkerKnown, MicKnown
  <2>. QED
    BY <1>1, <2>2, <2>3, PartsAfter
<1>. QED
  BY <1>3, <1>4 DEF CollectorUnref

LEMMA MicChangedKeeps ==
  ASSUME IInv, MicChanged
  PROVE  IInv'
<1>. USE DEF IInv
<1>1. /\ QueuesOK' /\ ClientsOK' /\ CallsEnd' /\ PostedEnd' /\ Counted'
      /\ main = "free" /\ UNCHANGED users /\ mic' \in BOOLEAN /\ events' \in 0..MaxEvents
  BY Parts, EventTypes, ClientsKept, QueuesKept
     DEF MicChanged, CallsEnd, PostedEnd, Counted, clients, queues, MainOK
<1>2. CASE worker # "none" /\ RequestStop("rebuild")
  <2>1. ThreadOK' /\ main' = "rebuild" /\ worker' # "none"
    BY <1>2, Parts, RequestStopTypes
  <2>2. MainOK' /\ WorkerKnown' /\ MicKnown'
    BY <1>1, <1>2, <2>1, Parts DEF MainOK, WorkerKnown, MicKnown
  <2>. QED
    BY <1>1, <2>1, <2>2, PartsAfter
<1>3. CASE worker = "none" /\ UNCHANGED <<main, thread>>
  <2>1. streams["mic"] = "absent"
    BY <1>3, Parts DEF ThreadOK, NoStreams
  <2>2. ThreadOK' /\ MainOK' /\ WorkerKnown' /\ MicKnown'
    BY <1>1, <1>3, <2>1, Parts, ThreadKept DEF MainOK, WorkerKnown, MicKnown, thread
  <2>. QED
    BY <1>1, <2>2, PartsAfter
<1>. QED
  BY <1>2, <1>3 DEF MicChanged

LEMMA JoinedKeeps ==
  ASSUME IInv, Joined
  PROVE  IInv'
<1>. USE DEF IInv
<1>1. /\ QueuesOK' /\ ClientsOK' /\ CallsEnd' /\ PostedEnd' /\ Counted' /\ MainOK'
      /\ main' = "free" /\ UNCHANGED <<users, mic, events>>
      /\ worker = "ended" /\ events' \in 0..MaxEvents
  BY Parts, ClientsKept, QueuesKept
     DEF Joined, CallsEnd, PostedEnd, Counted, clients, queues, MainOK
<1>2. CASE main = "rebuild" /\ StartWorker
  BY <1>1, <1>2, StartWorkerTypes, PartsAfter DEF WorkerKnown, MicKnown
<1>3. CASE /\ main = "stop" /\ worker' = "none" /\ stopRequested' = FALSE
           /\ UNCHANGED <<streams, armed>>
  <2>0. ThreadOK /\ streams = NoStreams /\ ~armed
    BY <1>1, Parts DEF ThreadOK
  <2>1. ThreadOK' /\ streams'["mic"] = "absent"
    BY <1>3, <2>0 DEF ThreadOK, NoStreams
  <2>. QED
    BY <1>1, <1>3, <2>1, PartsAfter DEF WorkerKnown, MicKnown
<1>. QED
  BY <1>2, <1>3 DEF Joined

LEMMA WorkerKeeps ==
  ASSUME IInv, WorkerStep
  PROVE  IInv'
<1>. USE DEF IInv
<1>1. /\ ThreadOK' /\ events' \in 0..MaxEvents /\ worker # "none" /\ worker' # "none"
      /\ UNCHANGED <<clients, queues, users, mic, main>>
      /\ streams'["mic"] # "absent" => streams["mic"] # "absent"
  BY WorkerStepTypes
<1>2. ClientsOK' /\ QueuesOK' /\ MainOK'
  BY <1>1, Parts, ClientsKept, QueuesKept DEF MainOK
<1>3. CallsEnd' /\ PostedEnd' /\ Counted'
  BY <1>1 DEF CallsEnd, PostedEnd, Counted, clients, queues
<1>4. WorkerKnown' /\ MicKnown'
  BY <1>1 DEF WorkerKnown, MicKnown
<1>. QED
  BY <1>1, <1>2, <1>3, <1>4, PartsAfter

LEMMA NextIInv == IInv /\ [Next]_vars => IInv'
<1>. SUFFICES ASSUME IInv, [Next]_vars PROVE IInv'
  OBVIOUS
<1>1. ASSUME NEW c \in Clients, NEW to \in Providers \cup {NoProvider}, SetService(c, to)
      PROVE  IInv'
  BY <1>1, SetServiceKeeps
<1>2. ASSUME NEW p \in Providers, Processor(p) \/ Collector(p) PROVE IInv'
  BY <1>2, ProcessorKeeps, CollectorRefKeeps, CollectorUnrefKeeps DEF Collector
<1>3. CASE MicChanged
  BY <1>3, MicChangedKeeps
<1>4. CASE Joined
  BY <1>4, JoinedKeeps
<1>5. CASE WorkerStep
  BY <1>5, WorkerKeeps
<1>6. CASE UNCHANGED vars
  BY <1>6 DEF vars, clients, queues, collector, thread, IInv, TypeOK, Counted, CallsEnd,
              PostedEnd, WorkerKnown, MicKnown
<1>. QED
  BY <1>1, <1>2, <1>3, <1>4, <1>5, <1>6 DEF Next, WorkerStep

THEOREM Invariance == Spec => []IInv
BY InitIInv, NextIInv, PTL DEF Spec

----------------------------------------------------------------------------
(* Theorems.                                                                *)

\* Every variable keeps its type, and a worker that ended has no streams and no timer.
THEOREM TypeCorrect == Spec => []TypeOK
<1>1. IInv => TypeOK
  BY DEF IInv
<1>. QED
  BY <1>1, Invariance, PTL

\* Between the threads no start and no stop of a provider is lost or overtaken
\* (service.cpp:10-23, audioprovider.cpp:26-37).
THEOREM UseFollowsClients == Spec => []UsersFollowClients
<1>1. IInv => UsersFollowClients
  <2>. SUFFICES ASSUME IInv, NEW p \in Providers, calls[p] = <<>>, posted[p] = <<>>
                PROVE  /\ timer[p] <=> (\E c \in Clients : service[c] = p)
                       /\ p \in users <=> (\E c \in Clients : service[c] = p)
    BY DEF UsersFollowClients
  <2>1. (timer[p] <=> (refs[p] # {})) /\ ((p \in users) <=> timer[p])
    BY DEF IInv, CallsEnd, PostedEnd, Ends
  <2>2. (refs[p] # {}) <=> (\E c \in Clients : service[c] = p)
    BY DEF IInv, Counted
  <2>. QED
    BY <2>1, <2>2
<1>. QED
  BY <1>1, Invariance, PTL

\* A worker exists exactly while the collector has users, whatever stops, rebuilds and
\* stream errors came in between (audiocollector.cpp:305-335).
THEOREM WorkerIsOwed == Spec => []WorkerFollowsUsers
<1>1. IInv => WorkerFollowsUsers
  BY DEF IInv, WorkerKnown, WorkerFollowsUsers
<1>. QED
  BY <1>1, Invariance, PTL

\* The microphone is not captured against the option or for nobody
\* (audiocollector.cpp:56-58, 306-313).
THEOREM MicIsAskedFor == Spec => []MicIsOptIn
<1>1. IInv => MicIsOptIn
  <2>. SUFFICES ASSUME IInv, main = "free", streams["mic"] # "absent" PROVE mic /\ users # {}
    BY DEF MicIsOptIn
  <2>1. worker # "none"
    BY Parts DEF IInv, ThreadOK, NoStreams
  <2>. QED
    BY <2>1 DEF IInv, WorkerKnown, MicKnown
<1>. QED
  BY <1>1, Invariance, PTL

----------------------------------------------------------------------------
(* The ring: what a push, a move and a clear leave in it.                  *)

\* A function on 1..m is a sequence of length m.
LEMMA SpanOf ==
  ASSUME NEW S, NEW m \in Nat, NEW f \in [1..m -> S]
  PROVE  f \in Seq(S) /\ Len(f) = m
<1>1. f \in Seq(S)
  BY SeqDef
<1>2. Len(f) \in Nat /\ 1..Len(f) = 1..m
  BY <1>1, LenProperties
<1>. QED
  BY <1>1, <1>2

\* Positions wrap at most once.
LEMMA WrapsOnce ==
  ASSUME NEW C \in Nat \ {0}, NEW a \in 0..2 * C - 1
  PROVE  a % C = IF a < C THEN a ELSE a - C
<1>1. CASE a < C
  BY <1>1
<1>2. CASE a >= C
  <2>1. (a - C) % C = a - C
    BY <1>2
  <2>2. a % C = (a - C) % C
    BY <1>2
  <2> QED BY <2>1, <2>2, <1>2
<1>. QED
  BY <1>1, <1>2

\* The position of the i-th oldest value, and of the oldest.
Place(ring, i) ==
  LET p == ring.head - ring.count + i - 1 IN IF p < 0 THEN p + Capacity ELSE p

Oldest(ring) == (ring.head - ring.count + Capacity) % Capacity

\* The i-th value held stands i - 1 places after the oldest, around the end of the array.
LEMMA ContentsOf ==
  ASSUME NEW ring \in Ring
  PROVE  /\ Contents(ring) \in Seq(Values)
         /\ Len(Contents(ring)) = ring.count
         /\ \A i \in 1..ring.count : /\ Place(ring, i) \in Positions
                                     /\ Contents(ring)[i] = ring.data[Place(ring, i)]
         /\ LET runs == Runs(ring, Oldest(ring), ring.count)
            IN  /\ runs[1] \in Seq(Values) /\ runs[2] \in Seq(Values)
                /\ Contents(ring) = runs[1] \o runs[2]
<1>. DEFINE n == ring.count
            start == Oldest(ring)
            first == Least(n, Capacity - start)
            runs == Runs(ring, start, n)
<1>1. /\ Capacity \in Nat \ {0} /\ ring.head \in 0..Capacity - 1 /\ n \in 0..Capacity
      /\ ring.data \in [Positions -> Values]
  BY RingAssumption DEF Ring, Positions
<1>2. ring.head - n + Capacity \in 0..2 * Capacity - 1
  BY <1>1
<1>3. start = IF ring.head - n < 0 THEN ring.head - n + Capacity ELSE ring.head - n
  BY <1>1, <1>2, WrapsOnce DEF Oldest
<1>4. start \in Positions /\ first \in 0..n /\ first \in 0..Capacity - start
  BY <1>1, <1>3 DEF Positions, Least
<1>. HIDE DEF start, n
<1>5. /\ runs[1] = [i \in 1..first |-> ring.data[start + i - 1]]
      /\ runs[2] = [i \in 1..n - first |-> ring.data[i - 1]]
  BY DEF Runs
<1>6. n - first \in Nat /\ first \in Nat
  BY <1>1, <1>4
<1>7. \A i \in 1..first : start + i - 1 \in Positions
  BY <1>1, <1>4 DEF Positions
<1>8. \A i \in 1..n - first : i - 1 \in Positions
  BY <1>1, <1>4 DEF Positions, Least
<1>9. runs[1] \in [1..first -> Values] /\ runs[2] \in [1..n - first -> Values]
  BY <1>1, <1>5, <1>7, <1>8
<1>10. /\ runs[1] \in Seq(Values) /\ Len(runs[1]) = first
       /\ runs[2] \in Seq(Values) /\ Len(runs[2]) = n - first
  <2>1. runs[1] \in Seq(Values) /\ Len(runs[1]) = first
    BY <1>6, <1>9, SpanOf
  <2>2. runs[2] \in Seq(Values) /\ Len(runs[2]) = n - first
    BY <1>6, <1>9, SpanOf
  <2>. QED
    BY <2>1, <2>2
<1>11. Contents(ring) = runs[1] \o runs[2]
  <2>1. Least(Capacity, n) = n
    BY <1>1 DEF Least
  <2>2. Contents(ring) = LET r == Runs(ring, start, n) IN r[1] \o r[2]
    BY <2>1 DEF Contents, CopyLatest, start, n, Oldest
  <2>. QED
    BY <2>2
<1>. HIDE DEF runs
<1>14. /\ runs[1] \o runs[2] \in Seq(Values)
       /\ Len(runs[1] \o runs[2]) = Len(runs[1]) + Len(runs[2])
       /\ \A i \in 1..Len(runs[1]) + Len(runs[2]) :
            (runs[1] \o runs[2])[i] = IF i <= Len(runs[1]) THEN runs[1][i]
                                     ELSE runs[2][i - Len(runs[1])]
  <2>1. \A a, b \in Seq(Values) :
          /\ a \o b \in Seq(Values) /\ Len(a \o b) = Len(a) + Len(b)
          /\ \A i \in 1..Len(a) + Len(b) :
               (a \o b)[i] = IF i <= Len(a) THEN a[i] ELSE b[i - Len(a)]
    BY ConcatProperties
  <2>. QED
    BY <1>10, <2>1
<1>15. Len(runs[1]) + Len(runs[2]) = n
  BY <1>1, <1>6, <1>10
<1>16. \A i \in 1..n : Contents(ring)[i] = IF i <= first THEN runs[1][i] ELSE runs[2][i - first]
  BY <1>10, <1>11, <1>14, <1>15
<1>12. Contents(ring) \in Seq(Values) /\ Len(Contents(ring)) = n
  BY <1>11, <1>14, <1>15
<1>13. ASSUME NEW i \in 1..n
       PROVE  /\ Place(ring, i) \in Positions
              /\ Contents(ring)[i] = ring.data[Place(ring, i)]
  <2>1. Place(ring, i) \in Positions
    BY <1>1 DEF Place, Positions, n
  <2>2. CASE i <= first
    <3>1. Contents(ring)[i] = runs[1][i]
      BY <2>2, <1>16
    <3>2. runs[1][i] = ring.data[start + i - 1]
      BY <2>2, <1>5, <1>1, <1>6
    <3>3. start + i - 1 = Place(ring, i)
      BY <2>2, <1>1, <1>3, <1>4, RingAssumption DEF Place, n
    <3>. QED
      BY <2>1, <3>1, <3>2, <3>3
  <2>3. CASE i > first
    <3>0. i - first \in 1..n - first
      BY <2>3, <1>1, <1>6
    <3>1. Contents(ring)[i] = runs[2][i - first]
      BY <2>3, <1>1, <1>6, <1>16
    <3>2. runs[2][i - first] = ring.data[i - first - 1]
      BY <3>0, <1>5, <1>1, <1>6
    <3>3. i - first - 1 = Place(ring, i)
      BY <2>3, <1>1, <1>3, <1>4 DEF Place, n, Least
    <3>. QED
      BY <2>1, <3>1, <3>2, <3>3
  <2>. QED
    BY <2>2, <2>3, <1>1, <1>6
<1>. QED
  BY <1>10, <1>11, <1>12, <1>13 DEF n, runs, start

\* The end of a span that is kept.
LEMMA LastOf ==
  ASSUME NEW span \in Seq(Values), NEW k \in Nat
  PROVE  /\ Last(span, k) \in Seq(Values)
         /\ Len(Last(span, k)) = Least(k, Len(span))
         /\ \A i \in 1..Least(k, Len(span)) :
              Last(span, k)[i] = span[Len(span) - Least(k, Len(span)) + i]
<1>. DEFINE n == Len(span)  m == Least(k, n)  from == n - m + 1
<1>0. n \in Nat
  BY LenProperties
<1>. HIDE DEF n
<1>1. m \in 0..n /\ from \in 1..n + 1
  BY <1>0 DEF Least
<1>2. \A i \in from..n : span[i] \in Values
  BY <1>0, <1>1, ElementOfSeq DEF n
<1>3. Last(span, k) = SubSeq(span, from, n)
  <2>1. Least(k, n) = Least(n, k)
    BY <1>0 DEF Least
  <2>. QED
    BY <2>1 DEF Last, n
<1>. HIDE DEF m, from
<1>4. /\ SubSeq(span, from, n) \in Seq(Values)
      /\ Len(SubSeq(span, from, n)) = IF from <= n THEN n - from + 1 ELSE 0
      /\ \A i \in 1..n - from + 1 : SubSeq(span, from, n)[i] = span[from + i - 1]
  <2>1. from \in Int /\ n \in Int
    BY <1>0, <1>1
  <2>. QED
    BY <1>2, <2>1, SubSeqProperties
<1>5. n - from + 1 = m /\ (\A i \in 1..m : from + i - 1 = n - m + i)
  BY <1>0, <1>1 DEF from
<1>6. (IF from <= n THEN n - from + 1 ELSE 0) = m
  BY <1>0, <1>1 DEF from
<1>. QED
  BY <1>3, <1>4, <1>5, <1>6 DEF n, m

\* What a FIFO of the latest values keeps of a span.
LEMMA NewestOf ==
  ASSUME NEW span \in Seq(Values)
  PROVE  /\ Kept!Newest(span) \in Seq(Values)
         /\ Len(Kept!Newest(span)) = Least(Len(span), Capacity)
         /\ \A i \in 1..Least(Len(span), Capacity) :
              Kept!Newest(span)[i] = span[Len(span) - Least(Len(span), Capacity) + i]
<1>1. Len(span) \in Nat /\ Capacity \in Nat \ {0}
  BY LenProperties, RingAssumption
<1>2. CASE Len(span) <= Capacity
  <2>1. Kept!Newest(span) = span
    BY <1>2 DEF Kept!Newest
  <2>2. Least(Len(span), Capacity) = Len(span)
    BY <1>1, <1>2 DEF Least
  <2>3. \A i \in 1..Len(span) : Len(span) - Len(span) + i = i
    BY <1>1
  <2>. QED
    BY <2>1, <2>2, <2>3
<1>3. CASE Len(span) > Capacity
  <2>1. Kept!Newest(span) = Last(span, Capacity)
    BY <1>1, <1>3 DEF Kept!Newest, Last, Least
  <2>2. Least(Len(span), Capacity) = Least(Capacity, Len(span))
    BY <1>1 DEF Least
  <2>3. Capacity \in Nat
    BY <1>1
  <2>4. /\ Last(span, Capacity) \in Seq(Values)
        /\ Len(Last(span, Capacity)) = Least(Capacity, Len(span))
        /\ \A i \in 1..Least(Capacity, Len(span)) :
             Last(span, Capacity)[i] = span[Len(span) - Least(Capacity, Len(span)) + i]
    BY <2>3, LastOf
  <2>. QED
    BY <2>1, <2>2, <2>4
<1>. QED
  BY <1>1, <1>2, <1>3

\* A span pushed into the ring stands behind what the ring held, and what exceeds the
\* capacity is gone from the front.
LEMMA PushKeepsNewest ==
  ASSUME NEW ring \in Ring, NEW span \in Seq(Values)
  PROVE  /\ Push(ring, span) \in Ring
         /\ Contents(Push(ring, span)) = Kept!Newest(Contents(ring) \o span)
<1>. DEFINE values == Last(span, Capacity)
            m == Len(values)
            h == ring.head
            c == ring.count
            first == Least(m, Capacity - h)
            new == Push(ring, span)
            nh == new.head
            nc == new.count
            old == Contents(ring)
            len == Len(span)
<1>1. /\ Capacity \in Nat \ {0} /\ h \in 0..Capacity - 1 /\ c \in 0..Capacity
      /\ ring.data \in [Positions -> Values]
  BY RingAssumption DEF Ring, Positions
<1>2. len \in Nat
  BY LenProperties
<1>3. /\ values \in Seq(Values) /\ m = Least(Capacity, len)
      /\ \A i \in 1..m : values[i] = span[len - m + i]
  BY <1>1, LastOf
<1>. HIDE DEF values, m, len
<1>4. m = IF len < Capacity THEN len ELSE Capacity
  BY <1>1, <1>2, <1>3 DEF Least
<1>4a. m \in 0..Capacity
  BY <1>1, <1>2, <1>4
<1>5. \A i \in 1..m : values[i] \in Values
  BY <1>3, ElementOfSeq DEF m
<1>6. /\ new.data = [p \in Positions |->
                       IF p \in h..h + first - 1 THEN values[p - h + 1]
                       ELSE IF p < m - first THEN values[first + p + 1]
                       ELSE ring.data[p]]
      /\ nh = (h + m) % Capacity
      /\ nc = Least(c + m, Capacity)
      /\ new = [data |-> new.data, head |-> nh, count |-> nc]
  BY DEF Push, values, m
<1>6a. ASSUME NEW i
       PROVE  /\ Place(ring, i) = IF h - c + i - 1 < 0 THEN h - c + i - 1 + Capacity
                                  ELSE h - c + i - 1
              /\ Place(new, i) = IF nh - nc + i - 1 < 0 THEN nh - nc + i - 1 + Capacity
                                 ELSE nh - nc + i - 1
  BY DEF Place
<1>6b. nc = IF c + m < Capacity THEN c + m ELSE Capacity
  BY <1>6 DEF Least
<1>6c. first = IF m < Capacity - h THEN m ELSE Capacity - h
  BY DEF Least
<1>. HIDE DEF h, c, nh, nc, first
<1>7. /\ nh = IF h + m < Capacity THEN h + m ELSE h + m - Capacity
      /\ nh \in 0..Capacity - 1
  <2>1. h + m \in 0..2 * Capacity - 1
    BY <1>1, <1>4a
  <2>2. (h + m) % Capacity = IF h + m < Capacity THEN h + m ELSE (h + m) - Capacity
    BY <1>1, <2>1, WrapsOnce
  <2>3. nh = IF h + m < Capacity THEN h + m ELSE h + m - Capacity
    BY <1>1, <1>4a, <1>6, <2>2
  <2>. QED
    BY <1>1, <1>4a, <2>3
<1>8. first \in 0..m /\ first <= Capacity - h
  BY <1>1, <1>4a, <1>6c
<1>8a. nc \in 0..Capacity
  BY <1>1, <1>4a, <1>6b
<1>9. new \in Ring
  <2>1. \A p \in Positions : new.data[p] \in Values
    <3>. TAKE p \in Positions
    <3>0. p \in 0..Capacity - 1
      BY DEF Positions
    <3>1. CASE p \in h..h + first - 1
      <4>1. p - h + 1 \in 1..m
        BY <1>1, <1>4a, <1>8, <3>0, <3>1
      <4>. QED
        BY <1>5, <1>6, <3>1, <4>1
    <3>2. CASE p \notin h..h + first - 1 /\ p < m - first
      <4>1. first + p + 1 \in 1..m
        BY <1>1, <1>4a, <1>8, <3>0, <3>2
      <4>. QED
        BY <1>5, <1>6, <3>2, <4>1
    <3>3. CASE p \notin h..h + first - 1 /\ ~(p < m - first)
      BY <1>1, <1>6, <3>3
    <3>. QED
      BY <3>1, <3>2, <3>3
  <2>2. new.data \in [Positions -> Values]
    BY <1>6, <2>1
  <2>. QED
    BY <1>6, <1>7, <1>8a, <2>2 DEF Ring, Positions
<1>10. /\ old \in Seq(Values) /\ Len(old) = c
       /\ \A i \in 1..c : old[i] = ring.data[Place(ring, i)]
  BY ContentsOf DEF c
<1>11. /\ Contents(new) \in Seq(Values) /\ Len(Contents(new)) = nc
       /\ \A i \in 1..nc : /\ Place(new, i) \in Positions
                           /\ Contents(new)[i] = new.data[Place(new, i)]
  BY <1>9, ContentsOf DEF nc
<1>. HIDE DEF old, new
<1>. DEFINE all == old \o span
<1>12. /\ all \in Seq(Values) /\ Len(all) = c + len
       /\ \A i \in 1..c + len : all[i] = IF i <= c THEN old[i] ELSE span[i - c]
  BY <1>10, ConcatProperties DEF len
<1>. HIDE DEF all
<1>13. Least(c + len, Capacity) = nc
  BY <1>1, <1>2, <1>4, <1>6b DEF Least
<1>14. /\ Kept!Newest(all) \in Seq(Values) /\ Len(Kept!Newest(all)) = nc
       /\ \A i \in 1..nc : Kept!Newest(all)[i] = all[c + len - nc + i]
  <2>1. /\ Kept!Newest(all) \in Seq(Values)
        /\ Len(Kept!Newest(all)) = Least(Len(all), Capacity)
        /\ \A i \in 1..Least(Len(all), Capacity) :
             Kept!Newest(all)[i] = all[Len(all) - Least(Len(all), Capacity) + i]
    BY <1>12, NewestOf
  <2>2. Least(Len(all), Capacity) = nc
    BY <1>12, <1>13
  <2>3. \A i \in 1..nc : Kept!Newest(all)[i] = all[Len(all) - nc + i]
    BY <2>1, <2>2
  <2>4. Len(all) = c + len
    BY <1>12
  <2>5. \A i \in 1..nc : Kept!Newest(all)[i] = all[c + len - nc + i]
    BY <1>1, <1>2, <1>8a, <2>3, <2>4
  <2>. QED
    BY <2>1, <2>2, <2>5
<1>15. ASSUME NEW i \in 1..nc
       PROVE  Contents(new)[i] = Kept!Newest(all)[i]
  <2>. DEFINE d == nc - m
              p == Place(new, i)
              j == c + len - nc + i
  <2>1. d \in 0..c
    BY <1>1, <1>4a, <1>6b
  <2>1a. i \in Int /\ 0 < i /\ i <= nc
    BY <1>8a
  <2>1b. p = IF nh - nc + i - 1 < 0 THEN nh - nc + i - 1 + Capacity ELSE nh - nc + i - 1
    BY <1>6a
  <2>2. p \in Positions
    BY <1>11
  <2>. HIDE DEF p
  <2>3. Kept!Newest(all)[i] = all[j]
    BY <1>14
  <2>4. j \in 1..c + len
    BY <1>1, <1>2, <1>4, <1>6b, <2>1a
  <2>5. CASE i <= d
    <3>1. m = len
      BY <1>1, <1>2, <1>4, <1>6b, <2>1a, <2>5
    <3>2. c - d + i \in 1..c /\ j = c - d + i
      BY <1>1, <1>2, <1>8a, <2>1, <2>1a, <2>5, <3>1
    <3>3. Kept!Newest(all)[i] = old[c - d + i]
      BY <1>12, <2>3, <2>4, <3>2
    <3>4. Place(ring, c - d + i) = p
      <4>1. c - (c - d + i) = d - i
        BY <1>1, <2>1, <2>1a
      <4>2. Place(ring, c - d + i) = IF h - c + (c - d + i) - 1 < 0
                                     THEN h - c + (c - d + i) - 1 + Capacity
                                     ELSE h - c + (c - d + i) - 1
        BY <1>6a
      <4>. QED
        BY <1>1, <1>4a, <1>7, <1>8a, <2>1, <2>1a, <2>1b, <2>5, <4>2
    <3>5. p \notin h..h + first - 1 /\ ~(p < m - first)
      <4>1. CASE m < Capacity - h
        BY <1>1, <1>4a, <1>6b, <1>6c, <1>7, <2>1, <2>1a, <2>1b, <2>5, <4>1
      <4>2. CASE m >= Capacity - h
        BY <1>1, <1>4a, <1>6b, <1>6c, <1>7, <2>1, <2>1a, <2>1b, <2>5, <4>2
      <4>. QED
        BY <1>1, <1>4a, <4>1, <4>2
    <3>6. new.data[p] = ring.data[p]
      BY <1>6, <2>2, <3>5
    <3>. QED
      BY <1>10, <1>11, <3>2, <3>3, <3>4, <3>6 DEF p
  <2>6. CASE i > d
    <3>1. i - d \in 1..m
      BY <1>4a, <1>8a, <2>1, <2>1a, <2>6
    <3>2. Kept!Newest(all)[i] = values[i - d]
      <4>1. values[i - d] = span[len - m + (i - d)]
        BY <1>3, <3>1
      <4>2. ~(j <= c) /\ j - c = len - m + (i - d)
        BY <1>1, <1>2, <1>4, <1>6b, <1>8a, <2>1, <2>1a, <2>6
      <4>3. all[j] = span[j - c]
        BY <1>12, <2>4, <4>2
      <4>. QED
        BY <2>3, <4>1, <4>2, <4>3
    <3>3. CASE i - d <= first
      <4>1. p = h + (i - d) - 1
        BY <1>1, <1>4a, <1>6c, <1>7, <1>8a, <2>1, <2>1a, <2>1b, <3>1, <3>3
      <4>2. p \in h..h + first - 1 /\ p - h + 1 = i - d
        BY <1>1, <1>8, <1>8a, <1>4a, <2>1a, <3>1, <3>3, <4>1
      <4>. QED
        BY <1>6, <1>11, <2>2, <3>2, <4>2 DEF p
    <3>4. CASE i - d > first
      <4>1. first = Capacity - h
        BY <1>1, <1>4a, <1>6c, <1>8a, <2>1a, <3>1, <3>4
      <4>2. p = i - d - first - 1
        BY <1>1, <1>4a, <1>7, <1>8a, <2>1a, <2>1b, <3>1, <3>4, <4>1
      <4>3. p \notin h..h + first - 1 /\ p < m - first /\ first + p + 1 = i - d
        BY <1>1, <1>4a, <1>8, <1>8a, <2>1a, <3>1, <4>1, <4>2
      <4>. QED
        BY <1>6, <1>11, <2>2, <3>2, <4>3 DEF p
    <3>. QED
      BY <1>4a, <1>8, <1>8a, <2>1a, <3>3, <3>4
  <2>. QED
    BY <1>4a, <1>8a, <2>1a, <2>5, <2>6
<1>16. Contents(new) = Kept!Newest(all)
  BY <1>11, <1>14, <1>15, SeqEqual
<1>. QED
  BY <1>9, <1>16 DEF new, all, old

\* A sequence whose values rise; one that stands wholly below another; one within bounds.
Rising(s) == \A i, j \in 1..Len(s) : i < j => s[i] < s[j]
Below(s, t) == \A i \in 1..Len(s), j \in 1..Len(t) : s[i] < t[j]
From(s, low) == \A i \in 1..Len(s) : low <= s[i]
Until(s, high) == \A i \in 1..Len(s) : s[i] < high

\* What is kept of two spans is in order, below, above and within what both are.
LEMMA NewestInOrder ==
  ASSUME NEW a \in Seq(Values), NEW b \in Seq(Values)
  PROVE  LET kept == Kept!Newest(a \o b) IN
         /\ Rising(a) /\ Rising(b) /\ Below(a, b) => Rising(kept)
         /\ \A low : From(a, low) /\ From(b, low) => From(kept, low)
         /\ \A high : Until(a, high) /\ Until(b, high) => Until(kept, high)
         /\ \A t \in Seq(Values) : Below(a, t) /\ Below(b, t) => Below(kept, t)
         /\ \A t \in Seq(Values) : Below(t, a) /\ Below(t, b) => Below(t, kept)
<1>. DEFINE s == a \o b
            n == Len(s)
            k == Least(n, Capacity)
            kept == Kept!Newest(s)
            m == Len(a)
<1>1. /\ s \in Seq(Values) /\ n = m + Len(b)
      /\ \A i \in 1..m + Len(b) : s[i] = IF i <= m THEN a[i] ELSE b[i - m]
  BY ConcatProperties
<1>2. m \in Nat /\ Len(b) \in Nat /\ Capacity \in Nat
  BY LenProperties, RingAssumption
<1>. HIDE DEF s
<1>3. Len(kept) = k /\ \A i \in 1..k : kept[i] = s[n - k + i]
  BY <1>1, NewestOf
<1>4. k \in 0..n /\ n \in Nat
  BY <1>1, <1>2 DEF Least
<1>. HIDE DEF k, n, m, kept
\* Each value kept is one of a's or one of b's.
<1>5. \A i \in 1..k : \/ n - k + i \in 1..Len(a) /\ kept[i] = a[n - k + i]
                      \/ n - k + i - m \in 1..Len(b) /\ kept[i] = b[n - k + i - m]
  <2>. TAKE i \in 1..k
  <2>1. n - k + i \in 1..m + Len(b)
    BY <1>1, <1>2, <1>4
  <2>2. CASE n - k + i <= m
    <3>1. n - k + i \in 1..m
      BY <1>2, <1>4, <2>1, <2>2
    <3>2. s[n - k + i] = a[n - k + i]
      BY <1>1, <2>1, <2>2
    <3>. QED
      BY <1>3, <3>1, <3>2 DEF m
  <2>3. CASE n - k + i > m
    <3>1. n - k + i - m \in 1..Len(b)
      BY <1>1, <1>2, <1>4, <2>1, <2>3
    <3>2. s[n - k + i] = b[n - k + i - m]
      <4>1. (n - k + i) - m = n - k + i - m
        BY <1>2, <1>4
      <4>. QED
        BY <1>1, <1>2, <1>4, <2>1, <2>3, <4>1
    <3>. QED
      BY <1>3, <3>1, <3>2
  <2>. QED
    BY <1>2, <1>4, <2>2, <2>3
<1>6. \A i \in 1..Len(kept) : \/ \E j \in 1..Len(a) : kept[i] = a[j]
                              \/ \E j \in 1..Len(b) : kept[i] = b[j]
  BY <1>3, <1>5
<1>7. ASSUME Rising(a), Rising(b), Below(a, b)
      PROVE  Rising(kept)
  <2>1. ASSUME NEW i \in 1..k, NEW j \in 1..k, i < j
        PROVE  kept[i] < kept[j]
    <3>1. n - k + i < n - k + j /\ n - k + i - m < n - k + j - m
      BY <1>2, <1>4, <2>1
    <3>2. \/ n - k + i \in 1..Len(a) /\ kept[i] = a[n - k + i]
          \/ n - k + i - m \in 1..Len(b) /\ kept[i] = b[n - k + i - m]
      BY <1>5
    <3>3. \/ n - k + j \in 1..Len(a) /\ kept[j] = a[n - k + j]
          \/ n - k + j - m \in 1..Len(b) /\ kept[j] = b[n - k + j - m]
      BY <1>5
    <3>4. ~(n - k + i - m \in 1..Len(b) /\ n - k + j \in 1..Len(a))
      BY <1>2, <1>4, <2>1 DEF m
    <3>. QED
      BY <1>7, <3>1, <3>2, <3>3, <3>4 DEF Rising, Below
  <2>. QED
    BY <1>3, <2>1 DEF Rising
<1>8. \A low : From(a, low) /\ From(b, low) => From(kept, low)
  BY <1>6 DEF From
<1>9. \A high : Until(a, high) /\ Until(b, high) => Until(kept, high)
  BY <1>6 DEF Until
<1>10. \A t \in Seq(Values) : Below(a, t) /\ Below(b, t) => Below(kept, t)
  BY <1>6 DEF Below
<1>11. \A t \in Seq(Values) : Below(t, a) /\ Below(t, b) => Below(t, kept)
  BY <1>6 DEF Below
<1>. QED
  BY <1>7, <1>8, <1>9, <1>10, <1>11 DEF kept, s

\* What leaves from the front leaves once: spans received one after the other are kept as
\* if they had come at once.
LEMMA NewestTwice ==
  ASSUME NEW a \in Seq(Values), NEW b \in Seq(Values), NEW c \in Seq(Values)
  PROVE  Kept!Newest(Kept!Newest(a \o b) \o c) = Kept!Newest(a \o (b \o c))
<1>. DEFINE x == a \o b
            n == Len(x)
            k == Least(n, Capacity)
            kept == Kept!Newest(x)
            y == kept \o c
            z == x \o c
            K == Least(n + Len(c), Capacity)
<1>1. x \in Seq(Values) /\ n \in Nat /\ Len(c) \in Nat /\ Capacity \in Nat
  BY ConcatProperties, LenProperties, RingAssumption
<1>2. z = a \o (b \o c)
  BY ConcatAssociative
<1>. HIDE DEF x, n
<1>3. /\ kept \in Seq(Values) /\ Len(kept) = k
      /\ \A i \in 1..k : kept[i] = x[n - k + i]
  BY <1>1, NewestOf DEF n
<1>4. k \in 0..n /\ K \in 0..n + Len(c) /\ K <= k + Len(c) /\ Least(k + Len(c), Capacity) = K
  BY <1>1 DEF Least
<1>5. /\ y \in Seq(Values) /\ Len(y) = k + Len(c)
      /\ \A i \in 1..k + Len(c) : y[i] = IF i <= k THEN kept[i] ELSE c[i - k]
  BY <1>3, ConcatProperties
<1>6. /\ z \in Seq(Values) /\ Len(z) = n + Len(c)
      /\ \A i \in 1..n + Len(c) : z[i] = IF i <= n THEN x[i] ELSE c[i - n]
  BY <1>1, ConcatProperties DEF n
<1>. HIDE DEF kept, y, z, k, K
<1>7. /\ Kept!Newest(y) \in Seq(Values) /\ Len(Kept!Newest(y)) = K
      /\ \A i \in 1..K : Kept!Newest(y)[i] = y[(k + Len(c)) - K + i]
  <2>1. /\ Kept!Newest(y) \in Seq(Values)
        /\ Len(Kept!Newest(y)) = Least(Len(y), Capacity)
        /\ \A i \in 1..Least(Len(y), Capacity) :
             Kept!Newest(y)[i] = y[Len(y) - Least(Len(y), Capacity) + i]
    BY <1>5, NewestOf
  <2>2. Len(y) = k + Len(c) /\ Least(Len(y), Capacity) = K
    BY <1>4, <1>5
  <2>. QED
    BY <2>1, <2>2
<1>8. /\ Kept!Newest(z) \in Seq(Values) /\ Len(Kept!Newest(z)) = K
      /\ \A i \in 1..K : Kept!Newest(z)[i] = z[(n + Len(c)) - K + i]
  <2>1. /\ Kept!Newest(z) \in Seq(Values)
        /\ Len(Kept!Newest(z)) = Least(Len(z), Capacity)
        /\ \A i \in 1..Least(Len(z), Capacity) :
             Kept!Newest(z)[i] = z[Len(z) - Least(Len(z), Capacity) + i]
    BY <1>6, NewestOf
  <2>2. Len(z) = n + Len(c) /\ Least(Len(z), Capacity) = K
    BY <1>6 DEF K
  <2>. QED
    BY <2>1, <2>2
<1>9. ASSUME NEW i \in 1..K
      PROVE  Kept!Newest(y)[i] = Kept!Newest(z)[i]
  <2>. DEFINE p == (k + Len(c)) - K + i
              q == (n + Len(c)) - K + i
  <2>1. /\ p \in 1..k + Len(c) /\ q \in 1..n + Len(c) /\ q = n - k + p
        /\ p <= k <=> q <= n
    BY <1>1, <1>4
  <2>2. Kept!Newest(y)[i] = y[p] /\ Kept!Newest(z)[i] = z[q]
    BY <1>7, <1>8
  <2>. HIDE DEF p, q
  <2>3. CASE p <= k
    <3>1. y[p] = kept[p] /\ z[q] = x[q]
      BY <1>5, <1>6, <2>1, <2>3
    <3>2. p \in 1..k
      BY <1>1, <1>4, <2>1, <2>3
    <3>3. kept[p] = x[q]
      BY <1>3, <2>1, <3>2
    <3>. QED
      BY <2>2, <3>1, <3>3
  <2>4. CASE ~(p <= k)
    <3>1. y[p] = c[p - k] /\ z[q] = c[q - n]
      BY <1>5, <1>6, <2>1, <2>4
    <3>2. q - n = p - k
      BY <1>1, <1>4, <2>1
    <3>. QED
      BY <2>2, <3>1, <3>2
  <2>. QED
    BY <2>3, <2>4
<1>10. Kept!Newest(y) = Kept!Newest(z)
  BY <1>7, <1>8, <1>9, SeqEqual
<1>. QED
  BY <1>2, <1>10 DEF y, kept, x

\* pushTo moves what one ring holds behind what the other does.
LEMMA PushToKeepsNewest ==
  ASSUME NEW ring \in Ring, NEW other \in Ring
  PROVE  /\ PushTo(ring, other) \in Ring
         /\ Contents(PushTo(ring, other)) = Kept!Newest(Contents(other) \o Contents(ring))
<1>. DEFINE runs == Runs(ring, Oldest(ring), ring.count)
            one == Push(other, runs[1])
<1>1. /\ runs[1] \in Seq(Values) /\ runs[2] \in Seq(Values)
      /\ Contents(ring) = runs[1] \o runs[2] /\ Contents(other) \in Seq(Values)
  BY ContentsOf
<1>2. PushTo(ring, other) = Push(one, runs[2])
  BY DEF PushTo, Oldest
<1>. HIDE DEF runs
<1>3. one \in Ring /\ Contents(one) = Kept!Newest(Contents(other) \o runs[1])
  BY <1>1, PushKeepsNewest
<1>. HIDE DEF one
<1>4. /\ Push(one, runs[2]) \in Ring
      /\ Contents(Push(one, runs[2])) = Kept!Newest(Contents(one) \o runs[2])
  BY <1>1, <1>3, PushKeepsNewest
<1>5. Kept!Newest(Kept!Newest(Contents(other) \o runs[1]) \o runs[2])
        = Kept!Newest(Contents(other) \o (runs[1] \o runs[2]))
  BY <1>1, NewestTwice
<1>. QED
  BY <1>1, <1>2, <1>3, <1>4, <1>5

\* A ring that was cleared, like a fresh one, holds nothing.
LEMMA ClearedIsEmpty ==
  /\ Empty \in Ring /\ Contents(Empty) = <<>>
  /\ \A ring \in Ring : Clear(ring) \in Ring /\ Contents(Clear(ring)) = <<>>
<1>1. Capacity \in Nat \ {0} /\ Silence \in Values
  BY RingAssumption
<1>2. Empty \in Ring /\ Empty.count = 0
  BY <1>1 DEF Empty, Ring, Positions
<1>3. \A ring \in Ring : Clear(ring) \in Ring /\ Clear(ring).count = 0
  <2>. TAKE ring \in Ring
  <2>1. 0 \in Positions /\ 0 \in 0..Capacity
    BY <1>1 DEF Positions
  <2>. QED
    BY <2>1 DEF Clear, Ring
<1>4. \A ring \in Ring : ring.count = 0 => Contents(ring) = <<>>
  <2>. TAKE ring \in Ring
  <2>1. Contents(ring) \in Seq(Values) /\ Len(Contents(ring)) = ring.count
    BY ContentsOf
  <2>. QED
    BY <2>1, EmptySeq
<1>. QED
  BY <1>2, <1>3, <1>4
\* The newest values of a span are its end; of those that fit they are all.
LEMMA NewestIsLast ==
  ASSUME NEW span \in Seq(Values)
  PROVE  /\ Kept!Newest(span) = Last(span, Capacity)
         /\ Len(span) <= Capacity => Last(span \o <<>>, Capacity) = span
<1>1. Len(span) \in Nat /\ Capacity \in Nat
  BY LenProperties, RingAssumption
<1>2. /\ Kept!Newest(span) \in Seq(Values)
      /\ Len(Kept!Newest(span)) = Least(Len(span), Capacity)
      /\ \A i \in 1..Least(Len(span), Capacity) :
           Kept!Newest(span)[i] = span[Len(span) - Least(Len(span), Capacity) + i]
  BY NewestOf
<1>3. /\ Last(span, Capacity) \in Seq(Values)
      /\ Len(Last(span, Capacity)) = Least(Capacity, Len(span))
      /\ \A i \in 1..Least(Capacity, Len(span)) :
           Last(span, Capacity)[i] = span[Len(span) - Least(Capacity, Len(span)) + i]
  BY <1>1, LastOf
<1>4. Least(Capacity, Len(span)) = Least(Len(span), Capacity)
  BY <1>1 DEF Least
<1>5. Kept!Newest(span) = Last(span, Capacity)
  BY <1>2, <1>3, <1>4, SeqEqual
<1>6. span \o <<>> = span
  OBVIOUS
<1>7. Len(span) <= Capacity => Kept!Newest(span) = span
  BY DEF Kept!Newest
<1>. QED
  BY <1>5, <1>6, <1>7

\* What exceeds the capacity of the span that waits would not have been kept either.
LEMMA NewestOfEnd ==
  ASSUME NEW a \in Seq(Values), NEW b \in Seq(Values)
  PROVE  Kept!Newest(a \o Kept!Newest(b)) = Kept!Newest(a \o b)
<1>. DEFINE end == Kept!Newest(b)
            y == a \o end
            z == a \o b
            m == Len(a)
            n == Len(b)
<1>1. m \in Nat /\ n \in Nat /\ Capacity \in Nat \ {0}
  BY LenProperties, RingAssumption
<1>2. CASE n <= Capacity
  BY <1>2 DEF Kept!Newest
<1>3. CASE n > Capacity
  <2>1. Least(n, Capacity) = Capacity
    BY <1>1, <1>3 DEF Least
  <2>2. /\ end \in Seq(Values) /\ Len(end) = Capacity
        /\ \A i \in 1..Capacity : end[i] = b[n - Capacity + i]
    BY <2>1, NewestOf
  <2>. HIDE DEF end
  <2>3. /\ y \in Seq(Values) /\ Len(y) = m + Capacity
        /\ \A i \in 1..m + Capacity : y[i] = IF i <= m THEN a[i] ELSE end[i - m]
    BY <2>2, ConcatProperties
  <2>4. /\ z \in Seq(Values) /\ Len(z) = m + n
        /\ \A i \in 1..m + n : z[i] = IF i <= m THEN a[i] ELSE b[i - m]
    BY ConcatProperties
  <2>. HIDE DEF y, z, m, n
  <2>5. Least(m + Capacity, Capacity) = Capacity /\ Least(m + n, Capacity) = Capacity
    BY <1>1, <1>3 DEF Least
  <2>6. /\ Kept!Newest(y) \in Seq(Values) /\ Len(Kept!Newest(y)) = Capacity
        /\ \A i \in 1..Capacity : Kept!Newest(y)[i] = y[(m + Capacity) - Capacity + i]
    <3>1. /\ Kept!Newest(y) \in Seq(Values)
          /\ Len(Kept!Newest(y)) = Least(Len(y), Capacity)
          /\ \A i \in 1..Least(Len(y), Capacity) :
               Kept!Newest(y)[i] = y[Len(y) - Least(Len(y), Capacity) + i]
      BY <2>3, NewestOf
    <3>2. Len(y) = m + Capacity /\ Least(Len(y), Capacity) = Capacity
      BY <2>3, <2>5
    <3>. QED
      BY <3>1, <3>2
  <2>7. /\ Kept!Newest(z) \in Seq(Values) /\ Len(Kept!Newest(z)) = Capacity
        /\ \A i \in 1..Capacity : Kept!Newest(z)[i] = z[(m + n) - Capacity + i]
    <3>1. /\ Kept!Newest(z) \in Seq(Values)
          /\ Len(Kept!Newest(z)) = Least(Len(z), Capacity)
          /\ \A i \in 1..Least(Len(z), Capacity) :
               Kept!Newest(z)[i] = z[Len(z) - Least(Len(z), Capacity) + i]
      BY <2>4, NewestOf
    <3>2. Len(z) = m + n /\ Least(Len(z), Capacity) = Capacity
      BY <2>4, <2>5
    <3>. QED
      BY <3>1, <3>2
  <2>8. ASSUME NEW i \in 1..Capacity
        PROVE  Kept!Newest(y)[i] = Kept!Newest(z)[i]
    <3>1. (m + Capacity) - Capacity + i = m + i /\ (m + n) - Capacity + i = m + (n - Capacity + i)
      BY <1>1
    <3>2. /\ m + i \in 1..m + Capacity /\ ~(m + i <= m) /\ (m + i) - m = i
          /\ m + (n - Capacity + i) \in 1..m + n /\ ~(m + (n - Capacity + i) <= m)
          /\ (m + (n - Capacity + i)) - m = n - Capacity + i
      BY <1>1, <1>3
    <3>3. y[m + i] = end[i]
      BY <2>3, <3>2
    <3>4. z[m + (n - Capacity + i)] = b[n - Capacity + i]
      BY <2>4, <3>2
    <3>. QED
      BY <2>2, <2>6, <2>7, <3>1, <3>3, <3>4
  <2>. QED
    <3>1. Kept!Newest(y) = Kept!Newest(z)
      BY <2>6, <2>7, <2>8, SeqEqual
    <3>. QED
      BY <3>1 DEF y, z, end
<1>. QED
  BY <1>1, <1>2, <1>3

----------------------------------------------------------------------------
(* The collector's buffers: types.                                         *)

\* A window of samples is silence and then what the ring holds.
LEMMA WindowOf ==
  ASSUME samples \in Ring
  PROVE  LET S == Contents(samples)  pad == Capacity - Len(S) IN
         /\ ReadLatest(Capacity) \in Seq(Values)
         /\ pad \in 0..Capacity /\ Len(ReadLatest(Capacity)) = Capacity
         /\ \A i \in 1..Capacity :
              ReadLatest(Capacity)[i] = IF i <= pad THEN Silence ELSE S[i - pad]
<1>. DEFINE S == Contents(samples)
            pad == Capacity - Len(S)
            silence == [i \in 1..pad |-> Silence]
<1>1. S \in Seq(Values) /\ Len(S) \in 0..Capacity /\ Capacity \in Nat \ {0}
  BY ContentsOf, RingAssumption DEF Ring
<1>2. pad \in Nat /\ pad \in 0..Capacity
  BY <1>1
<1>3. ReadLatest(Capacity) = silence \o S
  BY DEF ReadLatest, Contents
<1>. HIDE DEF S, pad
<1>4. silence \in Seq(Values) /\ Len(silence) = pad
  <2>1. silence \in [1..pad -> Values]
    BY RingAssumption
  <2>. HIDE DEF silence
  <2>. QED
    BY <1>2, <2>1, SpanOf
<1>5. \A i \in 1..pad : silence[i] = Silence
  OBVIOUS
<1>. HIDE DEF silence
<1>6. /\ silence \o S \in Seq(Values) /\ Len(silence \o S) = pad + Len(S)
      /\ \A i \in 1..pad + Len(S) :
           (silence \o S)[i] = IF i <= pad THEN silence[i] ELSE S[i - pad]
  BY <1>1, <1>4, ConcatProperties
<1>7. pad + Len(S) = Capacity
  BY <1>1 DEF pad
<1>8. \A i \in 1..Capacity : (silence \o S)[i] = IF i <= pad THEN Silence ELSE S[i - pad]
  BY <1>2, <1>5, <1>6, <1>7
<1>. QED
  BY <1>2, <1>3, <1>6, <1>7, <1>8 DEF pad, S

\* The chunk that arrives is a span of samples numbered on.
LEMMA ChunkOf ==
  ASSUME BuffersTypeOK, NEW n \in ChunkSizes, next + n <= MaxValues + 1
  PROVE  LET new == [i \in 1..n |-> next + i - 1] IN
         /\ n \in Nat /\ next + n \in 1..MaxValues + 1
         /\ new \in Seq(Values) /\ Len(new) = n /\ \A i \in 1..n : new[i] = next + i - 1
<1>. DEFINE new == [i \in 1..n |-> next + i - 1]
<1>1. n \in Nat \ {0} /\ next \in 1..MaxValues + 1 /\ MaxValues \in Nat
  BY BuffersAssumption DEF BuffersTypeOK
<1>2. \A i \in 1..n : next + i - 1 \in Values
  BY <1>1, BuffersAssumption
<1>3. new \in [1..n -> Values]
  BY <1>2
<1>4. new \in Seq(Values) /\ Len(new) = n
  BY <1>1, <1>3, SpanOf
<1>. QED
  BY <1>1, <1>4

\* What PushChunk leaves in the ring of samples.
LEMMA PushedChunk ==
  ASSUME BuffersTypeOK
  PROVE  LET moved == PushTo(pending, samples)
             S == Contents(samples)  P == Contents(pending)
         IN  /\ S \in Seq(Values) /\ P \in Seq(Values)
             /\ Contents(moved) = Kept!Newest(S \o P) /\ Contents(moved) \in Seq(Values)
             /\ Push(moved, chunk) \in Ring
             /\ Contents(Push(moved, chunk)) = Kept!Newest(Contents(moved) \o chunk)
<1>. DEFINE moved == PushTo(pending, samples)
<1>1. samples \in Ring /\ pending \in Ring /\ chunk \in Seq(Values)
  BY DEF BuffersTypeOK
<1>2. Contents(samples) \in Seq(Values) /\ Contents(pending) \in Seq(Values)
  BY <1>1, ContentsOf
<1>3. moved \in Ring /\ Contents(moved) = Kept!Newest(Contents(samples) \o Contents(pending))
  BY <1>1, PushToKeepsNewest
<1>. HIDE DEF moved
<1>4. /\ Contents(moved) \in Seq(Values)
      /\ Push(moved, chunk) \in Ring
      /\ Contents(Push(moved, chunk)) = Kept!Newest(Contents(moved) \o chunk)
  BY <1>1, <1>3, ContentsOf, PushKeepsNewest
<1>. QED
  BY <1>2, <1>3, <1>4 DEF moved

LEMMA BuffersTypeStep ==
  ASSUME BuffersTypeOK, [BuffersNext]_bufferVars
  PROVE  BuffersTypeOK'
<1>. USE BuffersAssumption DEF BuffersTypeOK, bufferVars, rings, micBuffers, loop, Silent
<1>0. Outside \in Calls /\ Filled \in Calls /\ Begun \in Calls /\ <<>> \in Seq(Values)
  BY EmptySeq DEF Outside, Filled, Begun, Calls, Places
<1>1. ASSUME NEW n \in ChunkSizes, LoadChunk(n)
      PROVE  BuffersTypeOK'
  <2>1. chunk' \in Seq(Values) /\ next' \in 1..MaxValues + 1
    BY <1>1, ChunkOf DEF LoadChunk
  <2>2. pending' \in Ring
    BY <1>1, ClearedIsEmpty DEF LoadChunk
  <2>. QED
    BY <1>0, <1>1, <2>1, <2>2 DEF LoadChunk
<1>2. CASE TryLock
  <2>1. pending' \in Ring
    BY <1>2, PushKeepsNewest DEF TryLock
  <2>. QED
    BY <1>0, <1>2, <2>1 DEF TryLock
<1>3. CASE PushChunk
  <2>1. samples' \in Ring /\ pending' \in Ring
    BY <1>3, PushedChunk, ClearedIsEmpty DEF PushChunk
  <2>. QED
    BY <1>0, <1>3, <2>1 DEF PushChunk
<1>4. ASSUME NEW r \in Readers, ReadLock(r) \/ ReadChunk(r)
      PROVE  BuffersTypeOK'
  <2>1. CASE ReadLock(r)
    BY <1>0, <2>1 DEF ReadLock
  <2>2. CASE ReadChunk(r)
    <3>1. heard' \in Seq(Values)
      BY <2>2, WindowOf DEF ReadChunk
    <3>. QED
      BY <2>2, <3>1 DEF ReadChunk
  <2>. QED
    BY <1>4, <2>1, <2>2
<1>5. CASE LoadMicChunk
  BY <1>0, <1>5 DEF LoadMicChunk
<1>6. CASE SwapMic
  <2>1. micCall.write \in {1, 2} /\ micCall.old \in {1, 2}
    BY DEF Calls
  <2>2. [micCall EXCEPT !.at = "exchanged", !.old = micRead] \in Calls
    BY DEF Calls, Places
  <2>3. micCall' \in Calls /\ micRead' \in {1, 2} /\ micWrite' \in {1, 2}
    BY <1>0, <1>6, <2>1, <2>2 DEF SwapMic
  <2>. QED
    BY <1>0, <1>6, <2>3 DEF SwapMic
<1>7. CASE ClearSamples
  <2>1. samples' \in Ring
    BY <1>7, ClearedIsEmpty DEF ClearSamples
  <2>2. clearing' \in Calls
    BY <1>0, <1>7 DEF ClearSamples, Calls, Places
  <2>. QED
    BY <1>0, <1>7, <2>1, <2>2 DEF ClearSamples
<1>8. CASE ClearMic
  <2>1. clearing.write \in {1, 2} /\ clearing.old \in {1, 2}
    BY DEF Calls
  <2>2. [clearing EXCEPT !.at = "exchanged", !.old = micRead] \in Calls
    BY DEF Calls, Places
  <2>3. clearing' \in Calls /\ micRead' \in {1, 2} /\ micWrite' \in {1, 2}
    BY <1>0, <1>8, <2>1, <2>2 DEF ClearMic
  <2>. QED
    BY <1>0, <1>8, <2>3 DEF ClearMic
<1>9. CASE Start
  BY <1>0, <1>9 DEF Start, BufferEvent, AtOnce
<1>10. CASE Stop
  BY <1>0, <1>10 DEF Stop, AtOnce
<1>11. CASE ClearOnTimeout
  BY <1>0, <1>11 DEF ClearOnTimeout, AtOnce
<1>12. ASSUME NEW kind \in {"monitor", "both"}, OpenStreams(kind)
       PROVE  BuffersTypeOK'
  BY <1>0, <1>12 DEF OpenStreams, AtOnce
<1>13. ASSUME NEW s \in {"monitor", "mic"}, StreamChanged(s)
       PROVE  BuffersTypeOK'
  <2>1. streamStates' \in [{"monitor", "mic"} -> {"none", "connecting", "paused", "streaming"}]
    BY <1>13 DEF StreamChanged
  <2>2a. timerArmed' \in BOOLEAN
    BY <1>13, Zenon DEF StreamChanged
  <2>2b. idle' \in BOOLEAN
    BY <1>13, Zenon DEF StreamChanged
  <2>2c. changes < MaxChanges /\ changes' = changes + 1
    BY <1>13 DEF StreamChanged, BufferEvent
  <2>2. timerArmed' \in BOOLEAN /\ idle' \in BOOLEAN /\ changes' \in 0..MaxChanges
    BY <2>2a, <2>2b, <2>2c
  <2>3. UNCHANGED <<rings, lock, chunk, micBuffers, next, mark, workerKind, clearing>>
    BY <1>13 DEF StreamChanged, AtOnce
  <2>4. heard' = <<>>
    BY <1>13 DEF StreamChanged, AtOnce
  <2>. QED
    BY <1>0, <2>1, <2>2, <2>3, <2>4
<1>14. CASE UNCHANGED bufferVars
  BY <1>14
<1>. QED
  BY <1>1, <1>2, <1>3, <1>4, <1>5, <1>6, <1>7, <1>8, <1>9, <1>10, <1>11, <1>12, <1>13, <1>14
  DEF BuffersNext

----------------------------------------------------------------------------
(* The collector's buffers: the inductive invariant.                       *)

\* What came in and was not cleared stands in order in the ring of samples, the ring of
\* what was put aside and the callback's chunk, one after the other.
InputInOrder ==
  LET S == Contents(samples)  P == Contents(pending) IN
  /\ Rising(S) /\ Rising(P) /\ Rising(chunk)
  /\ Below(S, P) /\ Below(S, chunk) /\ Below(P, chunk)
  /\ From(S, 1) /\ From(P, 1) /\ From(chunk, 1)
  /\ Until(S, next) /\ Until(P, next) /\ Until(chunk, next)

\* Nothing from before a clear is kept, but for what was put aside, which the next chunk drops.
NothingOldIsKept ==
  /\ mark <= next
  /\ From(Contents(samples), mark) /\ From(chunk, mark)
  /\ (discardPending => chunk # <<>>) => From(Contents(pending), mark)

\* Who holds the lock; and that a clear which counts, of a worker with no mic stream, finds
\* no chunk under way, for the monitor's stream is paused.
LockFollowsCalls ==
  /\ lock = "rt" => chunk # <<>>
  /\ lock = "clear" <=> clearing.at \in {"locked", "cleared"}
  /\ chunk # <<>> => streamStates["monitor"] = "streaming"
ClearsWhilePaused ==
  /\ clearing.at # "outside" /\ workerKind # "both" => streamStates["monitor"] # "streaming"
  /\ workerKind = "none" => clearing.at = "outside"
  /\ workerKind \in {"none", "starting"} => \A s \in {"monitor", "mic"} : streamStates[s] = "none"
  /\ workerKind = "monitor" =>
       streamStates["mic"] = "none" /\ (timerArmed => streamStates["monitor"] # "streaming")

\* A call between its two swaps holds the buffer the other does not name.
Swapping(call) ==
  /\ call.at = "filled" => call.write = micWrite
  /\ call.at = "exchanged" => call.old # micRead
MicSwaps ==
  /\ micCall.at \in {"outside", "filled", "exchanged"}
  /\ ~overlapped =>
       /\ micCall.at = "outside" \/ clearing.at \notin {"filled", "exchanged"}
       /\ micCall.at # "exchanged" /\ clearing.at # "exchanged" => micRead # micWrite
       /\ Swapping(micCall) /\ Swapping(clearing)

BuffersInv ==
  /\ BuffersTypeOK /\ InputInOrder /\ NothingOldIsKept /\ LockFollowsCalls
  /\ ClearsWhilePaused /\ MicSwaps /\ HeardInOrder /\ NothingOldIsHeard

\* Chunks that arrive, are put aside, are pushed or are cleared leave the input in order.
LEMMA InputStep ==
  ASSUME BuffersInv, [BuffersNext]_bufferVars
  PROVE  InputInOrder'
<1>. DEFINE S == Contents(samples)
            P == Contents(pending)
<1>. USE DEF BuffersInv
<1>0. /\ S \in Seq(Values) /\ P \in Seq(Values) /\ chunk \in Seq(Values)
      /\ samples \in Ring /\ pending \in Ring /\ next \in Nat
  <2>1. samples \in Ring /\ pending \in Ring /\ chunk \in Seq(Values) /\ next \in Nat
    BY BuffersAssumption DEF BuffersTypeOK
  <2>. QED
    BY <2>1, ContentsOf
<1>a. \A s \in Seq(Values) : /\ Rising(<<>>) /\ Below(s, <<>>) /\ Below(<<>>, s)
                              /\ \A b : From(<<>>, b) /\ Until(<<>>, b)
  BY EmptySeq DEF Rising, Below, From, Until
<1>1. ASSUME UNCHANGED <<samples, pending, chunk, next>>
      PROVE  InputInOrder'
  BY <1>1 DEF InputInOrder
<1>2. ASSUME NEW n \in ChunkSizes, LoadChunk(n)
      PROVE  InputInOrder'
  <2>1. /\ next' = next + n /\ n \in Nat /\ chunk' \in Seq(Values) /\ Len(chunk') = n
        /\ \A i \in 1..n : chunk'[i] = next + i - 1
    BY <1>2, ChunkOf DEF LoadChunk
  <2>2. samples' = samples /\ (pending' = pending \/ pending' = Clear(pending))
    BY <1>2 DEF LoadChunk
  <2>3. Contents(pending') = P \/ Contents(pending') = <<>>
    BY <1>0, <2>2, ClearedIsEmpty
  <2>4. ASSUME NEW s \in Seq(Values), Until(s, next)
        PROVE  Below(s, chunk') /\ Until(s, next')
    <3>1. \A i \in 1..Len(s) : s[i] \in Int /\ s[i] < next
      BY <2>4, ElementOfSeq, BuffersAssumption DEF Until
    <3>. QED
      BY <1>0, <2>1, <3>1 DEF Below, Until
  <2>5. Rising(chunk') /\ From(chunk', 1) /\ Until(chunk', next')
    BY <1>0, <2>1 DEF Rising, From, Until, BuffersTypeOK
  <2>6. Rising(S) /\ From(S, 1) /\ Until(S, next) /\ Until(P, next) /\ Rising(P) /\ From(P, 1)
        /\ Below(S, P)
    BY DEF InputInOrder
  <2>7. Below(S, chunk') /\ Until(S, next') /\ Below(P, chunk') /\ Until(P, next')
    BY <1>0, <2>4, <2>6
  <2>8. CASE Contents(pending') = P
    BY <2>2, <2>5, <2>6, <2>7, <2>8 DEF InputInOrder
  <2>9. CASE Contents(pending') = <<>>
    BY <1>0, <1>a, <2>1, <2>2, <2>5, <2>6, <2>7, <2>9 DEF InputInOrder
  <2>. QED
    BY <2>3, <2>8, <2>9
<1>3. CASE TryLock
  <2>1. CASE lock = "free"
    BY <1>1, <1>3, <2>1 DEF TryLock, rings
  <2>2. CASE lock # "free"
    <3>1. /\ samples' = samples /\ next' = next /\ chunk' = <<>>
          /\ pending' = Push(pending, chunk)
      BY <1>3, <2>2 DEF TryLock
    <3>2. Contents(pending') = Kept!Newest(P \o chunk)
      BY <1>0, <3>1, PushKeepsNewest
    <3>. DEFINE kept == Kept!Newest(P \o chunk)
    <3>3. Rising(kept) /\ From(kept, 1) /\ Until(kept, next) /\ Below(S, kept)
      BY <1>0, NewestInOrder DEF InputInOrder
    <3>4. kept \in Seq(Values)
      BY <1>0, NewestOf, ConcatProperties
    <3>. HIDE DEF kept
    <3>. QED
      BY <1>0, <1>a, <3>1, <3>2, <3>3, <3>4 DEF InputInOrder, kept
  <2>. QED
    BY <2>1, <2>2
<1>4. CASE PushChunk
  <2>. DEFINE moved == PushTo(pending, samples)
              kept == Kept!Newest(S \o P)
              all == Kept!Newest(kept \o chunk)
  <2>1. Contents(samples') = all /\ kept \in Seq(Values)
    BY <1>4, PushedChunk DEF PushChunk
  <2>2. pending' = Clear(pending) /\ chunk' = <<>> /\ next' = next
    BY <1>4 DEF PushChunk
  <2>3. Contents(pending') = <<>>
    BY <1>0, <2>2, ClearedIsEmpty
  <2>4. Rising(kept) /\ From(kept, 1) /\ Until(kept, next) /\ Below(kept, chunk)
    BY <1>0, NewestInOrder DEF InputInOrder
  <2>5. all \in Seq(Values)
    BY <1>0, <2>1, NewestOf, ConcatProperties
  <2>. HIDE DEF kept
  <2>6. Rising(all) /\ From(all, 1) /\ Until(all, next)
    BY <1>0, <2>1, <2>4, NewestInOrder DEF InputInOrder
  <2>. HIDE DEF all
  <2>. QED
    BY <1>a, <2>1, <2>2, <2>3, <2>5, <2>6, EmptySeq DEF InputInOrder
<1>5. CASE ClearSamples
  <2>1. /\ pending' = pending /\ chunk' = chunk /\ next' = next
        /\ samples' = samples \/ samples' = Clear(samples)
    BY <1>5 DEF ClearSamples, rings
  <2>2. Contents(samples') = S \/ Contents(samples') = <<>>
    BY <1>0, <2>1, ClearedIsEmpty
  <2>. QED
    BY <1>0, <1>a, <2>1, <2>2 DEF InputInOrder
<1>6. ASSUME NEW r \in Readers, ReadLock(r) \/ ReadChunk(r)
      PROVE  InputInOrder'
  BY <1>1, <1>6 DEF ReadLock, ReadChunk, rings
<1>7. CASE LoadMicChunk \/ SwapMic \/ ClearMic
  BY <1>1, <1>7 DEF LoadMicChunk, SwapMic, ClearMic, rings
<1>8. CASE Start \/ Stop \/ ClearOnTimeout
  BY <1>1, <1>8 DEF Start, Stop, ClearOnTimeout, AtOnce, rings
<1>9. ASSUME NEW kind \in {"monitor", "both"}, OpenStreams(kind)
      PROVE  InputInOrder'
  BY <1>1, <1>9 DEF OpenStreams, AtOnce, rings
<1>10. ASSUME NEW s \in {"monitor", "mic"}, StreamChanged(s)
       PROVE  InputInOrder'
  BY <1>1, <1>10 DEF StreamChanged, AtOnce, rings
<1>11. CASE UNCHANGED bufferVars
  BY <1>1, <1>11 DEF bufferVars, rings
<1>. QED
  BY <1>2, <1>3, <1>4, <1>5, <1>6, <1>7, <1>8, <1>9, <1>10, <1>11 DEF BuffersNext

\* No step keeps what a clear was to drop.
LEMMA OldStep ==
  ASSUME BuffersInv, [BuffersNext]_bufferVars
  PROVE  NothingOldIsKept'
<1>. DEFINE S == Contents(samples)
            P == Contents(pending)
<1>. USE DEF BuffersInv
<1>0. /\ S \in Seq(Values) /\ P \in Seq(Values) /\ chunk \in Seq(Values)
      /\ samples \in Ring /\ pending \in Ring /\ next \in Nat /\ mark \in Nat
  <2>1. /\ samples \in Ring /\ pending \in Ring /\ chunk \in Seq(Values)
        /\ next \in Nat /\ mark \in Nat
    BY BuffersAssumption DEF BuffersTypeOK
  <2>. QED
    BY <2>1, ContentsOf
<1>a. \A b : From(<<>>, b)
  BY DEF From
<1>1. ASSUME UNCHANGED <<samples, pending, discardPending, chunk, next, mark>>
      PROVE  NothingOldIsKept'
  BY <1>1 DEF NothingOldIsKept
<1>2. ASSUME NEW n \in ChunkSizes, LoadChunk(n)
      PROVE  NothingOldIsKept'
  <2>1. /\ next' = next + n /\ n \in Nat /\ Len(chunk') = n
        /\ \A i \in 1..n : chunk'[i] = next + i - 1
    BY <1>2, ChunkOf DEF LoadChunk
  <2>2. /\ samples' = samples /\ mark' = mark /\ discardPending' = FALSE /\ chunk = <<>>
        /\ pending' = IF discardPending THEN Clear(pending) ELSE pending
    BY <1>2 DEF LoadChunk
  <2>3. mark <= next /\ mark <= next'
    BY <1>0, <2>1 DEF NothingOldIsKept
  <2>4. From(chunk', mark)
    BY <1>0, <2>1, <2>3 DEF From
  <2>5. From(Contents(pending'), mark)
    <3>1. CASE discardPending
      BY <1>0, <1>a, <2>2, <3>1, ClearedIsEmpty
    <3>2. CASE ~discardPending
      BY <2>2, <3>2 DEF NothingOldIsKept
    <3>. QED
      BY <3>1, <3>2
  <2>. QED
    BY <2>2, <2>3, <2>4, <2>5 DEF NothingOldIsKept
<1>3. CASE TryLock
  <2>1. CASE lock = "free"
    BY <1>1, <1>3, <2>1 DEF TryLock, rings
  <2>2. CASE lock # "free"
    <3>1. /\ samples' = samples /\ next' = next /\ mark' = mark /\ chunk # <<>> /\ chunk' = <<>>
          /\ pending' = Push(pending, chunk)
      BY <1>3, <2>2 DEF TryLock
    <3>2. Contents(pending') = Kept!Newest(P \o chunk)
      BY <1>0, <3>1, PushKeepsNewest
    <3>3. From(Kept!Newest(P \o chunk), mark)
      BY <1>0, <3>1, NewestInOrder DEF NothingOldIsKept
    <3>. QED
      BY <1>a, <3>1, <3>2, <3>3 DEF NothingOldIsKept
  <2>. QED
    BY <2>1, <2>2
<1>4. CASE PushChunk
  <2>. DEFINE kept == Kept!Newest(S \o P)
  <2>1. Contents(samples') = Kept!Newest(kept \o chunk) /\ kept \in Seq(Values)
    BY <1>4, PushedChunk DEF PushChunk
  <2>2. pending' = Clear(pending) /\ chunk' = <<>> /\ next' = next /\ mark' = mark
    BY <1>4 DEF PushChunk
  <2>3. Contents(pending') = <<>>
    BY <1>0, <2>2, ClearedIsEmpty
  <2>4. chunk # <<>>
    BY <1>4 DEF PushChunk, LockFollowsCalls
  <2>5. From(kept, mark)
    BY <1>0, <2>4, NewestInOrder DEF NothingOldIsKept
  <2>. HIDE DEF kept
  <2>6. From(Kept!Newest(kept \o chunk), mark)
    BY <1>0, <2>1, <2>5, NewestInOrder DEF NothingOldIsKept
  <2>. QED
    BY <1>a, <2>1, <2>2, <2>3, <2>6 DEF NothingOldIsKept
<1>5. CASE ClearSamples
  <2>1. CASE clearing.at # "locked"
    BY <1>1, <1>5, <2>1 DEF ClearSamples, rings
  <2>2. CASE clearing.at = "locked"
    <3>1. /\ samples' = Clear(samples) /\ pending' = pending /\ discardPending' = TRUE
          /\ chunk' = chunk /\ next' = next /\ mark' = IF workerKind = "both" THEN mark ELSE next
      BY <1>5, <2>2 DEF ClearSamples
    <3>2. Contents(samples') = <<>>
      BY <1>0, <3>1, ClearedIsEmpty
    <3>3. CASE workerKind = "both"
      BY <1>a, <3>1, <3>2, <3>3 DEF NothingOldIsKept
    <3>4. CASE workerKind # "both"
      <4>1. chunk = <<>>
        BY <2>2, <3>4 DEF ClearsWhilePaused, LockFollowsCalls
      <4>. QED
        BY <1>0, <1>a, <3>1, <3>2, <3>4, <4>1 DEF NothingOldIsKept
    <3>. QED
      BY <3>3, <3>4
  <2>. QED
    BY <2>1, <2>2
<1>6. ASSUME NEW r \in Readers, ReadLock(r) \/ ReadChunk(r)
      PROVE  NothingOldIsKept'
  BY <1>1, <1>6 DEF ReadLock, ReadChunk, rings
<1>7. CASE LoadMicChunk \/ SwapMic \/ ClearMic
  BY <1>1, <1>7 DEF LoadMicChunk, SwapMic, ClearMic, rings
<1>8. CASE Start \/ Stop \/ ClearOnTimeout
  BY <1>1, <1>8 DEF Start, Stop, ClearOnTimeout, AtOnce, rings
<1>9. ASSUME NEW kind \in {"monitor", "both"}, OpenStreams(kind)
      PROVE  NothingOldIsKept'
  BY <1>1, <1>9 DEF OpenStreams, AtOnce, rings
<1>10. ASSUME NEW s \in {"monitor", "mic"}, StreamChanged(s)
       PROVE  NothingOldIsKept'
  BY <1>1, <1>10 DEF StreamChanged, AtOnce, rings
<1>11. CASE UNCHANGED bufferVars
  BY <1>1, <1>11 DEF bufferVars, rings
<1>. QED
  BY <1>2, <1>3, <1>4, <1>5, <1>6, <1>7, <1>8, <1>9, <1>10, <1>11 DEF BuffersNext

\* The lock is held by the call that took it.
LEMMA LockStep ==
  ASSUME BuffersInv, [BuffersNext]_bufferVars
  PROVE  LockFollowsCalls'
<1>. USE BuffersAssumption DEF BuffersInv, LockFollowsCalls, rings, loop, Outside, Begun, Filled
<1>1. ASSUME NEW n \in ChunkSizes, LoadChunk(n)
      PROVE  LockFollowsCalls'
  BY <1>1 DEF LoadChunk
<1>2. CASE TryLock \/ PushChunk
  BY <1>2 DEF TryLock, PushChunk
<1>3. ASSUME NEW r \in Readers, ReadLock(r) \/ ReadChunk(r)
      PROVE  LockFollowsCalls'
  BY <1>3 DEF ReadLock, ReadChunk
<1>4. CASE LoadMicChunk \/ SwapMic
  BY <1>4 DEF LoadMicChunk, SwapMic
<1>5. CASE ClearSamples
  BY <1>5 DEF ClearSamples, BuffersTypeOK, Calls
<1>6. CASE ClearMic
  <2>1. clearing'.at \notin {"locked", "cleared"} /\ clearing.at \notin {"locked", "cleared"}
    <3>1. CASE clearing.at = "filled"
      BY <1>6, <3>1 DEF ClearMic, BuffersTypeOK, Calls
    <3>2. CASE clearing.at = "exchanged"
      BY <1>6, <3>2 DEF ClearMic
    <3>. QED
      BY <1>6, <3>1, <3>2 DEF ClearMic
  <2>2. UNCHANGED <<lock, chunk, streamStates>>
    BY <1>6 DEF ClearMic
  <2>. QED
    BY <2>1, <2>2
<1>7. CASE Start
  BY <1>7 DEF Start, AtOnce, ClearsWhilePaused
<1>8. CASE Stop
  BY <1>8 DEF Stop, AtOnce
<1>9. CASE ClearOnTimeout
  BY <1>9 DEF ClearOnTimeout, AtOnce
<1>10. ASSUME NEW kind \in {"monitor", "both"}, OpenStreams(kind)
       PROVE  LockFollowsCalls'
  BY <1>10 DEF OpenStreams, AtOnce, ClearsWhilePaused, BuffersTypeOK
<1>11. ASSUME NEW s \in {"monitor", "mic"}, StreamChanged(s)
       PROVE  LockFollowsCalls'
  BY <1>11 DEF StreamChanged, AtOnce, BuffersTypeOK
<1>12. CASE UNCHANGED bufferVars
  BY <1>12 DEF bufferVars
<1>. QED
  BY <1>1, <1>2, <1>3, <1>4, <1>5, <1>6, <1>7, <1>8, <1>9, <1>10, <1>11, <1>12 DEF BuffersNext

\* A worker with no mic stream clears while its monitor stream is paused.
LEMMA PausedStep ==
  ASSUME BuffersInv, [BuffersNext]_bufferVars
  PROVE  ClearsWhilePaused'
<1>. USE DEF BuffersInv, ClearsWhilePaused, rings, loop
<1>1. ASSUME UNCHANGED <<clearing, workerKind, streamStates, timerArmed>>
      PROVE  ClearsWhilePaused'
  BY <1>1
<1>2. ASSUME NEW n \in ChunkSizes, LoadChunk(n)
      PROVE  ClearsWhilePaused'
  BY <1>1, <1>2 DEF LoadChunk
<1>3. CASE TryLock \/ PushChunk \/ LoadMicChunk \/ SwapMic
  BY <1>1, <1>3 DEF TryLock, PushChunk, LoadMicChunk, SwapMic
<1>4. ASSUME NEW r \in Readers, ReadLock(r) \/ ReadChunk(r)
      PROVE  ClearsWhilePaused'
  BY <1>1, <1>4 DEF ReadLock, ReadChunk
<1>5. CASE ClearSamples \/ ClearMic
  <2>1. clearing.at # "outside" /\ UNCHANGED <<workerKind, streamStates, timerArmed>>
    BY <1>5 DEF ClearSamples, ClearMic
  <2>. QED
    BY <2>1
<1>6. CASE Start \/ ClearOnTimeout
  BY <1>6 DEF Start, ClearOnTimeout
<1>7. CASE Stop
  BY <1>7 DEF Stop, BuffersTypeOK
<1>8. ASSUME NEW kind \in {"monitor", "both"}, OpenStreams(kind)
      PROVE  ClearsWhilePaused'
  BY <1>8 DEF OpenStreams, Opened, BuffersTypeOK
<1>9. ASSUME NEW s \in {"monitor", "mic"}, StreamChanged(s)
      PROVE  ClearsWhilePaused'
  BY <1>9 DEF StreamChanged, BuffersTypeOK
<1>10. CASE UNCHANGED bufferVars
  BY <1>1, <1>10 DEF bufferVars
<1>. QED
  BY <1>2, <1>3, <1>4, <1>5, <1>6, <1>7, <1>8, <1>9, <1>10 DEF BuffersNext

\* The mic's two swaps keep the buffers apart, one call at a time.
LEMMA SwapsStep ==
  ASSUME BuffersInv, [BuffersNext]_bufferVars
  PROVE  MicSwaps'
<1>. USE DEF BuffersInv, MicSwaps, Swapping, micBuffers, Outside, Begun, Filled
<1>1. ASSUME UNCHANGED <<micRead, micWrite, micCall, clearing, overlapped>>
      PROVE  MicSwaps'
  BY <1>1
<1>2. ASSUME NEW n \in ChunkSizes, LoadChunk(n)
      PROVE  MicSwaps'
  BY <1>1, <1>2 DEF LoadChunk
<1>3. CASE TryLock \/ PushChunk
  BY <1>1, <1>3 DEF TryLock, PushChunk
<1>4. ASSUME NEW r \in Readers, ReadLock(r) \/ ReadChunk(r)
      PROVE  MicSwaps'
  BY <1>1, <1>4 DEF ReadLock, ReadChunk
<1>5. CASE LoadMicChunk
  BY <1>5 DEF LoadMicChunk, BuffersTypeOK, Calls
<1>6. CASE SwapMic
  <2>1. CASE micCall.at = "filled"
    <3>1. /\ micCall'.at = "exchanged" /\ micCall'.old = micRead /\ micRead' = micCall.write
          /\ UNCHANGED <<micWrite, clearing, overlapped>>
      BY <1>6, <2>1 DEF SwapMic, BuffersTypeOK, Calls
    <3>. QED
      BY <2>1, <3>1
  <2>2. CASE micCall.at = "exchanged"
    <3>1. /\ micCall'.at = "outside" /\ micWrite' = micCall.old
          /\ UNCHANGED <<micRead, clearing, overlapped>>
      BY <1>6, <2>2 DEF SwapMic
    <3>. QED
      BY <2>2, <3>1
  <2>. QED
    BY <1>6, <2>1, <2>2 DEF SwapMic
<1>7. CASE ClearSamples
  <2>1. UNCHANGED <<micRead, micWrite, micCall>>
    BY <1>7 DEF ClearSamples
  <2>2. CASE clearing.at = "cleared"
    <3>1. /\ clearing'.at = "filled" /\ clearing'.write = micWrite
          /\ overlapped' = (overlapped \/ micCall.at # "outside")
      BY <1>7, <2>2 DEF ClearSamples
    <3>. QED
      BY <2>1, <2>2, <3>1
  <2>3. CASE clearing.at \in {"begun", "locked"}
    <3>1. clearing'.at \in {"locked", "cleared"} /\ overlapped' = overlapped
      BY <1>7, <2>3 DEF ClearSamples, BuffersTypeOK, Calls
    <3>. QED
      BY <2>1, <2>3, <3>1
  <2>. QED
    BY <1>7, <2>2, <2>3 DEF ClearSamples
<1>8. CASE ClearMic
  <2>1. CASE clearing.at = "filled"
    <3>1. /\ clearing'.at = "exchanged" /\ clearing'.old = micRead /\ micRead' = clearing.write
          /\ UNCHANGED <<micWrite, micCall, overlapped>>
      BY <1>8, <2>1 DEF ClearMic, BuffersTypeOK, Calls
    <3>. QED
      BY <2>1, <3>1
  <2>2. CASE clearing.at = "exchanged"
    <3>1. /\ clearing'.at = "outside" /\ micWrite' = clearing.old
          /\ UNCHANGED <<micRead, micCall, overlapped>>
      BY <1>8, <2>2 DEF ClearMic
    <3>. QED
      BY <2>2, <3>1
  <2>. QED
    BY <1>8, <2>1, <2>2 DEF ClearMic
<1>9. CASE Start \/ ClearOnTimeout
  <2>1. clearing.at = "outside" /\ UNCHANGED <<micRead, micWrite, micCall, overlapped>>
    BY <1>9 DEF Start, ClearOnTimeout, AtOnce, ClearsWhilePaused
  <2>2. clearing' = clearing \/ clearing'.at = "begun"
    BY <1>9 DEF Start, ClearOnTimeout
  <2>. QED
    BY <2>1, <2>2
<1>10. CASE Stop
  BY <1>1, <1>10 DEF Stop, AtOnce
<1>11. ASSUME NEW kind \in {"monitor", "both"}, OpenStreams(kind)
       PROVE  MicSwaps'
  BY <1>1, <1>11 DEF OpenStreams, AtOnce
<1>12. ASSUME NEW s \in {"monitor", "mic"}, StreamChanged(s)
       PROVE  MicSwaps'
  BY <1>1, <1>12 DEF StreamChanged, AtOnce
<1>13. CASE UNCHANGED bufferVars
  BY <1>1, <1>13 DEF bufferVars
<1>. QED
  BY <1>2, <1>3, <1>4, <1>5, <1>6, <1>7, <1>8, <1>9, <1>10, <1>11, <1>12, <1>13 DEF BuffersNext

\* What a reader hears is what the ring holds, behind silence.
LEMMA HeardStep ==
  ASSUME BuffersInv, [BuffersNext]_bufferVars
  PROVE  HeardInOrder' /\ NothingOldIsHeard'
<1>. USE DEF BuffersInv
<1>1. ASSUME heard' = <<>>
      PROVE  HeardInOrder' /\ NothingOldIsHeard'
  BY <1>1, EmptySeq DEF HeardInOrder, NothingOldIsHeard
<1>2. ASSUME NEW r \in Readers, ReadChunk(r)
      PROVE  HeardInOrder' /\ NothingOldIsHeard'
  <2>. DEFINE S == Contents(samples)
              pad == Capacity - Len(S)
              window == ReadLatest(Capacity)
  <2>1. heard' = window /\ mark' = mark
    BY <1>2 DEF ReadChunk
  <2>2. /\ window \in Seq(Values) /\ pad \in 0..Capacity /\ Len(window) = Capacity
        /\ \A i \in 1..Capacity : window[i] = IF i <= pad THEN Silence ELSE S[i - pad]
    BY WindowOf DEF BuffersTypeOK
  <2>3. /\ S \in Seq(Values) /\ Len(S) \in Nat /\ Capacity \in Nat
        /\ \A i \in 1..Len(S) : S[i] \in Int
    <3>1. S \in Seq(Values)
      BY ContentsOf DEF BuffersTypeOK
    <3>. QED
      BY <3>1, LenProperties, ElementOfSeq, BuffersAssumption, RingAssumption
  <2>4. Rising(S) /\ From(S, mark)
    BY DEF InputInOrder, NothingOldIsKept
  <2>. HIDE DEF S, window
  <2>5. ASSUME NEW i \in 1..Capacity - 1
        PROVE  window[i] = Silence \/ window[i] < window[i + 1]
    <3>1. CASE i <= pad
      BY <2>2, <2>3, <3>1
    <3>2. CASE i > pad
      <4>1. window[i] = S[i - pad] /\ window[i + 1] = S[(i + 1) - pad]
        BY <2>2, <2>3, <3>2
      <4>2. i - pad \in 1..Len(S) /\ (i + 1) - pad \in 1..Len(S) /\ i - pad < (i + 1) - pad
        BY <2>3, <3>2
      <4>. QED
        BY <2>4, <4>1, <4>2 DEF Rising
    <3>. QED
      BY <2>2, <2>3, <3>1, <3>2
  <2>6. ASSUME NEW i \in 1..Capacity
        PROVE  window[i] = Silence \/ window[i] >= mark
    <3>1. CASE i <= pad
      BY <2>2, <3>1
    <3>2. CASE i > pad
      <4>1. i - pad \in 1..Len(S) /\ window[i] = S[i - pad]
        BY <2>2, <2>3, <3>2
      <4>2. mark <= S[i - pad] /\ S[i - pad] \in Int /\ mark \in Int
        BY <2>3, <2>4, <4>1, BuffersAssumption DEF From, BuffersTypeOK
      <4>. QED
        BY <4>1, <4>2
    <3>. QED
      BY <2>2, <2>3, <3>1, <3>2
  <2>. QED
    BY <2>1, <2>2, <2>5, <2>6 DEF HeardInOrder, NothingOldIsHeard
<1>3. ASSUME NEW r \in Readers, ReadLock(r)
      PROVE  HeardInOrder' /\ NothingOldIsHeard'
  BY <1>1, <1>3 DEF ReadLock, Silent
<1>4. ASSUME NEW n \in ChunkSizes, LoadChunk(n)
      PROVE  HeardInOrder' /\ NothingOldIsHeard'
  BY <1>1, <1>4 DEF LoadChunk, Silent
<1>5. CASE TryLock \/ PushChunk \/ LoadMicChunk \/ SwapMic \/ ClearSamples \/ ClearMic
  BY <1>1, <1>5
  DEF TryLock, PushChunk, LoadMicChunk, SwapMic, ClearSamples, ClearMic, Silent
<1>6. CASE Start \/ Stop \/ ClearOnTimeout
  BY <1>1, <1>6 DEF Start, Stop, ClearOnTimeout, AtOnce, Silent
<1>7. ASSUME NEW kind \in {"monitor", "both"}, OpenStreams(kind)
      PROVE  HeardInOrder' /\ NothingOldIsHeard'
  BY <1>1, <1>7 DEF OpenStreams, AtOnce, Silent
<1>8. ASSUME NEW s \in {"monitor", "mic"}, StreamChanged(s)
      PROVE  HeardInOrder' /\ NothingOldIsHeard'
  BY <1>1, <1>8 DEF StreamChanged, AtOnce, Silent
<1>9. CASE UNCHANGED bufferVars
  BY <1>9 DEF bufferVars, HeardInOrder, NothingOldIsHeard
<1>. QED
  BY <1>2, <1>3, <1>4, <1>5, <1>6, <1>7, <1>8, <1>9 DEF BuffersNext

\* The invariant holds to begin with and is kept by every step.
LEMMA BuffersInvariant == BuffersSpec => []BuffersInv
<1>1. BuffersInit => BuffersInv
  <2>. SUFFICES ASSUME BuffersInit
                PROVE  BuffersInv
    OBVIOUS
  <2>. USE BuffersAssumption DEF BuffersInit
  <2>1. /\ samples \in Ring /\ pending \in Ring /\ Contents(samples) = <<>>
        /\ Contents(pending) = <<>> /\ chunk = <<>> /\ <<>> \in Seq(Values) /\ Len(<<>>) = 0
    BY ClearedIsEmpty, EmptySeq
  <2>2. BuffersTypeOK
    <3>1. Outside \in Calls
      BY DEF Calls, Places, Outside
    <3>2. streamStates \in [{"monitor", "mic"} -> {"none", "connecting", "paused", "streaming"}]
      OBVIOUS
    <3>3. next \in 1..MaxValues + 1 /\ mark \in 1..MaxValues + 1 /\ changes \in 0..MaxChanges
      OBVIOUS
    <3>. QED
      BY <2>1, <3>1, <3>2, <3>3 DEF BuffersTypeOK
  <2>3. InputInOrder /\ NothingOldIsKept
    BY <2>1 DEF InputInOrder, NothingOldIsKept, Rising, Below, From, Until
  <2>4. LockFollowsCalls /\ ClearsWhilePaused /\ MicSwaps
    BY DEF LockFollowsCalls, ClearsWhilePaused, MicSwaps, Swapping, Outside
  <2>5. HeardInOrder /\ NothingOldIsHeard
    BY <2>1 DEF HeardInOrder, NothingOldIsHeard
  <2>. QED
    BY <2>2, <2>3, <2>4, <2>5 DEF BuffersInv
<1>2. BuffersInv /\ [BuffersNext]_bufferVars => BuffersInv'
  BY BuffersTypeStep, InputStep, OldStep, LockStep, PausedStep, SwapsStep, HeardStep
  DEF BuffersInv
<1>. QED
  BY <1>1, <1>2, PTL DEF BuffersSpec

\* Every variable of the audio collector's buffers keeps its type (audiocollector.hpp:96-110):
\* neither ring leaves its array, whatever is pushed.
THEOREM BuffersTyped == BuffersSpec => []BuffersTypeOK
BY BuffersInvariant, PTL DEF BuffersInv

\* A reader hears silence and then samples in the order they came (audiocollector.cpp:226-253),
\* for every capacity, every size of chunk and any number of readers.
THEOREM SamplesInOrder == BuffersSpec => []HeardInOrder
BY BuffersInvariant, PTL DEF BuffersInv

\* Nothing from before a clear is heard after it (audiocollector.cpp:203-220).
THEOREM NothingOldHeard == BuffersSpec => []NothingOldIsHeard
BY BuffersInvariant, PTL DEF BuffersInv

\* The mic's reader and its writer have a buffer each, until a clear runs into a chunk
\* (audiocollector.cpp:213-215 and 269-276).
THEOREM MicBuffersApart == BuffersSpec => []MicBuffersDistinct
<1>1. BuffersInv => MicBuffersDistinct
  BY DEF BuffersInv, MicSwaps, MicBuffersDistinct
<1>. QED
  BY <1>1, BuffersInvariant, PTL

\* The samples change under no reader (audiocollector.cpp:203-211, 226-253).
THEOREM NoReaderIsTorn == BuffersSpec => NoTornRead
<1>1. ASSUME BuffersInv, [BuffersNext]_bufferVars
      PROVE  [samples' # samples => lock \notin Readers]_bufferVars
  <2>. SUFFICES ASSUME samples' # samples
                PROVE  lock \notin Readers
    OBVIOUS
  <2>1. PushChunk \/ (ClearSamples /\ clearing.at = "locked")
    BY <1>1 DEF BuffersNext, LoadChunk, TryLock, ReadLock, ReadChunk, LoadMicChunk, SwapMic,
       ClearSamples, ClearMic, Start, Stop, ClearOnTimeout, OpenStreams, StreamChanged, AtOnce,
       rings, bufferVars
  <2>2. lock \in {"rt", "clear"}
    BY <1>1, <2>1 DEF PushChunk, BuffersInv, LockFollowsCalls
  <2>. QED
    BY <2>2, BuffersAssumption
<1>. QED
  BY <1>1, BuffersInvariant, PTL DEF BuffersSpec, NoTornRead

\* What waits to be taken in, as the FIFO sees it.
Waiting == Last(Contents(pending) \o chunk, Capacity)

\* What waits is the newest of what was put aside and the callback's chunk; outside a
\* callback it is what was put aside.
LEMMA WaitingOf ==
  ASSUME BuffersTypeOK
  PROVE  /\ Waiting = Kept!Newest(Contents(pending) \o chunk)
         /\ chunk = <<>> => Waiting = Contents(pending)
<1>1. pending \in Ring /\ chunk \in Seq(Values)
  BY DEF BuffersTypeOK
<1>2. Contents(pending) \in Seq(Values) /\ Len(Contents(pending)) = pending.count
  BY <1>1, ContentsOf
<1>3. Contents(pending) \o chunk \in Seq(Values)
  BY <1>1, <1>2, ConcatProperties
<1>4. Len(Contents(pending)) <= Capacity
  BY <1>1, <1>2, RingAssumption DEF Ring
<1>. QED
  BY <1>2, <1>3, <1>4, NewestIsLast DEF Waiting

\* A chunk that arrives stands behind what was put aside, unless a clear asked to drop that.
LEMMA LoadArrives ==
  ASSUME BuffersTypeOK, BuffersTypeOK', NEW n \in ChunkSizes, LoadChunk(n)
  PROVE  Kept!Arrive(n)
<1>. DEFINE new == [i \in 1..n |-> next + i - 1]
<1>1. n \in Nat /\ next \in Nat
  BY BuffersAssumption DEF BuffersTypeOK
<1>2. /\ chunk = <<>> /\ chunk' = new /\ next' = next + n /\ samples' = samples
      /\ pending' = (IF discardPending THEN Clear(pending) ELSE pending) /\ discardPending' = FALSE
  BY DEF LoadChunk
<1>3. new = [i \in 1..n |-> (next - 1) + i]
  BY <1>1
<1>. HIDE DEF new
<1>4. Contents(pending') = IF discardPending THEN <<>> ELSE Waiting
  <2>1. Waiting = Contents(pending)
    BY <1>2, WaitingOf
  <2>2. Contents(Clear(pending)) = <<>>
    BY ClearedIsEmpty DEF BuffersTypeOK
  <2>. QED
    BY <1>2, <2>1, <2>2
<1>5. Waiting' = Kept!Newest(Contents(pending') \o new)
  <2>1. pending' \in Ring /\ chunk' \in Seq(Values)
    BY DEF BuffersTypeOK
  <2>2. Contents(pending') \in Seq(Values)
    BY <2>1, ContentsOf
  <2>3. Contents(pending') \o chunk' \in Seq(Values)
    BY <2>1, <2>2, ConcatProperties
  <2>. QED
    BY <1>2, <2>3, NewestIsLast DEF Waiting
<1>6. next' - 1 = (next - 1) + n
  BY <1>1, <1>2
<1>. QED
  BY <1>2, <1>3, <1>4, <1>5, <1>6 DEF Kept!Arrive, Waiting

\* A chunk that is put aside waits on, with what was put aside before it.
LEMMA AsideWaits ==
  ASSUME BuffersTypeOK, BuffersTypeOK', TryLock
  PROVE  Waiting' = Waiting /\ UNCHANGED <<samples, discardPending, next>>
<1>1. UNCHANGED <<samples, discardPending, next>>
  BY DEF TryLock, rings
<1>2. CASE UNCHANGED <<rings, chunk>>
  BY <1>1, <1>2 DEF rings, Waiting
<1>3. CASE pending' = Push(pending, chunk) /\ chunk' = <<>>
  <2>1. Contents(Push(pending, chunk)) = Kept!Newest(Contents(pending) \o chunk)
    BY PushKeepsNewest DEF BuffersTypeOK
  <2>2. Waiting = Kept!Newest(Contents(pending) \o chunk)
    BY WaitingOf
  <2>3. pending' \in Ring
    BY DEF BuffersTypeOK
  <2>4. /\ Contents(pending') \in Seq(Values) /\ Len(Contents(pending')) = pending'.count
        /\ pending'.count <= Capacity
    <3>1. Contents(pending') \in Seq(Values) /\ Len(Contents(pending')) = pending'.count
      BY <2>3, ContentsOf
    <3>2. pending'.count \in 0..Capacity /\ Capacity \in Nat
      BY <2>3, RingAssumption DEF Ring
    <3>. QED
      BY <3>1, <3>2
  <2>5. Last(Contents(pending') \o <<>>, Capacity) = Contents(pending')
    BY <2>4, NewestIsLast
  <2>. QED
    BY <1>1, <1>3, <2>1, <2>2, <2>5 DEF Waiting
<1>. QED
  BY <1>1, <1>2, <1>3 DEF TryLock

\* A chunk pushed takes in all that waited, and leaves nothing to wait.
LEMMA PushTakesIn ==
  ASSUME BuffersTypeOK, PushChunk
  PROVE  Kept!TakeIn
<1>. DEFINE S == Contents(samples)
            P == Contents(pending)
<1>1. /\ S \in Seq(Values) /\ P \in Seq(Values) /\ chunk \in Seq(Values)
      /\ Contents(samples') = Kept!Newest(Kept!Newest(S \o P) \o chunk)
  BY PushedChunk DEF PushChunk, BuffersTypeOK
<1>2. P \o chunk \in Seq(Values) /\ Waiting = Kept!Newest(P \o chunk)
  BY <1>1, ConcatProperties, WaitingOf
<1>3. Contents(samples') = Kept!Newest(S \o (P \o chunk))
  BY <1>1, NewestTwice
<1>. HIDE DEF S, P
<1>4. Contents(samples') = Kept!Newest(S \o Waiting)
  BY <1>1, <1>2, <1>3, NewestOfEnd
<1>5. Waiting' = <<>>
  <2>1. Contents(pending') = <<>> /\ chunk' = <<>>
    BY ClearedIsEmpty DEF PushChunk, BuffersTypeOK
  <2>2. Last(<<>> \o <<>>, Capacity) = <<>>
    <3>1. <<>> \in Seq(Values) /\ Len(<<>>) = 0 /\ 0 <= Capacity
      BY EmptySeq, RingAssumption
    <3>. QED
      BY <3>1, NewestIsLast
  <2>. QED
    BY <2>1, <2>2 DEF Waiting
<1>. QED
  BY <1>4, <1>5 DEF PushChunk, Kept!TakeIn, Waiting, S

\* The collector's rings implement the FIFO of the latest values that ringbuffer.hpp:11-13
\* promises, for every capacity and size of chunk: a chunk that finds the lock taken
\* (audiocollector.cpp:226-240) is neither lost nor late, for it waits behind what was put
\* aside before it, and all that waits is taken in, in order, behind what is kept.
THEOREM RingKeepsLatest == BuffersSpec => KeepsLatest
<1>1. BuffersInit => Kept!Init
  <2>. SUFFICES ASSUME BuffersInit PROVE Kept!Init
    OBVIOUS
  <2>1. Contents(samples) = <<>> /\ Contents(pending) = <<>> /\ chunk = <<>> /\ next - 1 = 0
    BY ClearedIsEmpty DEF BuffersInit
  <2>2. <<>> \in Seq(Values) /\ Len(<<>>) = 0 /\ 0 <= Capacity
    BY EmptySeq, RingAssumption
  <2>3. Last(<<>> \o <<>>, Capacity) = <<>>
    BY <2>2, NewestIsLast
  <2>. QED
    BY <2>1, <2>3 DEF BuffersInit, Kept!Init
<1>2. ASSUME BuffersInv, BuffersInv', [BuffersNext]_bufferVars
      PROVE  [Kept!Next]_<<Contents(samples), Last(Contents(pending) \o chunk, Capacity),
                           discardPending, next - 1>>
  <2>0. BuffersTypeOK /\ BuffersTypeOK'
    BY <1>2 DEF BuffersInv
  <2>1. ASSUME NEW n \in ChunkSizes, LoadChunk(n)
        PROVE  Kept!Next
    BY <2>0, <2>1, LoadArrives DEF Kept!Next
  <2>2. CASE TryLock
    BY <2>0, <2>2, AsideWaits DEF Waiting
  <2>3. CASE PushChunk
    BY <2>0, <2>3, PushTakesIn DEF Kept!Next
  <2>4. CASE UNCHANGED <<rings, chunk, next>>
    BY <2>4 DEF rings
  <2>5. CASE /\ samples' = Clear(samples) /\ discardPending' = TRUE
             /\ UNCHANGED <<pending, chunk, next>>
    <3>1. samples \in Ring
      BY <2>0 DEF BuffersTypeOK
    <3>2. Contents(samples') = <<>>
      BY <2>5, <3>1, ClearedIsEmpty
    <3>. QED
      BY <2>5, <3>2 DEF Kept!Next, Kept!Clear
  <2>6. CASE ClearSamples
    BY <2>4, <2>5, <2>6 DEF ClearSamples
  <2>7. \/ \E n \in ChunkSizes : LoadChunk(n)
        \/ TryLock \/ PushChunk \/ ClearSamples \/ UNCHANGED <<rings, chunk, next>>
    BY <1>2 DEF BuffersNext, ReadLock, ReadChunk, LoadMicChunk, SwapMic,
       ClearMic, Start, Stop, ClearOnTimeout, OpenStreams, StreamChanged, AtOnce, bufferVars
  <2>. QED
    BY <2>1, <2>2, <2>3, <2>4, <2>6, <2>7
<1>. QED
  BY <1>1, <1>2, BuffersInvariant, PTL DEF BuffersSpec, KeepsLatest, Kept!Spec

=============================================================================
