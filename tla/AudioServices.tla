--------------------------- MODULE AudioServices ----------------------------
(***************************************************************************)
(* Who keeps the audio collector running (Services/service.cpp,            *)
(* serviceref.cpp, audioprovider.cpp, audiocollector.cpp).  A client's     *)
(* ServiceRef counts at a provider on the main thread; the provider's first *)
(* and last reference are calls queued to its processor's thread; the      *)
(* processor queues its own reference to the collector back to the main    *)
(* thread; and the collector's first and last user start and join the      *)
(* PipeWire worker, which hears of the stop only in its timer or in a      *)
(* stream's callback.                                                      *)
(***************************************************************************)
EXTENDS Naturals, Sequences

CONSTANTS
  Clients,          \* ServiceRefs
  Providers,        \* CavaProvider and BeatTracker, with a processor and a thread each
  NoProvider,       \* ServiceRef's null service
  MaxEvents         \* bound: changes of services, of the mic option and of streams

ASSUME ServicesAssumption ==
  /\ NoProvider \notin Providers
  /\ MaxEvents \in Nat

VARIABLES
  service,          \* ServiceRef's m_service
  refs,             \* a provider's m_refs
  calls,            \* calls queued to a processor
  timer,            \* the processor's m_timer runs
  posted,           \* calls queued to the collector, by processor
  users,            \* the collector's m_refs
  worker,           \* m_thread: "none" (not joinable), "running", "ended" (joinable)
  stopRequested,    \* the worker's stop token
  streams,          \* the state of the worker's streams
  armed,            \* the worker's timer will fire
  mic,              \* background.visualiser.mic
  main,             \* the main thread: "free", or in the join() of "stop" or "rebuild"
  events            \* bound

clients == <<service, refs>>
queues == <<calls, timer, posted>>
thread == <<worker, stopRequested, streams, armed>>
collector == <<users, mic, main, thread>>
vars == <<clients, queues, collector, events>>

NoStreams == [monitor |-> "absent", mic |-> "absent"]
Capturing == {"connecting", "paused", "streaming", "unconnected"}

Event == events < MaxEvents /\ events' = events + 1

----------------------------------------------------------------------------
(* Clients and providers, on the main thread.                               *)

\* The references after client c went from one service to another.
Referred(c, to) ==
  [p \in Providers |-> IF p = to THEN refs[p] \cup {c} ELSE refs[p] \ {c}]

\* A provider whose first reference came, or whose last one went, calls its processor.
Called(after) ==
  [p \in Providers |->
    IF refs[p] = {} /\ after[p] # {} THEN Append(calls[p], "start")
    ELSE IF refs[p] # {} /\ after[p] = {} THEN Append(calls[p], "stop")
    ELSE calls[p]]

\* Faulty variant of SetService: the old service keeps its reference.
SetServiceOnly(c, to) ==
  /\ main = "free" /\ Event /\ service[c] # to
  /\ service' = [service EXCEPT ![c] = to]
  /\ refs' = [p \in Providers |-> IF p = to THEN refs[p] \cup {c} ELSE refs[p]]
  /\ calls' = Called(refs')
  /\ UNCHANGED <<timer, posted, collector>>

\* A ServiceRef gets another service, or none; being destroyed it leaves the last one
\* in the same way, by the signal Service::ref connected to.
SetService(c, to) ==
  /\ main = "free" /\ Event /\ service[c] # to
  /\ service' = [service EXCEPT ![c] = to]
  /\ refs' = Referred(c, to)
  /\ calls' = Called(refs')
  /\ UNCHANGED <<timer, posted, collector>>

----------------------------------------------------------------------------
(* A processor, on its own thread: the next queued call.                    *)

ProcessorStart(p) ==
  /\ calls[p] # <<>> /\ Head(calls[p]) = "start"
  /\ calls' = [calls EXCEPT ![p] = Tail(calls[p])]
  /\ timer' = [timer EXCEPT ![p] = TRUE]
  /\ posted' = [posted EXCEPT ![p] = Append(posted[p], "ref")]
  /\ UNCHANGED <<clients, collector, events>>

ProcessorStop(p) ==
  /\ calls[p] # <<>> /\ Head(calls[p]) = "stop"
  /\ calls' = [calls EXCEPT ![p] = Tail(calls[p])]
  /\ timer' = [timer EXCEPT ![p] = FALSE]
  /\ posted' = [posted EXCEPT ![p] = Append(posted[p], "unref")]
  /\ UNCHANGED <<clients, collector, events>>

----------------------------------------------------------------------------
(* The collector, on the main thread.                                       *)

\* Faulty variant of StartWorker: the microphone is captured whenever it can be.
StartWorkerWithMic ==
  /\ worker' = "running" /\ stopRequested' = FALSE /\ armed' = TRUE
  /\ streams' = [monitor |-> "connecting", mic |-> "connecting"]

\* The worker's constructor: without a loop, a timer or a monitor stream the thread ends
\* at once; a mic stream that cannot be created is done without.
StartWorker ==
  /\ stopRequested' = FALSE
  /\ \/ worker' = "ended" /\ armed' = FALSE /\ streams' = NoStreams
     \/ /\ worker' = "running" /\ armed' = TRUE
        /\ streams' \in [monitor : {"connecting"},
                         mic : {"absent"} \cup IF mic THEN {"connecting"} ELSE {}]

\* stop(): the main thread waits in join() for a worker that is asked to end.
RequestStop(why) ==
  /\ main' = why /\ stopRequested' = TRUE
  /\ UNCHANGED <<worker, streams, armed>>

\* Service::ref, for the first user with AudioCollector::start.
CollectorRef(p) ==
  /\ main = "free" /\ posted[p] # <<>> /\ Head(posted[p]) = "ref"
  /\ posted' = [posted EXCEPT ![p] = Tail(posted[p])]
  /\ users' = users \cup {p}
  /\ \/ users = {} /\ worker = "none" /\ StartWorker
     \/ (users # {} \/ worker # "none") /\ UNCHANGED thread
  /\ UNCHANGED <<clients, calls, timer, mic, main, events>>

\* Service::unref, for the last user with AudioCollector::stop.
CollectorUnref(p) ==
  /\ main = "free" /\ posted[p] # <<>> /\ Head(posted[p]) = "unref"
  /\ posted' = [posted EXCEPT ![p] = Tail(posted[p])]
  /\ users' = users \ {p}
  /\ \/ users = {p} /\ worker # "none" /\ RequestStop("stop")
     \/ ~(users = {p} /\ worker # "none") /\ UNCHANGED <<main, thread>>
  /\ UNCHANGED <<clients, calls, timer, mic, events>>

\* The option is toggled: a worker, running or ended, is stopped and built again.
MicChanged ==
  /\ main = "free" /\ Event
  /\ mic' = ~mic
  /\ \/ worker # "none" /\ RequestStop("rebuild")
     \/ worker = "none" /\ UNCHANGED <<main, thread>>
  /\ UNCHANGED <<clients, queues, users>>

\* Faulty variant of Joined: the handler of the option only stops.
JoinedOnly ==
  /\ main # "free" /\ worker = "ended"
  /\ main' = "free" /\ worker' = "none"
  /\ UNCHANGED <<stopRequested, streams, armed, clients, queues, users, mic, events>>

\* join() returns, and a rebuild goes on with start().
Joined ==
  /\ main # "free" /\ worker = "ended"
  /\ main' = "free"
  /\ \/ main = "rebuild" /\ StartWorker
     \/ main = "stop" /\ worker' = "none" /\ stopRequested' = FALSE
        /\ UNCHANGED <<streams, armed>>
  /\ UNCHANGED <<clients, queues, users, mic, events>>

----------------------------------------------------------------------------
(* The PipeWire worker, on its thread.                                      *)

\* pw_main_loop_run returns and the constructor destroys what it made.
WorkerEnds == worker' = "ended" /\ streams' = NoStreams /\ armed' = FALSE

\* Faulty variant of HandleTimeout: only a stream that is paused looks at the token.
TimeoutOfPaused ==
  /\ worker = "running" /\ armed /\ stopRequested
  /\ \E s \in DOMAIN streams : streams[s] = "paused"
  /\ WorkerEnds
  /\ UNCHANGED <<clients, queues, users, mic, main, stopRequested, events>>

\* The timer fires; what it clears while nothing plays is not of this module.
HandleTimeout ==
  /\ worker = "running" /\ armed /\ stopRequested
  /\ WorkerEnds
  /\ UNCHANGED <<clients, queues, users, mic, main, stopRequested, events>>

\* A streaming stream brings a buffer.
ProcessStream(s) ==
  /\ worker = "running" /\ streams[s] = "streaming" /\ stopRequested
  /\ WorkerEnds
  /\ UNCHANGED <<clients, queues, users, mic, main, stopRequested, events>>

\* PW_STREAM_STATE_ERROR: the loop quits.
StreamError(s) ==
  /\ worker = "running" /\ streams[s] \in Capturing /\ Event
  /\ WorkerEnds
  /\ UNCHANGED <<clients, queues, users, mic, main, stopRequested>>

\* The states the two streams pass through, one of which arms the timer they share and one
\* of which disarms it; the server's end leaves a stream unconnected for good.
StreamStateChanged(s, to) ==
  /\ worker = "running" /\ Event
  /\ streams[s] \in {"connecting", "paused", "streaming"} \ {to}
  /\ streams' = [streams EXCEPT ![s] = to]
  /\ armed' = (to = "paused" \/ (to = "unconnected" /\ armed))
  /\ UNCHANGED <<clients, queues, users, mic, main, worker, stopRequested>>

----------------------------------------------------------------------------
Init ==
  /\ service = [c \in Clients |-> NoProvider]
  /\ refs = [p \in Providers |-> {}]
  /\ calls = [p \in Providers |-> <<>>] /\ posted = calls
  /\ timer = [p \in Providers |-> FALSE]
  /\ users = {} /\ mic \in BOOLEAN /\ main = "free"
  /\ worker = "none" /\ stopRequested = FALSE /\ streams = NoStreams /\ armed = FALSE
  /\ events = 0

Processor(p) == ProcessorStart(p) \/ ProcessorStop(p)
Collector(p) == CollectorRef(p) \/ CollectorUnref(p)
Callback == \E s \in {"monitor", "mic"} : ProcessStream(s)

Next ==
  \/ \E c \in Clients, to \in Providers \cup {NoProvider} : SetService(c, to)
  \/ \E p \in Providers : Processor(p) \/ Collector(p)
  \/ MicChanged
  \/ Joined
  \/ HandleTimeout
  \/ Callback
  \/ \E s \in {"monitor", "mic"} :
       \/ StreamError(s)
       \/ \E to \in {"paused", "streaming", "unconnected"} : StreamStateChanged(s, to)

Spec == Init /\ [][Next]_vars

\* The threads serve their queues, an armed timer fires, a streaming stream brings
\* buffers, and a join whose thread has ended returns.
FairSpec ==
  /\ Spec
  /\ \A p \in Providers : WF_vars(Processor(p)) /\ WF_vars(Collector(p))
  /\ WF_vars(Joined) /\ WF_vars(HandleTimeout) /\ WF_vars(Callback)

----------------------------------------------------------------------------
(* Properties.                                                              *)

TypeOK ==
  /\ service \in [Clients -> Providers \cup {NoProvider}]
  /\ refs \in [Providers -> SUBSET Clients]
  /\ calls \in [Providers -> Seq({"start", "stop"})]
  /\ posted \in [Providers -> Seq({"ref", "unref"})]
  /\ timer \in [Providers -> BOOLEAN]
  /\ users \subseteq Providers
  /\ worker \in {"none", "running", "ended"} /\ stopRequested \in BOOLEAN
  /\ streams \in [monitor : Capturing \cup {"absent"}, mic : Capturing \cup {"absent"}]
  /\ armed \in BOOLEAN /\ mic \in BOOLEAN
  /\ main \in {"free", "stop", "rebuild"}
  /\ events \in 0..MaxEvents
  /\ worker # "running" => streams = NoStreams /\ ~armed

\* Once a provider's queues are empty its processor runs, and uses the collector, exactly
\* if a ServiceRef asks for it: no start or stop was lost or overtaken between the threads
\* (service.cpp:10-23, audioprovider.cpp:26-37).
UsersFollowClients ==
  \A p \in Providers : calls[p] = <<>> /\ posted[p] = <<>> =>
    LET wanted == \E c \in Clients : service[c] = p
    IN  (timer[p] <=> wanted) /\ (p \in users <=> wanted)

\* Whenever the main thread is free there is a worker to join exactly if the collector has
\* users, through stops, rebuilds and workers that ended by themselves
\* (audiocollector.cpp:305-335).
WorkerFollowsUsers == main = "free" => ((worker # "none") = (users # {}))

\* While the main thread is free the microphone is captured only if the option says so and
\* somebody listens: "Microphone capture is opt-in (it lights the mic indicator): only
\* created when enabled" (audiocollector.cpp:56-58).
MicIsOptIn == main = "free" /\ streams["mic"] # "absent" => mic /\ users # {}

\* A stop request the worker cannot hear: its timer was disarmed by a stream that started
\* to stream, and no stream streams any more.
Stranded ==
  /\ worker = "running" /\ ~armed
  /\ \A s \in DOMAIN streams : streams[s] # "streaming"

\* The main thread returns from join(), unless the worker is stranded
\* (audiocollector.cpp:138-141, 174-177, 330-335).
StopReturns == main # "free" ~> main = "free" \/ Stranded

\* Every provider comes to use the collector if and only if it is wanted, as long as the
\* worker is not stranded (audioprovider.cpp:26-37).
UseIsHeard ==
  \A p \in Providers :
    <>[]Stranded \/ []<>(timer[p] = (refs[p] # {}) /\ (p \in users) = (refs[p] # {}))
=============================================================================
