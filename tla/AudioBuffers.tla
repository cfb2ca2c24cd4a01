---------------------------- MODULE AudioBuffers ----------------------------
(***************************************************************************)
(* The audio collector's buffers (Services/audiocollector.cpp) and the      *)
(* threads that meet there: PipeWire's real-time thread, which may not wait *)
(* and puts a chunk aside when the lock is taken; the processors, which read *)
(* under the lock; the worker's loop, whose timer clears both buffers while *)
(* a stream is paused; and the main thread, which clears them before it     *)
(* starts a worker.                                                         *)
(***************************************************************************)
EXTENDS RingBuffer

CONSTANTS
  Readers,         \* processors: cava's and the beat tracker's
  ChunkSizes,      \* samples PipeWire brings at once
  MaxValues,       \* bound: samples in all
  MaxChanges       \* bound: starts, stops and changes of a stream's state

ASSUME BuffersAssumption ==
  /\ Values = 0..MaxValues /\ Silence = 0
  /\ MaxValues \in Nat /\ MaxChanges \in Nat
  /\ ChunkSizes \subseteq Nat \ {0}
  /\ Readers \cap {"free", "rt", "clear"} = {}

VARIABLES
  samples, pending,        \* m_samples, and m_pending of the real-time thread
  discardPending,
  lock,                    \* m_samplesLock: who holds it
  chunk,                   \* the real-time callback's chunk, <<>> outside one
  micRead, micWrite,       \* m_micReadBuffer, m_micWriteBuffer
  micCall, clearing,       \* a call of loadMicChunk, a call of clearBuffer: where it is,
                           \* its write buffer and the old read buffer
  workerKind,              \* "none", "monitor" alone or "both" streams
  streamStates,            \* each stream's state
  timerArmed, idle,        \* the loop's timer is armed; m_idle
  heard,                   \* history: what this step's reader got
  next,                    \* samples numbered as they come, from 1
  mark,                    \* history: the first sample after the last clear
  overlapped,              \* history: a clear and a mic chunk ran into each other
  changes

rings == <<samples, pending, discardPending>>
micBuffers == <<micRead, micWrite, micCall, overlapped>>
loop == <<workerKind, streamStates, timerArmed, idle>>
bufferVars == <<rings, lock, chunk, micBuffers, clearing, loop, heard, next, mark, changes>>

Outside == [at |-> "outside", write |-> 1, old |-> 1]

Silent == heard' = <<>>

----------------------------------------------------------------------------
(* loadChunk, on the real-time thread.                                      *)

\* Faulty variant of LoadChunk: a clear's request to drop what was put aside is lost.
LoadKeepingPending(n) ==
  /\ streamStates["monitor"] = "streaming" /\ chunk = <<>>
  /\ next + n <= MaxValues + 1
  /\ chunk' = [i \in 1..n |-> next + i - 1] /\ next' = next + n
  /\ discardPending' = FALSE
  /\ Silent
  /\ UNCHANGED <<samples, pending, lock, micBuffers, clearing, loop, mark, changes>>

\* A chunk arrives; what was put aside before a clear is dropped.
LoadChunk(n) ==
  /\ streamStates["monitor"] = "streaming" /\ chunk = <<>>
  /\ next + n <= MaxValues + 1
  /\ chunk' = [i \in 1..n |-> next + i - 1] /\ next' = next + n
  /\ pending' = IF discardPending THEN Clear(pending) ELSE pending
  /\ discardPending' = FALSE
  /\ Silent
  /\ UNCHANGED <<samples, lock, micBuffers, clearing, loop, mark, changes>>

\* The lock is taken, or the chunk is put aside.
TryLock ==
  /\ chunk # <<>> /\ lock # "rt"
  /\ IF lock = "free"
     THEN lock' = "rt" /\ UNCHANGED <<rings, chunk>>
     ELSE /\ pending' = Push(pending, chunk) /\ chunk' = <<>>
          /\ UNCHANGED <<samples, discardPending, lock>>
  /\ Silent
  /\ UNCHANGED <<micBuffers, clearing, loop, next, mark, changes>>

\* Faulty variant of PushChunk: what was put aside is dropped and not moved.
PushForgetting ==
  /\ lock = "rt"
  /\ samples' = Push(samples, chunk) /\ pending' = Clear(pending)
  /\ lock' = "free" /\ chunk' = <<>>
  /\ Silent
  /\ UNCHANGED <<discardPending, micBuffers, clearing, loop, next, mark, changes>>

\* Faulty variant of PushChunk: what was put aside goes in last.
PushNewFirst ==
  /\ lock = "rt"
  /\ samples' = PushTo(pending, Push(samples, chunk)) /\ pending' = Clear(pending)
  /\ lock' = "free" /\ chunk' = <<>>
  /\ Silent
  /\ UNCHANGED <<discardPending, micBuffers, clearing, loop, next, mark, changes>>

PushChunk ==
  /\ lock = "rt"
  /\ samples' = Push(PushTo(pending, samples), chunk) /\ pending' = Clear(pending)
  /\ lock' = "free" /\ chunk' = <<>>
  /\ Silent
  /\ UNCHANGED <<discardPending, micBuffers, clearing, loop, next, mark, changes>>

----------------------------------------------------------------------------
(* readChunk, on the processors' threads.                                   *)

ReadLock(r) ==
  /\ lock = "free" /\ lock' = r
  /\ Silent
  /\ UNCHANGED <<rings, chunk, micBuffers, clearing, loop, next, mark, changes>>

\* A window of samples, its front padded with silence.
ReadLatest(count) ==
  LET got == CopyLatest(samples, count)
  IN [i \in 1..count - Len(got) |-> Silence] \o got

ReadChunk(r) ==
  /\ lock = r /\ lock' = "free"
  /\ heard' = ReadLatest(Capacity)
  /\ UNCHANGED <<rings, chunk, micBuffers, clearing, loop, next, mark, changes>>

----------------------------------------------------------------------------
(* The mic's two buffers: one is filled, then they are swapped in two atomic    *)
(* steps, by loadMicChunk and by clearBuffer alike.                           *)

Filled == [at |-> "filled", write |-> micWrite, old |-> 1]

LoadMicChunk ==
  /\ streamStates["mic"] = "streaming" /\ micCall.at = "outside"
  /\ micCall' = Filled
  /\ overlapped' = (overlapped \/ clearing.at \in {"filled", "exchanged"})
  /\ Silent
  /\ UNCHANGED <<rings, lock, chunk, micRead, micWrite, clearing, loop, next, mark, changes>>

SwapMic ==
  /\ \/ /\ micCall.at = "filled" /\ micRead' = micCall.write
        /\ micCall' = [micCall EXCEPT !.at = "exchanged", !.old = micRead] /\ UNCHANGED micWrite
     \/ /\ micCall.at = "exchanged" /\ micWrite' = micCall.old
        /\ micCall' = Outside /\ UNCHANGED micRead
  /\ Silent
  /\ UNCHANGED <<rings, lock, chunk, overlapped, clearing, loop, next, mark, changes>>

----------------------------------------------------------------------------
(* clearBuffer, on the worker's loop, or on the main thread before there is one. *)

ClearSamples ==
  /\ \/ /\ clearing.at = "begun" /\ lock = "free"
        /\ lock' = "clear" /\ clearing' = [clearing EXCEPT !.at = "locked"]
        /\ UNCHANGED <<rings, overlapped, mark>>
     \/ /\ clearing.at = "locked" /\ clearing' = [clearing EXCEPT !.at = "cleared"]
        /\ samples' = Clear(samples) /\ discardPending' = TRUE
        /\ mark' = IF workerKind = "both" THEN mark ELSE next
        /\ UNCHANGED <<pending, lock, overlapped>>
     \/ /\ clearing.at = "cleared" /\ clearing' = Filled
        /\ lock' = "free"
        /\ overlapped' = (overlapped \/ micCall.at # "outside")
        /\ UNCHANGED <<rings, mark>>
  /\ Silent
  /\ UNCHANGED <<chunk, micRead, micWrite, micCall, loop, next, changes>>

ClearMic ==
  /\ \/ /\ clearing.at = "filled" /\ micRead' = clearing.write
        /\ clearing' = [clearing EXCEPT !.at = "exchanged", !.old = micRead]
        /\ UNCHANGED micWrite
     \/ /\ clearing.at = "exchanged" /\ micWrite' = clearing.old /\ clearing' = Outside
        /\ UNCHANGED micRead
  /\ Silent
  /\ UNCHANGED <<rings, lock, chunk, micCall, overlapped, loop, next, mark, changes>>

----------------------------------------------------------------------------
(* The worker and its streams.                                              *)

Begun == [Outside EXCEPT !.at = "begun"]
BufferEvent == changes < MaxChanges /\ changes' = changes + 1
AtOnce == UNCHANGED <<rings, lock, chunk, micBuffers, next, mark>> /\ Silent

\* start(): the buffers are cleared before the worker's thread is made.
Start ==
  /\ BufferEvent
  /\ workerKind = "none" /\ workerKind' = "starting" /\ clearing' = Begun
  /\ UNCHANGED <<streamStates, timerArmed, idle>> /\ AtOnce

Opened(kind) == IF kind = "both" THEN {"monitor", "mic"} ELSE {"monitor"}

OpenStreams(kind) ==
  /\ workerKind = "starting" /\ clearing.at = "outside"
  /\ workerKind' = kind /\ timerArmed' = TRUE /\ idle' = TRUE
  /\ streamStates' = [s \in DOMAIN streamStates |->
                       IF s \in Opened(kind) THEN "connecting" ELSE "none"]
  /\ UNCHANGED <<clearing, changes>> /\ AtOnce

\* stop(): joined once no callback runs.
Stop ==
  /\ workerKind \in {"monitor", "both"}
  /\ chunk = <<>> /\ micCall.at = "outside" /\ clearing.at = "outside"
  /\ workerKind' = "none" /\ streamStates' = [s \in DOMAIN streamStates |-> "none"]
  /\ UNCHANGED <<timerArmed, idle, clearing, changes>> /\ AtOnce

\* streamStateChanged, on the loop: a paused stream arms the timer and a streaming one
\* disarms it, whatever the other stream does.  PipeWire pauses a stream when its
\* callback has returned, and calls it only after saying that it streams.
StreamChanged(s) ==
  /\ BufferEvent
  /\ streamStates[s] # "none" /\ clearing.at = "outside"
  /\ \/ /\ streamStates[s] \in {"connecting", "paused"}
        /\ streamStates' = [streamStates EXCEPT ![s] = "streaming"] /\ timerArmed' = FALSE
     \/ /\ streamStates[s] \in {"connecting", "streaming"}
        /\ IF s = "monitor" THEN chunk = <<>> ELSE micCall.at = "outside"
        /\ streamStates' = [streamStates EXCEPT ![s] = "paused"] /\ timerArmed' = TRUE
  /\ idle' = FALSE
  /\ UNCHANGED <<workerKind, clearing>> /\ AtOnce

\* handleTimeout: a clear every 10 ms, until ten expirations were missed at once.
ClearOnTimeout ==
  /\ workerKind \in {"monitor", "both"} /\ timerArmed /\ ~idle /\ clearing.at = "outside"
  /\ \/ clearing' = Begun /\ UNCHANGED idle
     \/ idle' = TRUE /\ UNCHANGED clearing
  /\ UNCHANGED <<workerKind, streamStates, timerArmed, changes>> /\ AtOnce

----------------------------------------------------------------------------
BuffersInit ==
  /\ samples = Empty /\ pending = Empty /\ discardPending = FALSE
  /\ lock = "free" /\ chunk = <<>>
  /\ micRead = 1 /\ micWrite = 2 /\ micCall = Outside /\ overlapped = FALSE
  /\ clearing = Outside
  /\ workerKind = "none" /\ streamStates = [s \in {"monitor", "mic"} |-> "none"]
  /\ timerArmed = TRUE /\ idle = TRUE
  /\ heard = <<>> /\ next = 1 /\ mark = 1 /\ changes = 0

BuffersNext ==
  \/ \E n \in ChunkSizes : LoadChunk(n)
  \/ TryLock \/ PushChunk
  \/ \E r \in Readers : ReadLock(r) \/ ReadChunk(r)
  \/ LoadMicChunk \/ SwapMic
  \/ ClearSamples \/ ClearMic
  \/ Start \/ Stop \/ ClearOnTimeout
  \/ \E kind \in {"monitor", "both"} : OpenStreams(kind)
  \/ \E s \in {"monitor", "mic"} : StreamChanged(s)

BuffersSpec == BuffersInit /\ [][BuffersNext]_bufferVars

----------------------------------------------------------------------------
(* Properties.                                                              *)

Places == {"outside", "begun", "locked", "cleared", "filled", "exchanged"}
Calls == [at : Places, write : {1, 2}, old : {1, 2}]

BuffersTypeOK ==
  /\ samples \in Ring /\ pending \in Ring /\ discardPending \in BOOLEAN
  /\ lock \in Readers \cup {"free", "rt", "clear"}
  /\ chunk \in Seq(Values) /\ heard \in Seq(Values)
  /\ micRead \in {1, 2} /\ micWrite \in {1, 2}
  /\ micCall \in Calls /\ clearing \in Calls /\ overlapped \in BOOLEAN
  /\ workerKind \in {"none", "starting", "monitor", "both"}
  /\ streamStates \in [{"monitor", "mic"} -> {"none", "connecting", "paused", "streaming"}]
  /\ timerArmed \in BOOLEAN /\ idle \in BOOLEAN
  /\ next \in 1..MaxValues + 1 /\ mark \in 1..MaxValues + 1 /\ changes \in 0..MaxChanges

\* "FIFO with a capacity fixed at construction, which overwrites its oldest values once
\* full": through wrap-around, chunks larger than the ring, chunks put aside while others
\* hold the lock and clears, every sample that came is taken in once, behind the older ones,
\* and none is lost but the oldest for want of room or all at a clear.
Kept == INSTANCE LatestValues WITH
          Sizes <- ChunkSizes, kept <- Contents(samples),
          waiting <- Last(Contents(pending) \o chunk, Capacity),
          stale <- discardPending, came <- next - 1
KeepsLatest == Kept!Spec

\* A reader hears silence and then samples in the order they came, though
\* chunks were put aside while others read.
HeardInOrder ==
  \A i \in 1..Len(heard) - 1 : heard[i] = Silence \/ heard[i] < heard[i + 1]

\* Nothing from before a clear is heard after it: neither from before the last pause
\* nor, with a mic stream beside the monitor's, from an earlier worker.
NothingOldIsHeard == \A i \in 1..Len(heard) : heard[i] = Silence \/ heard[i] >= mark

\* The samples change under no reader: the real-time thread does not wait for the lock
\* and does not do without it.
NoTornRead == [][samples' # samples => lock \notin Readers]_bufferVars

\* The mic's reader and its writer have a buffer each, between two swaps, until a clear
\* runs into a mic chunk.
MicBuffersDistinct ==
  micCall.at = "outside" /\ clearing.at = "outside" /\ ~overlapped => micRead # micWrite

=============================================================================
