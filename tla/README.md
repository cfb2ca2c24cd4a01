# The shell, specified

This directory holds TLA+ specifications of the parts of custom-caelestia whose
correctness depends on the order in which things happen: timers, threads,
replies, signals of models, files changed by others, crashes. TLC checks them on
small instances; TLAPS proves the main safety properties for every instance.

Paths below are relative to the repository. `C/` stands for
`shell/plugin/src/Caelestia/` and `S/` for `shell/services/`.

Run from this directory:

    tlc -config MCPortal.cfg MCCaptivePortal      # a run: its module and .cfg are in PROJECT.json
    tlapm CaptivePortalProofs.tla                 # the proofs about a module

## 1. Inventory

The repository is a desktop shell on Quickshell: a C++ plugin (`C/`), QML
singletons that hold the shell's state (`S/`), about 37 000 lines of QML that
show it (`shell/modules`), scripts to install and deploy it, the configuration
of Hyprland and other programs, and a vendored copy of upstream
(`shell/upstream`, not built). The components with a protocol of their own:

| Component | State | Operations | Talks to | What is hard |
|---|---|---|---|---|
| Live configuration, `C/Config/{configobject,rootconfig,config,monitorconfigmanager}.cpp` | option values, the keys an object holds itself, changes not yet announced; per file: signature, save timer, cooldown, reload debounce, parse retries | property write, reset, batch announcement, overlay sync, save, reload, retry, watcher event | every service and UI module through properties; `shell.json` and one file per monitor; any editor | saves, reloads, syncs and other programs' edits interleave; a reload triggers a save, a save triggers a file event; a crash while writing |
| Settings library, `C/Settings` | two layers of a tree of options and lists, what is set in each, what of the file it cannot use; per file: data last read or written, data waiting, timers | write, reset, insert, remove, move, clear; batch, save, load, retry, watcher event | the files, any editor; not yet the shell's QML | a save waits while the file changes or vanishes; list signals of one layer are indices into the other's |
| Captive portal, `S/CaptivePortal.qml` | the lock `probing`, the pending click, the verdict and its URLs, the episode | probe chain of up to four processes, click, IPC probes, timers | NetworkManager through Nmcli, the probe script, a browser | chains overlap after the watchdog; verdicts arrive when the network has changed; hung processes |
| Eco and game mode, `S/PowerSaver.qml`, `S/GameMode.qml`, `S/Hypr.qml`, `C/Internal/hyprextras.cpp` | the two switches, the battery latch, the saved animation scale | switch, latch evaluation, start, re-assertion after a reload | Hyprland's sockets, UPower, the configuration store, each other | two owners of one compositor; requests, answers and events under way; a crash with the scale frozen at 0 |
| Audio buffers, `C/Services/audiocollector.cpp`, `shell/plugin/include/util/ringbuffer.hpp` | the ring of samples, the ring of chunks put aside, two mic buffers, the loop's timer | load, read, clear, swap, start, stop | PipeWire's real-time thread, processors' threads, the worker's loop, the main thread | a thread that may not wait, atomics without a lock, clears from two threads |
| Audio life cycle, `C/Services/{service,serviceref,audioprovider,audiocollector}.cpp` | references per provider, calls queued between threads, the collector's users, the worker and its streams | take and give back a reference, start, stop, rebuild for the mic option | the buffers, the configuration, PipeWire | references queued across three threads; a join on the main thread that waits for a timer |
| Lyrics, `C/Services/lyrics.cpp` | track, candidates, selection, lines, offset, request id, replies in flight, preferences per track, cache | set track, refresh, pick, set offset, load, replies | two web services, local files, the player | replies of former loads, aborts that call back at once, a debounce during which track and id disagree |
| File system model, `C/Models/filesystemmodel.cpp` | rows, watched directories, one scan per directory in the thread pool, the difference being applied | set path or an option, start, cancel and finish a scan, apply a difference, directory signals | file dialog, wallpapers; the thread pool, the watcher | cancelled scans that finish, overlapping scans, differences to a state that is gone |
| Views, `C/Components/{lazylistview,animatedrepeater}.cpp` | delegates by row, those pending, delayed, dying; heights; the polish | rows inserted, removed, moved, changed, reset; polish; enter and remove animations; delegates that fail | any item model, QML's bindings | signals between two polishes, delegates that outlive their row, indices that every signal shifts |
| Displays, `S/Displays.qml`, `S/DisplayMath.js` | the outputs last listed, the listing under way and the one queued, the layout being written and evaluated, the repair | list, set mode, main, second, placement; repair when nothing is lit | hyprctl, Hyprland's reload, `monitors.lua` and the state file | listings asked for while one runs; a layout that goes two ways; a repair that reads a list out of date |
| Notifications, `S/Notifs.qml`, `S/NotifData.qml` | list, raw list, loaded count, save timer | arrive, load, load more, close, clear, save | the notification bus, `notifs.json` | arrival before loading, ids reused, unloaded entries |
| Images, `C/Images` | one job per cached file | schedule, prune | thread pools | two jobs for one file |
| Brightness, recorder, VPN, wallpapers, idle, lock screen | small flags around processes | - | external commands | commands that overlap their own predecessors |

There is no protocol to confirm or revert a layout: a layout that was chosen is
written and evaluated at once, and only a list without any panel on is repaired.

What makes each modelled component correct is section 3's list of properties;
`PROJECT.json` lists every component, with the reason for those left out, and
under `hazards` what is hard to test in this code, line by line.

## 2. Modules

| Module | Models | Extends |
|---|---|---|
| `ConfigObject` | one configuration object as a value and the operations on it | |
| `ConfigStore` | the global object, one overlay per screen, each with its file backend; files, an editor, crashes | `ConfigObject` |
| `ModelRows` | what an item model's signals say of a list: rows put in, cut, moved | |
| `SettingsNode` | a tree of settings in memory, its options and its list, as a value | `ModelRows` |
| `SettingsStore` | the two layers of settings, their files, batches, saves and loads | `SettingsNode` |
| `CaptivePortal` | the captive-portal service | |
| `LowGraphics` | eco mode, game mode, the compositor and the messages between them | |
| `RingBuffer` | `util::RingBuffer`, as pure operators on a record | |
| `LatestValues` | the promise of the ring buffer: numbered values arrive, wait, and are taken into a FIFO of the latest | |
| `AudioBuffers` | the threads that meet at the audio collector's buffers | `RingBuffer`; instantiates `LatestValues` |
| `AudioServices` | references to the audio providers and the collector, their threads, the worker | |
| `Lyrics` | the lyrics service | |
| `FileSystemModel` | the list model of a directory, its scans and its watches | |
| `LazyListView` | the lazy list: delegates for the rows in view | `ModelRows` |
| `AnimatedRepeater` | the repeater whose delegates animate | `ModelRows` |
| `Displays` | the display switcher, the files it writes, Hyprland's outputs | |
| `...Proofs` | the theorems about a module; `AudioProofs` about both audio modules, `RowsProofs` about the file system model and the two views, whose rows need the same lemmas | the modules it is about |
| `MC...` | the instance that TLC checks | that module |

`PROJECT.json` maps every definition that stands for code to its lines.
Definitions whose comment begins with "Faulty variant of" are what a plausible
mistake in that code would be; substituting one for the definition it varies
breaks a property, which shows that the property watches this code. They are
used nowhere else.

### Configuration store

`obj[r]` is the in-memory object of root `r` (the global one or a screen's
overlay): the values, `loaded` (`m_loadedKeys`) and `pending`
(`m_pendingChanges`). `io[r]` is `RootConfig`'s backend: its timers as flags,
the retry counter, whether a file event is under way, and how the signature
kept in `m_lastSignature` compares with the file. `UserSet` and `UserReset` are
what QML does; `BatchTimeout` is `emitBatchedChanges` with everything connected
to it (the save of `connectAutoSave`, `onGlobalPropertiesChanged` of every
overlay); `SaveTimeout`, `CooldownTimeout`, `ReloadTimeout` and `RetryTimeout`
are the timers' handlers; `WatcherEvent` is `onWatcherEvent`; `CreateOverlay` is
the first `configForScreen`. `m_loading` does not appear: it is true only inside
one call, and the signal at which it is tested comes later, from the batch
timer, so the guard in `connectAutoSave` never holds anything back. That is why
every reload that changes values is followed by a save, and the model saves
there too.

### Settings library

`node[l]` is the tree of layer `l` as a value: `val`, the options set by the user
or the file (`own`), the list with a mark per element, and `held`, the entries of
the file that the tree cannot use (`quarantine.cpp`). `Json` is what the layer's
file would list. Every change of the global layer ends in the overlay's
(`Changed`), as `node.cpp` and `listnode.cpp` connect them. `dirty` is the change
batcher's timer, `Flush` its timeout and the save it asks for; `pending`,
`saveTimer`, `saveQueued`, `event`, `loadTimer` and `retries` are
`SettingsFile`'s members, the optional documents among them sets of at most one;
`LoadMissing` to `LoadContent` are the branches of its load. Two histories name
exceptions (section 5): `astray[l]`, that memory and file were left to differ by
one of four known paths, and `revived[l]`, that a write still waits which is older
than what memory last read.

### Captive portal

The code has no name for a chain of callbacks. The model gives each call of
`probeNow` a slot in `chain`, whose value says which process the chain waits
for; `CheckAnswers`, `ResolveAnswers`, `RouteAnswers` and `GatewayAnswers` are the
callbacks in turn, with every verdict the script can print. `FinishProbe` is the
whole of `finishProbe`, the answer to a waiting click and `maybeAutoOpen`
included. `Watchdog` releases the lock and does nothing to the chain, as in the
code. Time appears as one fact, whether a minute has passed since the last
window (`recent`).

### Eco mode and game mode

`requests` is what the shell sent to Hyprland and Hyprland has not served;
`applied`, `answer` and `reloaded` is what comes back. A request is one of four:
eco's options, game mode's options (which also allow tearing), a reload, and the
question for the current options. `SwitchEco` stands behind everything that
changes `ecoActive` (the switches, the latch), so that `onEcoActiveChanged` is
never separate from its cause. `OptionsAnswer` moves game mode's switch as long
as its binding to the options stands. `Restart` is a crash and a start: the
persistent properties return to their defaults, the latch is evaluated if UPower
is known already, the saved scale is healed, and requests that were sent stay
sent.

### Audio buffers

One action per step of a thread between two points where another may come in:
the real-time callback takes the lock or puts its chunk aside (`LoadChunk`,
`TryLock`, `PushChunk`), a reader locks and copies, a clear locks, clears, unlocks
and then swaps the mic's buffers in two atomic steps, the same two steps a mic
chunk takes. `OpenStreams`, `ClearOnTimeout` and `StreamChanged` are the
worker's constructor, `handleTimeout` and `streamStateChanged`. Samples are numbered as they come, so that order and age can be
told. The rings are exact: positions, head and count as in the header, spans in
two runs.

### Audio services

The path of a reference: `SetService` is `ServiceRef::setService` on the main
thread, which adds the client to the provider's references and, for the first or
the last one, queues `start` or `stop` to the processor's thread (`calls[p]`);
`ProcessorStart` and `ProcessorStop` are those slots, which start the processor's
timer and queue `ref` or `unref` back to the main thread (`posted[p]`);
`CollectorRef` and `CollectorUnref` change the collector's `users`, and its first
and last user start a worker and join it. `main` says what the main thread is
doing: nothing else happens there while it joins. The worker's `streams` each
have PipeWire's state; `armed` is its timer, `HandleTimeout`, `ProcessStream` and
`StreamStateChanged` are its callbacks, in which alone it sees `stopRequested`.
`MicChanged` is the option and the rebuild it causes, `StreamError` a worker that
quits by itself.

### Lyrics

`replies` holds the requests whose id is still current; those of former loads do
nothing in the code and are dropped at once. `pending` in a reply says whether
`m_pendingReplies` knows it, since aborting makes replies finish inside
`cancelInFlight`, under the id that is still current, and Auto's chain then sends
another request that nothing can abort. `Take` is the end of
`setSelectedCandidate` for a candidate in the cache, in a file or to be fetched.

### File system model

One directory with one subdirectory. `scan[s]` is a call of `QtConcurrent`'s in
flight: the directory and the options it captured, the rows it captured, what it
found, whether its promise was cancelled; `ListDir` and `EndScan` are its steps
in the pool, `Deliver` the continuation on the main thread. `futures` is
`m_futures`. A difference is applied in steps, because every row removed emits
signals that may call back: `RemoveRow`, `MakeEntries`, `PlaceEntry` and
`EndApply` are `applyChanges`, with the batch of neighbouring rows that is
inserted together. `watched`, `changed` and `lookups` are the watcher's
directories, its signals not yet served, and the listing of subdirectories that
`watchDirIfRecursive` leaves to the pool. Files are numbers in the order of the
rows; `showHidden` stands for all options that choose files.

### Lazy list

`rows` is the model, `layout` the record of heights (`m_layout`), `delegate` and
`rowOf` the two tables `m_delegates` and `m_itemToIndex`, `dying` the delegates
whose remove animation runs, `waiting` those a timer will show, `item` the items
themselves with the attached properties QML sees, `bound` what a binding through
`itemsDirty` and `count` holds. Every signal of the model is an action with its
whole handler; `UpdatePolish` is `updatePolish` with relayout, viewport, visible
range, creation and destruction in batches, and the polish it asks for again.
`model` and `component` say whether `m_model` and `m_delegate` are set; `custom` and
`viewport` are `m_useCustomViewport` and `m_viewport`, which the docked and the
grouped notifications set to what their flickable shows. The component makes an
item for a row or fails (`createDelegate`), as it likes at every polish; the
history `refused` remembers the rows that the last polish got no item for while no
other polish is due.
Positions serve only to find the visible range; where an animation has a delegate
at the moment is left open. The estimated height is fixed; asynchronous mode,
`readyDelay` and `removeDuration` take any value whenever they are used.

### Animated repeater

`items` is `m_items`, with 0 for a placeholder; `adds` and `flush` `m_pendingAdds` and its queued
flush, `stack` the order of the parent's children, `told` what `count` was when
`countChanged` was last emitted (`props` is what a delegate's own properties
say, `dyingItems` the delegates animating away). `SetModel` takes a number, a list or an item
model; the model's signals, its destruction, a change of the delegate component
or of the parent, and delegates that fail to be made are the other actions.

### Displays

`plugged` and `rule` are Hyprland's: the outputs that are there and what each is
told to do. `listing`, `answer`, `queued`, `retry` and `empties` are `hyprctl
monitors` and the timer that asks again; `monitors` is the list the shell has.
`writing` is the text given to the file, `file` what it holds (`setText` returns
before it is written), `code` and `next` the layout being evaluated and the one
handed to that process while it runs, which is evaluated next or lost. `healing`
and `reload` are the repair and the reload at its end, `recent` the minute after
a repair. `Layout`, `PositionFor`, `DetectMode` and `DetectPlacement` are
`DisplayMath.js`, in quarters of a logical pixel so that what rounds up differs
from what rounds down. Four histories serve the properties: `asked` (what the user
last chose), `stale` (an output changed since the last listing), `astray` (a
layout and the outputs were left to differ, section 5), `gaveUp` (a repair was
refused or came too early).

## 3. Runs

| Run | Instance | States | Shows |
|---|---|---|---|
| `MCConfig` | the global object and one screen, two options (one global-only); at most two of: a write, an edit, a crash; one parse retry; files missing, torn, locked and full | 554 864 | `OverlayMirrorsGlobal`, `MemoryIsOnDisk`, `NoSilentEdit`, `ComesToRest`, `EditIsRead` |
| `MCSettings` | two options (one global-only), short lists, two writes, one edit or failed save, one retry; files missing, torn, locked, with a foreign key, with a bad list | 847 737 | `OverlayFollows`, `NoSilentEdit`, `MemoryIsOnDisk`, `ForeignKept` |
| `MCPortal` | three chains, one overtaken by the watchdog, one hung, one debugging probe | 193 848 | `PortalUrlIffPortal`, `AutoOpenRationed`, `LockIsReleased`, `ClickIsAnswered` |
| `MCGraphics` | charges 5 to 7, warning levels 5 and 6, scales 0 and 1, three inputs (switches, battery, crash, edits of Hyprland's files) | 1 943 111 | `GraphicsFollowModes`, `MotionFollowsEco`, `LatchHasHysteresis`, `TrafficEnds` |
| `MCAudio` | a ring of two, chunks of one and three, five samples, five changes | 704 111 | `HeardInOrder`, `NothingOldIsHeard`, `KeepsLatest` (refinement) |
| `MCServices` | two clients, two providers, six events | 138 087 | `UsersFollowClients`, `WorkerFollowsUsers`, `MicIsOptIn`, `StopReturns` |
| `MCLyrics` | two tracks, two offsets, any online candidate, five inputs | 1 105 679 | `OnlyThisTracks`, `LoadingIsAwaited`, `OffsetIsRemembered`, `ChoiceStands` |
| `MCFiles` | three files (one hidden, one in the subdirectory), two scans in flight, two settings, two changes on the disk | 1 358 132 | `RowsOnce`, `FuturesAreLive`, `ShowsDirectory` |
| `MCLazy` | three rows of different heights (one collapsed), of which one or two fit; four items, any of which can fail to be made; an empty viewport of the user's and one further down; batches of one; two steps of the model or the user | 536 008 | `TablesFollowModel`, `SleepsWhenDone`, `BoundItemsExist` |
| `MCRepeater` | three rows, five delegates, one of which fails, three steps | 18 068 | `ItemsFollowModel`, `NoneLeftBehind` |
| `MCDisplays` | two panels, one with a width that rounds up; two inputs, one output that comes, goes or a new session; one empty list before giving up | 416 255 | `ListIsCurrent`, `ModeReadsBack`, `LayoutIsKept`, `DarkIsHealed` |
| `MCConfigReset` | violated: `ResetReleasesOption` | | a reset that changes the value leaves the overlay holding the option |

What the properties say of the program, in a sentence each:

* Configuration: an overlay that does not hold an option shows the global's
  value once every announcement is out; with no save due the file lists what
  memory holds; no edit of a file goes unnoticed, but inside the cooldown after
  a save; saves and reloads end; an edit that is noticed is read.
* Settings: what an overlay does not set it shows as the global layer has it, its
  list element by element; a file that can be read was read, or an event or load
  is under way; with nothing waiting the file is what memory would save; a save
  keeps what it does not understand.
* Captive portal: a portal URL is shown exactly in the portal state; a page opens
  by itself once per portal and minute; the lock is released; a click is
  answered.
* Modes: with nothing under way the effects are on exactly if neither mode is;
  the animation scale is frozen exactly while eco is on, crashes included; the
  latch does not flip back before the charge moved two points; the exchange ends.
* Audio: a reader hears samples in the order they were captured and none from
  before a clear; the ring implements a FIFO of the latest values, which takes in each
  value that arrives once and in its turn, whether it was put aside or not, and
  loses only the oldest, or all at a clear. A provider
  uses the collector exactly if someone refers to it, a worker exists exactly if
  a provider uses it, the mic is captured only if asked for, and the join returns.
* Lyrics: what is shown, searched and saved is the current track's; the spinner
  turns only while something is awaited; an offset belongs to its track; a choice
  stands until the user or the track changes.
* Files: no file has two rows; what can be cancelled is in flight; at rest the rows
  are the directory's files.
* Views: tables, items and model agree after every signal; the lazy list never
  sleeps while a row that the user sees, in the view or in the viewport it was
  given, has no delegate shown, unless the last polish got no item for it; no
  binding holds a destroyed item; a removed delegate is gone when its animation is.
* Displays: the list is current once nothing is under way; the mode and the
  placement the card shows are the ones chosen; what is on the screens is what
  the next session restores; a dark set of panels is lit again.

**Bounds.** Each bound is a named constant that limits what users, other
programs, models, crashes and failures may do (`MaxSets`, `MaxEdits`,
`MaxCrashes` and all three together, `MaxChanges`; `MaxWrites`, `MaxMishaps`,
`MaxSlow`, `MaxWedges`, `MaxDebug`, `MaxInputs`, `MaxEvents`, `MaxValues`,
`MaxSteps`, `MaxRows`, `MaxFailures`, `MaxCalls`, `MaxCount`);
what the program does itself is never bounded, except by the slots for chains and
scans in flight, which the proofs below take in any number. They are large enough for the interleavings the
properties are about:

* an overlay's value can go wrong through one write, one reset or one edit
  against the global's pending change; a save racing an edit needs one of each,
  a torn file one crash and one write; a parse retry needs one torn file and one
  more event to interrupt it;
* two writes and one mishap give the settings a change of the global list under
  an overlay's own element, and an edit between a save and the next one;
* two chains overlap only after the watchdog overtook one, so three slots, one
  slow chain and one hung chain reach a lock released under its successor and a
  successor's successor;
* three inputs make eco and game mode be switched on in either order and one of
  them off again, or a switch, a crash and a battery event; five inputs of the
  lyrics service make two changes of track, two picks and an offset;
* a ring of two is full and wraps after two samples, and chunks of three exceed
  it; five changes of the streams give two pauses and a restart of the worker with both streams;
  six events give two clients that come, change their provider and go, with the
  mic option changed in between;
* two scans in flight are the least that overlap; a setting and a change on the
  disk between them cancel one and start its successor;
* three rows with room for one or two make delegates be created, delayed and
  destroyed by batches; two signals meet a delegate in each of its states, three
  reach a repeater that clears a model while delegates animate out;
* two panels are all the modes tell apart; two inputs choose a layout while
  another is written or evaluated.

Every passing run's properties were also seen to fail for a faulty variant within
the same bounds.

**Deadlock** is not checked where the system may stop: all inputs used up and
nothing under way. `MCPortal` checks it: the re-probe timer never rests.

**Fairness.** Most properties are safety properties and need none. For the
others:

* `ConfigStore`: the timers together are weakly fair, and so is each root's
  watcher, since Qt serves a running event loop; user, editor and crash are not.
* `CaptivePortal`: a process that has not hung exits, so each chain's next
  callback is weakly fair, and so are the watchdog and the re-probe timer, which
  are QML timers that run while their condition holds; `Wedge` takes the hung
  ones out.
* `LowGraphics`: one weak condition, that whenever the compositor or the shell's
  event loop has something to serve one of them goes on; `EvalAuto` and saving
  are owed nothing.
* `AudioServices`: each processor's queue and the main thread's queue are served,
  a thread whose loop has quit can be joined, the timer fires while it is armed,
  and a stream that streams is called back. Nothing says that PipeWire lets a
  stream go on.
* `Displays`: hyprctl answers, its answer is taken, the timer fires, the file is
  written in the end and the processes that evaluate and repair exit. Users,
  cables and the minute's end are owed nothing.

`AudioBuffers` and `Lyrics` state no liveness: no code bounds how long a stream
pauses, and replies have no time limit (`C/Services/lyrics.cpp` sets no transfer
timeout), so nothing says that a load ends.

**Stated, and in no run of the list.** Each module has a `TypeOK`, proved where it
has theorems. These properties are stated too and hold when they are added to
their module's .cfg, the liveness ones under `FairSpec` (the repeater's under
`FairRepeater`): `ChainsBounded`, `WatchesOwnTree`, `MicBuffersDistinct` and
`NoTornRead` (all four proved), `UseIsHeard` (`AudioServices`), `ComesToRest`
(`SettingsStore`), `ScansSettle` (`FileSystemModel`), `NoStrayItem`
(proved too) and `HeightsCounted` (`LazyListView`),
`AddsAreLive`, `StackedInOrder`, `RebuildsAtOnce`, `CountIsTold` and
`RepeaterSettles` (`AnimatedRepeater`).

**Known divergences.** `MCConfigReset` shows one, quoted under `findings`. Eight
more .cfg files each show a property that a comment, a document or the design
states and the code does not keep:

| .cfg (module) | Violated property | What happens |
|---|---|---|
| `MCConfigOmitted` (`MCConfigStore`) | `OmittedOptionsFallBack` | a reload keeps the values of options the file no longer lists |
| `MCConfigGlobalOnly` (`MCConfigStore`) | `GlobalOnlyIgnoredInOverlay` | a monitor's file does set global-only options, when it is first loaded |
| `MCPortalLateOpen` (`MCCaptivePortal`) | `NoAutoOpenWhenFull` | a chain that ends after NetworkManager reported health opens a window |
| `MCGraphicsStuck` (`MCLowGraphics`) | `EffectsComeBack` | eco turns game mode on, and its own end then restores nothing |
| `MCLyricsPrefs` (`MCLyrics`) | `PrefsArePerTrack` | a late reply is saved as the next track's selection |
| `MCFilesOrder` (`MCFileSystemModel`) | `RowsSorted` | rows of one batch are placed against rows that lack the rest of it |
| `MCLazyMoved` (`MCLazyListView`) | `BoundFollowsMapping` | a move of rows does not tell the bindings that the mapping changed |
| `MCLazyOvershoot` (`MCLazyListView`) | `OvershootKeepsDelegates` | without a cache buffer, a view that stands below its layout (scrolled past it, or the layout got shorter) is trimmed to nothing and every delegate goes, which the clamp is there to prevent (`C/Components/lazylistview.cpp:561`) |

## 4. Proofs

TLAPS checks every theorem below, for all values of the constants that satisfy
the modules' `ASSUME`s (finiteness of the set of chains, distinct names for the
special values, well-formed documents where a file can be read, natural numbers
as bounds); no step is left without a proof.

`ConfigStoreProofs`
: `TypeCorrect`, `EditsNoticed` (`NoSilentEdit`), `OverlayFollowsGlobal`
  (`OverlayMirrorsGlobal`), `MemoryKept` (`MemoryIsOnDisk`). With type
  correctness each of the three is inductive as stated; what makes them so is
  that the exceptions (`deaf`, `dropped`, `unsaved`) are remembered. Lemmas give what each operation of
  a configuration object returns (`WrittenResult`, `SyncResult`, `LoadResult`,
  `ToJsonResult`, ...), so that no step of the invariants opens them. The key
  fact of `MemoryKept` is `QuietSync`: a sync that announces no change changed
  neither value nor mark.

`CaptivePortalProofs`
: `TypeCorrect`, `UrlIffPortal`, `OverlapBounded`, `AutoOpenOnce`.
  `ChainsBounded` is not inductive: a chain that ends under another's lock
  releases it and lets a third start. The inductive invariant is
  `RoomForChains`: chains in flight, plus one if the lock is free or its holder
  has ended, are at most one plus the number overtaken. `AutoOpenRationed` rests
  on `SameEpisode`: the portal and the minute the code remembers are those of
  the window last shown.

`LowGraphicsProofs`
: `TypeCorrect`, `MotionTracksEco` (`MotionFollowsEco`), `Hysteresis`
  (`LatchHasHysteresis`), `GraphicsFollow` (`GraphicsFollowModes`). `MotionTracksEco`
  needs that every switch of eco goes through
  `SwitchEco`; `Hysteresis` needs `FlipInv`: while nothing but the charge moved
  since the last flip, the level of that flip lies on the flip's side of the
  two-point gap. For `GraphicsFollow` the invariant `ShownInv` is about the queue of
  requests: while a mode is on its effects go off unless a reload is still to be
  answered (`Asserted`), while none is a reload follows whatever turns effects off
  (`Restored`), and until game mode has been told what is shown, that holds from
  the question on (`AskedClear`), which is on its way or answered (`WillBeTold`).

`LyricsProofs`
: `TypeCorrect`, `OffsetRemembered`, `LoadingAwaited`, `OnlyOwnLyrics`,
  `ChoiceKept`. `OnlyThisTracks` follows from `OwnInv`: whatever is in flight
  under the current id asks about the current track, and what is saved for a
  track is its own unless it was misfiled. `ChoiceStands` follows from
  `ChoiceInv`: after a pick, nothing is in flight but the fetch of the pick.

`AudioProofs`
: Of the services: `TypeCorrect`, `UseFollowsClients` (`UsersFollowClients`), `WorkerIsOwed`
  (`WorkerFollowsUsers`), `MicIsAskedFor` (`MicIsOptIn`). The invariant behind
  the first two is about queues: serving all of `calls[p]` leaves the timer as
  `refs[p]` wants it, and serving all of `posted[p]` leaves `users` as the timer
  stands (`CallsEnd`, `PostedEnd`, by `Ends`: the last entry of a queue decides).
  `WorkerKnown` says in each state of the main thread which workers there can be.
  Of the buffers: `BuffersTyped`, `SamplesInOrder` (`HeardInOrder`),
  `NothingOldHeard` (`NothingOldIsHeard`), `MicBuffersApart`
  (`MicBuffersDistinct`), `NoReaderIsTorn` (`NoTornRead`), and `RingKeepsLatest`,
  that the ring implements `LatestValues` step by step (`KeepsLatest`). There every
  sample has its number; what waits is the newest of what was put aside and the
  callback's chunk, together (`WaitingOf`), so that a chunk that comes is an arrival
  behind what waited, or in place of it after a clear (`LoadArrives`), putting it
  aside is no step (`AsideWaits`), and a push takes in all that waited, in order
  (`PushTakesIn`). It rests on `NewestOfEnd`: the newest of a sequence are those of
  its newest and what follows, for every capacity. All of them rest
  on lemmas that say, for every capacity and length, what `Push`, `CopyLatest` and
  `Clear` do to the contents of a ring; from there on `BuffersInv` speaks of
  sequences only. What came in and was not cleared stands in order in the ring,
  then in what was put aside, then in the callback's chunk (`InputInOrder`), and
  nothing of it is older than the last clear, except what the next chunk will drop
  (`NothingOldIsKept`). That holds because a clear that counts finds no chunk under
  way (`ClearsWhilePaused`). `MicSwaps` says which buffer each of the two
  half-finished swaps holds.

`RowsProofs`
: `TypeCorrect`, `NoRowTwice` (`RowsOnce`), `FuturesLive` (`FuturesAreLive`),
  `OwnTreeWatched` (`WatchesOwnTree`). `RowsOnce` is not inductive while a
  difference is applied: the entries still to place, those of the batch and those
  in the rows must be different files (`BatchApart`, `AddingApart`).
  `FuturesAreLive` needs that no scan is posted twice (`PostedOnce`).
  `DirectoryShown` (`ShowsDirectory`) rests on `SInv`: in a flat model whose scans
  did not overlap there is at most one scan that counts, it began with the rows as
  they are, and with none in flight the rows that the difference at hand leads to
  (`Expected`) are the directory's files, or its change is still to be told.
: Of the animated repeater: `RowsAreTheModels` (`ItemsFollowModel`), `NoneForgotten`
  (`NoneLeftBehind`). `RepeaterInv` holds between any two signals: each delegate
  has one row or is animating away, never both (`RowsSound`); the parent's children
  are the repeater and the delegates, each once (`StackSound`); every row shows its
  index and the model's value (`RowsShow`). Lemmas say what putting in, cutting and
  moving rows do to a list (`SplicedRows`, `CutRows`, `MovedRows`), and `StepByStep`
  carries what each of a handler's passes keeps to the end of its loop.
: Of the lazy list: `TablesAgree` (`TablesFollowModel`), `BoundItemsLive`
  (`BoundItemsExist`), `NoItemStrays`. `ViewInv` adds to these that no two rows
  share an item, that an item is in the table or leaving and never both, and that
  a view without its model has no rows. Each signal is a renumbering of rows: if
  it takes rows to different rows that hold what they held, delegates, index and
  items follow (`ShiftSound`, `CarriedSound`), and each handler's arithmetic is
  one such renumbering (`MovedBack`: `RowAfterMove` undoes what the move did to
  the list). `SyncSound` is about creation and destruction in batches of any size.
: `SleepsDone` (`SleepsWhenDone`) needs `SleepInv` besides, while there is a delegate
  component: with no polish due every row that is seen has a delegate or is in
  `refused`, and a delegate that is pending is in `waiting` if its timer was started
  and has a polish coming if not (`Attended`). A polish that asks for no other has
  created all that was wanted but what failed (`SyncCovers`), and what was wanted
  is what a reader of the screen would ask for: `InViewIsVisible` says that any row
  that overlaps what is seen is in the range `computeVisibleRange` finds, for all
  heights, spacings, buffers, scroll positions and viewports, overshoot included
  (`SeenIsInside`: what `effectiveViewport` starts from holds all that is seen). Below it,
  `PlacesOf` and `PlacesAscend` say what `relayout` computes and that it ascends,
  and `SearchFinds` that the binary search stops no later than at the first row that
  ends at or below the view's top. `relayout` and the search are recursive functions;
  both are followed by `StepByStep`, an induction over `0 .. n` as a set.

`SettingsStoreProofs`
: `TypeCorrect`, `EditsNoticed` (`NoSilentEdit`), `MemoryKept` (`MemoryIsOnDisk`),
  `NothingForeignLost` (`ForeignKept`), `OverlayShows` (`OverlayFollows`). The invariant holds layer by layer: what
  memory would save is what waits to be written or, with nothing waiting, what
  was last read or saved (`Agrees`); what memory put aside as of no use is in both
  (`Held`). `SyncResult` carries a load: a tree that has read a document would save
  it as it is. For `OverlayShows` the invariant `FInv` adds that trees, readable
  files and waiting saves hold what decodes, and that the overlay `Follows` the
  global layer. What carries it through a step is `Reports`: the rows a change of
  the global list names are such that every list that matched the list before
  (`Matches`: the same rows, and equal where the overlay set nothing) matches the
  list after, once `onFallbackListNotify` has taken the change over. The loops over
  those rows are recursive functions, and `CutEachBy`, `CopyEachBy` and `MoveEachBy`
  say that any table of lists built row by row ends in what they return; with it
  each kind of change the code emits (one row in, out or moved, or every row
  replaced, last row first) is followed without unfolding the recursion again.

`DisplaysProofs`
: `ListsAreCurrent` (`ListIsCurrent`), `LayoutsAreKept` (`LayoutIsKept`),
  `AskedReadsBack` (`ModeReadsBack`). The
  first needs that an answer on its way is current unless the outputs are to be
  listed again (`AnswerIsCurrent`). For the second, `Kept` says for every
  moment of a layout's way which of the text being written, the code being
  evaluated and the file agree with the rules in force, and that a rule states
  whatever it changes (`RulesStated`), since what a rule leaves out Hyprland
  would keep. The third is about arithmetic: `Layout` places the second output on
  the side asked for, and `DetectMode` and `DetectPlacement`, which see only
  rectangles and the preferences, name that mode and side again, whatever the
  sizes and scales, unless a size rounds down. `AInv` says that what was asked
  for is on its way to the file (`AskedIsFiled`) and that everything that chooses
  an output by preference would choose the same ones again (`LaidOut`).

Only model-checked: the liveness properties (`ComesToRest`, `EditIsRead`,
`LockIsReleased`, `ClickIsAnswered`, `TrafficEnds`, `StopReturns`,
`DarkIsHealed`), which rest on fairness.

## 5. What the models leave out, and known divergences

* Configuration: nested objects and lists are one flat set of options; unknown
  keys, which a save drops, and files whose permissions alone changed do not
  appear; a crash leaves an old file, a new one or one that does not parse.
* Settings: nested objects, codecs, diagnostics, crashes and a directory that is
  not there. Known, and remembered by `astray`: a pending write survives the
  removal of the file (`C/Settings/settingsfile.cpp:113-119`), is saved with entries
  that memory put aside and has forgotten, and the next save drops those; a failed save drops
  the pending write (181); resetting a list that was never saved asks for no save
  (`C/Settings/listnode.cpp:272` against `node.cpp:234`); an element set in a list
  the overlay inherits is dropped when the global's list changes (425).
* Captive portal: two clocks, and a wall clock that is set back
  (`S/CaptivePortal.qml:219`). Three statements of its comments are known not to
  hold and have no run of their own: "one probe chain at a time" (line 52), since
  the watchdog does not stop the chain it gives up; that a click made while a
  probe is in flight is answered by that probe (197-200), when it is a debugging
  probe; and that an online verdict ends the episode, which only NetworkManager's
  does.
* Eco and game mode: game mode switched off while eco is on leaves tearing
  allowed (`S/GameMode.qml:34`); after a crash in game mode, switching it off
  before the options are known leaves the effects off (history variable
  `blind`). An option's reply that arrives in two reads
  (`C/Internal/hyprextras.cpp:207`), Hyprland configured without animations to
  begin with, and hot reload of the persistent properties are left out. That eco
  restores a scale of 0 as 1 is modelled, and `MotionFollowsEco` relies on it.
* Audio buffers: a mic reader overtaken by two swaps reads a torn buffer
  (`C/Services/audiocollector.cpp:283`); the copy is one step here. A clear that
  runs into a mic chunk leaves both pointers on one buffer for good, which
  `MicBuffersDistinct` excludes by `overlapped`. Errors of streams and PipeWire's
  set-up are left out.
* Audio services: the worker that quit on an error stays joinable, so `start()`
  does not replace it until its last user is gone
  (`C/Services/audiocollector.cpp:318`); `WorkerFollowsUsers` counts it as a
  worker. A stop asked for while the timer is disarmed and no stream is called
  back is not heard, and the main thread waits (`Stranded`). What cava and the
  beat tracker compute is left out.
* Lyrics: `parseLrc`, the index for a time and the search of local files are
  data; the preference map and the cache are always readable and writable. A
  saved selection equal to the one selected already leaves `loading` on with
  nothing to wait for (`C/Services/lyrics.cpp:112`, 364, 384-389); the history
  variable `unanswered` marks it. The search for candidates is aborted when a
  saved selection is restored (126), though the comment at 380 wants the picker
  always filled.
* File system model: deeper trees, MIME types, images' sizes. Of
  `C/Models/filesystemmodel.cpp`, modelled as it is: an empty path does not cancel
  scans; a listing of subdirectories that comes after recursion or watching was
  switched off still adds watches (236); a change below the directory between the
  scan and the watch goes unseen; a change of the sort direction does not move the
  rows there are. `ShowsDirectory` is therefore about flat models in which no two
  scans that nobody cancelled overlapped.
* Lazy list: geometry and animations, the estimate of the height from the sample.
  The view has a height that stays and a width, and so has a viewport of the user's
  that is not empty; a change of the geometry, of the spacing, the buffer and the
  estimate, and of a `visibleHeight`, all of which only ask for a polish, do not appear. Of
  `C/Components/lazylistview.cpp`, modelled as it is: a row for which
  `createDelegate` returns no item (693-703, 719-740) stays in view without a
  delegate, and in synchronous mode no polish is due for it, which `SleepsWhenDone`
  excludes by `refused`; in asynchronous mode it asks for a polish each time
  (707-709), for ever if it always fails, so that the view need never rest; a move
  of rows announces nothing (1064). Animated repeater: `countChanged` is
  emitted before the rows are gone (`C/Components/animatedrepeater.cpp:309-336`),
  which `CountIsTold` excludes by `early`.
* Displays: workspaces' pins, refresh rates and the modes of outputs, a fault of
  the file system. Of `S/Displays.qml`, modelled as it is: a layout chosen while
  one is evaluated may reach the file and not the screens (223, 250-254); a repair
  may reload before the file is written; a repair that failed or was refused is
  not tried again by itself, though the comment at 231-233 says it "waits a minute
  before trying once more"; an output that comes or goes is noticed when someone
  asks for the list. Of `S/DisplayMath.js`: where a size rounds down a placement
  reads back as "bottom" (87-113), and with the preferred main output absent
  "second only" reads back as "main" (50-58); `ModeReadsBack` leaves both out.
  `workspaceFileText` at `S/Displays.qml:206` assigns a list to a string property.
* Not modelled at all: the components with status `not_modelled` in
  `PROJECT.json`. Most keep no state across steps (drawing helpers, blobs, the
  calculator, attached types), are a flag around one process (recorder, idle), hand
  everything to a service (lock screen to PAM), or show what services hold
  (`shell/modules`). About half of the
  repository's C++ is the vendored upstream copy under `shell/upstream`, which is
  not built; much of the rest is geometry, painting, and properties with their
  signals, where a step depends on nothing but itself. The services written in QML
  and JavaScript are modelled where they have a protocol.

## 6. Plan

Done, in the order of importance: the configuration store, on which every other
part depends; the captive portal; the two modes; the audio buffers and services;
lyrics; the file system model; the two views; the settings library; the
displays; and the proofs of the modules listed in section 4.

Next models:

1. `Notifications`: the raw list, the loaded prefix, the save timer, restarts.
   An abstract specification of the list as the user sees it, which the detailed
   one implements; no notification that was closed returns, none that was not is
   lost. To be settled by it: one that arrives before the file is loaded is not
   saved until the list changes again (`S/Notifs.qml:69-72`, 132), clearing before
   the load is undone by it, clearing an empty list with unloaded entries saves
   nothing (152-160), and unloaded entries with the id of a loaded one are skipped
   (84-87).
2. `Images`: jobs per file and the pruning of the cache.
3. Brightness, recorder and the VPN status as one family: a command under way
   and a wish that changed.

Next proofs: the type invariant of the displays' records in full.
