# A formal model of RecreEmulCream and of the concurrent parts of its engines

TLA+ modules, TLC configurations and TLAPS proofs about the code of this
repository. Modules are translated from the source; `PROJECT.json` maps every
definition to the lines it stands for, lists the runs, the hazards of the code,
what was found, and the theorems. Paths below are relative to `src/`; `…/` is
`app/src/main/java/com/example/recreemulcream/`.

    tlc -workers 2 -config Activity.cfg MCEmulatorActivity.tla    # a run
    tlapm PlayerScreenProofs.tla                                  # proofs

1. [The system](#1-the-system) · 2. [Modules](#2-modules) · 3. [Runs](#3-runs) ·
4. [What was found](#4-what-was-found) · 5. [Proofs](#5-proofs) ·
6. [Not modelled](#6-not-modelled) · 7. [Plan](#7-plan)

## 1. The system

The repository is an Android app (3095 lines of Java, 1860 of C++) with three
upstream engines in the tree: mGBA, melonDS and snes9x. The app picks a ROM,
opens a player screen, and runs a bridge at 60 frames per second on a thread of
its own. As it is built, no native library can be loaded (three C++ files
declare overlapping JNI symbols, and one of the two build files does not build
them at all): every native call throws `UnsatisfiedLinkError` and the bridges
draw a fallback screen in Java. That is the program modelled here. Of the
engines the project takes the parts that are algorithms of their own, with
threads, clocks or messages: in mGBA the thread that runs an emulated machine
and its two syncs, the renderer on a thread of its own with its lock-free ring
buffer, the event list of the machine's clock, and the link cable; in melonDS
the wireless play between instances.

### Inventory

| Component | State | Operations | What is hard | What makes it correct |
|---|---|---|---|---|
| **Player screen and emulation thread** `…/emulation/EmulatorActivity.java`, `EmulationThread.java` | UI thread: current thread, `isEmulationRunning`, surface, lifecycle. Each thread: `isRunning`, `isPaused`, interrupt status, place in its loop | lifecycle and surface callbacks, pause button; start, stop, pause, resume; the loop | the thread is never joined; an interrupt wakes a pause and control falls through to a frame; the pause flag is kept twice; Android decides the order of callbacks | the two flags agree; at most one late frame; no thread left playing; stopped threads end; a resume is never lost |
| **Virtual gamepad** `…/emulation/input/` | array of 12 buttons, remapping | touch listeners (UI), copy of the array (emulation thread) | two unlocked writes race with an element-wise copy; shared targets; cancelled touches | no press without a touch; what the game sees was touched |
| **ROM scan** `FilePickerHelper.java`, `FileUtils.java`, `MainActivity.java` | static task and executor shared by all activities, list of each activity, button, dialog, looper | scan, cancel, report, rotate, deliver, choose | tasks outlive their activity; cancellation only interrupts; a list handed over by reference | the button is disabled exactly while its own scan is outstanding; the list holds what was asked for |
| **mGBA core thread** `mgba-master/src/core/thread.c`, `sync.c` | state, requests, interrupt depth, sync flags, condition variables | pause, unpause, toggle, reset, run function, interrupt, continue, end, clear crash; calls of linked machines; calls from the machine's own callbacks | the thread may sleep in three places when a call comes, and the caller may be the consumer it waits for; requests are served and dropped in rounds | an interrupt stops the machine; a pause holds; a request is served once; no call hangs; no wake-up is lost |
| **Bridges and fallback screen** `…/emulation/core/EmulatorBridge.java` | handle, buttons, fallback frame counter, a static `Paint` | initialize, runFrame, shutdown, setInput, draw | one `Paint` for all threads, used in several steps | a frame is drawn in the colours of one frame |
| Stand-alone bridges `Gba…`, `Snes…`, `DsEmulatorBridge.java` | – | – | dead code: only the classes nested in `EmulatorBridge` are created | – |
| **Save states** `EmulatorBridge.java`, `app/src/main/cpp/` | files | save, load | success is reported when nothing was saved | a state that was reported saved can be loaded |
| **Native glue** `app/src/main/cpp/*.cpp` | static core, buffers, `core_initialized` | init, run frame, input, save, load, shutdown | one static core for any number of bridges; shutdown on the UI thread while a frame runs; fallback paths that never set or never clear a flag | no use after shutdown, no leak over restarts |
| **File picker** `FilePickerHelper.java`, `FileUtils.java`, `MainActivity.java` | a static callback, copied files | pick, handle result, copy | the static callback is written by one activity and used by another; a copy may fail half way | the file chosen is the file played |
| **BIOS files** `FileUtils.java`, `native-lib.cpp`, `EmulatorStatusChecker.java` | files | check, copy | partial copies | a file reported installed is complete |
| Settings, permissions | preferences | read, write | one thread | their one effect on concurrency, the remapping, is in VirtualGamepad |
| **mGBA ring buffer** `mgba-master/src/util/ring-fifo.c` | two pointers into a buffer | write, read, size, clear | no lock: the other pointer moves while one looks and copies; full and empty look alike; items are not split, so the end of the buffer is skipped | a copy never touches what is unread; items come out whole and in order; size 0 means empty; an empty buffer takes any item |
| **mGBA threaded renderer** `feature/thread-proxy.c`, `feature/video-logger.c`, `gba/extra/proxy.c` | queue, thread state, pending event, two conditions | write, read, post event, wait, wake, recover, reset, deinit | the queue is used without the mutex that the conditions use; events overtake the queue; the thread may stop | a frame is shown complete; an event comes after what was written before; no call hangs |
| **mGBA event timing** `core/timing.c`, the loop of `gba/gba.c` | a list by time and priority, where it is hidden, clock, the processor's next stop | schedule, deschedule, interrupt, tick | the clock wraps; callbacks change the list that is walked; the next stop is a copy kept by hand | events fire in order, on time and once; none is lost; nothing due is left over |
| **mGBA GBA link cable** `gba/sio/lockstep.c`, `gba/sio.c` | coordinator (clock, who is waited for, transfer) and, by player, offset, queue, mode, asleep | mode, start, finish, hard sync, acknowledge, join, leave | machines that sleep until another wakes them; a clock owned by one; players that come and go in the middle | never all asleep; the primary goes on when all have acknowledged; transfers find all words; nobody runs away |
| **melonDS local multiplayer** `melonDS-master/src/net/LocalMP.cpp` | two rings, a place and a semaphore of each reader, who is connected | begin, end, send, receive, command, reply, collect | semaphores are posted after the lock was released; rings overflow silently; late replies | no packet without a token; only current replies count |
| mGBA audio hand-over `util/audio-buffer.c`, Game Boy link `core/lockstep.c` | buffers; two nodes | produce, consume; start, wait | – | not modelled |
| mGBA, melonDS, snes9x engines | machines | – | instruction sets and video hardware | out of reach of a model checker as a whole |

Interactions: `MainActivity` starts the player screen with a path and a console
(an intent). The player screen owns the gamepad and one bridge, and starts a
thread that calls `runFrame` of the bridge; `runFrame` copies the gamepad's
array. The UI thread and the emulation thread share volatile flags, the
interrupt status, the surface, the bridge and the array, and no lock. A scan
shares a static field and an executor between activities and speaks to them by
messages to the main looper. In mGBA everything goes through `stateMutex` and
five condition variables, two of the thread and three of its syncs. The machine's
thread calls the renderer, which hands drawings to the proxy thread through the
ring; it runs the processor up to the event that `timing.c` names; an event of
the link cable's player puts the thread to sleep through the thread's
`WaitFromThread`, and another machine's thread lets it go on (`Peer` in
`CoreThread`).

## 2. Modules

| Module | Models | Proofs |
|---|---|---|
| `EmulatorActivity` | player screen and its emulation threads | `PlayerScreenProofs` |
| `Playback` | what the screen promises, abstractly; refined by `EmulatorActivity` | in `PlayerScreenProofs` |
| `VirtualGamepad` | listeners, remapping, copy of the array | in `PlayerScreenProofs` |
| `RomScan` | scan button, executor, messages, dialog, rotation | `RomScanProofs` |
| `CoreThread` | `thread.c` with both syncs | `CoreThreadProofs` |
| `RingFifo` | the lock-free ring buffer | `RingFifoProofs` |
| `Pipe` | what a ring promises, abstractly; refined by `RingFifo` | in `RingFifoProofs` |
| `ThreadProxy` | the renderer on a thread of its own, with the ring as a queue | `ThreadProxyProofs` |
| `Timing` | the event list, with the processor's loop | `TimingProofs` |
| `Lockstep` | the GBA link cable | `LockstepProofs` |
| `LocalMP` | melonDS's wireless play on one computer | `LocalMPProofs` |
| `MCEmulatorActivity`, `MCRomScan`, `MCTiming` | values for TLC | |

In each module the operators named "Mutant of X" are plausible bugs, put in the
place of `X` to see that a property notices; no specification uses them.

**EmulatorActivity.** One action per callback. A callback is atomic, as the UI
thread runs one at a time, with one exception: `stopEmulation()` is
`TellToStop` then `ShutDownBridge`, because a thread may run between the flag
that stops it and the shutdown of its bridge. Start, pause and resume are
operators that the callbacks use. A thread has a step for every place where it
reads something another thread writes: the loop test, the pause test with the
sleep (a sleep entered with the interrupt status set throws at once), the end of
the sleep by time or by interrupt, the surface test, the frame, the throttling
sleep. `late` is a history variable: frames begun since the last order to hold
or stop. `Resizes` says whether Android may call `surfaceChanged` again for a
live surface. `lifecycle` and `surface` constrain callbacks to the orders
Android may deliver: a surface only after the first `onResume`, destruction
only from a paused or newly created activity.

**Playback.** Three variables for each thread: the last order, whether it may
still begin a grace frame, whether it is in a frame. The mapping is at the end
of `EmulatorActivity`: the order is read from `isRunning` and `isPaused`, the
grace from `late = 0`, and the place in the loop is hidden.

**VirtualGamepad.** A listener is two steps, its own element and the remapped
one; the copy is one step per element. A touch may be cancelled, which the
listener has no branch for; `lost` remembers those touches. All remappings that
the settings can store are initial states. `recent` is a history variable for
what the game's copy may contain.

**RomScan.** Main-thread actions (select, scan, rotate, deliver a message, close
the dialog) and steps of the task on the executor's thread: begin, report a
file, next directory, fail. `Cancel` is `Future.cancel(true)` as the executor
implements it: a queued task never runs, a running one has its interrupt set and
goes on. A message for a destroyed activity is still run; showing a dialog there
is an exception that ends the process (`crashed`).

**CoreThread.** An action is what a thread does while it holds `stateMutex`.
`cpu` says where the machine's thread is: in `runLoop`, asleep in the video or
the audio sync, parked on `stateOnThreadCond`, draining its audio before it
looks at its state, or in one of the callbacks outside the mutex. Sleeping
threads need `signalled`, so that a missing wake-up is a behaviour of the model.
A caller is idle, blocked by an interrupt of another, waiting for the thread,
or in the unlocked tail of `mCoreThreadEnd`. `saved` is what `_waitPrologue`
puts aside, and `syncWait` what the syncs see meanwhile.

**RingFifo.** Offsets stand for pointers. `RingFIFOWrite` and `RingFIFORead` are
three steps each: load the other pointer and decide, copy, store the own one. A
call that returns 0 changes nothing and is no step. Both threads know the length
of the next item from the protocol they speak (`length`, fixed in `Init`). `data`
remembers the item each byte belongs to, `start` where an item was put. `Pipe` is
the queue that comes of it; its items are those stored and not yet returned.

**ThreadProxy.** The emulation is in a call, which is the list of steps that the
renderer's function takes: items written, the wait, an event, a clear. What a
thread does under the mutex is one action; each write to and read from the queue
is one of its own, as they take no mutex. The queue may refuse an item whenever it
holds another and accept one up to `QueueLimit`, and says 0 only when empty:
that is what `RingFifo` guarantees (`EmptyAccepts`, `SizeZeroIsEmpty`) and not
more. `undrawn` counts drawings neither done nor dropped by a clear. A clear drops what
the recovery throws away (`thread-proxy.c:96`), so `frame` remembers besides what became
of this frame's items: `"broken"` once the thread has stopped with one of them,
`"recovered"` once a new thread took its place, `"whole"` otherwise.

**Timing.** `root` and `reroot` are sequences. `Operate` is a call of `timing.c` by
an instruction or a callback, up to `MaxOps` of them, anything in any order; `Fire`
takes the head of the list and enters its callback. `due` is the true, unbounded
time of each event, against which the wrapping one is measured. The video unit's
event always schedules itself again, in the code as in the model.

**Lockstep.** The state of the coordinator and of the players is one record,
`link`, which the operators named after the functions of `lockstep.c` transform;
an action applies one handler of one machine, under the coordinator's mutex.
Times are relative to the shared clock, so that the state space is finite. `Run`
lets a machine's cycles pass, `Fire` runs the event or the end of transfer that is
due first, `Call` is a write of SIOCNT; `TakeEvents` is the handler's loop over the
queue, a function of the number of its rounds. Handlers of all events that are due run
before the machine's thread sleeps, as a tick is not left in between. `failed` holds
the assertions that failed, after which the program is gone.

**LocalMP.** A packet is one slot. A sender's lock-protected part is one action,
which leaves in `posts` the semaphores it then posts one by one in the order of
their numbers. `unread` counts, for each reader, the packets between its place and
the writer's; when it is outside `1 .. Slots` a read may find a packet's magic or not.

## 3. Runs

| Run | Configuration | Shows |
|---|---|---|
| `activity` | `Activity.cfg`, 64 426 states | with every order of callbacks, cores that fail to start and two threads: flags agree, a frame on a bridge that is shut down belongs to a thread told to stop; stopped threads end and resumed threads render; the screen implements `Playback`, which grants a thread told to hold one late frame |
| `activity_resize` | `ActivityResize.cfg` | **violation** of `StopsWithSurface`: a second `surfaceChanged` leaves a thread nobody stops |
| `gamepad` | `Gamepad.cfg`, 394 224 states | no ghost press, nothing seen that was not touched, an unshared button is exact |
| `rom_scan` | `RomScan.cfg`, 34 516 states | over rotations and with tasks of destroyed activities: the button is disabled exactly while its scan is outstanding and comes back, the open dialog shows the list it hands out, the list holds files of the console asked for |
| `thread_pause` | `ThreadPause.cfg`, 48 442 states | one caller, both syncs, linked machines: interrupts stop the machine, a pause holds, requests are served once; calls return, the end ends, no wake-up is lost |
| `thread_faults` | `ThreadFaults.cfg`, 35 243 states | with crashes and with callbacks that interrupt their own thread: calls return and no wake-up is lost all the same |
| `ring_fifo` | `RingFifo.cfg`, 194 954 states | every interleaving of a write's and a read's steps: copies touch nothing unread, size 0 exactly when empty, an empty buffer takes any item; the ring implements `Pipe`: items come out whole, once and in order |
| `thread_proxy` | `ThreadProxy.cfg`, 36 891 states | frames shown complete, or after the recovery of a thread that stopped within them, events after what was written before them, reader and writer in step over clears and replaced threads; calls return unless the thread stops under them |
| `timing` | `Timing.cfg`, 25 361 states | no event lost or doubled, fired in order with its true lateness, the processor stops in time, nothing due left over, every event ends |
| `local_mp` | `LocalMP.cfg`, 3 457 398 states | no packet without a token, only replies to the command that stands |
| `lockstep` | `Lockstep.cfg`, 870 409 states | never all asleep, the primary goes on after all acknowledgements, whoever is waited for will answer; as long as the two stay, transfers find both words and nobody falls behind |
| `lockstep_leave` | `LockstepLeave.cfg` | **violation** of `SomeoneAwake`: when one of three machines leaves, the other two may sleep for ever, without any call of a game |

Type invariants are in no run: that of every module is proved (`TypeCorrect`, and
`GamepadTypeCorrect`, `LinkTypeCorrect`). Proved and not repeated in a passing run either:
`HoldsWithinAFrame`, `NoOrphan` and
`StopsWithSurface` of the screen, `AcknowledgedStops` of the core thread and
`ReadsNextItem` of the ring.

### Bounds

* *Threads = {t1, t2}.* The screen remembers one thread; every hazard is
  between that one and one it has forgotten. A second start after a stop, and a
  second start over a running thread, need two. The proofs hold for any number.
* *NumButtons = 3.* A button, its target, and another button with the same
  target; chains and swaps of remappings fit as well. The proofs hold for any
  number.
* *Two consoles, two directories, one file in both.* One console has extensions
  and the other has none (NES in the code), a file may be reported twice, and a
  cancelled task has a directory left to skip. *MaxActivities = MaxScans = 3*: a
  scan of a destroyed activity can be queued behind one that runs and before
  one of the activity on the screen.
* *Callers = {gui}.* The frontends in the tree make waiting calls from one thread.
  *MaxDepth* is the nesting of interrupts by one caller (2: nested or not),
  *MaxPeerCalls* the calls of linked machines (2: one that makes the machine wait
  and one that releases it, in any order with everything else).
* `served` counts to 2, enough to tell "once" from "more than once".
* *RingFifo: Capacity = 9, Lengths = {1, 3, 4}, MaxItems = 5.* The longest item is
  just below half of the buffer, where the assumption lies (the proxy's longest is
  4096 of 262144 bytes); five items wrap at least once whatever their lengths, up
  to twice. The proofs hold for all values.
* *ThreadProxy: QueueLimit = 5*, one more than the longest call writes, so that a
  queue that is full and one that is not are met in every call.
* *Timing: Wrap = 8* with delays up to 2 and instructions up to 2 cycles: times wrap
  all the time, and the span of those that are compared stays below half of it, as
  in the code. Three events: one pair of equal priority, one more urgent. Two calls
  in an instruction or callback. Delays are positive, as an event that schedules
  itself for now would never end (`EventEnds`); the theorems allow 0.
* *Lockstep.* Intervals keep their order (an instruction, a look at the queue, a
  lock-step interval, a transfer, a hard sync) and not their ratio. Two players and
  a third that may join; two calls of the games, one coming or going. *MaxEvents =
  8* is the code's. The bounds matter here: with three who come and go, `SomeoneAwake`
  and `WaitIsAnswered` fail (section 4), which is why the theorems are about a link
  that nobody has joined or left; they hold for any number of players and calls.
* *LocalMP: Slots = 2, MaxPackets = 3.* Three packets overtake a reader of two slots.
  Two clients are the fewest that tell "a client" from "all clients".

The theorems of section 5 hold for all values of these constants, within the named
assumptions of the modules.

`CHECK_DEADLOCK FALSE` is set where the system really stops: a destroyed
activity whose threads have ended, a crashed process or exhausted bounds, a core
thread that is done. Further: a ring all of whose items are through, a call stranded by a
thread that
stopped, wireless play with nothing more to send, a link whose program failed an
assertion or that nobody is on. In `Gamepad.cfg` and `Timing.cfg` deadlock is
checked.

### Fairness

* `EmulatorActivity`: weak fairness of each thread's steps (a started thread is
  scheduled; its sleeps are timed) and of the return of a callback that has
  begun. Nothing makes the user or Android call anything.
* `RomScan`: weak fairness of the executor's steps and of the main looper's next
  message. Nothing makes the user scan or rotate.
* `CoreThread`: weak fairness of the machine's thread and of a caller that has
  begun a call or holds an interrupt (a frontend releases what it took). Nothing
  is assumed of consumers of frames and audio, nor of linked machines: that
  calls return all the same is what `CallReturns` is about. `Cpu` contains the
  endless work of a machine that is never asked for anything, so its fairness
  alone gives no progress of any request.
* `RingFifo`: none. That no item is stuck is stated as safety: an empty buffer takes
  any item (`EmptyAccepts`), and its size is 0 then and only then (`SizeZeroIsEmpty`).
* `ThreadProxy`: both threads are scheduled. The emulation need not call anything.
* `Timing`: the machine runs, and a callback goes on to its end.
* `Lockstep` and `LocalMP` have safety properties only. In `Lockstep` the liveness that
  matters is stated as safety: a sleeping machine is only woken by another, so
  that somebody must be awake, and whoever is waited for must be about to answer.

## 4. What was found

Each is a violation run, checked against a line of the repository.

* **A resized surface leaks a playing thread** (`EmulatorActivity.java:174`).
  `surfaceChanged` always starts a thread; a second call for the same surface
  replaces `emulationThread` without stopping it. "Stop emulation when surface
  is destroyed" (:179) then stops only the second. The theorem
  `StopsWithSurfaceWithoutResize` shows that this is the only cause.
* **A player that leaves the link may stop the others for ever** (`lockstep.c:966`).
  A secondary that has taken a `DETACH` event sleeps although its queue is not
  empty. When a hard sync is left there, the primary sleeps until it is
  acknowledged: both sleep, against "`mASSERT_DEBUG(!asleep || asleep <
  coordinator->nAttached)`" (:131). It takes three players and no call of a game
  (`MaxCalls = 0`). The trace, of 13 states: the third leaves; the primary takes its
  `DETACH` and answers with a `MODE_SET`, which goes to the secondary's queue behind the
  secondary's own `DETACH`; two intervals later `Lead` puts a hard sync there as well and
  waits; the secondary, still behind the time of both, comes to the `DETACH`, which is due
  first, and sleeps on the other two. A mode switch or a start of the primary's game
  in the place of the hard sync leads there in fewer steps.

### Known limits of the gamepad and the ROM scan

These follow from the code as directly as a reading shows, so no run is spent on
them; the model has all of them.

* Two buttons mapped to one target: releasing either writes 0 although the other is
  held (`VirtualGamepad.java:144`). `UnsharedExact` shows that sharing is the only cause.
* A cancelled touch stays pressed: the listener has no branch for `ACTION_CANCEL`
  (`VirtualGamepad.java:138`). `NoGhost` shows that nothing else leaves a press behind.
* A scan that is cancelled while it runs goes on and reports completion
  (`FilePickerHelper.java:142`).

### Known limits of the core thread

`CoreThread` has these behaviours; no line of the repository promises otherwise,
so they are recorded and not counted as faults.

* A crash overwrites the state, whatever it was: an interrupt under way, a
  request, or `EXITING`. With crashes `InterruptStops` and `PauseHolds` fail,
  and `EndEnds` excepts an end that a crash follows.
* Callbacks that interrupt their own thread while a frontend interrupts it break
  `InterruptStops`, `PauseHolds` and `AcknowledgedStops`, and can starve a
  blocked caller.
* With two callers: a second `RunFunction` may overwrite the first; two resets
  are one; a nested interrupt returns before the first is acknowledged; the
  sync flags that each saves and restores may end up switched off.
* `Reset` and `RunFunction` on a thread that has ended never return.

### Known limits of the renderer, the clock, the link and wireless play

* *ThreadProxy.* A proxy thread that met an unknown item has ended: a call that waits
  for it, or posts an event to it afterwards, never returns (`Stranded`, excepted by
  `CallReturns`). Only this code writes the queue, so that none is expected. The
  mutant `StartSilently` is the "race condition initializing thread proxy" that
  `CHANGES:699` says was fixed. Not in the model, and wrong-looking: the renderer's
  reset overwrites palette, sprites and video memory before it waits for a proxy
  thread that may be drawing from them (`gba/extra/proxy.c:94`); Qt's own proxy can
  lose a wake-up (`platform/qt/VideoProxy.cpp:98`).
* *Timing.* Without any event `mTimingTick` would return a stale `nextEvent`; the video
  unit's event makes that unreachable.
* *Lockstep.* (a) A hard sync, or a mode switch of the primary, that falls on the tick
  in which its transfer ends makes it wait while it waits: the assertion at
  `lockstep.c:986` aborts, in release builds too. With `Interval = 4`,
  `HardSyncInterval = 10`, `Transfer = 6` and `MaxStep = 2` TLC reaches it
  (`link.failed`). One write of SIOCNT that switches the mode and starts a transfer
  (`gba/sio.c:159`, then :193) waits twice as well, and ends there in `Lockstep.cfg` itself.
  (b) A player left alone keeps `transferActive` after its first
  transfer, and every later one is refused. (c) A player that leaves and returns
  before the others took its `DETACH` has a number under which they know another;
  it ends in the deadlock above. (d) The reset of an attached player unlocks a mutex
  it never locked (:219). (e) A player left alone takes its own absolute time as the
  clock and keeps its offset to the old one. (f) With three players, a secondary
  ahead of the clock that switches its mode schedules its event for a time that has
  passed (:977), and busy-loops until the primary moves on. (g) A `MODE_SET` that
  player 0 sends as the answer to an `ATTACH` or a `DETACH` counts as an
  acknowledgement of whatever it waits for. (h) With three arrivals and departures
  two machines are enough for the deadlock of above: a `DETACH` that is taken late
  puts a machine to sleep that is waited for. (i) Nothing bounds how far a secondary
  gets *ahead*: each wake-up by the primary's mode switch or transfer lets it run
  4 cycles and an instruction more, so that enough calls in a row exceed any bound.
  `InStep` bounds how far a machine falls behind. (j) With three machines, one
  that got ahead in this way by the length of a transfer may end its transfer before
  the third has sent its word, or find the next one's. `DataOnTime` is therefore about
  two machines. It also needs instructions shorter than a transfer, which the theorem
  states as its hypothesis: a transfer in multiplayer mode takes 3140 cycles and more
  (`gba/sio.c:15`), the shortest normal one 64.
* *LocalMP.* A semaphore is posted after the lock was released, so that a post for an
  old reply may come after `SendCmd` has reset the semaphore: the host then has a
  token and no packet, reads what is left in the ring, and its place is one packet
  ahead of the writer's. `NoneStranded` is the direction that does hold. A ring that
  overflows is noticed only if the reader's place is not the start of a packet.

## 5. Proofs

No assumption but the `ASSUME`s of the modules and those
stated in a theorem. Each proof follows the same argument: an inductive
invariant `IInv`, `Init => IInv`, one lemma or step per action, and a temporal
step by `PTL`.

**PlayerScreenProofs**, for any set of threads.
`IInv == TypeOK /\ FlagsInv /\ LateInv /\ OrphanInv`.

* `FlagsAlwaysAgree`. `FlagsAgree` speaks of the time between callbacks; that
  there is no current thread inside one, and that an unborn thread is as its
  constructor left it, are what make it inductive (`FlagsInv`).
* `AtMostOneLateFrame`. That `late <= 1` depends on where the thread is: one
  about to begin a frame has begun none under the order that stands, one that
  has and goes on looping is going to sleep, and only `stopEmulation()`
  interrupts, so that the fall-through happens to a stopped thread (`LateInv`).
* `LiveBridgeWithoutResize`, `NoOrphanWithoutResize`,
  `StopsWithSurfaceWithoutResize`, under `~Resizes`: a surface that is not ready
  has no thread, and every thread but the current one was told to stop (`OrphanInv`).
* `ImplementsPlayback`, under `~Resizes`: initial states map to initial states
  and every step to a step of `Playback` or a stutter.

In the same module the gamepad, for any number of buttons, any remapping and
cancelled touches: `NoGhost`, `SeenIsReal`, `UnsharedExact`. Between its two
writes a listener has written its own element and the target is stale
(`PendingInv`); what is driven now is in `recent` (`RecentInv`).

**CoreThreadProofs.** `AcknowledgedAlwaysStops` holds for any number of callers,
with crashes and linked machines, when no callback interrupts its own thread.
`InterruptAlwaysStops`, `PauseAlwaysHolds` and `AlwaysServedOnce` are for one caller,
no crashes and no such callbacks, with any nesting and any number of calls of linked
machines; the previous section says why each assumption is needed.

* Their invariant adds what depth, state and requests say of each other: the depth
  counts the interrupts held or waited for, a running machine has no request, a
  paused one has a reason to be, and a caller that holds an interrupt sees it
  acknowledged.
* `AlwaysServedOnce` follows a request through the rounds of the thread
  (`ServedInv`): it is there only while its caller waits; it has been served exactly
  when the thread has taken it up and come past the callback that serves it; and what
  was taken up is dropped by the next round, which ends the wait.

**RingFifoProofs**, for any capacity, any set of item lengths below half of it, and
any number of items; clears included.
`IInv == TypeOK /\ Chained /\ EmptyIsEqual /\ Layout /\ WriterInv /\ ReaderInv /\ DataInv`.

* The unread items form a chain (`Chained`): each lies where a reader at the end of
  the one before will look for it. They lie between the pointers, in order, the
  wrapped ones before all others (`Layout`).
* `WritesOnlyFreeBytes` and `ImplementsPipe` rest on `WriterInv`: what the writer saw
  when it found room still holds when it copies and stores, because a read only moves
  the reader's pointer to where there is more room; and dually for the reader.
* `ReadsInOrder` adds `DataInv`: the bytes of an unread item are its own.
* `SizeIsExactAtZero` is `EmptyIsEqual`: no wrap and no full buffer leaves the pointers
  equal. `EmptyTakesAny` needs lengths below half of the buffer: an item that does
  not fit behind the pointer then fits before it.

**RomScanProofs**, for any directories and consoles, any number of rotations and of
scans.
`IInv == TypeOK /\ Submitted /\ Bodies /\ Mail /\ LastOwes /\ DisabledWhileScanning /\ DialogInv /\ FoundIsWanted`.

* `ButtonTellsTheTruth`. A scan *owes* while its report can still come: queued,
  running, cancelled in its body, or with its message in the mailbox. Only the last
  scan of an activity owes anything (`LastOwes`), since the button that starts the
  next one is disabled meanwhile: a message that enables the button is the last one,
  although tasks of destroyed activities report in between.
* `DialogStaysCurrent` and `FoundStaysWanted`: a dialog is open only while the button
  is enabled, so that no task of this activity owes; a task adds to the list of the
  activity that submitted it only.

**ThreadProxyProofs**, for any size of the buffer, with and without items that the
proxy thread does not know.
`IInv == ThreadsOK /\ todo \in Rests /\ States /\ Events /\ (~Stopped => Pairs /\ Counted) /\ FrameFlushed /\ FrameDrawn`,
and `Mended` on top of it.

* Nearly everything is about a thread that has not stopped: once it has, items are
  lost one by one and nothing is read until the queue was cleared and a new thread is
  there. `States` says which pairs of places and states the two threads can be in.
* `ReaderIsInStep` is `Pairs`: a block follows its item wherever the two are, drawn,
  in the queue or still to be written.
* `FrameIsWhole` needs `Counted` (a drawing not done is in the queue or in the
  proxy's hands) and `FrameFlushed`: the last item of a frame is a flush, so that a
  queue that is empty then leaves nothing in the proxy's hands either. That covers frames
  whose items were all drawn, or dropped by a clear. `Mended` is about dropped ones: a
  frame that has lost items is used only after the recovery, as the thread has stopped
  and the wait that ends the frame finds it so.
* `KnownItemsAreDrawn` assumes `~Corrupts`, that the proxy thread knows every item: then
  nothing is lost and no recovery is needed, and every frame that is used was drawn in full.
* `EventIsLast`: a post waits for the queue to be empty, and the caller waits for it.
* `OnlyUnknownItemsStrand` assumes `~Corrupts` as well (this code writes only known
  items): then no call waits for a thread that has exited, the
  exception that `CallReturns` makes. Only `Deinit` stops the thread then
  (`StoppedByDeinit`), and it joins it at once.

**TimingProofs**, for any events and priorities, counters of any width, and any
number of calls by an instruction or callback. The assumptions are that delays and
instructions are short against the counter: twice the longest delay, and a delay and
an instruction, fit in half of it (the longest delay of the code is a timer's, 2^26
of 2^32). `IInv == Lists(Restored, due) /\ OneList /\ Exact /\ Near`.

* `NoEventIsLost` and `EventsFireInOrder` rest on `Lists`: the list, wherever it is
  hidden, has each scheduled event once, sorted by true time and priority. `Insert`
  puts an event behind all that are earlier and before the first that is later;
  `RemoveFirst` and `Tail` keep the order.
* That the code, which compares differences of wrapping counters by their sign, sees
  true times is `UntilIsDue`. It follows from `Exact` (the wrapped time is the true
  one, modulo the width) and `Near`: nothing is further ahead than two delays, and
  nothing later than an instruction, which is how far the processor overruns its stop.
  `WrapAgain` is the step in which the clock is advanced and may wrap.
* `ProcessorStopsInTime` is part of `Near`, since the overrun is measured from there.
* That a loop stops at the *first* place is a least element of a set of numbers; it is
  taken from the well-foundedness of finite sets (`LeastNat`).

**LocalMPProofs**, for any finite set of clients, any size of the rings, any number of
packets and of instances that end and begin again.
`IInv == TypeOK /\ Rounds /\ NoneStranded /\ RepliesAreCurrent`.

* `NobodyIsStranded` counts by cardinality: the tokens of a reader and the posts still
  coming to it are at least the packets between its place and the writer's. Each step
  changes one sender's posts, hence the count by one at most (`ComingChanges`).
* `HostHasCurrentReplies` needs `Rounds`: commands are numbered, no instance has heard
  of one that was not sent, and what is in the replies' ring its sender has sent;
  an old byte read as a packet is then a reply to an old round, which the host drops.

**LockstepProofs**, for any number of players, any intervals in the order of the code's,
and any number of calls of the games. While nobody has joined or left,
`IInv == TypeOK /\ CoreInv /\ TimelyInv /\ TransfersInv`, each proved on top of the ones
before; `LinkTypeCorrect` needs no such condition. The assumption about cycles is that
an interval and an instruction fit between two hard syncs (4096 cycles and some, of
0x80000, `lockstep.c:13`).

* `SomeoneStaysAwake`, `PrimaryRunsFreely` and `WaitsAreAnswered` follow from `Core`: no
  event of a joining or leaving player is in a queue, and numbers do not change
  (`Stable`); the primary sleeps exactly while it waits, and whoever it waits for is
  awake (`Sleeps`) and has an event to acknowledge in its queue (`Answered`). The last
  is the delicate one: a wait begins together with its event, in whichever order the
  call does the two, and a secondary acknowledges, and sleeps, when it takes an event.
* `NobodyFallsBehind`. `Owes`: a player has at most one event to acknowledge, at most an
  instruction older than the primary's time, and none if nobody waits for it. `Clock`:
  the primary is not behind the shared clock, handles its event within an instruction,
  and the next hard sync is near. `Behind`: a machine nobody waits for is within a hard
  sync of the last one; who has acknowledged has come up to the primary's time; and who
  has not was near before. Inside a handler these do not hold; `Fresh` and `Mid` say
  what does between its parts.
* `WordsAreThere`, for two machines. `Sends`: while a transfer is active the primary
  waits and has not reached its end, and afterwards both words are there until it does.
  `Gets`: a transfer is active exactly while its start is in the other's queue; once
  taken, both words are there, and the end of the transfer comes before the event in
  which that machine would answer the next start. `Good`: a player's queue holds nothing
  of its own, and starts that say when their transfer ends. TLC found this invariant
  inductive on three small instances before it was proved.
* The loop of the handler is the function `Taken` of the number of rounds. Its equation
  is proved from its `CHOOSE`, and what a round keeps holds after any number of them by
  an induction about *sets* of numbers (`Induction`, `LoopInvariant`), as the library's
  induction theorems take an operator, which the provers cannot instantiate. `Drained`
  shows that the rounds suffice: a round takes an event off the queue and, between
  players that know each other, adds none to it. So the loop's end is proved, not
  assumed, for a link that nobody joins or leaves.

**Only model-checked:** all liveness properties (`StoppedThreadEnds`,
`ResumedThreadRenders`, `ButtonComesBack`, `CallReturns`, `EndEnds`, `GoesOn`,
`EventEnds`), as liveness under fairness and `ENABLED` are out of the
prover's reach; the two violations; what `Lockstep` does after someone has joined or
left, except `LinkTypeCorrect`: there its run shows the three invariants for one who comes
or goes, and they fail for more; everything about `CoreThread` with crashes or
callbacks, or with several callers, except `AcknowledgedStops`.

## 6. Not modelled

* In the modelled components: the FPS counter, toasts, system UI, "Found: name"
  labels, sizes and opacity of views, the choice of a ROM after the dialog (an
  intent), save and load buttons (see Save states). In `thread.c`: the debugger
  and scripting branches, rewinding data, logging, `mCoreThreadJoin`'s release
  of memory, the wait for a sync's own mutex, and changes of the sync options
  while the machine runs.
* `onResume` resumes a game that the user had paused, and a surface that comes
  while the activity is paused starts a thread that plays. The model has both;
  no line says what should happen, so no property is about them.
* In `Lockstep`: the words themselves and the ready bits (`_setData` only as whose
  word is there), save states of the link, the reset of an attached player, a game
  that cancels a transfer. The event in hand keeps its node until it was handled
  (`lockstep.c:958`), so that an answer to oneself finds one slot fewer than here; no
  queue comes near its 8 slots. That a sleeping machine wakes, as a liveness property,
  held for two players in a separate check and is too slow for a run.
* In `LocalMP`: the 32 units by which a reply may be older than its command
  (`LocalMP.cpp:334`), taken to be less than the distance of two commands; lengths of
  packets, `LastHostID`, two hosts at once, a `MPHostinst` that
  changes between the unlock and the post.
* In `ThreadProxy`: spurious wake-ups, recorded video logs, a scanline to flush at, a
  renderer without a thread. In `Timing`: the debugger's counter and `earlyExit`;
  cycles that a callback adds while the tick goes on (`ARMRaiseIRQ`, `arm.c:140`, which
  `timing.c:132` subtracts), and a blocked processor that takes over a longer time than
  `nextEvent` (`gba.c:347`): both let a tick start or end late, as the overrun of an
  instruction does in the model.
* In `VirtualGamepad` the elements are copied one by one by the native side of a bridge
  (`emulator_melonds.cpp:481` ff.), which the app does not load today.
* The stand-alone bridges are dead code. Permissions and build files have no
  state. The engines are far beyond a model checker.

## 7. Plan

Done: `EmulatorActivity`, `Playback`, `VirtualGamepad`, `RomScan`, `CoreThread`,
`RingFifo`, `Pipe`, `ThreadProxy`, `Timing`, `Lockstep`, `LocalMP` and eight proof
modules. In order of what is left:

1. Proofs: how `Lockstep` comes back into order after one player has joined, or has left
   two of three that wait for nothing; what holds of `CoreThread` with several
   callers beyond `AcknowledgedStops`; that `RingFifo` gives `ThreadProxy` the queue it
   assumes.
2. **NativeCore** — `emulator_mgba.cpp`, `emulator_snes9x.cpp`,
   `emulator_melonds.cpp`: static core, buffers and `core_initialized` under
   init, frame, save, load and shutdown from two threads, and restarts; composed
   with `EmulatorActivity`'s callbacks, whose `FramesOnLiveBridge` says which
   threads can be there. It is code that the app does not load today.
3. **SaveState** — what the bridges report and what is in the file, with and
   without a library (`EmulatorBridge.java:141`).
4. **FallbackScreen** — `EmulatorBridge.java:455` ff.: the shared `Paint` and the
   canvas lock, late frames of an old thread against a new one.
5. The Game Boy link (`core/lockstep.c`), **RomPicker** and **BiosInstall**.
