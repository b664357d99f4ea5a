-------------------------- MODULE EmulatorActivity --------------------------
(***************************************************************************)
(* The screen that plays a game: EmulatorActivity.java on the UI thread,   *)
(* and the EmulationThread objects it starts, stops, pauses and resumes.   *)
(*                                                                         *)
(* The UI thread runs one callback at a time, in the orders Android may    *)
(* deliver them; emulation threads run concurrently with it and share the  *)
(* volatile flags isRunning and isPaused, the interrupt status, the        *)
(* validity of the surface and the bridge.  stopEmulation() is two steps,  *)
(* because a thread may run between the flag it is told to stop by and the *)
(* shutdown of the bridge it plays on.                                     *)
(***************************************************************************)
EXTENDS Naturals, TLC

CONSTANTS
    Threads,      \* EmulationThread objects: bounds the starts of a behavior
    NoThread,     \* the null of the field emulationThread
    InitResults,  \* what initializeEmulator may return: {TRUE} in Java mode
    Resizes       \* may surfaceChanged be delivered again for a live surface?

ASSUME NoThreadAssumption == NoThread \notin Threads
ASSUME InitResultsAssumption == InitResults \subseteq BOOLEAN
ASSUME ResizesAssumption == Resizes \in BOOLEAN

VARIABLES
    \* state of the activity, written by the UI thread only
    lifecycle,         \* what the last lifecycle callback left
    finishing,         \* finish() was called
    surface,           \* the SurfaceView's surface; valid unless "none"
    ui,                \* where the UI thread is inside stopEmulation()
    current,           \* the field emulationThread
    emulationRunning,  \* the field isEmulationRunning
    bridge,            \* is the emulator behind the bridge initialized?
    \* state of the emulation threads
    pc, isRunning, isPaused, interrupted,
    late               \* history: frames begun since the thread was last told
                       \* to pause or to stop, while that order stands

uiVars == <<lifecycle, finishing, surface, ui, current, emulationRunning, bridge>>
threadVars == <<pc, isRunning, isPaused, interrupted, late>>
vars == <<lifecycle, finishing, surface, ui, current, emulationRunning, bridge,
          pc, isRunning, isPaused, interrupted, late>>

Labels == {"unborn", "loop", "pausecheck", "sleeping", "surface", "frame",
           "throttle", "done"}

TypeOK ==
    /\ lifecycle \in {"created", "resumed", "paused", "destroyed"}
    /\ finishing \in BOOLEAN
    /\ surface \in {"none", "created", "ready"}
    /\ ui \in {"idle", "surfaceDestroyed", "onDestroy"}
    /\ current \in Threads \cup {NoThread}
    /\ emulationRunning \in BOOLEAN
    /\ bridge \in {"up", "down"}
    /\ pc \in [Threads -> Labels]
    /\ isRunning \in [Threads -> BOOLEAN]
    /\ isPaused \in [Threads -> BOOLEAN]
    /\ interrupted \in [Threads -> BOOLEAN]
    /\ late \in [Threads -> Nat]

\* An activity that was just created for a console it supports.
Init ==
    /\ lifecycle = "created"
    /\ finishing = FALSE
    /\ surface = "none"
    /\ ui = "idle"
    /\ current = NoThread
    /\ emulationRunning = FALSE
    /\ bridge = "down"
    /\ pc = [t \in Threads |-> "unborn"]
    /\ isRunning = [t \in Threads |-> TRUE]
    /\ isPaused = [t \in Threads |-> FALSE]
    /\ interrupted = [t \in Threads |-> FALSE]
    /\ late = [t \in Threads |-> 0]

-----------------------------------------------------------------------------
(* Orders the UI thread gives to the current emulation thread.             *)

\* Mutant of PauseEmulation: the activity's own flag is forgotten.
PauseKeepsFlag ==
    IF current = NoThread
    THEN UNCHANGED <<isPaused, late, emulationRunning>>
    ELSE /\ isPaused' = [isPaused EXCEPT ![current] = TRUE]
         /\ late' = [late EXCEPT ![current] = 0]
         /\ UNCHANGED emulationRunning

\* pauseEmulation(): nothing without a thread.
PauseEmulation ==
    IF current = NoThread
    THEN UNCHANGED <<isPaused, late, emulationRunning>>
    ELSE /\ isPaused' = [isPaused EXCEPT ![current] = TRUE]
         /\ late' = [late EXCEPT ![current] = 0]
         /\ emulationRunning' = FALSE

\* resumeEmulation(): nothing without a thread.
ResumeEmulation ==
    IF current = NoThread
    THEN UNCHANGED <<isPaused, late, emulationRunning>>
    ELSE /\ isPaused' = [isPaused EXCEPT ![current] = FALSE]
         /\ late' = [late EXCEPT ![current] = 0]
         /\ emulationRunning' = TRUE

\* startEmulation(): a new thread replaces the current one, which nobody
\* stops; a core that does not start finishes the activity.
StartEmulation ==
    \E ok \in InitResults :
        \/ /\ ok
           /\ \E t \in Threads :
                /\ pc[t] = "unborn"
                /\ pc' = [pc EXCEPT ![t] = "loop"]
                /\ current' = t
           /\ emulationRunning' = TRUE
           /\ bridge' = "up"
           /\ UNCHANGED finishing
        \/ /\ ~ok
           /\ finishing' = TRUE
           /\ bridge' = "down"
           /\ UNCHANGED <<pc, current, emulationRunning>>

\* Mutant of TellToStop: the reference is dropped before it is used.
ForgetThread ==
    /\ current' = NoThread
    /\ UNCHANGED <<isRunning, interrupted, late>>

\* The first half of stopEmulation(): isRunning = false, interrupt(), null.
TellToStop ==
    /\ IF current = NoThread
       THEN UNCHANGED <<isRunning, interrupted, late>>
       ELSE /\ isRunning' = [isRunning EXCEPT ![current] = FALSE]
            /\ interrupted' = [interrupted EXCEPT ![current] = TRUE]
            /\ late' = [late EXCEPT ![current] = 0]
    /\ current' = NoThread

\* The second half: the bridge is shut down without waiting for the thread.
ShutDownBridge ==
    /\ bridge' = "down"
    /\ emulationRunning' = FALSE

-----------------------------------------------------------------------------
(* Callbacks on the UI thread.                                             *)

\* A window gets its surface after the first onResume.
SurfaceCreated ==
    /\ ui = "idle"
    /\ lifecycle \in {"resumed", "paused"}
    /\ surface = "none"
    /\ surface' = "created"
    /\ UNCHANGED <<lifecycle, finishing, ui, current, emulationRunning, bridge>>
    /\ UNCHANGED threadVars

\* The call that follows surfaceCreated, and one for each later resize.
SurfaceChanged ==
    /\ ui = "idle"
    /\ lifecycle # "destroyed"
    /\ surface = "created" \/ (surface = "ready" /\ Resizes)
    /\ surface' = "ready"
    /\ StartEmulation
    /\ UNCHANGED <<lifecycle, ui, isRunning, isPaused, interrupted, late>>

SurfaceDestroyed ==
    /\ ui = "idle"
    /\ surface # "none"
    /\ ui' = "surfaceDestroyed"
    /\ TellToStop
    /\ UNCHANGED <<lifecycle, finishing, surface, emulationRunning, bridge, pc, isPaused>>

\* The surface is released only when the callback returns.
SurfaceDestroyedReturns ==
    /\ ui = "surfaceDestroyed"
    /\ ui' = "idle"
    /\ surface' = "none"
    /\ ShutDownBridge
    /\ UNCHANGED <<lifecycle, finishing, current>>
    /\ UNCHANGED threadVars

OnResume ==
    /\ ui = "idle"
    /\ lifecycle \in {"created", "paused"}
    /\ ~finishing
    /\ lifecycle' = "resumed"
    /\ IF emulationRunning
       THEN UNCHANGED <<isPaused, late, emulationRunning>>
       ELSE ResumeEmulation
    /\ UNCHANGED <<finishing, surface, ui, current, bridge, pc, isRunning, interrupted>>

OnPause ==
    /\ ui = "idle"
    /\ lifecycle = "resumed"
    /\ lifecycle' = "paused"
    /\ IF emulationRunning
       THEN PauseEmulation
       ELSE UNCHANGED <<isPaused, late, emulationRunning>>
    /\ UNCHANGED <<finishing, surface, ui, current, bridge, pc, isRunning, interrupted>>

OnDestroy ==
    /\ ui = "idle"
    /\ lifecycle \in {"created", "paused"}
    /\ lifecycle' = "destroyed"
    /\ ui' = "onDestroy"
    /\ TellToStop
    /\ UNCHANGED <<finishing, surface, emulationRunning, bridge, pc, isPaused>>

OnDestroyReturns ==
    /\ ui = "onDestroy"
    /\ ui' = "idle"
    /\ ShutDownBridge
    /\ UNCHANGED <<lifecycle, finishing, surface, current>>
    /\ UNCHANGED threadVars

\* A tap on the pause button toggles on the activity's own flag.
PauseClicked ==
    /\ ui = "idle"
    /\ lifecycle = "resumed"
    /\ IF emulationRunning THEN PauseEmulation ELSE ResumeEmulation
    /\ UNCHANGED <<lifecycle, finishing, surface, ui, current, bridge,
                   pc, isRunning, interrupted>>

Callback ==
    \/ SurfaceCreated \/ SurfaceChanged \/ SurfaceDestroyed
    \/ OnResume \/ OnPause \/ OnDestroy \/ PauseClicked

CallbackReturns == SurfaceDestroyedReturns \/ OnDestroyReturns

-----------------------------------------------------------------------------
(* The loop of EmulationThread.run().                                      *)

Started(t) == pc[t] # "unborn"
Held(t) == isPaused[t] \/ ~isRunning[t]

Goto(t, label) == pc' = [pc EXCEPT ![t] = label]

\* Mutant of LoopTop: while (isRunning || isPaused)
LoopWhilePaused(t) ==
    /\ pc[t] = "loop"
    /\ Goto(t, IF isRunning[t] \/ isPaused[t] THEN "pausecheck" ELSE "done")
    /\ UNCHANGED <<isRunning, isPaused, interrupted, late>>

\* while (isRunning)
LoopTop(t) ==
    /\ pc[t] = "loop"
    /\ Goto(t, IF isRunning[t] THEN "pausecheck" ELSE "done")
    /\ UNCHANGED <<isRunning, isPaused, interrupted, late>>

\* if (isPaused) sleep(100): a sleep entered with the interrupt status set
\* throws at once and clears it.
PauseCheck(t) ==
    /\ pc[t] = "pausecheck"
    /\ Goto(t, IF isPaused[t] /\ ~interrupted[t] THEN "sleeping" ELSE "surface")
    /\ interrupted' = [interrupted EXCEPT ![t] = @ /\ ~isPaused[t]]
    /\ UNCHANGED <<isRunning, isPaused, late>>

\* Mutant of SleepTimeout: no continue after the sleep.
SleepThenPlay(t) ==
    /\ pc[t] = "sleeping"
    /\ Goto(t, "surface")
    /\ UNCHANGED <<isRunning, isPaused, interrupted, late>>

\* Mutant of SleepTimeout: a wait() that resumeEmulation() does not notify.
WaitUntilStopped(t) ==
    /\ pc[t] = "sleeping"
    /\ ~isRunning[t]
    /\ Goto(t, "loop")
    /\ UNCHANGED <<isRunning, isPaused, interrupted, late>>

\* The sleep is over: continue.
SleepTimeout(t) ==
    /\ pc[t] = "sleeping"
    /\ Goto(t, "loop")
    /\ UNCHANGED <<isRunning, isPaused, interrupted, late>>

\* InterruptedException, ignored: control falls through to the frame.
SleepInterrupted(t) ==
    /\ pc[t] = "sleeping"
    /\ interrupted[t]
    /\ interrupted' = [interrupted EXCEPT ![t] = FALSE]
    /\ Goto(t, "surface")
    /\ UNCHANGED <<isRunning, isPaused, late>>

\* if (surface is valid) runFrame(...)
RunFrame(t) ==
    /\ pc[t] = "surface"
    /\ IF surface = "none"
       THEN /\ Goto(t, "throttle")
            /\ UNCHANGED late
       ELSE /\ Goto(t, "frame")
            /\ late' = [late EXCEPT ![t] = IF Held(t) THEN @ + 1 ELSE @]
    /\ UNCHANGED <<isRunning, isPaused, interrupted>>

FrameEnd(t) ==
    /\ pc[t] = "frame"
    /\ Goto(t, "throttle")
    /\ UNCHANGED <<isRunning, isPaused, interrupted, late>>

\* The throttling sleep, if it is reached at all, swallows an interrupt.
Throttle(t) ==
    /\ pc[t] = "throttle"
    /\ Goto(t, "loop")
    /\ \E slept \in BOOLEAN :
         interrupted' = [interrupted EXCEPT ![t] = @ /\ ~slept]
    /\ UNCHANGED <<isRunning, isPaused, late>>

ThreadStep(t) ==
    /\ \/ LoopTop(t) \/ PauseCheck(t) \/ SleepTimeout(t) \/ SleepInterrupted(t)
       \/ RunFrame(t) \/ FrameEnd(t) \/ Throttle(t)
    /\ UNCHANGED uiVars

Next == Callback \/ CallbackReturns \/ \E t \in Threads : ThreadStep(t)

Spec == Init /\ [][Next]_vars

\* A started thread is scheduled and a callback that has begun runs on;
\* nothing makes the user or the system call the activity.
FairSpec == /\ Spec
            /\ WF_vars(CallbackReturns)
            /\ \A t \in Threads : WF_vars(ThreadStep(t))
-----------------------------------------------------------------------------
(* Properties.                                                             *)

\* The activity decides by its own field isEmulationRunning whether a tap, a
\* pause or a resume acts on the thread (EmulatorActivity.java 100, 326, 334):
\* between callbacks that field says exactly whether the current thread exists
\* and is not paused, and the current thread has not been told to stop.
FlagsAgree ==
    /\ ui = "idle" =>
         (emulationRunning <=> (current # NoThread /\ ~isPaused[current]))
    /\ current # NoThread => Started(current) /\ isRunning[current]

\* A thread that was told to pause or to stop begins at most one more frame,
\* also when the interrupt of stopEmulation() wakes it from the pause and
\* control falls through to the frame (EmulationThread.java 53-66).
HoldsWithinAFrame == \A t \in Threads : Held(t) => late[t] <= 1

\* While no surface is resized, every thread but the current one was told to
\* stop: no second loop plays on the bridge unseen by the activity.
NoOrphan == \A t \in Threads : Started(t) /\ isRunning[t] => t = current

\* While no surface is resized, a frame that runs on a bridge which is shut
\* down belongs to a thread that was told to stop: stopEmulation() does not
\* join the thread, and this is all that the missing join can lead to.
FramesOnLiveBridge ==
    \A t \in Threads : pc[t] = "frame" /\ bridge = "down" => ~isRunning[t]

\* "Stop emulation when surface is destroyed" (EmulatorActivity.java 179):
\* once the callback has returned every thread was told to stop.
StopsWithSurface ==
    (surface = "none" /\ ui = "idle") =>
        \A t \in Threads : Started(t) => ~isRunning[t]

\* A thread that was told to stop leaves its loop, paused or not.
StoppedThreadEnds ==
    \A t \in Threads : (Started(t) /\ ~isRunning[t]) ~> (pc[t] = "done")

\* A current thread that is not paused and has a surface goes on to render: a resume is never
\* lost, whatever the thread was doing when it came.
ResumedThreadRenders ==
    \A t \in Threads :
        (current = t /\ ~isPaused[t] /\ surface # "none") ~>
            (pc[t] = "frame" \/ isPaused[t] \/ current # t)

\* The refinement mapping to Playback.
Order(t) == IF ~Started(t) THEN "none"
            ELSE IF ~isRunning[t] THEN "stop"
            ELSE IF isPaused[t] THEN "hold" ELSE "play"

PB == INSTANCE Playback WITH
        order   <- [t \in Threads |-> Order(t)],
        grace   <- [t \in Threads |-> late[t] = 0],
        inFrame <- {t \in Threads : pc[t] = "frame"}

\* While no surface is resized, the activity keeps the promises of Playback:
\* one thread under its command, one grace frame after each order.
PlaybackSpec == PB!Spec
=============================================================================
