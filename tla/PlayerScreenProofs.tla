------------------------- MODULE PlayerScreenProofs -------------------------
(***************************************************************************)
(* Proofs about the player screen: about EmulatorActivity, for any set of  *)
(* threads and any environment, and about the gamepad that the screen      *)
(* holds, VirtualGamepad, for any number of buttons and any remapping.     *)
(*                                                                         *)
(* The two share no state: a Gamepad in a name tells whose it is.  The     *)
(* invariant of the screen is the conjunction of TypeOK, FlagsInv, LateInv *)
(* and OrphanInv.                                                          *)
(***************************************************************************)
EXTENDS EmulatorActivity, VirtualGamepad, TLAPS

\* What the activity believes of its threads, also inside stopEmulation(),
\* and that a thread which was not started yet is as its constructor left it.
FlagsInv ==
    /\ FlagsAgree
    /\ ui # "idle" => current = NoThread
    /\ \A t \in Threads : ~Started(t) => isRunning[t] /\ ~isPaused[t]

\* Why a frame begun under an order is the last one: only stopEmulation()
\* interrupts, a thread about to begin a frame has begun none under the order
\* that stands, and one that has and still loops is going to sleep.
LateInv ==
    \A t \in Threads :
        /\ interrupted[t] => ~isRunning[t]
        /\ late[t] <= 1
        /\ ~Held(t) => late[t] = 0
        /\ pc[t] = "surface" => late[t] = 0
        /\ pc[t] \in {"pausecheck", "sleeping"} /\ late[t] > 0 =>
             isRunning[t] /\ isPaused[t]

\* Without resizes a surface that is not ready has no thread, so that a start
\* never replaces a running one.
OrphanInv ==
    ~Resizes =>
         /\ NoOrphan
         /\ surface # "ready" => current = NoThread
         /\ current # NoThread => bridge = "up"

IInv == TypeOK /\ FlagsInv /\ LateInv /\ OrphanInv

\* The initial state of a created activity satisfies the invariant.
LEMMA InitIInv == Init => IInv
<1> SUFFICES ASSUME Init PROVE IInv
  OBVIOUS
<1>1. TypeOK
  BY DEF Init, TypeOK, Labels
<1>2. FlagsInv
  BY DEF Init, FlagsInv, FlagsAgree, Started
<1>3. LateInv
  <2>1. ASSUME NEW t \in Threads
        PROVE  /\ interrupted[t] => ~isRunning[t]
               /\ late[t] <= 1
               /\ ~Held(t) => late[t] = 0
               /\ pc[t] = "surface" => late[t] = 0
               /\ pc[t] \in {"pausecheck", "sleeping"} /\ late[t] > 0 =>
                    isRunning[t] /\ isPaused[t]
    <3>1. late[t] = 0 /\ pc[t] = "unborn"
      BY DEF Init
    <3>2. ~interrupted[t]
      BY DEF Init
    <3> QED
      BY <3>1, <3>2
  <2> QED
    BY <2>1 DEF LateInv
<1>4. OrphanInv
  BY DEF Init, OrphanInv, NoOrphan, Started
<1> QED
  BY <1>1, <1>2, <1>3, <1>4 DEF IInv

\* Every step preserves the types.
LEMMA NextTypeOK == TypeOK /\ [Next]_vars => TypeOK'
<1> SUFFICES ASSUME TypeOK, [Next]_vars PROVE TypeOK'
  OBVIOUS
<1> USE InitResultsAssumption DEF TypeOK, Labels
<1>1. CASE SurfaceCreated
  BY <1>1 DEF SurfaceCreated, threadVars
<1>2. CASE SurfaceChanged
  BY <1>2 DEF SurfaceChanged, StartEmulation
<1>a. TellToStop => /\ current' = NoThread
                    /\ isRunning' \in [Threads -> BOOLEAN]
                    /\ interrupted' \in [Threads -> BOOLEAN]
                    /\ late' \in [Threads -> Nat]
  <2>1. CASE current = NoThread
    BY <2>1 DEF TellToStop
  <2>2. ASSUME TellToStop, current # NoThread
        PROVE  /\ current' = NoThread
               /\ isRunning' \in [Threads -> BOOLEAN]
               /\ interrupted' \in [Threads -> BOOLEAN]
               /\ late' \in [Threads -> Nat]
    <3>1. /\ current' = NoThread
          /\ isRunning' = [isRunning EXCEPT ![current] = FALSE]
          /\ interrupted' = [interrupted EXCEPT ![current] = TRUE]
          /\ late' = [late EXCEPT ![current] = 0]
      BY <2>2 DEF TellToStop
    <3> QED
      BY <3>1
  <2> QED
    BY <2>1, <2>2
<1>b. PauseEmulation \/ ResumeEmulation =>
                    /\ emulationRunning' \in BOOLEAN
                    /\ isPaused' \in [Threads -> BOOLEAN]
                    /\ late' \in [Threads -> Nat]
  <2>1. CASE current = NoThread
    BY <2>1 DEF PauseEmulation, ResumeEmulation
  <2>2. ASSUME current # NoThread, PauseEmulation \/ ResumeEmulation
        PROVE  /\ emulationRunning' \in BOOLEAN
               /\ isPaused' \in [Threads -> BOOLEAN]
               /\ late' \in [Threads -> Nat]
    <3>1. PICK b \in BOOLEAN :
            /\ emulationRunning' = ~b
            /\ isPaused' = [isPaused EXCEPT ![current] = b]
            /\ late' = [late EXCEPT ![current] = 0]
      BY <2>2 DEF PauseEmulation, ResumeEmulation
    <3> QED
      BY <3>1
  <2> QED
    BY <2>1, <2>2
<1>3. CASE SurfaceDestroyed
  BY <1>3, <1>a DEF SurfaceDestroyed
<1>4. CASE SurfaceDestroyedReturns
  BY <1>4 DEF SurfaceDestroyedReturns, ShutDownBridge, threadVars
<1>5. CASE OnResume
  BY <1>5, <1>b DEF OnResume
<1>6. CASE OnPause
  BY <1>6, <1>b DEF OnPause
<1>7. CASE OnDestroy
  BY <1>7, <1>a DEF OnDestroy
<1>8. CASE OnDestroyReturns
  BY <1>8 DEF OnDestroyReturns, ShutDownBridge, threadVars
<1>9. CASE PauseClicked
  BY <1>9, <1>b DEF PauseClicked
<1>10. ASSUME NEW t \in Threads, ThreadStep(t) PROVE TypeOK'
  <2>1. UNCHANGED uiVars
    BY <1>10 DEF ThreadStep
  <2>2. CASE LoopTop(t)
    BY <2>1, <2>2 DEF LoopTop, Goto, uiVars
  <2>3. CASE PauseCheck(t)
    BY <2>1, <2>3 DEF PauseCheck, Goto, uiVars
  <2>4. CASE SleepTimeout(t)
    BY <2>1, <2>4 DEF SleepTimeout, Goto, uiVars
  <2>5. CASE SleepInterrupted(t)
    BY <2>1, <2>5 DEF SleepInterrupted, Goto, uiVars
  <2>6. CASE RunFrame(t)
    BY <2>1, <2>6 DEF RunFrame, Goto, uiVars
  <2>7. CASE FrameEnd(t)
    BY <2>1, <2>7 DEF FrameEnd, Goto, uiVars
  <2>8. CASE Throttle(t)
    BY <2>1, <2>8 DEF Throttle, Goto, uiVars
  <2> QED
    BY <1>10, <2>2, <2>3, <2>4, <2>5, <2>6, <2>7, <2>8 DEF ThreadStep
<1>11. CASE UNCHANGED vars
  BY <1>11 DEF vars
<1> QED
  BY <1>1, <1>2, <1>3, <1>4, <1>5, <1>6, <1>7, <1>8, <1>9, <1>10, <1>11
  DEF Next, Callback, CallbackReturns

\* A step of one thread leaves the activity and every other thread alone, and
\* the flags of the thread itself belong to the UI thread.
LEMMA ThreadStepFrame ==
  ASSUME TypeOK, NEW t \in Threads, ThreadStep(t)
  PROVE  /\ UNCHANGED <<lifecycle, finishing, surface, ui, current,
                        emulationRunning, bridge, isRunning, isPaused>>
         /\ Started(t) /\ Started(t)'
         /\ \A s \in Threads \ {t} : /\ pc'[s] = pc[s]
                                     /\ late'[s] = late[s]
                                     /\ interrupted'[s] = interrupted[s]
<1> USE DEF TypeOK, Started, Goto, Labels
<1>1. UNCHANGED uiVars
  BY DEF ThreadStep
<1>2. CASE LoopTop(t)
  BY <1>1, <1>2 DEF LoopTop, uiVars
<1>3. CASE PauseCheck(t)
  BY <1>1, <1>3 DEF PauseCheck, uiVars
<1>4. CASE SleepTimeout(t)
  BY <1>1, <1>4 DEF SleepTimeout, uiVars
<1>5. CASE SleepInterrupted(t)
  BY <1>1, <1>5 DEF SleepInterrupted, uiVars
<1>6. CASE RunFrame(t)
  BY <1>1, <1>6 DEF RunFrame, uiVars
<1>7. CASE FrameEnd(t)
  BY <1>1, <1>7 DEF FrameEnd, uiVars
<1>8. CASE Throttle(t)
  BY <1>1, <1>8 DEF Throttle, uiVars
<1> QED
  BY <1>2, <1>3, <1>4, <1>5, <1>6, <1>7, <1>8 DEF ThreadStep

\* Every step preserves what the activity believes of its threads.
LEMMA NextFlagsInv == TypeOK /\ FlagsInv /\ [Next]_vars => FlagsInv'
<1> SUFFICES ASSUME TypeOK, FlagsInv, [Next]_vars PROVE FlagsInv'
  OBVIOUS
<1> USE NoThreadAssumption DEF FlagsInv, FlagsAgree, Started, TypeOK
<1>1. CASE SurfaceCreated
  BY <1>1 DEF SurfaceCreated, threadVars
<1>2. CASE SurfaceChanged
  BY <1>2 DEF SurfaceChanged, StartEmulation
<1>3. CASE SurfaceDestroyed
  BY <1>3 DEF SurfaceDestroyed, TellToStop
<1>4. CASE SurfaceDestroyedReturns
  BY <1>4 DEF SurfaceDestroyedReturns, ShutDownBridge, threadVars
<1>5. CASE OnResume
  BY <1>5 DEF OnResume, ResumeEmulation
<1>6. CASE OnPause
  BY <1>6 DEF OnPause, PauseEmulation
<1>7. CASE OnDestroy
  BY <1>7 DEF OnDestroy, TellToStop
<1>8. CASE OnDestroyReturns
  BY <1>8 DEF OnDestroyReturns, ShutDownBridge, threadVars
<1>9. CASE PauseClicked
  BY <1>9 DEF PauseClicked, PauseEmulation, ResumeEmulation
<1>10. ASSUME NEW t \in Threads, ThreadStep(t) PROVE FlagsInv'
  BY <1>10, ThreadStepFrame
<1>11. CASE UNCHANGED vars
  BY <1>11 DEF vars
<1> QED
  BY <1>1, <1>2, <1>3, <1>4, <1>5, <1>6, <1>7, <1>8, <1>9, <1>10, <1>11
  DEF Next, Callback, CallbackReturns

\* Every step preserves the count of frames begun under an order.
LEMMA NextLateInv ==
  TypeOK /\ FlagsInv /\ LateInv /\ [Next]_vars => LateInv'
<1> SUFFICES ASSUME TypeOK, FlagsInv, LateInv, [Next]_vars PROVE LateInv'
  OBVIOUS
<1> USE NoThreadAssumption DEF LateInv, Held, TypeOK
<1>1. CASE SurfaceCreated
  BY <1>1 DEF SurfaceCreated, threadVars
<1>2. CASE SurfaceChanged
  BY <1>2 DEF SurfaceChanged, StartEmulation
<1>3. CASE SurfaceDestroyed
  BY <1>3 DEF SurfaceDestroyed, TellToStop
<1>4. CASE SurfaceDestroyedReturns
  BY <1>4 DEF SurfaceDestroyedReturns, threadVars
<1>5. CASE OnResume
  BY <1>5 DEF OnResume, ResumeEmulation
<1>6. CASE OnPause
  BY <1>6 DEF OnPause, PauseEmulation
<1>7. CASE OnDestroy
  BY <1>7 DEF OnDestroy, TellToStop
<1>8. CASE OnDestroyReturns
  BY <1>8 DEF OnDestroyReturns, threadVars
<1>9. CASE PauseClicked
  BY <1>9 DEF PauseClicked, PauseEmulation, ResumeEmulation
<1>10. ASSUME NEW t \in Threads, ThreadStep(t) PROVE LateInv'
  <2> SUFFICES ASSUME NEW s \in Threads
               PROVE  /\ interrupted'[s] => ~isRunning'[s]
                      /\ late'[s] <= 1
                      /\ ~Held(s)' => late'[s] = 0
                      /\ pc'[s] = "surface" => late'[s] = 0
                      /\ pc'[s] \in {"pausecheck", "sleeping"} /\ late'[s] > 0 =>
                           isRunning'[s] /\ isPaused'[s]
    OBVIOUS
  <2>1. CASE s # t
    BY <1>10, <2>1, ThreadStepFrame
  <2>2. CASE s = t
    <3> USE <2>2 DEF Goto
    <3>2. CASE LoopTop(t)
      BY <3>2 DEF LoopTop
    <3>3. CASE PauseCheck(t)
      BY <3>3 DEF PauseCheck
    <3>4. CASE SleepTimeout(t)
      BY <3>4 DEF SleepTimeout
    <3>5. CASE SleepInterrupted(t)
      BY <3>5 DEF SleepInterrupted
    <3>6. CASE RunFrame(t)
      BY <3>6 DEF RunFrame
    <3>7. CASE FrameEnd(t)
      BY <3>7 DEF FrameEnd
    <3>8. CASE Throttle(t)
      BY <3>8 DEF Throttle
    <3> QED
      BY <1>10, <3>2, <3>3, <3>4, <3>5, <3>6, <3>7, <3>8 DEF ThreadStep
  <2> QED
    BY <2>1, <2>2
<1>11. CASE UNCHANGED vars
  BY <1>11 DEF vars
<1> QED
  BY <1>1, <1>2, <1>3, <1>4, <1>5, <1>6, <1>7, <1>8, <1>9, <1>10, <1>11
  DEF Next, Callback, CallbackReturns

\* Every step preserves that without resizes only the current thread runs.
LEMMA NextOrphanInv ==
  TypeOK /\ FlagsInv /\ OrphanInv /\ [Next]_vars => OrphanInv'
<1> SUFFICES ASSUME TypeOK, FlagsInv, OrphanInv, [Next]_vars, ~Resizes
             PROVE  OrphanInv'
  BY DEF OrphanInv, NoOrphan
<1> USE NoThreadAssumption
    DEF OrphanInv, NoOrphan, FlagsInv, FlagsAgree, Started, TypeOK
<1>1. CASE SurfaceCreated
  BY <1>1 DEF SurfaceCreated, threadVars
<1>2. CASE SurfaceChanged
  BY <1>2 DEF SurfaceChanged, StartEmulation
<1>3. CASE SurfaceDestroyed
  BY <1>3 DEF SurfaceDestroyed, TellToStop
<1>4. CASE SurfaceDestroyedReturns
  BY <1>4 DEF SurfaceDestroyedReturns, ShutDownBridge, threadVars
<1>5. CASE OnResume
  BY <1>5 DEF OnResume, ResumeEmulation
<1>6. CASE OnPause
  BY <1>6 DEF OnPause, PauseEmulation
<1>7. CASE OnDestroy
  BY <1>7 DEF OnDestroy, TellToStop
<1>8. CASE OnDestroyReturns
  BY <1>8 DEF OnDestroyReturns, ShutDownBridge, threadVars
<1>9. CASE PauseClicked
  BY <1>9 DEF PauseClicked, PauseEmulation, ResumeEmulation
<1>10. ASSUME NEW t \in Threads, ThreadStep(t) PROVE OrphanInv'
  BY <1>10, ThreadStepFrame
<1>11. CASE UNCHANGED vars
  BY <1>11 DEF vars
<1> QED
  BY <1>1, <1>2, <1>3, <1>4, <1>5, <1>6, <1>7, <1>8, <1>9, <1>10, <1>11
  DEF Next, Callback, CallbackReturns

\* The inductive invariant holds of every behavior.
THEOREM Inductive == Spec => []IInv
<1>1. IInv /\ [Next]_vars => IInv'
  BY NextTypeOK, NextFlagsInv, NextLateInv, NextOrphanInv DEF IInv
<1> QED
  BY InitIInv, <1>1, PTL DEF Spec

\* Every field of the activity and of its threads keeps its type.
THEOREM TypeCorrect == Spec => []TypeOK
<1>1. IInv => TypeOK
  BY DEF IInv
<1> QED
  BY Inductive, <1>1, PTL

\* The activity's own flag and its thread's never disagree between callbacks.
THEOREM FlagsAlwaysAgree == Spec => []FlagsAgree
<1>1. IInv => FlagsAgree
  BY DEF IInv, FlagsInv
<1> QED
  BY Inductive, <1>1, PTL

\* A thread told to pause or to stop begins at most one more frame.
THEOREM AtMostOneLateFrame == Spec => []HoldsWithinAFrame
<1>1. IInv => HoldsWithinAFrame
  BY DEF IInv, LateInv, HoldsWithinAFrame
<1> QED
  BY Inductive, <1>1, PTL

\* Without resizes no thread but the current one is left running.
THEOREM NoOrphanWithoutResize ==
  ASSUME ~Resizes PROVE Spec => []NoOrphan
<1>1. IInv => NoOrphan
  BY DEF IInv, OrphanInv
<1> QED
  BY Inductive, <1>1, PTL

\* Without resizes only stopped threads play on a bridge that is shut down.
THEOREM LiveBridgeWithoutResize ==
  ASSUME ~Resizes PROVE Spec => []FramesOnLiveBridge
<1>1. IInv => FramesOnLiveBridge
  BY NoThreadAssumption
  DEF IInv, OrphanInv, NoOrphan, FramesOnLiveBridge, Started
<1> QED
  BY Inductive, <1>1, PTL

\* The comment of surfaceDestroyed is true as long as no surface is resized.
THEOREM StopsWithSurfaceWithoutResize ==
  ASSUME ~Resizes PROVE Spec => []StopsWithSurface
<1>1. IInv => StopsWithSurface
  BY NoThreadAssumption DEF IInv, OrphanInv, NoOrphan, StopsWithSurface
<1> QED
  BY Inductive, <1>1, PTL

-----------------------------------------------------------------------------
(* Refinement: without resizes the activity implements Playback.           *)

\* The initial state maps to the initial state of Playback.
LEMMA InitPlayback == Init => PB!Init
<1> SUFFICES ASSUME Init PROVE PB!Init
  OBVIOUS
<1>1. ASSUME NEW t \in Threads
      PROVE  Order(t) = "none" /\ late[t] = 0 /\ pc[t] # "frame"
  BY DEF Init, Order, Started
<1> QED
  BY <1>1 DEF PB!Init

\* A step that touches no flag and moves no thread into or out of its loop or
\* a frame is a stutter of Playback.
LEMMA StutterPlayback ==
  ASSUME UNCHANGED <<isRunning, isPaused, late>>,
         \A t \in Threads : /\ Started(t)' = Started(t)
                            /\ (pc'[t] = "frame") = (pc[t] = "frame")
  PROVE  UNCHANGED PB!vars
<1>1. \A t \in Threads : Order(t)' = Order(t)
  BY DEF Order
<1> QED
  BY <1>1 DEF PB!vars

\* A start replaces no thread that is still under command.
LEMMA StartPlayback ==
  ASSUME IInv, IInv', ~Resizes, SurfaceChanged
  PROVE  [PB!Next]_PB!vars
<1> USE NoThreadAssumption DEF IInv, TypeOK
<1>1. CASE pc' = pc
  BY <1>1, StutterPlayback DEF SurfaceChanged, Started
<1>2. CASE pc' # pc
  <2>1. PICK t \in Threads : pc[t] = "unborn" /\ pc' = [pc EXCEPT ![t] = "loop"]
    BY <1>2 DEF SurfaceChanged, StartEmulation
  <2>2. \A s \in Threads : Started(s) => ~isRunning[s]
    BY DEF SurfaceChanged, OrphanInv, NoOrphan
  <2>3. \A s \in Threads : Order(s) \in {"none", "stop"}
    BY <2>2 DEF Order
  <2>4. isRunning[t] /\ ~isPaused[t]
    BY <2>1 DEF FlagsInv, Started
  <2>5. UNCHANGED <<isRunning, isPaused, late>>
    BY DEF SurfaceChanged
  <2>6. Order(t) = "none" /\ Order(t)' = "play"
    BY <2>1, <2>4, <2>5 DEF Order, Started
  <2>7. \A s \in Threads \ {t} : Order(s)' = Order(s)
    BY <2>1, <2>5 DEF Order, Started
  <2>8. \A s \in Threads : (pc'[s] = "frame") = (pc[s] = "frame")
    BY <2>1
  <2>9. PB!Start(t)
    BY <2>3, <2>5, <2>6, <2>7, <2>8 DEF PB!Start
  <2> QED
    BY <2>9 DEF PB!Next
<1> QED
  BY <1>1, <1>2

\* An order to one thread is an order of Playback, with its grace frame.
LEMMA TellPlayback ==
  ASSUME NEW t \in Threads, NEW new \in {"play", "hold", "stop"}, TypeOK,
         pc' = pc, Order(t) \in {"play", "hold"}, Order(t)' = new,
         late' = [late EXCEPT ![t] = 0],
         \A s \in Threads \ {t} : Order(s)' = Order(s)
  PROVE  PB!Next
<1>1. [s \in Threads |-> Order(s)]' = [[s \in Threads |-> Order(s)] EXCEPT ![t] = new]
  OBVIOUS
<1>2. [s \in Threads |-> late[s] = 0]' = [[s \in Threads |-> late[s] = 0] EXCEPT ![t] = TRUE]
  BY DEF TypeOK
<1>3. {s \in Threads : pc[s] = "frame"}' = {s \in Threads : pc[s] = "frame"}
  OBVIOUS
<1>4. PB!Tell(t, new)
  BY <1>1, <1>2, <1>3 DEF PB!Tell
<1> QED
  BY <1>4 DEF PB!Next

\* The orders of the UI thread: pause, resume and stop.
LEMMA OrdersPlayback ==
  ASSUME IInv, UNCHANGED pc,
         \/ PauseEmulation /\ emulationRunning /\ UNCHANGED isRunning
         \/ ResumeEmulation /\ UNCHANGED isRunning
         \/ TellToStop /\ UNCHANGED isPaused
  PROVE  [PB!Next]_PB!vars
<1> USE DEF IInv, TypeOK
<1>1. CASE current = NoThread
  BY <1>1, StutterPlayback DEF PauseEmulation, ResumeEmulation, TellToStop, Started
<1>2. CASE current # NoThread
  <2>1. PICK t \in Threads : t = current /\ Started(t) /\ isRunning[t]
    BY <1>2 DEF FlagsInv, FlagsAgree
  <2>2. Order(t) \in {"play", "hold"}
    BY <2>1 DEF Order
  <2>3. late' = [late EXCEPT ![t] = 0]
    BY <1>2, <2>1 DEF PauseEmulation, ResumeEmulation, TellToStop
  <2>4. \A s \in Threads \ {t} :
          isRunning'[s] = isRunning[s] /\ isPaused'[s] = isPaused[s]
    BY <1>2, <2>1 DEF PauseEmulation, ResumeEmulation, TellToStop
  <2>5. \A s \in Threads \ {t} : Order(s)' = Order(s)
    BY <2>4 DEF Order, Started
  <2>6. Order(t)' \in {"play", "hold", "stop"}
    BY <2>1 DEF Order, Started
  <2> QED
    BY <2>2, <2>3, <2>5, <2>6, TellPlayback
<1> QED
  BY <1>1, <1>2

\* A step of a thread begins a frame, ends one, or changes nothing there.
LEMMA ThreadPlayback ==
  ASSUME IInv, NEW t \in Threads, ThreadStep(t)
  PROVE  [PB!Next]_PB!vars
<1> USE DEF IInv, TypeOK
<1>1. /\ UNCHANGED <<isRunning, isPaused>>
      /\ \A s \in Threads : Started(s)' = Started(s)
  BY ThreadStepFrame DEF Started
<1>2. \A s \in Threads : Order(s)' = Order(s)
  BY <1>1 DEF Order
<1>3. CASE RunFrame(t) /\ surface # "none"
  <2>1. /\ pc[t] = "surface" /\ late[t] = 0 /\ Started(t)
        /\ pc' = [pc EXCEPT ![t] = "frame"]
        /\ late' = [late EXCEPT ![t] = IF Held(t) THEN @ + 1 ELSE @]
    BY <1>3 DEF RunFrame, Goto, LateInv, Started
  <2>2. {s \in Threads : pc[s] = "frame"}' = {s \in Threads : pc[s] = "frame"} \cup {t}
    BY <2>1
  <2>3. t \notin {s \in Threads : pc[s] = "frame"}
    BY <2>1
  <2>4. CASE Held(t)
    <3>1. Order(t) \in {"hold", "stop"}
      BY <2>1, <2>4 DEF Order, Held
    <3>a. late'[t] # 0 /\ \A s \in Threads \ {t} : late'[s] = late[s]
      BY <2>1, <2>4
    <3>2. [s \in Threads |-> late[s] = 0]'
            = [[s \in Threads |-> late[s] = 0] EXCEPT ![t] = FALSE]
      BY <3>a
    <3>3. PB!BeginFrame(t)
      BY <1>2, <2>1, <2>2, <2>3, <3>1, <3>2 DEF PB!BeginFrame
    <3> QED
      BY <3>3 DEF PB!Next
  <2>5. CASE ~Held(t)
    <3>1. Order(t) = "play"
      BY <2>1, <2>5 DEF Order, Held
    <3>2. late' = late
      BY <2>1, <2>5
    <3>3. PB!BeginFrame(t)
      BY <1>2, <2>1, <2>2, <2>3, <3>1, <3>2 DEF PB!BeginFrame
    <3> QED
      BY <3>3 DEF PB!Next
  <2> QED
    BY <2>4, <2>5
<1>4. CASE FrameEnd(t)
  <2>1. pc[t] = "frame" /\ pc' = [pc EXCEPT ![t] = "throttle"] /\ late' = late
    BY <1>4 DEF FrameEnd, Goto
  <2>2. {s \in Threads : pc[s] = "frame"}' = {s \in Threads : pc[s] = "frame"} \ {t}
    BY <2>1
  <2>3. PB!EndFrame(t)
    BY <1>2, <2>1, <2>2 DEF PB!EndFrame
  <2> QED
    BY <2>3 DEF PB!Next
<1>5. CASE \/ LoopTop(t) \/ PauseCheck(t) \/ SleepTimeout(t) \/ SleepInterrupted(t)
           \/ Throttle(t) \/ (RunFrame(t) /\ surface = "none")
  <2>1. late' = late /\ \A s \in Threads : (pc'[s] = "frame") = (pc[s] = "frame")
    BY <1>5 DEF LoopTop, PauseCheck, SleepTimeout, SleepInterrupted, Throttle,
                RunFrame, Goto
  <2> QED
    BY <1>1, <2>1, StutterPlayback
<1> QED
  BY <1>3, <1>4, <1>5 DEF ThreadStep

\* Without resizes the activity implements Playback: at most one thread is
\* under its command, and each order lets one more frame begin at most.
THEOREM ImplementsPlayback ==
  ASSUME ~Resizes PROVE Spec => PlaybackSpec
<1>1. ASSUME IInv, IInv', [Next]_vars PROVE [PB!Next]_PB!vars
  <2>1. CASE SurfaceCreated \/ SurfaceDestroyedReturns \/ OnDestroyReturns
    BY <2>1, StutterPlayback
    DEF SurfaceCreated, SurfaceDestroyedReturns, OnDestroyReturns, threadVars, Started
  <2>2. CASE SurfaceChanged
    BY <1>1, <2>2, StartPlayback
  <2>3. CASE SurfaceDestroyed \/ OnDestroy
    BY <1>1, <2>3, OrdersPlayback DEF SurfaceDestroyed, OnDestroy
  <2>4. CASE OnResume
    <3>1. CASE emulationRunning
      BY <2>4, <3>1, StutterPlayback DEF OnResume, Started
    <3>2. CASE ~emulationRunning
      BY <1>1, <2>4, <3>2, OrdersPlayback DEF OnResume
    <3> QED
      BY <3>1, <3>2
  <2>5. CASE OnPause
    <3>1. CASE emulationRunning
      BY <1>1, <2>5, <3>1, OrdersPlayback DEF OnPause
    <3>2. CASE ~emulationRunning
      BY <2>5, <3>2, StutterPlayback DEF OnPause, Started
    <3> QED
      BY <3>1, <3>2
  <2>6. CASE PauseClicked
    BY <1>1, <2>6, OrdersPlayback DEF PauseClicked
  <2>7. CASE \E t \in Threads : ThreadStep(t)
    BY <1>1, <2>7, ThreadPlayback
  <2>8. CASE UNCHANGED vars
    BY <2>8, StutterPlayback DEF vars, Started
  <2> QED
    BY <1>1, <2>1, <2>2, <2>3, <2>4, <2>5, <2>6, <2>7, <2>8
    DEF Next, Callback, CallbackReturns
<1> QED
  BY InitPlayback, Inductive, <1>1, PTL DEF Spec, PlaybackSpec, PB!Spec

-----------------------------------------------------------------------------
(* The gamepad.                                                            *)

\* Membership in what a set of views drives.
LEMMA DrivenMember ==
  ASSUME NEW S, NEW b PROVE b \in Driven(S) <=> \E v \in S : b \in Drives(v)
  BY DEF Driven

\* Between its two writes a listener has already written its own element.
PendingInv ==
    pending # -1 => /\ buttonStates[pending] = value
                    /\ pending \in Pressing <=> value = 1

\* What the current copy has seen was touched since it began.
RecentInv == Driven(Engaged) \subseteq recent /\ SeenWasTouched

GamepadInv == GamepadTypeOK /\ PendingInv /\ NoGhostPress /\ RecentInv /\ UnsharedIsExact

\* The initial state satisfies the invariant: no button is pressed.
LEMMA InitGamepadInv == GamepadInit => GamepadInv
<1> SUFFICES ASSUME GamepadInit PROVE GamepadInv
  OBVIOUS
<1>1. GamepadTypeOK
  BY NumButtonsAssumption DEF GamepadInit, GamepadTypeOK, Buttons
<1>2. \A b \in Buttons : buttonStates[b] = 0 /\ seen[b] = 0
  BY DEF GamepadInit
<1>3. Driven(Engaged) = {}
  BY DEF GamepadInit, Engaged, Pressing, Driven
<1>4. PendingInv
  BY DEF GamepadInit, PendingInv
<1>5. NoGhostPress /\ RecentInv
  BY <1>2, <1>3 DEF NoGhostPress, RecentInv, SeenWasTouched
<1>6. UnsharedIsExact
  BY <1>2 DEF GamepadInit, UnsharedIsExact, Pressing
<1> QED
  BY <1>1, <1>4, <1>5, <1>6 DEF GamepadInv

\* Every step preserves the types.
LEMMA NextGamepadTypeOK == GamepadTypeOK /\ [GamepadNext]_gamepadVars => GamepadTypeOK'
<1> SUFFICES ASSUME GamepadTypeOK, [GamepadNext]_gamepadVars PROVE GamepadTypeOK'
  OBVIOUS
<1> USE NumButtonsAssumption DEF GamepadTypeOK, Buttons
<1>1. ASSUME NEW v \in Buttons, Down(v) \/ Up(v) PROVE GamepadTypeOK'
  <2>1. PICK new \in {0, 1} : Touch(v, new)
    BY <1>1 DEF Down, Up
  <2>2. Drives(v) \subseteq Buttons
    BY DEF Drives
  <2> QED
    BY <2>1, <2>2 DEF Touch
<1>2. ASSUME NEW v \in Buttons, Cancel(v) PROVE GamepadTypeOK'
  BY <1>2 DEF Cancel
<1>3. CASE Remap
  BY <1>3 DEF Remap
<1>4. CASE CopyElement
  BY <1>4 DEF CopyElement
<1>5. CASE NextFrame
  <2>a. \A u \in Engaged : Drives(u) \subseteq Buttons
    BY DEF Engaged, Pressing, Drives
  <2>1. recent' \subseteq Buttons
    BY <1>5, <2>a DEF NextFrame, Driven
  <2> QED
    BY <1>5, <2>1 DEF NextFrame
<1>6. CASE UNCHANGED gamepadVars
  BY <1>6 DEF gamepadVars
<1> QED
  BY <1>1, <1>2, <1>3, <1>4, <1>5, <1>6 DEF GamepadNext

\* The first write of a listener preserves the invariant.
LEMMA TouchGamepadInv ==
  ASSUME GamepadInv, GamepadTypeOK', NEW v \in Buttons, Down(v) \/ Up(v)
  PROVE  GamepadInv'
<1> USE NumButtonsAssumption DEF GamepadInv, GamepadTypeOK
<1>0. PICK new \in {0, 1} : Touch(v, new)
  BY DEF Down, Up
<1>1. /\ pending = -1 /\ v # -1
      /\ Pressing' = IF new = 1 THEN Pressing \cup {v} ELSE Pressing \ {v}
      /\ buttonStates' = [buttonStates EXCEPT ![v] = new]
      /\ pending' = v /\ value' = new
      /\ recent' = recent \cup Drives(v)
      /\ UNCHANGED <<remapped, cursor, seen>>
  BY <1>0 DEF Touch, Buttons, Pressing
<1>2. \A u, b \in Buttons : b \in Drives(u)' <=> b \in Drives(u)
  BY <1>1 DEF Drives
<1>3. Engaged = Pressing /\ Engaged' = Pressing \cup {v}
  BY <1>1 DEF Engaged
<1>4. PendingInv'
  BY <1>1 DEF PendingInv
<1>5. v \in Drives(v)
  BY DEF Drives
<1>6. NoGhostPress'
  <2> SUFFICES ASSUME NEW b \in Buttons, buttonStates'[b] = 1
               PROVE  \E u \in Engaged' : b \in Drives(u)'
    BY DrivenMember, <1>3 DEF NoGhostPress, Driven
  <2>1. CASE b = v
    BY <1>2, <1>3, <1>5, <2>1
  <2>2. CASE b # v
    <3>1. buttonStates[b] = 1
      BY <1>1, <2>2
    <3>2. PICK u \in Engaged : b \in Drives(u)
      BY <3>1, DrivenMember DEF NoGhostPress
    <3>3. u \in Buttons
      BY DEF Engaged, Pressing
    <3> QED
      BY <1>2, <1>3, <3>2, <3>3
  <2> QED
    BY <2>1, <2>2
<1>7. RecentInv'
  <2>1. ASSUME NEW u \in Engaged' PROVE Drives(u)' \subseteq recent'
    <3>1. Drives(u)' = Drives(u)
      BY <1>1 DEF Drives
    <3>2. u \in Engaged => Drives(u) \subseteq recent
      BY DrivenMember DEF RecentInv
    <3> QED
      BY <1>1, <1>3, <3>1, <3>2
  <2>a. Driven(Engaged)' \subseteq recent'
    BY <2>1 DEF Driven
  <2>2. SeenWasTouched'
    BY <1>1 DEF RecentInv, SeenWasTouched
  <2> QED
    BY <2>a, <2>2 DEF RecentInv
<1>8. UnsharedIsExact'
  BY <1>1 DEF UnsharedIsExact, Unshared
<1> QED
  BY <1>4, <1>6, <1>7, <1>8

\* So does the second write.
LEMMA RemapGamepadInv ==
  ASSUME GamepadInv, GamepadTypeOK', Remap
  PROVE  GamepadInv'
<1> USE NumButtonsAssumption DEF GamepadInv, GamepadTypeOK
<1>1. PICK v \in Buttons : v = pending /\ v # -1
  BY DEF Remap
<1>2. /\ pending' = -1
      /\ UNCHANGED <<remapped, Pressing, value, cursor, seen, recent>>
      /\ buttonStates[v] = value
      /\ v \in Pressing <=> value = 1
  BY <1>1 DEF Remap, PendingInv, Pressing
<1>3. \A b \in Buttons :
        buttonStates'[b] = IF b \in Drives(v) THEN value ELSE buttonStates[b]
  BY <1>1, <1>2 DEF Remap, Drives, Buttons
<1>4. \A u, b \in Buttons : b \in Drives(u)' <=> b \in Drives(u)
  BY <1>2 DEF Drives
<1>5. Engaged = Pressing \cup {v} /\ Engaged' = Pressing
  BY <1>1, <1>2 DEF Engaged, Buttons
<1>6. PendingInv'
  BY <1>2 DEF PendingInv
<1>7. NoGhostPress'
  <2> SUFFICES ASSUME NEW b \in Buttons, buttonStates'[b] = 1
               PROVE  \E u \in Pressing : b \in Drives(u)'
    BY <1>5, DrivenMember DEF NoGhostPress, Driven
  <2>1. CASE b \in Drives(v)
    BY <1>2, <1>3, <1>4, <2>1
  <2>2. CASE b \notin Drives(v)
    <3>1. PICK u \in Engaged : b \in Drives(u)
      BY <1>3, <2>2, DrivenMember DEF NoGhostPress
    <3>2. u \in Buttons
      BY DEF Engaged, Pressing
    <3> QED
      BY <1>4, <1>5, <2>2, <3>1, <3>2
  <2> QED
    BY <2>1, <2>2
<1>8. RecentInv'
  <2>a. \A u : Drives(u)' = Drives(u)
    BY <1>2 DEF Drives
  <2>1. Driven(Engaged)' \subseteq Driven(Engaged)
    BY <1>5, <2>a DEF Driven
  <2>2. SeenWasTouched'
    BY <1>2 DEF RecentInv, SeenWasTouched
  <2> QED
    BY <1>2, <2>1, <2>2 DEF RecentInv
<1>9. UnsharedIsExact'
  <2>1. ASSUME NEW b \in Buttons, Unshared(b) PROVE buttonStates'[b] = buttonStates[b]
    BY <1>1, <1>2, <1>3, <2>1 DEF Unshared, Drives
  <2> QED
    BY <1>2, <2>1 DEF UnsharedIsExact, Unshared
<1> QED
  BY <1>6, <1>7, <1>8, <1>9

\* A cancelled touch changes neither the array nor what the listener has seen.
LEMMA CancelGamepadInv ==
  ASSUME GamepadInv, GamepadTypeOK', NEW v \in Buttons, Cancel(v)
  PROVE  GamepadInv'
<1>1. UNCHANGED <<remapped, Pressing, buttonStates, pending, value, cursor, seen, recent>>
  BY DEF Cancel, Pressing
<1>2. Driven(Engaged)' = Driven(Engaged)
  BY <1>1 DEF Driven, Engaged, Drives
<1> QED
  BY <1>1, <1>2 DEF GamepadInv, PendingInv, NoGhostPress, RecentInv, SeenWasTouched,
                    UnsharedIsExact, Unshared

\* The copy of the emulation thread preserves it, racing with the listeners.
LEMMA CopyGamepadInv ==
  ASSUME GamepadInv, GamepadTypeOK', CopyElement \/ NextFrame
  PROVE  GamepadInv'
<1> USE NumButtonsAssumption DEF GamepadInv, GamepadTypeOK
<1>1. UNCHANGED <<remapped, Pressing, buttonStates, pending, value>>
  BY DEF CopyElement, NextFrame, Pressing
<1>2. Driven(Engaged)' = Driven(Engaged)
  BY <1>1 DEF Driven, Engaged, Drives
<1>3. PendingInv' /\ NoGhostPress' /\ UnsharedIsExact'
  BY <1>1, <1>2 DEF PendingInv, NoGhostPress, UnsharedIsExact, Unshared, Drives
<1>4. CASE CopyElement
  <2>1. \A b \in Buttons : b < cursor' /\ seen'[b] = 1 => b \in recent'
    BY <1>4 DEF CopyElement, RecentInv, SeenWasTouched, NoGhostPress, Buttons
  <2>2. recent' = recent
    BY <1>4 DEF CopyElement
  <2> QED
    BY <1>2, <1>3, <2>1, <2>2 DEF RecentInv, SeenWasTouched
<1>5. CASE NextFrame
  <2>1. \A b \in Buttons : ~(b < cursor')
    BY <1>5 DEF NextFrame, Buttons
  <2>2. recent' = Driven(Engaged)
    BY <1>5 DEF NextFrame
  <2> QED
    BY <1>2, <1>3, <2>1, <2>2 DEF RecentInv, SeenWasTouched
<1> QED
  BY <1>4, <1>5

\* The invariant holds of every behavior, cancelled touches included.
THEOREM GamepadInductive == GamepadSpec => []GamepadInv
<1>1. ASSUME GamepadInv, [GamepadNext]_gamepadVars PROVE GamepadInv'
  <2>1. GamepadTypeOK'
    BY <1>1, NextGamepadTypeOK DEF GamepadInv
  <2>2. ASSUME NEW v \in Buttons, Down(v) \/ Up(v) PROVE GamepadInv'
    BY <1>1, <2>1, <2>2, TouchGamepadInv
  <2>3. ASSUME NEW v \in Buttons, Cancel(v) PROVE GamepadInv'
    BY <1>1, <2>1, <2>3, CancelGamepadInv
  <2>4. CASE Remap
    BY <1>1, <2>1, <2>4, RemapGamepadInv
  <2>5. CASE CopyElement \/ NextFrame
    BY <1>1, <2>1, <2>5, CopyGamepadInv
  <2>6. CASE UNCHANGED gamepadVars
    BY <1>1, <2>6
    DEF gamepadVars, GamepadInv, GamepadTypeOK, PendingInv, NoGhostPress, RecentInv, SeenWasTouched,
        UnsharedIsExact, Unshared, Driven, Engaged, Pressing, Drives
  <2> QED
    BY <1>1, <2>2, <2>3, <2>4, <2>5, <2>6 DEF GamepadNext
<1> QED
  BY InitGamepadInv, <1>1, PTL DEF GamepadSpec

\* Every variable of the gamepad keeps its type.
THEOREM GamepadTypeCorrect == GamepadSpec => []GamepadTypeOK
<1>1. GamepadInit => GamepadTypeOK
  BY InitGamepadInv DEF GamepadInv
<1> QED
  BY <1>1, NextGamepadTypeOK, PTL DEF GamepadSpec

\* No press is left behind but that of a cancelled touch.
THEOREM NoGhost == GamepadSpec => []NoGhostPress
<1>1. GamepadInv => NoGhostPress
  BY DEF GamepadInv
<1> QED
  BY GamepadInductive, <1>1, PTL

\* The racing copy of a frame holds real touches only.
THEOREM SeenIsReal == GamepadSpec => []SeenWasTouched
<1>1. GamepadInv => SeenWasTouched
  BY DEF GamepadInv, RecentInv
<1> QED
  BY GamepadInductive, <1>1, PTL

\* A button that no other is remapped to follows its own listener exactly.
THEOREM UnsharedExact == GamepadSpec => []UnsharedIsExact
<1>1. GamepadInv => UnsharedIsExact
  BY DEF GamepadInv
<1> QED
  BY GamepadInductive, <1>1, PTL
=============================================================================
