------------------------------ MODULE CoreThread ------------------------------
(***************************************************************************)
(* The thread that runs an emulated machine (mgba-master/src/core/         *)
(* thread.c) and the calls by which a frontend pauses, interrupts, resets  *)
(* and ends it.                                                            *)
(*                                                                         *)
(* All of it is one state, one set of requests and one depth counter under *)
(* stateMutex: an action is what a thread does while it holds the mutex.   *)
(* The machine may be asleep in a video or audio sync, waiting for a       *)
(* consumer that is the very thread which is now calling: every waiting    *)
(* call therefore takes the sync flags away, and gives them back.          *)
(***************************************************************************)
EXTENDS Integers, FiniteSets

CONSTANTS
    Callers,        \* threads of the frontend that make waiting calls
    Synced,         \* the syncs that the options turn on
    Crashes,        \* may the machine hit a fatal error?
    FromThread,     \* do callbacks of the machine interrupt their own thread?
    MaxDepth,       \* bound: interrupts one caller nests
    MaxPeerCalls    \* bound: calls of other machines linked to this one

Channels == {"video", "audio"}

ASSUME SyncedAssumption == Synced \subseteq Channels
ASSUME CrashesAssumption == Crashes \in BOOLEAN
ASSUME FromThreadAssumption == FromThread \in BOOLEAN
ASSUME MaxDepthAssumption == MaxDepth \in Nat
ASSUME MaxPeerCallsAssumption == MaxPeerCalls \in Nat

VARIABLES
    \* struct mCoreThreadInternal
    state, requested, interruptDepth,
    syncWait,      \* sync.videoFrameWait and sync.audioWait: those that are set
    full,          \* a frame is pending, the audio buffer is at its high water
    \* _mCoreThreadRun
    cpu,           \* where the thread is
    signalled,     \* was the condition it sleeps on broadcast?
    pendingRequests, wasPaused,
    \* the callers
    pc, op,        \* where a caller is, and in which call
    saved,         \* its videoFrameWait and audioWait of _waitPrologue
    held,          \* interrupts it holds
    run,           \* the caller whose function threadContext->run is
    served,        \* history: how often its last request was carried out, up to 2
    userPaused,    \* history: a pause has returned and was not taken back
    peerCalls

coreVars == <<state, requested, interruptDepth, syncWait, full>>
cpuVars == <<cpu, signalled, pendingRequests, wasPaused>>
callerVars == <<pc, op, saved, held, run, served, userPaused>>
vars == <<state, requested, interruptDepth, syncWait, full, cpu, signalled,
          pendingRequests, wasPaused, pc, op, saved, held, run, served,
          userPaused, peerCalls>>

Waiting == {"INTERRUPTED", "PAUSED", "CRASHED"}
Ending == {"EXITING", "SHUTDOWN"}
States == {"INITIALIZED", "RUNNING", "REQUEST", "INTERRUPTING"} \cup Waiting \cup Ending
Requests == {"PAUSE", "WAIT", "RESET", "RUN_ON"}
Pausing == {"PAUSE", "WAIT"}

\* The thread inside runLoop: running code of the machine, calling back, asleep
\* in a sync, or about to return.
InLoop == {"loop", "callback", "video", "audio", "return"}
Asleep == {"video", "audio", "parked", "drain"}
Ops == {"none", "Pause", "Unpause", "TogglePause", "Reset", "RunFunction",
        "Interrupt", "End"}

TypeOK ==
    /\ state \in States
    /\ requested \subseteq Requests
    /\ interruptDepth \in Nat
    /\ syncWait \subseteq Channels
    /\ full \subseteq Channels
    /\ cpu \in InLoop \cup {"boot", "top", "parked", "drain", "woken",
                            "deferred", "runon", "done"}
    /\ signalled \in BOOLEAN
    /\ pendingRequests \subseteq Requests
    /\ wasPaused \in BOOLEAN
    /\ pc \in [Callers -> {"idle", "blocked", "notified", "waiting", "ending", "ended"}]
    /\ op \in [Callers -> Ops]
    /\ saved \in [Callers -> SUBSET Channels]
    /\ held \in [Callers -> Nat]
    /\ run \in SUBSET Callers
    /\ served \in [Callers -> 0 .. 2]
    /\ userPaused \in BOOLEAN
    /\ peerCalls \in Nat

Init ==
    /\ state = "INITIALIZED"
    /\ requested = {}
    /\ interruptDepth = 0
    /\ syncWait = Synced
    /\ full = {}
    /\ cpu = "boot"
    /\ signalled = FALSE
    /\ pendingRequests = {}
    /\ wasPaused = FALSE
    /\ pc = [c \in Callers |-> "idle"]
    /\ op = [c \in Callers |-> "none"]
    /\ saved = [c \in Callers |-> {}]
    /\ held = [c \in Callers |-> 0]
    /\ run = {}
    /\ served = [c \in Callers |-> 0]
    /\ userPaused = FALSE
    /\ peerCalls = 0

-----------------------------------------------------------------------------
(* Helpers under the mutex.                                                *)

\* mCoreThreadIsActive
IsActive == state \notin {"INITIALIZED", "CRASHED"} \cup Ending

\* Mutant of Poke: a request breaks an interrupt that was acknowledged.
PokeInterrupted == IF state \in {"RUNNING", "PAUSED", "CRASHED", "INTERRUPTED"}
                   THEN "REQUEST" ELSE state

\* Mutant of Poke: no request reaches a crashed machine.
PokeNotCrashed == IF state \in {"RUNNING", "PAUSED"} THEN "REQUEST" ELSE state

\* _pokeRequest: the thread must look at its requests again.
Poke == IF state \in {"RUNNING", "PAUSED", "CRASHED"} THEN "REQUEST" ELSE state

\* Where the thread sleeps on the condition of a sync.
SleepsOn(channel) == cpu = channel \/ (channel = "audio" /\ cpu = "drain")

\* Broadcast of stateOnThreadCond: the machine's thread and blocked callers.
WakeOnThread ==
    /\ signalled' = (signalled \/ cpu = "parked")
    /\ pc' = [c \in Callers |-> IF pc[c] = "blocked" THEN "notified" ELSE pc[c]]

Interrupted == state \in {"INTERRUPTED", "INTERRUPTING"}

\* What ends the loop of a waiting call.
StillWaiting(o) ==
    CASE o = "Interrupt" -> state = "INTERRUPTING"
      [] o = "Reset" -> "RESET" \in requested
      [] o = "RunFunction" -> "RUN_ON" \in requested
      [] OTHER -> state = "REQUEST"

-----------------------------------------------------------------------------
(* The calls of a frontend.  A caller that holds an interrupt only nests    *)
(* another one or continues, and makes no call after the end.               *)

CanCall(c) == pc[c] = "idle" /\ state # "INITIALIZED"

\* A new call: nothing is served yet, and a pause may be taken back.
Begin(c, o) ==
    /\ op' = [op EXCEPT ![c] = o]
    /\ served' = [served EXCEPT ![c] = 0]
    /\ userPaused' = (userPaused /\ o \notin {"Unpause", "TogglePause"})

\* _waitPrologue and the first test of the loop: the call waits or returns.
WaitUnless(c, returns, pcs) ==
    IF returns
    THEN /\ pc' = pcs
         /\ UNCHANGED <<syncWait, saved>>
    ELSE /\ pc' = [pcs EXCEPT ![c] = "waiting"]
         /\ saved' = [saved EXCEPT ![c] = syncWait]
         /\ syncWait' = {}

\* _sendRequest
Send(r) ==
    /\ requested' = requested \cup {r}
    /\ state' = Poke

\* _cancelRequest, with the callers that it wakes
Cancel(r) ==
    /\ requested' = requested \ {r}
    /\ state' = Poke

Idle(c) == [pc EXCEPT ![c] = "idle"]

SendPause(c) ==
    /\ Send("PAUSE")
    /\ WaitUnless(c, Poke # "REQUEST", Idle(c))
    /\ UNCHANGED <<signalled, run>>

CancelPause(c) ==
    /\ Cancel("PAUSE")
    /\ signalled' = (signalled \/ cpu = "parked")
    /\ LET pcs == [d \in Callers |-> IF pc[d] = "blocked" /\ d # c
                                     THEN "notified" ELSE Idle(c)[d]]
       IN WaitUnless(c, Poke # "REQUEST", pcs)
    /\ UNCHANGED run

\* What a call does once no interrupt stands in its way.
Proceed(c, o) ==
    /\ \/ o = "Pause" /\ SendPause(c)
       \/ o = "TogglePause" /\ IF "PAUSE" \in requested
                               THEN CancelPause(c) ELSE SendPause(c)
       \/ /\ o = "Reset"
          /\ Send("RESET")
          /\ WaitUnless(c, FALSE, pc)
          /\ UNCHANGED <<signalled, run>>
       \/ /\ o = "RunFunction"
          /\ run' = {c}
          /\ Send("RUN_ON")
          /\ WaitUnless(c, FALSE, pc)
          /\ UNCHANGED signalled
       \/ /\ o = "End"
          /\ state' = "EXITING"
          /\ signalled' = (signalled \/ cpu = "parked")
          /\ pc' = [d \in Callers |-> IF d = c THEN "ending"
                                      ELSE IF pc[d] = "blocked" THEN "notified"
                                      ELSE pc[d]]
          /\ UNCHANGED <<requested, syncWait, saved, run>>
    /\ UNCHANGED <<interruptDepth, full, cpu, pendingRequests, wasPaused, held, peerCalls>>

\* mCoreThreadPause, TogglePause, Reset, RunFunction and End begin with
\* _waitOnInterrupt; End looks first whether the thread is gone.
Call(c, o) ==
    /\ CanCall(c)
    /\ held[c] = 0
    /\ o \in {"Pause", "TogglePause", "Reset", "RunFunction", "End"}
    /\ o = "End" => state # "SHUTDOWN"
    /\ Begin(c, o)
    /\ IF Interrupted
       THEN /\ pc' = [pc EXCEPT ![c] = "blocked"]
            /\ UNCHANGED <<coreVars, cpuVars, saved, held, run, peerCalls>>
       ELSE Proceed(c, o)

\* _waitOnInterrupt goes on, or waits again.
Retry(c) ==
    /\ pc[c] = "notified"
    /\ IF Interrupted
       THEN /\ pc' = [pc EXCEPT ![c] = "blocked"]
            /\ UNCHANGED <<coreVars, cpuVars, saved, held, run, peerCalls>>
       ELSE Proceed(c, op[c])
    /\ UNCHANGED <<op, served, userPaused>>

\* mCoreThreadUnpause does not wait for an interrupt to pass.
Unpause(c) ==
    /\ CanCall(c)
    /\ held[c] = 0
    /\ Begin(c, "Unpause")
    /\ CancelPause(c)
    /\ UNCHANGED <<interruptDepth, full, cpu, pendingRequests, wasPaused, held, peerCalls>>

\* mCoreThreadInterrupt: only the first one, of an active thread, waits.
Interrupt(c) ==
    /\ CanCall(c)
    /\ held[c] < MaxDepth
    /\ Begin(c, "Interrupt")
    /\ interruptDepth' = interruptDepth + 1
    /\ IF interruptDepth > 0 \/ ~IsActive
       THEN /\ held' = [held EXCEPT ![c] = @ + 1]
            /\ UNCHANGED <<state, syncWait, pc, saved>>
       ELSE /\ state' = "INTERRUPTING"
            /\ WaitUnless(c, FALSE, pc)
            /\ UNCHANGED held
    /\ UNCHANGED <<requested, full, cpuVars, run, peerCalls>>

\* Mutant of Resume: the thread runs again whatever was requested.
ResumeRuns ==
    /\ interruptDepth' = interruptDepth - 1
    /\ IF interruptDepth = 1 /\ IsActive
       THEN /\ state' = "RUNNING"
            /\ WakeOnThread
       ELSE UNCHANGED <<state, signalled, pc>>

\* Mutant of Resume: nobody is woken.
ResumeSilently ==
    /\ interruptDepth' = interruptDepth - 1
    /\ IF interruptDepth = 1 /\ IsActive
       THEN state' = IF requested # {} THEN "REQUEST" ELSE "RUNNING"
       ELSE UNCHANGED state
    /\ UNCHANGED <<signalled, pc>>

\* mCoreThreadContinue, as far as the thread and the others see it.
Resume ==
    /\ interruptDepth' = interruptDepth - 1
    /\ IF interruptDepth = 1 /\ IsActive
       THEN /\ state' = IF requested # {} THEN "REQUEST" ELSE "RUNNING"
            /\ WakeOnThread
       ELSE UNCHANGED <<state, signalled, pc>>

Continue(c) ==
    /\ pc[c] = "idle"
    /\ held[c] > 0
    /\ held' = [held EXCEPT ![c] = @ - 1]
    /\ Resume
    /\ UNCHANGED <<requested, syncWait, full, cpu, pendingRequests, wasPaused,
                   op, saved, run, served, userPaused, peerCalls>>

\* Mutant of ClearCrashed: the parked thread is not woken.
ClearSilently(c) ==
    /\ CanCall(c)
    /\ held[c] = 0
    /\ state = "CRASHED"
    /\ state' = "REQUEST"
    /\ UNCHANGED <<requested, interruptDepth, syncWait, full, cpuVars,
                   callerVars, peerCalls>>

\* mCoreThreadClearCrashed, and SetRewinding on a crashed machine.
ClearCrashed(c) ==
    /\ CanCall(c)
    /\ held[c] = 0
    /\ state = "CRASHED"
    /\ state' = "REQUEST"
    /\ WakeOnThread
    /\ UNCHANGED <<requested, interruptDepth, syncWait, full, cpu,
                   pendingRequests, wasPaused, op, saved, held, run, served,
                   userPaused, peerCalls>>

\* Mutant of WaitLoop: the thread is told of a request only once.
PokeOnce(c) ==
    /\ pc[c] = "waiting"
    /\ signalled' = (signalled \/ cpu \in Asleep)
    /\ LET pcs == [d \in Callers |-> IF pc[d] = "blocked" THEN "notified" ELSE pc[d]]
       IN IF StillWaiting(op[c])
          THEN /\ pc' = pcs
               /\ UNCHANGED <<syncWait, saved, held, userPaused>>
          ELSE /\ pc' = [pcs EXCEPT ![c] = "idle"]
               /\ syncWait' = saved[c]
               /\ saved' = [saved EXCEPT ![c] = {}]
               /\ held' = [held EXCEPT ![c] = IF op[c] = "Interrupt" THEN @ + 1 ELSE @]
               /\ userPaused' = (userPaused \/ (op[c] \in {"Pause", "TogglePause"}
                                                /\ "PAUSE" \in requested))
    /\ UNCHANGED <<state, requested, interruptDepth, full, cpu, pendingRequests,
                   wasPaused, op, run, served, peerCalls>>

\* The loop of _waitOnRequest or _waitUntilNotState: _wait, then the test.
\* A call that returns gives the sync flags back (_waitEpilogue).
WaitLoop(c) ==
    /\ pc[c] = "waiting"
    /\ signalled' = (signalled \/ cpu \in Asleep)
    /\ LET pcs == [d \in Callers |-> IF pc[d] = "blocked" THEN "notified" ELSE pc[d]]
       IN IF StillWaiting(op[c])
          THEN /\ pc' = pcs
               /\ state' = IF op[c] \in {"Reset", "RunFunction"} THEN Poke ELSE state
               /\ UNCHANGED <<syncWait, saved, held, userPaused>>
          ELSE /\ pc' = [pcs EXCEPT ![c] = "idle"]
               /\ syncWait' = saved[c]
               /\ saved' = [saved EXCEPT ![c] = {}]
               /\ held' = [held EXCEPT ![c] = IF op[c] = "Interrupt" THEN @ + 1 ELSE @]
               /\ userPaused' = (userPaused \/ (op[c] \in {"Pause", "TogglePause"}
                                                /\ "PAUSE" \in requested))
               /\ UNCHANGED state
    /\ UNCHANGED <<requested, interruptDepth, full, cpu, pendingRequests,
                   wasPaused, op, run, served, peerCalls>>

\* Mutant of EndSync: the flags are cleared, but nobody is woken.
EndSilently(c) ==
    /\ pc[c] = "ending"
    /\ pc' = [pc EXCEPT ![c] = "ended"]
    /\ syncWait' = {}
    /\ UNCHANGED <<state, requested, interruptDepth, full, cpuVars, op, saved,
                   held, run, served, userPaused, peerCalls>>

\* The rest of mCoreThreadEnd, outside the mutex: no sync holds the thread.
EndSync(c) ==
    /\ pc[c] = "ending"
    /\ pc' = [pc EXCEPT ![c] = "ended"]
    /\ syncWait' = {}
    /\ signalled' = (signalled \/ SleepsOn("video") \/ SleepsOn("audio"))
    /\ UNCHANGED <<state, requested, interruptDepth, full, cpu, pendingRequests,
                   wasPaused, op, saved, held, run, served, userPaused, peerCalls>>

Caller(c) ==
    \/ \E o \in Ops : Call(c, o)
    \/ Unpause(c) \/ Interrupt(c) \/ ClearCrashed(c)

\* The steps of a caller that has begun something.
CallerStep(c) == Retry(c) \/ Continue(c) \/ WaitLoop(c) \/ EndSync(c)

\* Another machine on a link cable makes this one wait, or lets it go on.
Peer ==
    /\ state # "INITIALIZED"
    /\ peerCalls < MaxPeerCalls
    /\ peerCalls' = peerCalls + 1
    /\ \/ Send("WAIT") /\ UNCHANGED <<signalled, pc>>
       \/ Cancel("WAIT") /\ WakeOnThread
    /\ UNCHANGED <<interruptDepth, syncWait, full, cpu, pendingRequests,
                   wasPaused, op, saved, held, run, served, userPaused>>

\* The display takes the frame, the audio device empties the buffer.
Consume(channel) ==
    /\ channel \in full
    /\ full' = full \ {channel}
    /\ signalled' = (signalled \/ SleepsOn(channel))
    /\ UNCHANGED <<state, requested, interruptDepth, syncWait, cpu,
                   pendingRequests, wasPaused, peerCalls>>
    /\ UNCHANGED callerVars

-----------------------------------------------------------------------------
(* _mCoreThreadRun.                                                        *)

Boot ==
    /\ cpu = "boot"
    /\ state' = "RUNNING"
    /\ cpu' = "deferred"
    /\ UNCHANGED <<requested, interruptDepth, syncWait, full, signalled,
                   pendingRequests, wasPaused>>
    /\ UNCHANGED callerVars

\* while (state == RUNNING) runLoop
EnterLoop ==
    /\ cpu \in {"top", "return"}
    /\ state = "RUNNING"
    /\ cpu' = "loop"
    /\ UNCHANGED <<signalled, pendingRequests, wasPaused, coreVars>>
    /\ UNCHANGED callerVars

\* What may happen in one visit to runLoop, besides nothing.
Produce(channel) ==
    /\ cpu = "loop"
    /\ full' = full \cup {channel}
    /\ cpu' = IF channel \in syncWait THEN channel ELSE "return"
    /\ signalled' = FALSE
    /\ UNCHANGED <<state, requested, interruptDepth, syncWait,
                   pendingRequests, wasPaused>>
    /\ UNCHANGED callerVars

\* A frame callback pauses its own thread; a linked machine waits for a peer.
RequestFromThread(r) ==
    /\ cpu = "loop"
    /\ r \in Pausing
    /\ Send(r)
    /\ cpu' = "return"
    /\ UNCHANGED <<interruptDepth, syncWait, full, signalled, pendingRequests, wasPaused>>
    /\ UNCHANGED callerVars

\* mCoreThreadInterruptFromThread and the Continue of the same callback.
InterruptFromThread ==
    /\ FromThread
    /\ cpu = "loop"
    /\ cpu' = "callback"
    /\ interruptDepth' = interruptDepth + 1
    /\ state' = IF interruptDepth > 0 \/ ~IsActive
                THEN IF state = "INTERRUPTING" THEN "INTERRUPTED" ELSE state
                ELSE "INTERRUPTING"
    /\ UNCHANGED <<requested, syncWait, full, signalled, pendingRequests, wasPaused>>
    /\ UNCHANGED callerVars

ContinueFromThread ==
    /\ cpu = "callback"
    /\ cpu' = "return"
    /\ Resume
    /\ UNCHANGED <<requested, syncWait, full, pendingRequests, wasPaused>>
    /\ UNCHANGED <<op, saved, held, run, served, userPaused>>

\* _crashed and _coreShutdown
LeaveLoop ==
    /\ cpu = "loop"
    /\ cpu' = "return"
    /\ \/ Crashes /\ state' = "CRASHED"
       \/ state' = "EXITING"
       \/ UNCHANGED state
    /\ UNCHANGED <<requested, interruptDepth, syncWait, full, signalled,
                   pendingRequests, wasPaused>>
    /\ UNCHANGED callerVars

\* The thread wakes up in mCoreSyncPostFrame or mCoreSyncProduceAudio and looks
\* whether it must still wait, in runLoop or while it is parked.
SyncWakes ==
    /\ cpu \in {"video", "audio", "drain"}
    /\ signalled
    /\ signalled' = FALSE
    /\ LET channel == IF cpu = "drain" THEN "audio" ELSE cpu
       IN cpu' = IF channel \in syncWait \cap full THEN cpu
                 ELSE IF cpu = "drain" THEN "woken" ELSE "return"
    /\ UNCHANGED <<pendingRequests, wasPaused, coreVars>>
    /\ UNCHANGED callerVars

\* A parked thread was woken: it drains its audio first.
ParkedWakes ==
    /\ cpu = "parked"
    /\ signalled
    /\ signalled' = FALSE
    /\ cpu' = IF "audio" \in syncWait \cap full THEN "drain" ELSE "woken"
    /\ UNCHANGED <<pendingRequests, wasPaused, coreVars>>
    /\ UNCHANGED callerVars

\* The pause was cancelled: leave the waiting loop, interrupted again or not.
Unpaused == wasPaused /\ "PAUSE" \notin requested

\* The waiting loop: the thread acknowledges an interrupt and parks.
Park ==
    /\ \/ cpu \in {"top", "return"} /\ state \in Waiting \cup {"INTERRUPTING"}
       \/ cpu = "woken" /\ (state \in Waiting \/ (state = "INTERRUPTING" /\ ~Unpaused))
    /\ state' = IF state = "INTERRUPTING" THEN "INTERRUPTED" ELSE state
    /\ cpu' = "parked"
    /\ signalled' = FALSE
    /\ UNCHANGED <<requested, interruptDepth, syncWait, full,
                   pendingRequests, wasPaused>>
    /\ UNCHANGED callerVars

\* Mutant of Handle: the served requests stay.
HandleKeeps ==
    /\ \/ cpu = "top" /\ state = "REQUEST"
       \/ cpu = "return" /\ state \in {"REQUEST"} \cup Ending
       \/ cpu = "woken" /\ state \notin Waiting /\ (state = "INTERRUPTING" => Unpaused)
    /\ requested' = requested
    /\ pendingRequests' = requested'
    /\ state' = IF state # "REQUEST" THEN state
                ELSE IF requested' = {} THEN "RUNNING"
                ELSE IF requested' \cap Pausing # {} THEN "PAUSED" ELSE state
    /\ cpu' = "deferred"
    /\ UNCHANGED <<interruptDepth, syncWait, full, signalled, wasPaused>>
    /\ UNCHANGED callerVars

\* Requests served in the last round are dropped, the others are taken up.
Handle ==
    /\ \/ cpu = "top" /\ state = "REQUEST"
       \/ cpu = "return" /\ state \in {"REQUEST"} \cup Ending
       \/ cpu = "woken" /\ state \notin Waiting /\ (state = "INTERRUPTING" => Unpaused)
    /\ requested' = requested \ (pendingRequests \ Pausing)
    /\ pendingRequests' = requested'
    /\ state' = IF state # "REQUEST" THEN state
                ELSE IF requested' = {} THEN "RUNNING"
                ELSE IF requested' \cap Pausing # {} THEN "PAUSED" ELSE state
    /\ cpu' = "deferred"
    /\ UNCHANGED <<interruptDepth, syncWait, full, signalled, wasPaused>>
    /\ UNCHANGED callerVars

\* A round of the thread serves what these callers asked for.
Serve(askers) ==
    served' = [c \in Callers |-> IF c \in askers /\ served[c] < 2
                                 THEN served[c] + 1 ELSE served[c]]

\* The callbacks, outside the mutex: pause or unpause, then the reset.
Deferred ==
    /\ cpu = "deferred"
    /\ cpu' = "runon"
    /\ wasPaused' = ("PAUSE" \in pendingRequests)
    /\ Serve({c \in Callers : /\ "RESET" \in pendingRequests
                              /\ op[c] = "Reset" /\ pc[c] = "waiting"})
    /\ UNCHANGED <<signalled, pendingRequests, coreVars>>
    /\ UNCHANGED <<pc, op, saved, held, run, userPaused>>

RunOn ==
    /\ cpu = "runon"
    /\ cpu' = "top"
    /\ Serve(IF "RUN_ON" \in pendingRequests THEN run ELSE {})
    /\ UNCHANGED <<signalled, pendingRequests, wasPaused, coreVars>>
    /\ UNCHANGED <<pc, op, saved, held, run, userPaused>>

Exit ==
    /\ cpu = "top"
    /\ state \in Ending
    /\ state' = "SHUTDOWN"
    /\ cpu' = "done"
    /\ UNCHANGED <<requested, interruptDepth, syncWait, full, signalled,
                   pendingRequests, wasPaused>>
    /\ UNCHANGED callerVars

Cpu ==
    /\ \/ Boot \/ EnterLoop \/ \E channel \in Channels : Produce(channel)
       \/ \E r \in Requests : RequestFromThread(r)
       \/ InterruptFromThread \/ ContinueFromThread
       \/ LeaveLoop \/ SyncWakes \/ ParkedWakes \/ Park \/ Handle
       \/ Deferred \/ RunOn \/ Exit
    /\ UNCHANGED peerCalls

Next ==
    \/ Cpu \/ Peer
    \/ \E c \in Callers : Caller(c) \/ CallerStep(c)
    \/ \E channel \in Channels : Consume(channel)

Spec == Init /\ [][Next]_vars

\* Threads are scheduled.  Nothing is assumed of the consumers: the thread
\* that draws may be the one that is calling.
FairSpec == /\ Spec
            /\ WF_vars(Cpu)
            /\ \A c \in Callers : WF_vars(CallerStep(c))

-----------------------------------------------------------------------------
(* Properties.                                                             *)

\* While an interrupt is held, the machine's thread is out of runLoop: the
\* frontend may touch the machine.  (A crash, or the end, frees it of that.)
InterruptStops ==
    (\E c \in Callers : held[c] > 0) /\ state \notin {"CRASHED"} \cup Ending =>
        cpu \notin InLoop

\* However many frontend threads call at once, a thread that has acknowledged
\* an interrupt sleeps until the last of them continues.
AcknowledgedStops == state = "INTERRUPTED" => cpu \in {"parked", "drain", "woken"}

\* After mCoreThreadPause has returned, and until the pause is taken back, no
\* interrupt, reset, function or linked machine sets the machine going again.
PauseHolds ==
    userPaused /\ state \notin {"CRASHED"} \cup Ending => cpu \notin InLoop

\* A reset or a function that a frontend asks for is carried out exactly once
\* by the time the call returns.
ServedOnce ==
    \A c \in Callers : op[c] \in {"Reset", "RunFunction"} =>
        /\ served[c] <= 1
        /\ pc[c] = "idle" => served[c] = 1

\* Every call that waits for the thread returns, whatever the thread was asleep
\* on, with nobody consuming its output and whatever its callbacks do, unless
\* the thread ends.
CallReturns ==
    \A c \in Callers :
        pc[c] = "waiting" ~> (pc[c] # "waiting" \/ state \in Ending)

\* A thread that is told to end does, whatever it was asleep on, unless the
\* machine crashes first: _crashed overwrites EXITING too.
EndEnds == state = "EXITING" ~> (cpu = "done" \/ state = "CRASHED")

\* Nothing is asked of the machine's thread and nobody is calling it.
LeftAlone ==
    /\ requested = {} /\ interruptDepth = 0
    /\ state \notin {"CRASHED"} \cup Ending
    /\ \A c \in Callers : pc[c] = "idle"

\* A machine that is left alone for good goes on, or waits for a consumer of
\* its output: no wake-up was lost.
GoesOn == <>[]LeftAlone => []<>(cpu \in InLoop \cup {"drain"})
=============================================================================
