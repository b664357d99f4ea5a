--------------------------- MODULE CoreThreadProofs ---------------------------
(***************************************************************************)
(* Theorems about CoreThread, for every choice of syncs, every depth of    *)
(* interrupts and every number of calls by linked machines: first what     *)
(* holds with any number of callers and crashes, then what is promised to  *)
(* the one thread of a frontend whose machine does not crash.              *)
(***************************************************************************)
EXTENDS CoreThread, TLAPS

-----------------------------------------------------------------------------
(* Any number of callers.                                                   *)

USE DEF Waiting, Ending, InLoop

\* What each kind of step may do to the pair (state, cpu): only the thread
\* itself acknowledges an interrupt, and it parks in the same step.
LEMMA CallersOnlyAsk ==
    ASSUME NEW c \in Callers, Caller(c) \/ CallerStep(c)
    PROVE  /\ cpu' = cpu
           /\ state' = "INTERRUPTED" => state = "INTERRUPTED"
<1>1. CASE \E o \in Ops : Call(c, o)
  BY <1>1 DEF Call, Proceed, SendPause, CancelPause, Send, Cancel, Poke, coreVars, cpuVars
<1>2. CASE Unpause(c)
  BY <1>2 DEF Unpause, CancelPause, Cancel, Poke
<1>3. CASE Interrupt(c)
  BY <1>3 DEF Interrupt, cpuVars
<1>4. CASE ClearCrashed(c)
  BY <1>4 DEF ClearCrashed
<1>5. CASE Retry(c)
  BY <1>5 DEF Retry, Proceed, SendPause, CancelPause, Send, Cancel, Poke, coreVars, cpuVars
<1>6. CASE Continue(c)
  BY <1>6 DEF Continue, Resume
<1>7. CASE WaitLoop(c)
  BY <1>7 DEF WaitLoop, Poke
<1>8. CASE EndSync(c)
  BY <1>8 DEF EndSync
<1> QED BY <1>1, <1>2, <1>3, <1>4, <1>5, <1>6, <1>7, <1>8 DEF Caller, CallerStep

\* AcknowledgedStops is inductive on its own.
LEMMA AcknowledgedStep ==
    ASSUME ~FromThread, AcknowledgedStops, [Next]_vars
    PROVE  AcknowledgedStops'
<1>1. CASE Cpu
  BY <1>1 DEF AcknowledgedStops, Cpu, Boot, EnterLoop, Produce, RequestFromThread, Send,
     Poke, InterruptFromThread, ContinueFromThread, Resume, LeaveLoop, SyncWakes,
     ParkedWakes, Park, Handle, Deferred, RunOn, Exit, coreVars
<1>2. CASE Peer
  BY <1>2 DEF AcknowledgedStops, Peer, Send, Cancel, Poke
<1>3. CASE \E c \in Callers : Caller(c) \/ CallerStep(c)
  BY <1>3, CallersOnlyAsk DEF AcknowledgedStops
<1>4. CASE \E channel \in Channels : Consume(channel)
  BY <1>4 DEF AcknowledgedStops, Consume
<1>5. CASE UNCHANGED vars
  BY <1>5 DEF AcknowledgedStops, vars
<1> QED BY <1>1, <1>2, <1>3, <1>4, <1>5 DEF Next

\* A thread that has acknowledged an interrupt sleeps, with any number of
\* frontend threads and linked machines, crashes included, if no callback
\* interrupts its own thread.
THEOREM AcknowledgedAlwaysStops ==
    ASSUME ~FromThread
    PROVE  Spec => []AcknowledgedStops
<1>1. Init => AcknowledgedStops
  BY DEF Init, AcknowledgedStops
<1>2. AcknowledgedStops /\ [Next]_vars => AcknowledgedStops'
  BY AcknowledgedStep
<1> QED BY <1>1, <1>2, PTL DEF Spec
-----------------------------------------------------------------------------
(* One thread of the frontend, a machine that does not crash and callbacks  *)
(* that do not interrupt it: what an interrupt and a pause promise.         *)

WaitsFor(c, o) == pc[c] = "waiting" /\ op[c] = o

\* The depth counts the interrupts that the caller holds or waits for.
DepthInv == \A c \in Callers :
    interruptDepth = held[c] + (IF WaitsFor(c, "Interrupt") THEN 1 ELSE 0)

\* A state says what the thread is up to, and what is asked of it.
StateInv ==
    /\ state # "CRASHED" /\ cpu # "callback"
    /\ state = "INITIALIZED" <=> cpu = "boot"
    /\ state = "INITIALIZED" => requested = {}
    /\ state = "RUNNING" => requested = {}
    /\ state = "PAUSED" => requested \cap Pausing # {} /\ cpu \notin InLoop
    /\ Interrupted => interruptDepth > 0

\* The caller makes one call at a time, and never meets an interrupt.
CallerInv == \A c \in Callers :
    /\ pc[c] \notin {"blocked", "notified"}
    /\ pc[c] # "idle" => held[c] = 0
    /\ held[c] > 0 => state \in {"INTERRUPTED"} \cup Ending
    /\ WaitsFor(c, "Interrupt") => state \in {"INTERRUPTING", "INTERRUPTED"} \cup Ending
    /\ state = "INITIALIZED" => pc[c] = "idle"

PauseInv ==
    userPaused /\ state \notin Ending => "PAUSE" \in requested /\ cpu \notin InLoop

IInv == /\ TypeOK /\ AcknowledgedStops
        /\ DepthInv /\ StateInv /\ CallerInv /\ PauseInv

\* No step of the machine's thread breaks the invariant.
LEMMA CpuKeeps ==
    ASSUME NEW me, Callers = {me}, ~Crashes, ~FromThread, IInv, Cpu
    PROVE  IInv'
<1> USE DEF IInv, TypeOK, States, Requests, Channels, Pausing, AcknowledgedStops,
            DepthInv, StateInv, CallerInv, PauseInv, WaitsFor, Interrupted,
            callerVars, coreVars
<1>1. CASE Boot
  BY <1>1 DEF Cpu, Boot
<1>2. CASE EnterLoop
  BY <1>2 DEF Cpu, EnterLoop
<1>3. CASE \E channel \in Channels : Produce(channel)
  <2> PICK channel \in Channels : Produce(channel)
    BY <1>3
  <2> USE DEF Cpu, Produce
  <2>1. TypeOK' /\ AcknowledgedStops' /\ DepthInv'
    OBVIOUS
  <2>2. StateInv' /\ CallerInv' /\ PauseInv'
    OBVIOUS
  <2> QED BY <2>1, <2>2
<1>4. CASE \E r \in Requests : RequestFromThread(r)
  BY <1>4 DEF Cpu, RequestFromThread, Send, Poke
<1>5. CASE InterruptFromThread \/ ContinueFromThread
  BY <1>5 DEF InterruptFromThread, ContinueFromThread
<1>6. CASE LeaveLoop
  BY <1>6 DEF Cpu, LeaveLoop
<1>7. CASE SyncWakes
  BY <1>7 DEF Cpu, SyncWakes
<1>8. CASE ParkedWakes
  BY <1>8 DEF Cpu, ParkedWakes
<1>9. CASE Park
  BY <1>9 DEF Cpu, Park
<1>10. CASE Handle
  BY <1>10 DEF Cpu, Handle, Unpaused
<1>11. CASE Deferred
  BY <1>11 DEF Cpu, Deferred, Serve
<1>12. CASE RunOn
  BY <1>12 DEF Cpu, RunOn, Serve
<1>13. CASE Exit
  BY <1>13 DEF Cpu, Exit
<1> QED BY <1>1, <1>2, <1>3, <1>4, <1>5, <1>6, <1>7, <1>8, <1>9, <1>10, <1>11,
           <1>12, <1>13 DEF Cpu

\* Linked machines and consumers do not either.
LEMMA OthersKeep ==
    ASSUME NEW me, Callers = {me}, ~Crashes, ~FromThread, IInv,
           Peer \/ (\E channel \in Channels : Consume(channel)) \/ UNCHANGED vars
    PROVE  IInv'
<1> USE DEF IInv, TypeOK, States, Requests, Channels, Pausing, AcknowledgedStops,
            DepthInv, StateInv, CallerInv, PauseInv, WaitsFor, Interrupted,
            callerVars, coreVars
<1>1. CASE Peer
  <2> USE <1>1 DEF Peer, Send, Cancel, Poke, WakeOnThread
  <2>1. state' \in States /\ requested' \subseteq Requests
    OBVIOUS
  <2>2. pc' = pc
    OBVIOUS
  <2>3. TypeOK'
    <3>1. signalled' \in BOOLEAN
      OBVIOUS
    <3>2. peerCalls' \in Nat
      OBVIOUS
    <3> QED BY <2>1, <2>2, <3>1, <3>2
  <2>4. AcknowledgedStops' /\ DepthInv' /\ StateInv'
    BY <2>2
  <2>5. CallerInv' /\ PauseInv'
    BY <2>2
  <2> QED BY <2>3, <2>4, <2>5
<1>2. CASE \E channel \in Channels : Consume(channel)
  BY <1>2 DEF Consume
<1>3. CASE UNCHANGED vars
  BY <1>3 DEF vars
<1> QED BY <1>1, <1>2, <1>3

\* Nor does the caller.
LEMMA CallerKeeps ==
    ASSUME NEW me, Callers = {me}, ~Crashes, ~FromThread, IInv,
           Caller(me) \/ CallerStep(me)
    PROVE  IInv'
<1> USE DEF IInv, TypeOK, States, AcknowledgedStops, DepthInv, StateInv, CallerInv,
            WaitsFor, Interrupted, callerVars, coreVars, cpuVars, CanCall, Begin
<1>1. CASE \E o \in Ops : Call(me, o)
  <2> PICK o \in Ops : Call(me, o)
    BY <1>1
  <2> USE DEF Call, Proceed, SendPause, CancelPause, Send, Cancel, Poke, WaitUnless, Idle
  <2>1. requested' \subseteq Requests
    <3>1. \/ requested' \in {requested, requested \ {"PAUSE"}}
          \/ \E r \in {"PAUSE", "RESET", "RUN_ON"} : requested' = requested \cup {r}
      OBVIOUS
    <3> QED BY <3>1 DEF Requests
  <2>2. saved' \in [Callers -> SUBSET Channels] /\ syncWait' \subseteq Channels
    OBVIOUS
  <2>3. pc' \in [Callers -> {"idle", "blocked", "notified", "waiting", "ending", "ended"}]
    OBVIOUS
  <2>4. TypeOK'
    <3>1. /\ op' \in [Callers -> Ops] /\ held' \in [Callers -> Nat]
          /\ served' \in [Callers -> 0 .. 2] /\ run' \in SUBSET Callers
      BY DEF Ops
    <3>2. state' \in States /\ userPaused' \in BOOLEAN
      OBVIOUS
    <3> QED BY <2>1, <2>2, <2>3, <3>1, <3>2
  <2>5. AcknowledgedStops' /\ DepthInv'
    BY DEF Ops
  <2>6. StateInv'
    BY DEF Ops, Pausing
  <2>7. CallerInv'
    BY DEF Ops
  <2>8. PauseInv'
    <3> SUFFICES ASSUME userPaused', state' \notin Ending
                 PROVE  "PAUSE" \in requested' /\ cpu' \notin InLoop
      BY DEF PauseInv
    <3>1. interruptDepth = 0
      OBVIOUS
    <3>2. ~Interrupted
      BY <3>1
    <3>3. userPaused /\ o # "TogglePause"
      OBVIOUS
    <3>4. cpu' = cpu /\ state \notin Ending /\ requested \subseteq requested'
      BY <3>2, <3>3
    <3> QED BY <3>3, <3>4 DEF PauseInv
  <2> QED BY <2>4, <2>5, <2>6, <2>7, <2>8
<1>2. CASE Unpause(me)
  <2> USE <1>2 DEF Unpause, CancelPause, Cancel, Poke, WaitUnless, Idle
  <2>1. requested' \subseteq Requests
    <3>1. requested' = requested \ {"PAUSE"}
      OBVIOUS
    <3> QED BY <3>1 DEF Requests
  <2>2. saved' \in [Callers -> SUBSET Channels] /\ syncWait' \subseteq Channels
    OBVIOUS
  <2>3. pc' \in [Callers -> {"idle", "blocked", "notified", "waiting", "ending", "ended"}]
    OBVIOUS
  <2>4. TypeOK'
    BY <2>1, <2>2, <2>3 DEF Ops
  <2>5. AcknowledgedStops' /\ DepthInv'
    OBVIOUS
  <2>6. StateInv' /\ CallerInv'
    BY DEF Pausing
  <2>7. PauseInv'
    BY DEF PauseInv
  <2> QED BY <2>4, <2>5, <2>6, <2>7
<1>3. CASE Interrupt(me)
  <2> USE <1>3 DEF Interrupt, IsActive, WaitUnless
  <2>1. saved' \in [Callers -> SUBSET Channels] /\ syncWait' \subseteq Channels
    OBVIOUS
  <2>2. TypeOK'
    BY <2>1 DEF Ops
  <2>3. AcknowledgedStops' /\ DepthInv'
    OBVIOUS
  <2>4. StateInv' /\ CallerInv' /\ PauseInv'
    BY DEF PauseInv
  <2> QED BY <2>2, <2>3, <2>4
<1>4. CASE ClearCrashed(me)
  BY <1>4 DEF ClearCrashed
<1>5. CASE Retry(me)
  BY <1>5 DEF Retry
<1>6. CASE Continue(me)
  <2> USE <1>6 DEF Continue, Resume, IsActive, WakeOnThread
  <2>1. TypeOK'
    <3>1. interruptDepth' \in Nat /\ held' \in [Callers -> Nat]
      OBVIOUS
    <3>2. pc' \in [Callers -> {"idle", "blocked", "notified", "waiting", "ending", "ended"}]
      OBVIOUS
    <3> QED BY <3>1, <3>2
  <2>2. AcknowledgedStops' /\ DepthInv'
    OBVIOUS
  <2>3. StateInv' /\ CallerInv' /\ PauseInv'
    BY DEF PauseInv
  <2> QED BY <2>1, <2>2, <2>3
<1>7. CASE WaitLoop(me)
  <2> USE <1>7 DEF WaitLoop, StillWaiting, Poke
  <2>1. saved' \in [Callers -> SUBSET Channels] /\ syncWait' \subseteq Channels
    OBVIOUS
  <2>2. pc' \in [Callers -> {"idle", "blocked", "notified", "waiting", "ending", "ended"}]
    OBVIOUS
  <2>3. TypeOK'
    <3>1. state' \in States
      OBVIOUS
    <3>2. held' \in [Callers -> Nat]
      OBVIOUS
    <3>3. userPaused' \in BOOLEAN
      OBVIOUS
    <3> QED BY <2>1, <2>2, <3>1, <3>2, <3>3
  <2>4. AcknowledgedStops' /\ DepthInv'
    OBVIOUS
  <2>5. StateInv' /\ CallerInv'
    OBVIOUS
  <2>6. PauseInv'
    <3> SUFFICES ASSUME userPaused', state' \notin Ending
                 PROVE  "PAUSE" \in requested' /\ cpu' \notin InLoop
      BY DEF PauseInv
    <3>1. cpu' = cpu /\ requested' = requested /\ state \notin Ending
      OBVIOUS
    <3>2. CASE userPaused
      BY <3>1, <3>2 DEF PauseInv
    <3>3. CASE ~userPaused
      <4>1. op[me] \in {"Pause", "TogglePause"} /\ "PAUSE" \in requested /\ state # "REQUEST"
        BY <3>3
      <4>2. interruptDepth = 0
        BY <4>1
      <4>3. state = "PAUSED"
        BY <3>1, <4>1, <4>2
      <4> QED BY <3>1, <4>1, <4>3
    <3> QED BY <3>2, <3>3
  <2> QED BY <2>3, <2>4, <2>5, <2>6
<1>8. CASE EndSync(me)
  BY <1>8 DEF EndSync, PauseInv
<1> QED BY <1>1, <1>2, <1>3, <1>4, <1>5, <1>6, <1>7, <1>8 DEF Caller, CallerStep

\* The invariant is inductive.
LEMMA IInvStep ==
    ASSUME NEW me, Callers = {me}, ~Crashes, ~FromThread, IInv, [Next]_vars
    PROVE  IInv'
<1>1. CASE Cpu
  BY <1>1, CpuKeeps
<1>2. CASE Caller(me) \/ CallerStep(me)
  BY <1>2, CallerKeeps
<1>3. CASE Peer \/ (\E channel \in Channels : Consume(channel)) \/ UNCHANGED vars
  BY <1>3, OthersKeep
<1> QED BY <1>1, <1>2, <1>3 DEF Next

\* The strengthened invariant holds in every state that one caller can reach.
THEOREM Inductive ==
    ASSUME NEW me, Callers = {me}, ~Crashes, ~FromThread
    PROVE  Spec => []IInv
<1>1. Init => IInv
  <2> SUFFICES ASSUME Init PROVE IInv
    OBVIOUS
  <2> USE DEF Init
  <2>1. TypeOK
    <3>1. state \in States /\ syncWait \subseteq Channels
      BY SyncedAssumption DEF States
    <3>2. /\ pc \in [Callers -> {"idle", "blocked", "notified", "waiting", "ending", "ended"}]
          /\ op \in [Callers -> Ops]
      BY DEF Ops
    <3>3. saved \in [Callers -> SUBSET Channels] /\ run \in SUBSET Callers
      OBVIOUS
    <3>4. held \in [Callers -> Nat] /\ served \in [Callers -> 0 .. 2]
      OBVIOUS
    <3> QED BY <3>1, <3>2, <3>3, <3>4 DEF TypeOK
  <2>2. AcknowledgedStops /\ DepthInv
    BY DEF AcknowledgedStops, DepthInv, WaitsFor
  <2>3. StateInv /\ CallerInv /\ PauseInv
    BY DEF StateInv, CallerInv, PauseInv, WaitsFor, Interrupted
  <2> QED BY <2>1, <2>2, <2>3 DEF IInv
<1>2. IInv /\ [Next]_vars => IInv'
  BY IInvStep
<1> QED BY <1>1, <1>2, PTL DEF Spec

\* Every variable keeps its type; the depth of interrupts never turns negative.
THEOREM TypeCorrect ==
    ASSUME NEW me, Callers = {me}, ~Crashes, ~FromThread
    PROVE  Spec => []TypeOK
<1>1. IInv => TypeOK
  BY DEF IInv
<1> QED BY <1>1, Inductive, PTL

\* A caller that holds an interrupt finds the thread out of runLoop, whatever the
\* machine was asleep on and however often the interrupt was nested.
THEOREM InterruptAlwaysStops ==
    ASSUME NEW me, Callers = {me}, ~Crashes, ~FromThread
    PROVE  Spec => []InterruptStops
<1>1. IInv => InterruptStops
  BY DEF IInv, InterruptStops, CallerInv, AcknowledgedStops
<1> QED BY <1>1, Inductive, PTL

\* A pause that has returned lasts until the caller takes it back: no interrupt,
\* reset or linked machine ends it.
THEOREM PauseAlwaysHolds ==
    ASSUME NEW me, Callers = {me}, ~Crashes, ~FromThread
    PROVE  Spec => []PauseHolds
<1>1. IInv => PauseHolds
  BY DEF IInv, PauseInv, PauseHolds
<1> QED BY <1>1, Inductive, PTL

-----------------------------------------------------------------------------
(* One caller again: its requests are carried out once.                    *)

\* A request of the caller is not carried out before the thread has taken it up
\* and has come past the callbacks (earlier) that do it.
Asks(c, o, r, earlier) ==
    /\ r \in requested => WaitsFor(c, o)
    /\ op[c] = o => pc[c] \in {"idle", "waiting"}
    /\ op[c] = o =>
         served[c] = IF r \in requested /\ (r \notin pendingRequests \/ cpu \in earlier)
                     THEN 0 ELSE 1

\* What is taken up stays requested until the round after; and the function that
\* will be run is the one that was asked for.
ServedInv ==
    /\ pendingRequests \ Pausing \subseteq requested
    /\ \A c \in Callers :
         /\ Asks(c, "Reset", "RESET", {"deferred"})
         /\ Asks(c, "RunFunction", "RUN_ON", {"deferred", "runon"})
         /\ "RUN_ON" \in requested => run = {c}

\* A round of the thread begins and ends as the invariant says.
LEMMA CpuServes ==
    ASSUME NEW me, Callers = {me}, ~Crashes, ~FromThread, IInv, ServedInv, Cpu
    PROVE  ServedInv'
<1> USE DEF ServedInv, Asks, WaitsFor, Pausing, callerVars, coreVars
<1>1. TypeOK /\ StateInv
  BY DEF IInv
<1>2. CASE Boot
  <2>1. requested = {}
    BY <1>1, <1>2 DEF Boot, StateInv
  <2> QED BY <1>2, <2>1 DEF Boot
<1>3. CASE EnterLoop
  BY <1>3 DEF EnterLoop
<1>4. CASE \E channel \in Channels : Produce(channel)
  BY <1>4 DEF Produce, Channels
<1>5. CASE \E r \in Requests : RequestFromThread(r)
  BY <1>5 DEF RequestFromThread, Send
<1>6. CASE InterruptFromThread \/ ContinueFromThread
  BY <1>1, <1>6 DEF InterruptFromThread, ContinueFromThread, StateInv
<1>7. CASE LeaveLoop
  BY <1>7 DEF LeaveLoop
<1>8. CASE SyncWakes
  BY <1>8 DEF SyncWakes
<1>9. CASE ParkedWakes
  BY <1>9 DEF ParkedWakes
<1>10. CASE Park
  BY <1>10 DEF Park
<1>11. CASE Handle
  <2>1. cpu \notin {"deferred", "runon"} /\ cpu' = "deferred"
    BY <1>11 DEF Handle
  <2>2. requested' = requested \ (pendingRequests \ Pausing) /\ pendingRequests' = requested'
        /\ UNCHANGED <<pc, op, run, served>>
    BY <1>11 DEF Handle
  <2> QED BY <2>1, <2>2
<1>12. CASE Deferred
  BY <1>1, <1>12 DEF Deferred, Serve, TypeOK
<1>13. CASE RunOn
  BY <1>1, <1>13 DEF RunOn, Serve, TypeOK
<1>14. CASE Exit
  BY <1>14 DEF Exit
<1> QED BY <1>2, <1>3, <1>4, <1>5, <1>6, <1>7, <1>8, <1>9, <1>10, <1>11,
           <1>12, <1>13, <1>14 DEF Cpu

\* A caller asks, and leaves when its request is gone.
LEMMA CallerIsServed ==
    ASSUME NEW me, Callers = {me}, ~Crashes, ~FromThread, IInv, ServedInv,
           Caller(me) \/ CallerStep(me)
    PROVE  ServedInv'
<1> USE DEF ServedInv, Asks, WaitsFor, Pausing, callerVars, coreVars, cpuVars, CanCall, Begin
<1>1. TypeOK /\ CallerInv /\ DepthInv /\ StateInv
  BY DEF IInv
<1>2. CASE \E o \in Ops : Call(me, o)
  <2> PICK o \in Ops : Call(me, o)
    BY <1>2
  <2>1. ~Interrupted
    BY <1>1 DEF Call, DepthInv, StateInv
  <2>2. /\ "RESET" \notin requested /\ "RUN_ON" \notin requested
        /\ "RESET" \notin pendingRequests /\ "RUN_ON" \notin pendingRequests
    BY DEF Call
  <2>3. op'[me] = o /\ served'[me] = 0 /\ cpu' = cpu /\ pendingRequests' = pendingRequests
    BY <1>1, <2>1 DEF Call, Proceed, TypeOK
  <2>4. CASE o = "Pause" \/ o = "TogglePause" \/ o = "End"
    <3>1. /\ "RESET" \notin requested' /\ "RUN_ON" \notin requested'
          /\ o # "Reset" /\ o # "RunFunction"
      <4>1. Proceed(me, o)
        BY <2>1 DEF Call
      <4>2. SendPause(me) \/ CancelPause(me) \/ requested' = requested
        BY <2>4, <4>1 DEF Proceed
      <4> QED BY <2>2, <2>4, <4>2 DEF SendPause, CancelPause, Send, Cancel
    <3>2. pendingRequests' \ Pausing \subseteq requested'
      BY <2>2, <2>3, <3>1, <2>1, <2>4
         DEF Call, Proceed, SendPause, CancelPause, Send, Cancel
    <3> QED BY <2>3, <3>1, <3>2
  <2>5. CASE o = "Reset"
    BY <1>1, <2>1, <2>2, <2>3, <2>5 DEF Call, Proceed, Send, WaitUnless, TypeOK
  <2>6. CASE o = "RunFunction"
    BY <1>1, <2>1, <2>2, <2>3, <2>6 DEF Call, Proceed, Send, WaitUnless, TypeOK
  <2> QED BY <2>4, <2>5, <2>6 DEF Call
<1>3. CASE Unpause(me)
  BY <1>1, <1>3 DEF Unpause, CancelPause, Cancel, TypeOK
<1>4. CASE Interrupt(me)
  BY <1>1, <1>4 DEF Interrupt, TypeOK
<1>5. CASE ClearCrashed(me)
  BY <1>1, <1>5 DEF ClearCrashed, StateInv
<1>6. CASE Retry(me)
  BY <1>1, <1>6 DEF Retry, CallerInv
<1>7. CASE Continue(me)
  BY <1>1, <1>7 DEF Continue, Resume, WakeOnThread, TypeOK
<1>8. CASE WaitLoop(me)
  BY <1>1, <1>8 DEF WaitLoop, StillWaiting, TypeOK
<1>9. CASE EndSync(me)
  BY <1>1, <1>9 DEF EndSync, TypeOK
<1> QED BY <1>2, <1>3, <1>4, <1>5, <1>6, <1>7, <1>8, <1>9 DEF Caller, CallerStep

\* Linked machines only make it wait.
LEMMA OthersDoNotServe ==
    ASSUME NEW me, Callers = {me}, IInv, ServedInv,
           Peer \/ (\E channel \in Channels : Consume(channel)) \/ UNCHANGED vars
    PROVE  ServedInv'
<1> USE DEF ServedInv, Asks, WaitsFor, Pausing, callerVars
<1>1. CASE Peer
  <2>1. pc' = pc
    BY <1>1 DEF IInv, TypeOK, CallerInv, Peer, WakeOnThread
  <2> QED BY <1>1, <2>1 DEF Peer, Send, Cancel
<1>2. CASE \E channel \in Channels : Consume(channel)
  BY <1>2 DEF Consume
<1>3. CASE UNCHANGED vars
  BY <1>3 DEF vars
<1> QED BY <1>1, <1>2, <1>3

\* A reset or a function that a frontend asks for is carried out once, and before
\* the call returns, whatever interrupts, pauses and linked machines come between.
THEOREM AlwaysServedOnce ==
    ASSUME NEW me, Callers = {me}, ~Crashes, ~FromThread
    PROVE  Spec => []ServedOnce
<1>1. Init => ServedInv
  BY DEF Init, ServedInv, Asks
<1>2. IInv /\ ServedInv /\ [Next]_vars => ServedInv'
  <2> SUFFICES ASSUME IInv, ServedInv, [Next]_vars PROVE ServedInv'
    OBVIOUS
  <2>1. CASE Cpu
    BY <2>1, CpuServes
  <2>2. CASE Caller(me) \/ CallerStep(me)
    BY <2>2, CallerIsServed
  <2>3. CASE Peer \/ (\E channel \in Channels : Consume(channel)) \/ UNCHANGED vars
    BY <2>3, OthersDoNotServe
  <2> QED BY <2>1, <2>2, <2>3 DEF Next
<1>3. ServedInv => ServedOnce
  BY DEF ServedInv, Asks, ServedOnce, WaitsFor
<1> QED BY <1>1, <1>2, <1>3, Inductive, PTL DEF Spec
====
