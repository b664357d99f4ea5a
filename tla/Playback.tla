------------------------------ MODULE Playback ------------------------------
(***************************************************************************)
(* What the player screen promises of its emulation threads, without the   *)
(* loop, the sleeps and the callbacks: one thread at a time is under its   *)
(* command, and a thread that is told to hold or to stop may still begin   *)
(* one frame, the grace frame, before the order is given again.            *)
(***************************************************************************)
EXTENDS Naturals

CONSTANT Threads

VARIABLES
    order,    \* what each thread was last told: "none" before its start
    grace,    \* may a thread that is told not to play begin one more frame?
    inFrame   \* the threads inside a frame

vars == <<order, grace, inFrame>>

Init ==
    /\ order = [t \in Threads |-> "none"]
    /\ grace = [t \in Threads |-> TRUE]
    /\ inFrame = {}

\* A thread starts playing when no other is playing or held.
Start(t) ==
    /\ order[t] = "none"
    /\ \A s \in Threads : order[s] \in {"none", "stop"}
    /\ order' = [order EXCEPT ![t] = "play"]
    /\ UNCHANGED <<grace, inFrame>>

Tell(t, new) ==
    /\ order[t] \in {"play", "hold"}
    /\ order' = [order EXCEPT ![t] = new]
    /\ grace' = [grace EXCEPT ![t] = TRUE]
    /\ UNCHANGED inFrame

BeginFrame(t) ==
    /\ t \notin inFrame
    /\ \/ order[t] = "play" /\ UNCHANGED grace
       \/ /\ order[t] \in {"hold", "stop"} /\ grace[t]
          /\ grace' = [grace EXCEPT ![t] = FALSE]
    /\ inFrame' = inFrame \cup {t}
    /\ UNCHANGED order

EndFrame(t) ==
    /\ t \in inFrame
    /\ inFrame' = inFrame \ {t}
    /\ UNCHANGED <<order, grace>>

Next ==
    \E t \in Threads :
        \/ Start(t) \/ BeginFrame(t) \/ EndFrame(t)
        \/ \E new \in {"play", "hold", "stop"} : Tell(t, new)

Spec == Init /\ [][Next]_vars
=============================================================================
