------------------------------- MODULE Timing -------------------------------
(***************************************************************************)
(* The events of an emulated machine (mgba-master/src/core/timing.c) and   *)
(* the loop that lets the processor run up to the next one and then fires  *)
(* what is due (GBAProcessEvents in gba/gba.c).                            *)
(*                                                                         *)
(* Times are 32-bit counters that wrap, compared by the sign of their      *)
(* difference.  The list is sorted by time and priority.  An interrupt     *)
(* hides the list (root) in another field (reroot), which makes a tick end.*)
(* Events are scheduled and descheduled by the instructions of the         *)
(* processor and by the callbacks of other events.                         *)
(***************************************************************************)
EXTENDS Integers, Sequences, SequencesExt

CONSTANTS
    Events,
    Video,       \* the event of the video unit, which always schedules itself
    Priority,    \* of each event
    Delays,      \* with which events are scheduled
    MaxDelay,    \* the longest
    MaxCycles,   \* of one instruction
    Wrap,        \* bound: 2^32 in the code, and many times the longest delay
    MaxOps       \* bound: calls of one instruction or of one callback

ASSUME VideoAssumption == Video \in Events
ASSUME PriorityAssumption == Priority \in [Events -> Nat]
ASSUME DelaysAssumption == MaxDelay \in Nat \ {0} /\ Delays \subseteq 0 .. MaxDelay
ASSUME MaxCyclesAssumption == MaxCycles \in Nat \ {0}
ASSUME WrapAssumption ==
    /\ Wrap \in Nat /\ Wrap % 2 = 0
    /\ 2 * MaxDelay <= Wrap \div 2 /\ MaxDelay + MaxCycles <= Wrap \div 2
ASSUME MaxOpsAssumption == MaxOps \in Nat \ {0}

VARIABLES
    root, reroot,      \* the list, or where it is hidden; an empty one is NULL
    when,              \* of the events that are scheduled
    masterCycles,
    relativeCycles,    \* cpu->cycles: passed since masterCycles was advanced
    nextEvent,         \* cpu->nextEvent: where the processor stops
    mode,              \* it runs, or is in mTimingTick or one of its callbacks
    late,              \* the lateness of which the callback is told
    ops,               \* calls left to the instruction or callback
    due                \* history: the true times, from masterCycles, of the
                       \* events that are scheduled; bound: -Wrap

lists == <<root, reroot, when, due>>
clock == <<masterCycles, relativeCycles, nextEvent>>
vars == <<lists, clock, mode, late, ops>>

Far == Wrap \div 2 - 1     \* INT_MAX
Times == 0 .. Wrap - 1

\* Mutant of Signed: times are compared as they are.
Unsigned(t) == t % Wrap

\* A difference of times as an int32_t.
Signed(t) == LET u == t % Wrap IN IF u > Far THEN u - Wrap ELSE u

Scheduled == DOMAIN due

TypeOK ==
    /\ root \in Seq(Events) /\ reroot \in Seq(Events)
    /\ when \in [Scheduled -> Times]
    /\ masterCycles \in Times
    /\ relativeCycles \in 0 .. Far /\ nextEvent \in -Far .. Far
    /\ mode \in {"run", "tick", "callback"}
    /\ late \in 0 .. Far
    /\ ops \in 0 .. MaxOps
    /\ Scheduled \subseteq Events

\* After a reset, whose last step is an interrupt.
Init ==
    /\ root = <<>> /\ reroot = <<Video>>
    /\ when = [e \in {Video} |-> 1]
    /\ masterCycles = 0 /\ relativeCycles = 0 /\ nextEvent = 1
    /\ mode = "run"
    /\ late = 0
    /\ ops = MaxOps
    /\ due = [e \in {Video} |-> 1]

-----------------------------------------------------------------------------
(* The calls.                                                              *)

\* What nextWhen is in the loops of the code.
Until(e) == Signed(when[e] - masterCycles)

\* The list, taken back from where an interrupt has hidden it.
Restored == IF reroot # <<>> THEN reroot ELSE root

\* Mutant of Lower: an event that is now the first is not made known.
LowerNot(n) == UNCHANGED nextEvent
Lower(n) == nextEvent' = IF n < nextEvent THEN n ELSE nextEvent

\* An event enters the list n cycles from masterCycles, or leaves it.
Enters(e, n) ==
    /\ when' = [f \in Scheduled \cup {e} |-> IF f = e THEN (n + masterCycles) % Wrap ELSE when[f]]
    /\ due' = [f \in Scheduled \cup {e} |-> IF f = e THEN n ELSE due[f]]
Leaves(e) ==
    /\ when' = [f \in Scheduled \ {e} |-> when[f]]
    /\ due' = [f \in Scheduled \ {e} |-> due[f]]

\* Where an event goes: after all that are earlier, or as early and not of a
\* lower priority.
Insert(e, n, list) ==
    LET Later(f) == Until(f) > n \/ (Until(f) = n /\ Priority[f] > Priority[e])
        i == SelectInSeq(list, Later)
    IN IF i = 0 THEN Append(list, e) ELSE InsertAt(list, i, e)

\* mTimingSchedule; a caller takes the event out of the list first.
Schedule(e, delay) ==
    /\ e \notin Scheduled
    /\ LET n == delay + relativeCycles IN
         /\ Enters(e, n)
         /\ Lower(n)
         /\ root' = Insert(e, n, Restored)
    /\ reroot' = <<>>

\* mTimingDeschedule, also of an event that is not there.
Deschedule(e) ==
    /\ e # Video
    /\ root' = RemoveFirst(Restored, e)
    /\ reroot' = <<>>
    /\ Leaves(e)
    /\ UNCHANGED nextEvent

\* Mutant of Interrupt: a second one hides the list for ever.
InterruptTwice ==
    /\ reroot' = root
    /\ root' = <<>>
    /\ UNCHANGED <<when, due, nextEvent>>

\* mTimingInterrupt
Interrupt ==
    /\ IF root = <<>> THEN UNCHANGED <<root, reroot>>
       ELSE reroot' = root /\ root' = <<>>
    /\ UNCHANGED <<when, due, nextEvent>>

\* A call of an instruction, before its time has passed, or of a callback, which
\* often takes its lateness off.
Operate ==
    /\ mode = "callback" \/ (mode = "run" /\ relativeCycles < nextEvent)
    /\ ops > 0
    /\ ops' = ops - 1
    /\ \/ \E e \in Events, d \in Delays : Schedule(e, d) \/ Schedule(e, d - late)
       \/ \E e \in Events : Deschedule(e)
       \/ Interrupt
    /\ ops > 1 \/ Video \in DOMAIN due'
    /\ UNCHANGED <<masterCycles, relativeCycles, mode, late>>

-----------------------------------------------------------------------------
(* The loop.                                                               *)

Instruction ==
    /\ mode = "run" /\ relativeCycles < nextEvent
    /\ \E c \in 1 .. MaxCycles : relativeCycles' = relativeCycles + c
    /\ ops' = MaxOps
    /\ UNCHANGED <<lists, masterCycles, nextEvent, mode, late>>

\* mTimingTick begins.
Pass(cycles) ==
    /\ masterCycles' = (masterCycles + cycles) % Wrap
    /\ mode' = "tick"
    /\ due' = [e \in Scheduled |-> IF due[e] > cycles - Wrap THEN due[e] - cycles ELSE -Wrap]

ProcessEvents ==
    /\ mode = "run" /\ relativeCycles >= nextEvent
    /\ Pass(relativeCycles)
    /\ relativeCycles' = 0
    /\ nextEvent' = Far
    /\ ops' = MaxOps
    /\ UNCHANGED <<root, reroot, when, late>>

Fire ==
    /\ mode = "tick"
    /\ root # <<>> /\ Until(Head(root)) <= 0
    /\ root' = Tail(root)
    /\ late' = -Until(Head(root))
    /\ Leaves(Head(root))
    /\ mode' = "callback"
    /\ UNCHANGED <<reroot, clock, ops>>

CallbackReturns ==
    /\ mode = "callback" /\ Video \in Scheduled
    /\ mode' = "tick" /\ late' = 0 /\ ops' = MaxOps
    /\ UNCHANGED <<lists, clock>>

TakeBack ==
    /\ mode = "tick"
    /\ root = <<>> /\ reroot # <<>>
    /\ root' = reroot /\ reroot' = <<>>
    /\ nextEvent' = Until(Head(reroot))
    /\ UNCHANGED <<when, due, masterCycles, relativeCycles, late, ops>>

\* Mutant of Resume: the tick ends there.
ResumeReturns == TakeBack /\ mode' = "run"

\* The list is taken back at the end; if something is due, the tick goes on.
\* Since the video unit always has an event, a tick never ends with none.
Resume == TakeBack /\ UNCHANGED mode

\* Mutant of TickReturns: it may leave what is due to the next tick.
TickReturnsEarly ==
    /\ mode = "tick" /\ root # <<>>
    /\ nextEvent' = Until(Head(root))
    /\ mode' = "run"
    /\ UNCHANGED <<lists, masterCycles, relativeCycles, late, ops>>

\* mTimingTick returns: the processor runs, or it is halted and there is nothing
\* to do until the next event, or it is blocked and the next tick follows.
TickReturns ==
    /\ mode = "tick"
    /\ root # <<>> /\ Until(Head(root)) > 0
    /\ LET n == Until(Head(root)) IN
         \/ /\ nextEvent' = n
            /\ mode' = "run"
            /\ relativeCycles' \in {0, n}
            /\ UNCHANGED <<masterCycles, due>>
         \/ Pass(n) /\ UNCHANGED <<relativeCycles, nextEvent>>
    /\ UNCHANGED <<root, reroot, when, late, ops>>

Loop == Instruction \/ ProcessEvents \/ Fire \/ CallbackReturns \/ Resume \/ TickReturns

Next == Operate \/ Loop

\* The machine runs, and callbacks end.
Spec == Init /\ [][Next]_vars /\ WF_vars(Loop) /\ WF_vars(mode = "callback" /\ Operate)

-----------------------------------------------------------------------------
(* Properties.                                                             *)

\* An event is in the list exactly while it is scheduled, and once, through any
\* interrupt; and while the list is hidden nothing is in its place.
NoneLost ==
    /\ ToSet(root \o reroot) = Scheduled
    /\ IsInjective(root \o reroot)
    /\ root = <<>> \/ reroot = <<>>

\* The processor stops at the first event at the latest, whatever was scheduled
\* or taken out since it was told where to stop (timing.c 38-40).
StopsInTime == mode = "run" => \A e \in Scheduled : nextEvent <= due[e]

\* An event fires when it is due and not before, with its true lateness, after
\* all that were due earlier or are as early and more urgent; also when the
\* counters wrap in between.
FiresInOrder ==
    [][mode = "tick" /\ mode' = "callback" =>
        \E e \in Scheduled :
            /\ Scheduled' = Scheduled \ {e}
            /\ late' = -due[e]
            /\ \A f \in Scheduled :
                 due[f] > due[e] \/ (due[f] = due[e] /\ Priority[f] >= Priority[e])]_vars

\* When the processor runs again, nothing is due.
NothingDue ==
    [][mode = "tick" /\ mode' = "run" => \A e \in Scheduled : due[e] > 0]_vars

\* Every event that is scheduled fires or is taken out.
EventEnds == \A e \in Events : e \in Scheduled ~> e \notin Scheduled
=============================================================================
