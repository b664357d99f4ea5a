------------------------------ MODULE Lockstep ------------------------------
(***************************************************************************)
(* The link cable between emulated machines (mgba-master/src/gba/sio/      *)
(* lockstep.c, with the transfers of gba/sio.c).  Each player's machine    *)
(* runs in a thread of its own.  What they share is behind one mutex, so   *)
(* that a handler is one step.  The first attached player, the primary,    *)
(* owns the shared clock.  The others run up to it and sleep until it has  *)
(* moved on; the primary sleeps where all have to be told something, until *)
(* each of them has acknowledged it.                                       *)
(*                                                                         *)
(* Times are relative to the shared clock.  The handlers of all events of  *)
(* a machine that are due run before its thread sleeps, also when the first*)
(* of them has put the player to sleep.  A failed assertion ends the       *)
(* program.                                                                *)
(***************************************************************************)
EXTENDS Integers, Sequences, FiniteSets, SequencesExt

CONSTANTS
    Players,          \* by the number that each asks for
    Joined,           \* those on the link at the start
    Offsets,          \* by how much a machine that joins may be ahead of the clock
    Interval,         \* LOCKSTEP_INTERVAL and UNLOCKED_INTERVAL
    HardSyncInterval,
    Gain,             \* a player that sleeps looks at its queue after 4 cycles
    Transfer,         \* GBASIOTransferCycles
    Never,            \* the time of a completeEvent that is not scheduled
    MaxStep,          \* bound: cycles of one instruction
    MaxEvents,        \* MAX_LOCKSTEP_EVENTS
    MaxCalls,         \* bound: calls of the games
    MaxJoins          \* bound: players that join or leave

ASSUME PlayersAssumption == Players \subseteq Nat /\ IsFiniteSet(Players)
ASSUME JoinedAssumption == Joined \subseteq Players /\ Joined # {}
ASSUME OffsetsAssumption == Offsets \subseteq Int
ASSUME CyclesAssumption ==
    /\ {Interval, HardSyncInterval, Gain, Transfer, MaxStep} \subseteq Nat \ {0}
    /\ Never \in Nat /\ Transfer < Never
    /\ Interval + MaxStep <= HardSyncInterval
ASSUME BoundsAssumption == {MaxEvents, MaxCalls, MaxJoins} \subseteq Nat

VARIABLES link, calls, joins

vars == <<link, calls, joins>>

Modes == {"multi", "normal"}
Types == {"ATTACH", "DETACH", "HARD_SYNC", "MODE_SET", "TRANSFER_START"}
First == CHOOSE p \in Joined : \A q \in Joined : p <= q

Failures == {"waiting", "asleep", "primary", "events"}
Events == [type : Types, from : Nat, at : Int, finish : Int]

\* struct GBASIOLockstepCoordinator and, by player, GBASIOLockstepPlayer and the
\* two timing events of its machine.
Links ==
    [attached : SUBSET Players,
     waiting : SUBSET Nat,
     transferActive : BOOLEAN, transferMode : Modes,
     data : SUBSET Players,         \* whose word multiData holds
     nextHardSync : Int,
     time : [Players -> Int],       \* GBASIOLockstepTime less the shared clock
     offset : [Players -> Int],     \* cycleOffset
     event : [Players -> Int],      \* cycles until _lockstepEvent
     complete : [Players -> Int],   \* cycles until _sioFinish
     newer : [Players -> BOOLEAN],  \* was the latter scheduled last?
     busy : [Players -> BOOLEAN],   \* the start bit of SIOCNT
     mode : [Players -> Modes],
     asleep : [Players -> BOOLEAN],
     dataReceived : [Players -> BOOLEAN],
     queue : [Players -> Seq(Events)],
     failed : SUBSET Failures]

TypeOK == link \in Links /\ calls \in 0 .. MaxCalls /\ joins \in 0 .. MaxJoins

\* attachedPlayers: a player's number is its rank among those attached.
PlayerId(l, p) == Cardinality({q \in l.attached : q < p})
Ids(l) == 0 .. Cardinality(l.attached) - 1

Secondaries(l) == Ids(l) \ {0}

MAssert(l, ok, what) == IF ok THEN l ELSE [l EXCEPT !.failed = @ \cup {what}]

-----------------------------------------------------------------------------
Sleep(l, p) == [l EXCEPT !.asleep[p] = TRUE]
Wake(l, ids) ==
    [l EXCEPT !.asleep = [p \in Players |->
        @[p] /\ ~(p \in l.attached /\ PlayerId(l, p) \in ids)]]

\* An event joins a queue after all that are not later.
InsertEvent(q, e) ==
    LET i == SelectInSeq(q, LAMBDA f : f.at > e.at)
    IN IF i = 0 THEN Append(q, e) ELSE InsertAt(q, i, e)

EnqueueEvent(l, e, target) ==
    LET To == {p \in l.attached : PlayerId(l, p) \in target}
    IN MAssert([l EXCEPT !.queue = [p \in Players |->
                   IF p \in To THEN InsertEvent(@[p], e) ELSE @[p]]],
               \A p \in To : Len(l.queue[p]) < MaxEvents, "events")

Event(l, p, type) ==
    [type |-> type, from |-> PlayerId(l, p), at |-> l.time[p], finish |-> l.time[p]]

\* The shared clock moves by d.
Moved(e, d) == [e EXCEPT !.at = @ - d, !.finish = @ - d]
Shift(l, d) ==
    [l EXCEPT !.time = [p \in Players |-> IF p \in l.attached THEN @[p] - d ELSE @[p]],
              !.queue = [p \in Players |-> [i \in DOMAIN @[p] |-> Moved(@[p][i], d)]]]

AdvanceCycle(l, p) == [Shift(l, l.time[p]) EXCEPT !.nextHardSync = @ - l.time[p]]

WaitOnPlayers(l, p) ==
    LET a == MAssert(MAssert(MAssert(l, l.waiting = {}, "waiting"),
                             ~l.asleep[p], "asleep"),
                     PlayerId(l, p) = 0, "primary")
        b == [AdvanceCycle(a, p) EXCEPT !.waiting = Secondaries(l)]
    IN IF Cardinality(l.attached) < 2 THEN a ELSE Wake(Sleep(b, p), Secondaries(l))

\* Mutant of AckPlayer: the first acknowledgement wakes the primary.
AckPlayerEagerly(l, p) ==
    IF PlayerId(l, p) = 0 THEN l
    ELSE Sleep(Wake([l EXCEPT !.waiting = @ \ {PlayerId(l, p)}], {0}), p)

\* Mutant of AckPlayer: the last acknowledgement does not wake it.
AckPlayerQuietly(l, p) ==
    IF PlayerId(l, p) = 0 THEN l
    ELSE Sleep([l EXCEPT !.waiting = @ \ {PlayerId(l, p)}], p)

AckPlayer(l, p) ==
    LET a == [l EXCEPT !.waiting = @ \ {PlayerId(l, p)}]
        b == [a EXCEPT !.transferActive = FALSE,
                       !.dataReceived = [q \in Players |->
                           @[q] \/ (l.transferActive /\ q \in l.attached)]]
    IN IF PlayerId(l, p) = 0 THEN l
       ELSE Sleep(IF a.waiting = {} THEN Wake(b, {0}) ELSE a, p)

\* Mutant of HardSync: the player that comes second is not told.
HardSyncSome(l, p) ==
    WaitOnPlayers(EnqueueEvent(l, Event(l, p, "HARD_SYNC"), {1}), p)

HardSync(l, p) ==
    WaitOnPlayers(EnqueueEvent(l, Event(l, p, "HARD_SYNC"), Secondaries(l)), p)

-----------------------------------------------------------------------------
(* The calls of a machine.                                                 *)
SetMode(l, p, m) ==
    LET a == [l EXCEPT !.mode[p] = m, !.busy[p] = FALSE]
        b == IF PlayerId(l, p) # 0 THEN a
             ELSE WaitOnPlayers([a EXCEPT !.transferMode = m], p)
    IN EnqueueEvent(b, Event(b, p, "MODE_SET"), Ids(l) \ {PlayerId(l, p)})

\* _startTransfer.  A start that is refused leaves SIOCNT busy all the same.
Start(l, p) ==
    LET a == [l EXCEPT !.busy[p] = TRUE]
        b == EnqueueEvent([a EXCEPT !.data = {p}],
                          [Event(l, p, "TRANSFER_START") EXCEPT !.finish = @ + Transfer],
                          Secondaries(l))
    IN IF l.transferActive \/ PlayerId(l, p) # 0 THEN a
       ELSE [WaitOnPlayers(b, p) EXCEPT !.transferActive = TRUE,
                                        !.complete[p] = Transfer, !.newer[p] = TRUE]

\* Mutant of Finish: the primary goes on while others still have to read.
FinishFreely(l, p) ==
    LET a == [l EXCEPT !.complete[p] = Never, !.busy[p] = FALSE, !.newer[p] = FALSE]
    IN IF l.transferMode # l.mode[p] THEN a ELSE [a EXCEPT !.dataReceived[p] = FALSE]

\* _sioFinish and GBASIOLockstepDriverFinishMultiplayer and its like.
Finish(l, p) ==
    LET a == [l EXCEPT !.complete[p] = Never, !.busy[p] = FALSE, !.newer[p] = FALSE]
        b == [a EXCEPT !.dataReceived[p] = FALSE]
    IN IF l.transferMode # l.mode[p] THEN a
       ELSE IF PlayerId(l, p) = 0 THEN HardSync(b, p) ELSE b

-----------------------------------------------------------------------------
(* _lockstepEvent.                                                         *)
UntilNextSync(l, p) == (IF PlayerId(l, p) = 0 THEN Interval ELSE 0) - l.time[p]

\* Mutant of Lead: no hard sync, the others only sleep when they are ahead.
LeadFreely(l, p) ==
    LET a == AdvanceCycle(l, p)
    IN IF a.transferActive THEN a ELSE Wake(a, Secondaries(a))

\* The primary moves the clock and lets the others run; now and then it waits
\* for them.
Lead(l, p) ==
    LET a == AdvanceCycle(l, p)
        b == IF a.transferActive THEN a ELSE Wake(a, Secondaries(a))
        c == IF b.waiting = {} THEN HardSync(b, p) ELSE b
    IN IF b.nextHardSync >= 0 THEN b
       ELSE [c EXCEPT !.nextHardSync = @ + HardSyncInterval]

\* What the handler keeps of an event it takes from the queue: the state, the
\* time of its next call, and whether a player has left.
TakeEvent(x, p, late) ==
    LET l == [x.link EXCEPT !.queue[p] = Tail(@)]
        e == Head(x.link.queue[p])
        n == e.finish - l.time[p] - late
        reply == Event(l, p, "MODE_SET")
        sent == [l EXCEPT !.complete[p] = n, !.busy[p] = TRUE, !.data = @ \cup {p}]
    IN CASE e.type = "ATTACH" -> [x EXCEPT !.link = EnqueueEvent(l, reply, {e.from})]
         [] e.type = "DETACH" ->
              [x EXCEPT !.link = EnqueueEvent(l, reply, Ids(l) \ {e.from}), !.wasDetach = TRUE]
         [] e.type = "HARD_SYNC" -> [x EXCEPT !.link = AckPlayer(l, p)]
         [] e.type = "MODE_SET" -> [x EXCEPT !.link = IF e.from = 0 THEN AckPlayer(l, p) ELSE l]
         [] e.type = "TRANSFER_START" ->
              [x EXCEPT !.next = n, !.link = AckPlayer(sent, p)]

\* Nothing in the queue is due.
Caught(l, p) == l.queue[p] = <<>> \/ Head(l.queue[p]).at > l.time[p]

\* The loop over the queue.  It ends, as what an event adds to the player's own
\* queue, a reply at most, adds nothing more.
Taken(x, p, late) ==
    LET taken[n \in Nat] ==
            IF n = 0 THEN x
            ELSE LET y == taken[n - 1]
                 IN  IF Caught(y.link, p) THEN y ELSE TakeEvent(y, p, late)
    IN  taken

TakeEvents(x, p, late) == Taken(x, p, late)[2 * Len(x.link.queue[p])]

LockstepEvent(l, p) ==
    LET a == IF PlayerId(l, p) = 0 /\ l.time[p] >= 0 THEN Lead(l, p) ELSE l
        x == TakeEvents([link |-> a, next |-> UntilNextSync(a, p),
                         wasDetach |-> l.queue[p] # <<>> /\ Head(l.queue[p]).type = "DETACH"],
                        p, -l.event[p])
        b == x.link
        empty == b.queue[p] = <<>>
        n == IF ~empty /\ Head(b.queue[p]).at - b.time[p] < x.next
             THEN Head(b.queue[p]).at - b.time[p] ELSE x.next
        c == [b EXCEPT !.event[p] = n, !.newer[p] = FALSE]
    IN IF PlayerId(b, p) # 0 /\ n <= Interval /\ (empty \/ x.wasDetach)
       THEN [Sleep(c, p) EXCEPT !.event[p] = IF n < Gain THEN Gain ELSE n]
       ELSE c

-----------------------------------------------------------------------------
(* GBASIOLockstepDriverReset of a new player, and _removePlayer.           *)
\* _reconfigPlayers when one is left: the clock becomes the local time of its
\* machine, and not the time at which it is on the link.
Alone(l, p) ==
    [Shift(l, l.time[p] + l.offset[p]) EXCEPT
        !.nextHardSync = HardSyncInterval,
        !.transferMode = IF l.transferActive THEN @ ELSE l.mode[p]]

JoinAs(l, p, m, o) ==
    LET a == [l EXCEPT !.attached = @ \cup {p}, !.time[p] = 0, !.mode[p] = m, !.offset[p] = o]
        b == IF l.attached = {} THEN Alone([a EXCEPT !.offset[p] = 0], p)
             ELSE IF PlayerId(a, p) = 0 THEN a
             ELSE EnqueueEvent(a, Event(a, p, "ATTACH"), Ids(a) \ {PlayerId(a, p)})
    IN [b EXCEPT !.event[p] = UntilNextSync(b, p)]

\* The driver of a player that has gone: its event is off the machine's list and
\* its record is freed, so that nothing of it is left for one that comes.
Stopped(l, p) ==
    [l EXCEPT !.busy[p] = FALSE, !.newer[p] = FALSE, !.time[p] = 0, !.event[p] = 0,
              !.complete[p] = Never, !.offset[p] = 0]

LeaveAs(l, p) ==
    LET a == EnqueueEvent(l, Event(l, p, "DETACH"), Ids(l) \ {PlayerId(l, p)})
        b == [Stopped(a, p) EXCEPT
                 !.attached = @ \ {p}, !.waiting = {}, !.transferActive = FALSE, !.data = @ \ {p},
                 !.queue[p] = <<>>, !.asleep[p] = FALSE, !.dataReceived[p] = FALSE]
        c == IF Cardinality(b.attached) # 1 THEN b ELSE Alone(b, CHOOSE q \in b.attached : TRUE)
    IN Wake(c, {0})

Empty ==
    [attached |-> {}, waiting |-> {}, transferActive |-> FALSE, transferMode |-> "normal",
     data |-> {}, nextHardSync |-> 0, time |-> [p \in Players |-> 0],
     offset |-> [p \in Players |-> 0], event |-> [p \in Players |-> 0],
     complete |-> [p \in Players |-> Never], busy |-> [p \in Players |-> FALSE],
     newer |-> [p \in Players |-> FALSE],
     mode |-> [p \in Players |-> "normal"], asleep |-> [p \in Players |-> FALSE],
     dataReceived |-> [p \in Players |-> FALSE], queue |-> [p \in Players |-> <<>>],
     failed |-> {}]

\* Those who are on the link have taken notice of each other.
Init ==
    /\ \E o \in Offsets :
        link = [Empty EXCEPT
            !.attached = Joined, !.nextHardSync = HardSyncInterval,
            !.offset = [p \in Players |-> IF p \in Joined \ {First} THEN o ELSE 0],
            !.event = [p \in Players |-> IF p = First THEN Interval
                                         ELSE IF p \in Joined THEN Gain ELSE 0]]
    /\ calls = 0 /\ joins = 0

-----------------------------------------------------------------------------
Due(p) == link.event[p] <= 0 \/ link.complete[p] <= 0
Runs(p) == p \in link.attached /\ ~link.asleep[p] /\ ~Due(p)

Pass(l, p, c) ==
    [l EXCEPT !.time[p] = @ + c, !.event[p] = @ - c,
              !.complete[p] = IF @ = Never THEN Never ELSE @ - c]

Run(p) ==
    /\ Runs(p)
    /\ \E c \in 1 .. MaxStep : link' = Pass(link, p, c)
    /\ UNCHANGED <<calls, joins>>

\* An instruction that writes SIOCNT.  One write may switch the mode and start a
\* transfer; the start bit of a secondary does nothing else.
Call(p) ==
    /\ Runs(p) /\ calls < MaxCalls
    /\ \E c \in 1 .. MaxStep :
         \/ \E m \in Modes \ {link.mode[p]} : link' = Pass(SetMode(link, p, m), p, c)
         \/ PlayerId(link, p) = 0 /\ ~link.busy[p] /\ link' = Pass(Start(link, p), p, c)
         \/ PlayerId(link, p) = 0 /\ \E m \in Modes \ {link.mode[p]} :
                link' = Pass(Start(SetMode(link, p, m), p), p, c)
    /\ calls' = calls + 1 /\ UNCHANGED joins

\* The next event of the tick: of two at the same time the one scheduled first.
CompletesFirst(p) ==
    \/ link.complete[p] < link.event[p]
    \/ link.complete[p] = link.event[p] /\ ~link.newer[p]

Fire(p) ==
    /\ p \in link.attached
    /\ \/ ~CompletesFirst(p) /\ link.event[p] <= 0 /\ link' = LockstepEvent(link, p)
       \/ CompletesFirst(p) /\ link.complete[p] <= 0 /\ link' = Finish(link, p)
    /\ UNCHANGED <<calls, joins>>

\* The frontend has interrupted all machines when one joins or leaves.
AtRest == \A p \in link.attached : ~Due(p)

Join ==
    /\ joins < MaxJoins /\ AtRest
    /\ \E p \in Players \ link.attached, m \in Modes, o \in Offsets : link' = JoinAs(link, p, m, o)
    /\ joins' = joins + 1 /\ UNCHANGED calls

Leave ==
    /\ joins < MaxJoins /\ AtRest
    /\ \E p \in link.attached : link' = LeaveAs(link, p)
    /\ joins' = joins + 1 /\ UNCHANGED calls

Next ==
    /\ link.failed = {}
    /\ Join \/ Leave \/ \E p \in Players : Run(p) \/ Call(p) \/ Fire(p)

Spec == Init /\ [][Next]_vars
-----------------------------------------------------------------------------
\* What _verifyAwake asserts: not all machines sleep.  Each is only woken by
\* another, so that nobody would ever run again.
SomeoneAwake == link.attached # {} => \E p \in link.attached : ~link.asleep[p]

\* A primary that runs waits for no one: it was woken by the last
\* acknowledgement, and not by an earlier one or by someone who left.
AwakeIsFree ==
    \A p \in link.attached :
        PlayerId(link, p) = 0 /\ ~link.asleep[p] => link.waiting = {}

\* Whoever the primary waits for is going to answer: it runs, and what it has to
\* acknowledge is in its queue.
Acknowledged(e) ==
    \/ e.type \in {"HARD_SYNC", "TRANSFER_START"}
    \/ e.type = "MODE_SET" /\ e.from = 0
WaitIsAnswered ==
    \A p \in link.attached : PlayerId(link, p) \in link.waiting =>
        /\ ~link.asleep[p]
        /\ \E i \in DOMAIN link.queue[p] : Acknowledged(link.queue[p][i])

\* A transfer that ends on a machine finds the words of both players, and not yet
\* those of the next transfer: the drivers ask "Are we running behind?"  It holds
\* as long as the same two machines are on the link.
Finishes(p) ==
    /\ link.complete[p] # Never /\ link'.complete[p] = Never
    /\ link.mode[p] = link.transferMode
DataOnTime ==
    [][\A p \in Players :
           joins' = 0 /\ Cardinality(link.attached) = 2 /\ Finishes(p) =>
               link.dataReceived[p] /\ link.data = link.attached]_vars

\* No machine falls behind the shared clock by more than the hard syncs allow, as
\* long as nobody has joined or left and no assertion has failed.
InStep ==
    joins = 0 /\ link.failed = {} => \A p \in link.attached :
        link.time[p] >= -(HardSyncInterval + Interval + 2 * MaxStep)
=============================================================================
