------------------------------- MODULE LocalMP -------------------------------
(***************************************************************************)
(* Wireless play between emulators on one computer (melonDS-master/src/    *)
(* net/LocalMP.cpp).  Frames go into one ring that every instance reads,   *)
(* the clients' replies into another that the host reads; a semaphore of   *)
(* each reader counts what it has to read.                                 *)
(*                                                                         *)
(* A ring is written and read under a lock, but its semaphores are posted  *)
(* after the lock was released, one by one.  Nobody looks whether a ring is*)
(* full: a reader that was overtaken, or has more tokens than packets,     *)
(* finds old bytes, which may or may not begin with a packet's magic.      *)
(***************************************************************************)
EXTENDS Integers, FiniteSets

CONSTANTS
    Host, Clients, \* the instances, numbered
    Slots,         \* packets that fit into a ring
    MaxPackets,    \* bound: packets sent
    MaxBegins      \* bound: instances that come back

ASSUME HostAssumption == Host \in Nat \ Clients /\ Clients \subseteq Nat /\ IsFiniteSet(Clients)
ASSUME SlotsAssumption == Slots \in Nat \ {0}
ASSUME MaxAssumption == MaxPackets \in Nat /\ MaxBegins \in Nat

Instances == Clients \cup {Host}
Fifos == {"packet", "reply"}

VARIABLES
    ring,        \* MPPacketQueue, MPReplyQueue
    writeAt, readAt,
    sem,         \* SemPool
    connected,   \* ConnectedBitmask
    posts,       \* semaphores that a sender is about to post
    collected,   \* of RecvReplies: whose replies the host has, itself included,
    answered,    \*   which of them had data,
    expected,    \*   and who was connected; {} outside
    round,       \* history: commands sent
    heard,       \* history: the last command that a client received
    replied,     \* history: the last command that it replied to
    unread,      \* history: packets written and not read, by each reader
    sent, begins

rings == <<ring, writeAt, sent>>
reading == <<readAt, sem, unread>>
host == <<collected, answered, expected>>
history == <<round, heard, replied>>
vars == <<rings, reading, connected, posts, host, history, begins>>

None == [from |-> Host, round |-> 0, data |-> FALSE]
Packets == [from : Instances, round : 0 .. MaxPackets, data : BOOLEAN]

TypeOK ==
    /\ ring \in [Fifos -> [0 .. Slots - 1 -> Packets]]
    /\ writeAt \in [Fifos -> 0 .. Slots - 1]
    /\ readAt \in [Fifos -> [Instances -> 0 .. Slots - 1]]
    /\ sem \in [Fifos -> [Instances -> Nat]]
    /\ connected \subseteq Instances
    /\ posts \in [Instances -> SUBSET (Fifos \X Instances)]
    /\ answered \subseteq collected /\ collected \subseteq Instances
    /\ expected \subseteq Instances
    /\ round \in 0 .. MaxPackets
    /\ heard \in [Instances -> 0 .. MaxPackets]
    /\ replied \in [Clients -> 0 .. MaxPackets]
    /\ unread \in [Fifos -> [Instances -> Int]]
    /\ sent \in 0 .. MaxPackets /\ begins \in 0 .. MaxBegins

Init ==
    /\ ring = [f \in Fifos |-> [s \in 0 .. Slots - 1 |-> None]]
    /\ writeAt = [f \in Fifos |-> 0]
    /\ readAt = [f \in Fifos |-> [i \in Instances |-> 0]]
    /\ sem = [f \in Fifos |-> [i \in Instances |-> 0]]
    /\ connected = Instances
    /\ posts = [i \in Instances |-> {}]
    /\ collected = {} /\ answered = {} /\ expected = {}
    /\ round = 0
    /\ heard = [i \in Instances |-> 0]
    /\ replied = [c \in Clients |-> 0]
    /\ unread = [f \in Fifos |-> [i \in Instances |-> 0]]
    /\ sent = 0 /\ begins = 0

-----------------------------------------------------------------------------
(* The rings.                                                              *)

\* An instance whose wireless unit is on and that is in none of the calls.
Idle(i) ==
    /\ i \in connected
    /\ posts[i] = {}
    /\ i = Host => expected = {}

\* FIFOWrite of a packet
Write(f, p) ==
    /\ sent < MaxPackets
    /\ sent' = sent + 1
    /\ ring' = [ring EXCEPT ![f][writeAt[f]] = p]
    /\ writeAt' = [writeAt EXCEPT ![f] = (@ + 1) % Slots]

\* One more packet, after the readers in rs have caught up with the ring.
Grows(f, rs) ==
    unread' = [unread EXCEPT ![f] =
                  [i \in Instances |-> IF i \in rs THEN 1 ELSE @[i] + 1]]

\* A reader gives up what it has not read, and its tokens.
CatchUp(fs, i, at) ==
    /\ sem' = [f \in Fifos |-> [sem[f] EXCEPT ![i] = IF f \in fs THEN 0 ELSE @]]
    /\ readAt' = [f \in Fifos |-> [readAt[f] EXCEPT ![i] = IF f \in fs THEN at[f] ELSE @]]

CaughtUp(fs, i) ==
    unread' = [f \in Fifos |-> [unread[f] EXCEPT ![i] = IF f \in fs THEN 0 ELSE @]]

\* A reader takes a token and reads the packet p at its place ...
Reads(f, i, p) ==
    /\ sem[f][i] > 0
    /\ p = ring[f][readAt[f][i]] /\ p # None
    /\ sem' = [sem EXCEPT ![f][i] = @ - 1]
    /\ readAt' = [readAt EXCEPT ![f][i] = (@ + 1) % Slots]
    /\ unread' = [unread EXCEPT ![f][i] = @ - 1]

\* ... or something else, by which it knows that it was overtaken.
Overtaken(f, i) ==
    /\ sem[f][i] > 0
    /\ unread[f][i] \notin 1 .. Slots
    /\ CatchUp({f}, i, writeAt)
    /\ CaughtUp({f}, i)

-----------------------------------------------------------------------------
(* The instances.                                                          *)

\* Begin, of an instance that had ended.
Begin(i) ==
    /\ i \notin connected /\ posts[i] = {}
    /\ begins < MaxBegins
    /\ begins' = begins + 1
    /\ connected' = connected \cup {i}
    /\ CatchUp(Fifos, i, writeAt)
    /\ CaughtUp(Fifos, i)
    /\ UNCHANGED <<rings, posts, host, history>>

End(i) ==
    /\ Idle(i)
    /\ connected' = connected \ {i}
    /\ UNCHANGED <<rings, reading, posts, host, history, begins>>

\* SendPacket and SendAck: every connected instance is told, the sender too.
SendPacket(i) ==
    /\ Idle(i)
    /\ Write("packet", [from |-> i, round |-> 0, data |-> TRUE])
    /\ Grows("packet", {})
    /\ posts' = [posts EXCEPT ![i] = {"packet"} \X connected]
    /\ UNCHANGED <<readAt, sem, connected, host, history, begins>>

\* SendCmd: replies to earlier commands are given up.
SendCmd ==
    /\ Idle(Host)
    /\ round' = round + 1
    /\ Write("packet", [from |-> Host, round |-> round + 1, data |-> TRUE])
    /\ unread' = [f \in Fifos |-> [i \in Instances |->
                     IF f = "packet" THEN unread[f][i] + 1
                     ELSE IF i = Host THEN 0 ELSE unread[f][i]]]
    /\ CatchUp({"reply"}, Host, writeAt)
    /\ posts' = [posts EXCEPT ![Host] = {"packet"} \X connected]
    /\ collected' = {Host} /\ answered' = {}
    /\ UNCHANGED <<connected, expected, heard, replied, begins>>

\* SendReply to a command that the client received, with or without data.
SendReply(c) ==
    /\ Idle(c)
    /\ replied[c] < heard[c]
    /\ replied' = [replied EXCEPT ![c] = heard[c]]
    /\ \E d \in BOOLEAN : Write("reply", [from |-> c, round |-> heard[c], data |-> d])
    /\ Grows("reply", {})
    /\ posts' = [posts EXCEPT ![c] = {<<"reply", Host>>}]
    /\ UNCHANGED <<readAt, sem, connected, host, round, heard, begins>>

\* Mutant of Post: a sender posts only one of its semaphores.
PostOne(i) ==
    /\ \E t \in posts[i] : sem' = [sem EXCEPT ![t[1]][t[2]] = @ + 1]
    /\ posts' = [posts EXCEPT ![i] = {}]
    /\ UNCHANGED <<rings, readAt, unread, connected, host, history, begins>>

Post(i) ==
    /\ \E t \in posts[i] :
         /\ \A u \in posts[i] : t[2] <= u[2]
         /\ sem' = [sem EXCEPT ![t[1]][t[2]] = @ + 1]
         /\ posts' = [posts EXCEPT ![i] = @ \ {t}]
    /\ UNCHANGED <<rings, readAt, unread, connected, host, history, begins>>

\* RecvPacket and RecvHostPacket; a packet of its own is skipped.
RecvPacket(i) ==
    /\ Idle(i)
    /\ \/ LET p == ring["packet"][readAt["packet"][i]]
          IN /\ Reads("packet", i, p)
             /\ heard' = [heard EXCEPT ![i] = IF p.from # i /\ p.round > 0 THEN p.round ELSE @]
       \/ Overtaken("packet", i) /\ UNCHANGED heard
    /\ UNCHANGED <<rings, connected, posts, host, round, replied, begins>>

\* RecvReplies begins, once after each command, unless all clients have left.
RecvReplies ==
    /\ Idle(Host) /\ collected = {Host}
    /\ connected \ {Host} # {}
    /\ expected' = connected \cup {Host}
    /\ UNCHANGED <<rings, reading, connected, posts, collected, answered, history, begins>>

CollectReturns == expected' = {} /\ collected' = {} /\ answered' = {}

\* Mutant of Stale: only a packet of its own is skipped.
StaleOwn(p) == p.from = Host

\* A packet that the host skips: a reply to an older command.  The code compares
\* times and allows for 32 units; a reply carries the time of its command, and two
\* commands are further apart than that.
Stale(p) == p.from = Host \/ p.round < round

\* It goes on until every instance or every client it asks has replied.
Take(p) ==
    IF Stale(p)
    THEN UNCHANGED host
    ELSE LET all == collected \cup {p.from}
             got == answered \cup (IF p.data THEN {p.from} ELSE {})
         IN IF expected \subseteq all \cup {Host} \/ Clients \subseteq got
            THEN CollectReturns
            ELSE collected' = all /\ answered' = got /\ UNCHANGED expected

Collect ==
    /\ expected # {}
    /\ \/ LET p == ring["reply"][readAt["reply"][Host]] IN Reads("reply", Host, p) /\ Take(p)
       \/ Overtaken("reply", Host) /\ CollectReturns
    /\ UNCHANGED <<rings, connected, posts, history, begins>>

\* No reply came in time.
Timeout ==
    /\ expected # {} /\ sem["reply"][Host] = 0
    /\ CollectReturns
    /\ UNCHANGED <<rings, reading, connected, posts, history, begins>>

Next ==
    \/ \E i \in Instances :
         Begin(i) \/ End(i) \/ SendPacket(i) \/ Post(i) \/ RecvPacket(i)
    \/ SendCmd \/ RecvReplies \/ Collect \/ Timeout
    \/ \E c \in Clients : SendReply(c)

Spec == Init /\ [][Next]_vars

-----------------------------------------------------------------------------
(* Properties.                                                             *)

\* Posts on their way to a reader.
Coming(f, i) == Cardinality({s \in Instances : <<f, i>> \in posts[s]})

Readers(f) == IF f = "reply" THEN {Host} ELSE connected

\* No packet is left behind: what a connected instance has not read it has
\* tokens for, or will have, whoever connects, gives up or is overtaken.
NoneStranded ==
    \A f \in Fifos : \A i \in Readers(f) : sem[f][i] + Coming(f, i) >= unread[f][i]

\* The host counts nobody who has not replied to this very command, whatever old
\* reply it finds in the ring.
RepliesAreCurrent == \A c \in collected \ {Host} : replied[c] = round
=============================================================================
