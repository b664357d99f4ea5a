--------------------------- MODULE LockstepProofs ---------------------------
(***************************************************************************)
(* Proofs about Lockstep, for any number of players.                       *)
(***************************************************************************)
EXTENDS Lockstep, FiniteSetTheorems, WellFoundedInduction, TLAPS

-----------------------------------------------------------------------------
(* Natural numbers.                                                        *)

\* A set of natural numbers has a least element.
LEMMA LeastNat ==
  ASSUME NEW S \in SUBSET Nat, S # {}
  PROVE  \E m \in S : \A k \in S : m <= k
<1>1. IsWellFoundedOn(OpToRel(<, Nat), Nat)
  BY NatLessThanWellFounded
<1>2. PICK m \in S : \A k \in S : ~ (<<k, m>> \in OpToRel(<, Nat))
  BY <1>1, WFMin
<1>3. \A k \in S : ~ (k < m)
  BY <1>2 DEF OpToRel
<1> QED
  BY <1>3

\* Induction, about the set of the numbers for which something holds.
LEMMA Induction ==
  ASSUME NEW S \in SUBSET Nat, 0 \in S, \A n \in S : n + 1 \in S
  PROVE  S = Nat
<1> SUFFICES ASSUME Nat \ S # {} PROVE FALSE
  OBVIOUS
<1>1. PICK m \in Nat \ S : \A k \in Nat \ S : m <= k
  BY LeastNat
<1>2. m - 1 \in Nat /\ m - 1 \notin Nat \ S
  BY <1>1
<1> QED
  BY <1>1, <1>2

-----------------------------------------------------------------------------
(* Queues.                                                                 *)

\* The queue that InsertEvent returns has the event at a place k, and all others
\* in their order.
LEMMA InsertEventFacts ==
  ASSUME NEW q \in Seq(Events), NEW e \in Events
  PROVE  /\ InsertEvent(q, e) \in Seq(Events)
         /\ \E k \in 1 .. Len(q) + 1 :
              /\ Len(InsertEvent(q, e)) = Len(q) + 1
              /\ InsertEvent(q, e)[k] = e
              /\ \A i \in 1 .. k - 1 : InsertEvent(q, e)[i] = q[i]
              /\ \A i \in k + 1 .. Len(q) + 1 : InsertEvent(q, e)[i] = q[i - 1]
<1> DEFINE I == {i \in 1 .. Len(q) : q[i].at > e.at}
           i == SelectInSeq(q, LAMBDA f : f.at > e.at)
<1>1. i = 0 \/ i \in 1 .. Len(q)
  <2>1. i = IF I # {} THEN Min(I) ELSE 0
    BY DEF SelectInSeq
  <2>2. CASE I # {}
    <3>1. I \in SUBSET Nat
      OBVIOUS
    <3> HIDE DEF I
    <3>2. PICK m \in I : \A k \in I : m <= k
      BY <2>2, <3>1, LeastNat
    <3>3. Min(I) \in I
      BY <3>2 DEF Min
    <3>4. I \subseteq 1 .. Len(q)
      BY DEF I
    <3> QED
      BY <2>1, <2>2, <3>3, <3>4
  <2> QED
    BY <2>1, <2>2
<1>2. InsertEvent(q, e) = IF i = 0 THEN Append(q, e) ELSE InsertAt(q, i, e)
  BY DEF InsertEvent
<1> HIDE DEF i
<1>3. CASE i = 0
  <2>1. InsertEvent(q, e) = Append(q, e)
    BY <1>2, <1>3
  <2>2. Append(q, e) \in Seq(Events) /\ Len(Append(q, e)) = Len(q) + 1
        /\ Append(q, e)[Len(q) + 1] = e /\ \A k \in 1 .. Len(q) : Append(q, e)[k] = q[k]
    OBVIOUS
  <2> QED
    BY <2>1, <2>2
<1>4. CASE i # 0
  <2> DEFINE a == SubSeq(q, 1, i - 1)
             b == SubSeq(q, i, Len(q))
             r == a \o <<e>> \o b
  <2>1. InsertEvent(q, e) = r /\ i \in 1 .. Len(q)
    BY <1>1, <1>2, <1>4 DEF InsertAt
  <2>2. /\ a \in Seq(Events) /\ Len(a) = i - 1 /\ \A k \in 1 .. i - 1 : a[k] = q[k]
        /\ b \in Seq(Events) /\ Len(b) = Len(q) - i + 1
        /\ \A k \in 1 .. Len(q) - i + 1 : b[k] = q[i + k - 1]
    BY <2>1
  <2> HIDE DEF a, b
  <2>3. /\ a \o <<e>> \in Seq(Events) /\ Len(a \o <<e>>) = i
        /\ (a \o <<e>>)[i] = e /\ \A k \in 1 .. i - 1 : (a \o <<e>>)[k] = q[k]
    <3>1. i \in Nat /\ Len(<<e>>) = 1 /\ <<e>>[1] = e /\ <<e>> \in Seq(Events)
      BY <2>1
    <3>2. a \o <<e>> \in Seq(Events) /\ Len(a \o <<e>>) = i
      BY <2>1, <2>2, <3>1
    <3>3. (a \o <<e>>)[i] = e
      BY <2>1, <2>2, <3>1
    <3>4. \A k \in 1 .. i - 1 : (a \o <<e>>)[k] = q[k]
      BY <2>1, <2>2, <3>1
    <3> QED
      BY <3>2, <3>3, <3>4
  <2>4. PICK c \in Seq(Events) : c = a \o <<e>>
    BY <2>3
  <2>5. /\ c \o b \in Seq(Events) /\ Len(c \o b) = Len(q) + 1
        /\ \A k \in 1 .. i : (c \o b)[k] = c[k]
        /\ \A k \in i + 1 .. Len(q) + 1 : (c \o b)[k] = b[k - i]
    <3>1. Len(c) = i /\ Len(q) \in Nat /\ i \in Nat /\ Len(b) = Len(q) - i + 1
      BY <2>1, <2>2, <2>3, <2>4
    <3>2. c \o b \in Seq(Events) /\ Len(c \o b) = Len(q) + 1
      BY <2>2, <2>4, <3>1
    <3>3. \A k \in 1 .. i : (c \o b)[k] = c[k]
      BY <2>1, <2>2, <2>4, <3>1
    <3>4. \A k \in i + 1 .. Len(q) + 1 : (c \o b)[k] = b[k - i]
      <4> TAKE k \in i + 1 .. Len(q) + 1
      <4>1. k \in 1 .. Len(c) + Len(b) /\ ~ (k <= Len(c))
        BY <3>1
      <4>2. (c \o b)[k] = b[k - Len(c)]
        BY <2>2, <2>4, <4>1
      <4> QED
        BY <3>1, <4>2
    <3> QED
      BY <3>2, <3>3, <3>4
  <2>6. \A k \in i + 1 .. Len(q) + 1 : (c \o b)[k] = q[k - 1]
    <3> TAKE k \in i + 1 .. Len(q) + 1
    <3>1. k - i \in 1 .. Len(q) - i + 1 /\ i + (k - i) - 1 = k - 1
      BY <2>1
    <3> QED
      BY <2>2, <2>5, <3>1
  <2>7. r = c \o b
    BY <2>4
  <2> HIDE DEF r
  <2> QED
    <3>1. i \in 1 .. Len(q) + 1 /\ i \in 1 .. i
      BY <2>1
    <3>2. r \in Seq(Events) /\ Len(r) = Len(q) + 1 /\ r[i] = e
      BY <2>3, <2>4, <2>5, <2>7, <3>1
    <3>3. \A k \in 1 .. i - 1 : r[k] = q[k]
      BY <2>1, <2>3, <2>4, <2>5, <2>7
    <3>4. \A k \in i + 1 .. Len(q) + 1 : r[k] = q[k - 1]
      BY <2>6, <2>7
    <3> QED
      BY <2>1, <3>1, <3>2, <3>3, <3>4
<1> QED
  BY <1>3, <1>4

LEMMA TailFacts ==
  ASSUME NEW q \in Seq(Events), q # <<>>
  PROVE  /\ Len(q) \in Nat \ {0} /\ Head(q) = q[1] /\ Head(q) \in Events
         /\ Tail(q) \in Seq(Events) /\ Len(Tail(q)) = Len(q) - 1
         /\ \A i \in 1 .. Len(q) - 1 : Tail(q)[i] = q[i + 1]
  OBVIOUS

\* An event, and a queue, relative to a clock that has moved by d.
LEMMA MovedFacts ==
  ASSUME NEW e \in Events, NEW d \in Int
  PROVE  /\ Moved(e, d) \in Events
         /\ Moved(e, d).type = e.type /\ Moved(e, d).from = e.from
         /\ Moved(e, d).at = e.at - d /\ Moved(e, d).finish = e.finish - d
<1> DEFINE g == [e EXCEPT !.at = @ - d]
           f == [g EXCEPT !.finish = @ - d]
<1>1. /\ g \in Events /\ g.type = e.type /\ g.from = e.from
      /\ g.at = e.at - d /\ g.finish = e.finish
  BY DEF Events
<1> HIDE DEF g
<1>2. /\ f \in Events /\ f.type = e.type /\ f.from = e.from
      /\ f.at = e.at - d /\ f.finish = e.finish - d
  BY <1>1 DEF Events
<1>3. f = Moved(e, d)
  BY DEF g, Events, Moved
<1> QED
  BY <1>2, <1>3

LEMMA ShiftedQueue ==
  ASSUME NEW q \in Seq(Events), NEW d \in Int
  PROVE  LET r == [i \in DOMAIN q |-> Moved(q[i], d)]
         IN  /\ r \in Seq(Events) /\ Len(r) = Len(q)
             /\ r = <<>> <=> q = <<>>
             /\ \A i \in 1 .. Len(q) : /\ r[i].type = q[i].type /\ r[i].from = q[i].from
                                       /\ r[i].at = q[i].at - d
                                       /\ r[i].finish = q[i].finish - d
<1> DEFINE r == [i \in DOMAIN q |-> Moved(q[i], d)]
<1>1. DOMAIN q = 1 .. Len(q) /\ Len(q) \in Nat
  OBVIOUS
<1>2. ASSUME NEW i \in 1 .. Len(q)
      PROVE  /\ r[i] = Moved(q[i], d) /\ q[i] \in Events
             /\ r[i].type = q[i].type /\ r[i].from = q[i].from
             /\ r[i].at = q[i].at - d /\ r[i].finish = q[i].finish - d
             /\ r[i] \in Events
  <2>1. r[i] = Moved(q[i], d)
    BY <1>1
  <2>2. q[i] \in Events
    OBVIOUS
  <2> HIDE DEF r
  <2> QED
    BY <2>1, <2>2, MovedFacts, SMTT(30)
<1>3. r = [i \in 1 .. Len(q) |-> r[i]]
  BY <1>1
<1> HIDE DEF r
<1>4. r \in [1 .. Len(q) -> Events]
  BY <1>2, <1>3
<1>5. r \in Seq(Events) /\ Len(r) = Len(q)
  BY <1>1, <1>4
<1>6. r = <<>> <=> q = <<>>
  BY <1>1, <1>5
<1>7. r \in Seq(Events) /\ Len(r) = Len(q) /\ (r = <<>> <=> q = <<>>)
  BY <1>5, <1>6
<1> QED
  BY <1>2, <1>7 DEF r

-----------------------------------------------------------------------------
(* The numbers of the players.                                             *)
N == Cardinality(Joined)
Id(p) == Cardinality({q \in Joined : q < p})
Others == Joined \ {First}

\* A set of players is finite, and numbers them with natural numbers.
LEMMA AttachedFinite ==
  ASSUME NEW A \in SUBSET Players
  PROVE  /\ IsFiniteSet(A) /\ Cardinality(A) \in Nat
         /\ \A p : Cardinality({q \in A : q < p}) \in Nat
<1>1. IsFiniteSet(A)
  BY PlayersAssumption, FS_Subset
<1>2. ASSUME NEW p
      PROVE  Cardinality({q \in A : q < p}) \in Nat
  <2>1. {q \in A : q < p} \in SUBSET A
    OBVIOUS
  <2> QED
    BY <1>1, <2>1, FS_Subset, FS_CardinalityType
<1> QED
  BY <1>1, <1>2, FS_CardinalityType

LEMMA PlayerIdType ==
  ASSUME NEW l \in Links, NEW p
  PROVE  PlayerId(l, p) \in Nat
<1>1. l.attached \in SUBSET Players
  BY DEF Links
<1> QED
  BY <1>1, AttachedFinite DEF PlayerId

\* The first player is the least.
LEMMA FirstFacts ==
  First \in Joined /\ First \in Nat /\ \A q \in Joined : First <= q
<1>1. Joined \in SUBSET Nat /\ Joined # {}
  BY PlayersAssumption, JoinedAssumption
<1>2. \E p \in Joined : \A q \in Joined : p <= q
  BY <1>1, LeastNat
<1> QED
  BY <1>1, <1>2 DEF First

\* Those who joined have numbers of their own, from 0, that of the first, to N - 1.
LEMMA IdFacts ==
  /\ N \in Nat \ {0}
  /\ \A p \in Joined : Id(p) \in 0 .. N - 1
  /\ \A p \in Joined : Id(p) = 0 <=> p = First
  /\ \A p, q \in Joined : Id(p) = Id(q) => p = q
<1>1. Joined \in SUBSET Nat /\ Joined # {} /\ Joined \in SUBSET Players
  BY PlayersAssumption, JoinedAssumption
<1>2. IsFiniteSet(Joined) /\ N \in Nat /\ N # 0
  BY <1>1, AttachedFinite, FS_EmptySet DEF N
<1> DEFINE B(p) == {q \in Joined : q < p}
<1>3. ASSUME NEW p \in Joined, NEW T \in SUBSET Joined, B(p) \subseteq T, p \in T
      PROVE  Id(p) \in Nat /\ Id(p) < Cardinality(T)
  <2>1. IsFiniteSet(B(p)) /\ Cardinality(B(p)) = Id(p) /\ Id(p) \in Nat
    BY <1>1, <1>2, FS_Subset, FS_CardinalityType DEF Id
  <2>2. p \notin B(p)
    BY <1>1
  <2>3. B(p) \cup {p} \in SUBSET T /\ IsFiniteSet(T)
    BY <1>2, <1>3, FS_Subset
  <2>4. Cardinality(B(p) \cup {p}) = Id(p) + 1
    <3> HIDE DEF B
    <3> QED
      BY <2>1, <2>2, FS_AddElement
  <2>5. Cardinality(B(p) \cup {p}) <= Cardinality(T) /\ Cardinality(T) \in Nat
    BY <2>3, FS_Subset, FS_CardinalityType
  <2> QED
    BY <2>1, <2>4, <2>5
<1>4. ASSUME NEW p \in Joined
      PROVE  Id(p) \in 0 .. N - 1
  <2>1. B(p) \subseteq Joined /\ Joined \in SUBSET Joined
    OBVIOUS
  <2>2. Id(p) \in Nat /\ Id(p) < Cardinality(Joined)
    <3> HIDE DEF B
    <3> QED
      BY <1>3, <2>1
  <2> QED
    BY <1>2, <2>2 DEF N
<1>5. ASSUME NEW p \in Joined, NEW q \in Joined, p < q
      PROVE  Id(p) < Id(q)
  <2>1. B(p) \subseteq B(q) /\ p \in B(q) /\ B(q) \in SUBSET Joined /\ Id(q) = Cardinality(B(q))
    <3>1. p \in Nat /\ q \in Nat /\ \A r \in Joined : r \in Nat
      BY <1>1
    <3>2. \A r \in Joined : r < p => r < q
      BY <1>5, <3>1
    <3> QED
      BY <1>5, <3>2 DEF Id
  <2> HIDE DEF B
  <2> QED
    BY <1>3, <2>1
<1>6. ASSUME NEW p \in Joined, NEW q \in Joined, Id(p) = Id(q)
      PROVE  p = q
  <2>1. p \in Nat /\ q \in Nat /\ Id(p) \in Nat /\ Id(q) \in Nat
    BY <1>1, <1>4
  <2> QED
    BY <1>5, <1>6, <2>1
<1>7. Id(First) = 0
  <2>1. B(First) = {}
    <3>1. \A q \in Joined : q \in Nat /\ First \in Nat /\ First <= q
      BY <1>1, FirstFacts
    <3>2. \A q \in Joined : ~ (q < First)
      BY <3>1
    <3> QED
      BY <3>2
  <2> QED
    BY <2>1, FS_EmptySet DEF Id
<1> QED
  BY <1>2, <1>4, <1>6, <1>7, FirstFacts

\* Every number is a player's.
LEMMA IdOnto ==
  ASSUME NEW k \in 0 .. N - 1
  PROVE  \E p \in Joined : Id(p) = k
<1> DEFINE f == [p \in Joined |-> Id(p)]
           T == 0 .. N - 1
<1>1. f \in Injection(Joined, T)
  <2>1. \A p, q \in Joined : f[p] = f[q] => p = q
    BY IdFacts
  <2>2. f \in [Joined -> T]
    BY IdFacts
  <2> HIDE DEF f, T
  <2> QED
    BY <2>1, <2>2 DEF Injection, IsInjective
<1>2. IsFiniteSet(T) /\ Cardinality(T) = N
  BY IdFacts, FS_Interval
<1>3. f \in Surjection(Joined, T)
  <2> HIDE DEF f, T
  <2> QED
    BY <1>1, <1>2, FS_Injection DEF N
<1>4. \E p \in Joined : f[p] = k
  BY <1>3 DEF Surjection
<1> QED
  BY <1>4

-----------------------------------------------------------------------------
(* What the operations on the link return.                                 *)

\* The fields that the waiting for players and the shared clock leave alone.
Frame(l, m) ==
  /\ m.attached = l.attached /\ m.transferActive = l.transferActive
  /\ m.transferMode = l.transferMode /\ m.data = l.data /\ m.offset = l.offset
  /\ m.event = l.event /\ m.complete = l.complete /\ m.newer = l.newer
  /\ m.busy = l.busy /\ m.mode = l.mode /\ m.dataReceived = l.dataReceived

\* The fields that a transfer and the passing of time leave alone.
Keeps(l, m) ==
  /\ m.attached = l.attached /\ m.waiting = l.waiting /\ m.asleep = l.asleep
  /\ m.queue = l.queue /\ m.nextHardSync = l.nextHardSync /\ m.failed = l.failed

LEMMA MAssertFacts ==
  ASSUME NEW l \in Links, NEW ok, NEW what \in Failures
  PROVE  LET m == MAssert(l, ok, what)
         IN  /\ m \in Links /\ Frame(l, m)
             /\ m.time = l.time /\ m.queue = l.queue /\ m.nextHardSync = l.nextHardSync
             /\ m.waiting = l.waiting /\ m.asleep = l.asleep
             /\ m.failed = {} => l.failed = {} /\ ok
  BY DEF MAssert, Links, Frame

LEMMA SleepFacts ==
  ASSUME NEW l \in Links, NEW p \in Players
  PROVE  LET m == Sleep(l, p)
         IN  /\ m \in Links /\ Frame(l, m)
             /\ m.time = l.time /\ m.queue = l.queue /\ m.nextHardSync = l.nextHardSync
             /\ m.waiting = l.waiting /\ m.failed = l.failed
             /\ m.asleep = [l.asleep EXCEPT ![p] = TRUE]
  BY DEF Sleep, Links, Frame

LEMMA WakeFacts ==
  ASSUME NEW l \in Links, NEW ids
  PROVE  LET m == Wake(l, ids)
         IN  /\ m \in Links /\ Frame(l, m)
             /\ m.time = l.time /\ m.queue = l.queue /\ m.nextHardSync = l.nextHardSync
             /\ m.waiting = l.waiting /\ m.failed = l.failed
             /\ m.asleep = [p \in Players |->
                    l.asleep[p] /\ ~ (p \in l.attached /\ PlayerId(l, p) \in ids)]
  BY DEF Wake, Links, Frame

LEMMA EventFacts ==
  ASSUME NEW l \in Links, NEW p \in Players, NEW type \in Types
  PROVE  LET e == Event(l, p, type)
         IN  /\ e \in Events /\ e.type = type /\ e.from = PlayerId(l, p)
             /\ e.at = l.time[p] /\ e.finish = l.time[p]
<1>1. l.time[p] \in Int /\ PlayerId(l, p) \in Nat
  BY PlayerIdType DEF Links
<1> QED
  BY <1>1 DEF Event, Events

LEMMA EnqueueEventFacts ==
  ASSUME NEW l \in Links, NEW e \in Events, NEW target
  PROVE  LET m == EnqueueEvent(l, e, target)
         IN  /\ m \in Links /\ Frame(l, m)
             /\ m.time = l.time /\ m.nextHardSync = l.nextHardSync
             /\ m.waiting = l.waiting /\ m.asleep = l.asleep
             /\ m.failed = {} => l.failed = {}
             /\ \A p \in Players :
                  m.queue[p] = IF p \in l.attached /\ PlayerId(l, p) \in target
                               THEN InsertEvent(l.queue[p], e) ELSE l.queue[p]
<1> DEFINE To == {p \in l.attached : PlayerId(l, p) \in target}
           Q == [p \in Players |-> IF p \in To THEN InsertEvent(l.queue[p], e) ELSE l.queue[p]]
           k == [l EXCEPT !.queue = Q]
           ok == \A p \in To : Len(l.queue[p]) < MaxEvents
<1>1. Q \in [Players -> Seq(Events)]
  <2>1. l.queue \in [Players -> Seq(Events)]
    BY DEF Links
  <2> QED
    BY <2>1, InsertEventFacts
<1>2. EnqueueEvent(l, e, target) = MAssert(k, ok, "events")
  <2>1. k = [l EXCEPT !.queue = [p \in Players |->
                 IF p \in To THEN InsertEvent(@[p], e) ELSE @[p]]]
    OBVIOUS
  <2> QED
    BY <2>1 DEF EnqueueEvent
<1> HIDE DEF Q, ok
<1>3. /\ k \in Links /\ Frame(l, k) /\ k.time = l.time /\ k.nextHardSync = l.nextHardSync
      /\ k.waiting = l.waiting /\ k.asleep = l.asleep /\ k.failed = l.failed /\ k.queue = Q
  BY <1>1 DEF Links, Frame
<1> HIDE DEF k
<1>4. "events" \in Failures
  BY DEF Failures
<1> DEFINE m == MAssert(k, ok, "events")
<1>5. /\ m \in Links /\ Frame(k, m) /\ m.time = k.time /\ m.nextHardSync = k.nextHardSync
      /\ m.waiting = k.waiting /\ m.asleep = k.asleep /\ m.queue = k.queue
      /\ m.failed = {} => k.failed = {}
  BY <1>3, <1>4, MAssertFacts
<1> HIDE DEF m
<1>6. Frame(l, m)
  BY <1>3, <1>5 DEF Frame
<1>7. EnqueueEvent(l, e, target) = m
  BY <1>2 DEF m
<1>8. m.queue = Q /\ \A p \in Players :
         Q[p] = IF p \in l.attached /\ PlayerId(l, p) \in target
                THEN InsertEvent(l.queue[p], e) ELSE l.queue[p]
  BY <1>3, <1>5 DEF Q
<1> QED
  BY <1>3, <1>5, <1>6, <1>7, <1>8

LEMMA ShiftFacts ==
  ASSUME NEW l \in Links, NEW d \in Int
  PROVE  LET m == Shift(l, d)
         IN  /\ m \in Links /\ Frame(l, m)
             /\ m.nextHardSync = l.nextHardSync
             /\ m.waiting = l.waiting /\ m.asleep = l.asleep /\ m.failed = l.failed
             /\ \A p \in Players :
                  /\ m.time[p] = IF p \in l.attached THEN l.time[p] - d ELSE l.time[p]
                  /\ m.queue[p] = [i \in DOMAIN l.queue[p] |-> Moved(l.queue[p][i], d)]
<1> DEFINE T == [p \in Players |-> IF p \in l.attached THEN l.time[p] - d ELSE l.time[p]]
           Q == [p \in Players |-> [i \in DOMAIN l.queue[p] |-> Moved(l.queue[p][i], d)]]
<1>1. l.queue \in [Players -> Seq(Events)] /\ l.time \in [Players -> Int]
  BY DEF Links
<1>2. T \in [Players -> Int]
  BY <1>1
<1>3. Q \in [Players -> Seq(Events)]
  BY <1>1, ShiftedQueue
<1>4. Shift(l, d) = [l EXCEPT !.time = T, !.queue = Q]
  BY DEF Shift
<1> HIDE DEF T, Q
<1> DEFINE m == [l EXCEPT !.time = T, !.queue = Q]
<1>5. /\ m \in Links /\ Frame(l, m) /\ m.nextHardSync = l.nextHardSync
      /\ m.waiting = l.waiting /\ m.asleep = l.asleep /\ m.failed = l.failed
      /\ m.time = T /\ m.queue = Q
  BY <1>2, <1>3 DEF Links, Frame
<1> HIDE DEF m
<1>6. Shift(l, d) = m
  BY <1>4 DEF m
<1>7. \A p \in Players :
        /\ T[p] = IF p \in l.attached THEN l.time[p] - d ELSE l.time[p]
        /\ Q[p] = [i \in DOMAIN l.queue[p] |-> Moved(l.queue[p][i], d)]
  BY DEF T, Q
<1> QED
  BY <1>5, <1>6, <1>7

LEMMA AdvanceCycleFacts ==
  ASSUME NEW l \in Links, NEW p \in Players
  PROVE  LET m == AdvanceCycle(l, p)
             d == l.time[p]
         IN  /\ m \in Links /\ Frame(l, m)
             /\ m.nextHardSync = l.nextHardSync - d
             /\ m.waiting = l.waiting /\ m.asleep = l.asleep /\ m.failed = l.failed
             /\ \A q \in Players :
                  /\ m.time[q] = IF q \in l.attached THEN l.time[q] - d ELSE l.time[q]
                  /\ m.queue[q] = [i \in DOMAIN l.queue[q] |-> Moved(l.queue[q][i], d)]
<1> DEFINE d == l.time[p]
           k == Shift(l, d)
           m == [k EXCEPT !.nextHardSync = @ - d]
<1>1. d \in Int
  BY DEF Links
<1> HIDE DEF d
<1>2. /\ k \in Links /\ Frame(l, k) /\ k.nextHardSync = l.nextHardSync
      /\ k.waiting = l.waiting /\ k.asleep = l.asleep /\ k.failed = l.failed
      /\ \A q \in Players :
           /\ k.time[q] = IF q \in l.attached THEN l.time[q] - d ELSE l.time[q]
           /\ k.queue[q] = [i \in DOMAIN l.queue[q] |-> Moved(l.queue[q][i], d)]
  BY <1>1, ShiftFacts
<1>3. AdvanceCycle(l, p) = m
  BY DEF AdvanceCycle, d
<1> HIDE DEF k
<1>4. /\ m \in Links /\ Frame(k, m) /\ m.nextHardSync = k.nextHardSync - d
      /\ m.waiting = k.waiting /\ m.asleep = k.asleep /\ m.failed = k.failed
      /\ m.time = k.time /\ m.queue = k.queue
  <2>1. k.nextHardSync - d \in Int
    BY <1>1, <1>2 DEF Links
  <2>2. m \in Links
    BY <1>2, <2>1 DEF Links
  <2>3. Frame(k, m)
    BY <1>2 DEF Links, Frame
  <2> QED
    BY <1>2, <2>2, <2>3 DEF Links
<1> HIDE DEF m
<1>5. Frame(l, m)
  BY <1>2, <1>4 DEF Frame
<1>6. AdvanceCycle(l, p) = m /\ d = l.time[p]
  BY <1>3 DEF d
<1> QED
  BY <1>2, <1>4, <1>5, <1>6

LEMMA WaitOnPlayersFacts ==
  ASSUME NEW l \in Links, NEW p \in Players
  PROVE  LET m == WaitOnPlayers(l, p)
             d == l.time[p]
         IN  /\ m \in Links /\ Frame(l, m)
             /\ m.failed = {} => /\ l.failed = {} /\ l.waiting = {} /\ ~l.asleep[p]
                                 /\ PlayerId(l, p) = 0
             /\ Cardinality(l.attached) < 2 =>
                  /\ m.time = l.time /\ m.queue = l.queue /\ m.nextHardSync = l.nextHardSync
                  /\ m.waiting = l.waiting /\ m.asleep = l.asleep
             /\ ~ (Cardinality(l.attached) < 2) =>
                  /\ m.nextHardSync = l.nextHardSync - d
                  /\ m.waiting = Secondaries(l)
                  /\ \A q \in Players :
                       /\ m.asleep[q] <=> /\ q = p \/ l.asleep[q]
                                          /\ ~ (/\ q \in l.attached
                                                /\ PlayerId(l, q) \in Secondaries(l))
                       /\ m.time[q] = IF q \in l.attached THEN l.time[q] - d ELSE l.time[q]
                       /\ m.queue[q] = [i \in DOMAIN l.queue[q] |-> Moved(l.queue[q][i], d)]
<1> DEFINE d == l.time[p]
           S == Secondaries(l)
           ok1 == l.waiting = {}
           ok2 == ~l.asleep[p]
           ok3 == PlayerId(l, p) = 0
           a1 == MAssert(l, ok1, "waiting")
           a2 == MAssert(a1, ok2, "asleep")
           a == MAssert(a2, ok3, "primary")
           b1 == AdvanceCycle(a, p)
           b == [b1 EXCEPT !.waiting = S]
           c == Sleep(b, p)
           m == Wake(c, S)
<1>1. WaitOnPlayers(l, p) = IF Cardinality(l.attached) < 2 THEN a ELSE m
  BY DEF WaitOnPlayers
<1> HIDE DEF ok1, ok2, ok3
<1>2. {"waiting", "asleep", "primary"} \subseteq Failures
  BY DEF Failures
<1>3. /\ a1 \in Links /\ Frame(l, a1)
      /\ a1.time = l.time /\ a1.queue = l.queue /\ a1.nextHardSync = l.nextHardSync
      /\ a1.waiting = l.waiting /\ a1.asleep = l.asleep
      /\ a1.failed = {} => l.failed = {} /\ ok1
  BY <1>2, MAssertFacts
<1> HIDE DEF a1
<1>4. /\ a2 \in Links /\ Frame(a1, a2)
      /\ a2.time = a1.time /\ a2.queue = a1.queue /\ a2.nextHardSync = a1.nextHardSync
      /\ a2.waiting = a1.waiting /\ a2.asleep = a1.asleep
      /\ a2.failed = {} => a1.failed = {} /\ ok2
  BY <1>2, <1>3, MAssertFacts
<1> HIDE DEF a2
<1>5. /\ a \in Links /\ Frame(a2, a)
      /\ a.time = a2.time /\ a.queue = a2.queue /\ a.nextHardSync = a2.nextHardSync
      /\ a.waiting = a2.waiting /\ a.asleep = a2.asleep
      /\ a.failed = {} => a2.failed = {} /\ ok3
  BY <1>2, <1>4, MAssertFacts
<1> HIDE DEF a
<1>6. /\ a \in Links /\ Frame(l, a)
      /\ a.time = l.time /\ a.queue = l.queue /\ a.nextHardSync = l.nextHardSync
      /\ a.waiting = l.waiting /\ a.asleep = l.asleep /\ a.attached = l.attached
      /\ a.failed = {} => /\ l.failed = {} /\ l.waiting = {} /\ ~l.asleep[p]
                          /\ PlayerId(l, p) = 0
  BY <1>3, <1>4, <1>5 DEF Frame, ok1, ok2, ok3
<1>7. /\ b1 \in Links /\ Frame(a, b1) /\ b1.nextHardSync = l.nextHardSync - d
      /\ b1.waiting = a.waiting /\ b1.asleep = a.asleep /\ b1.failed = a.failed
      /\ \A q \in Players :
           /\ b1.time[q] = IF q \in l.attached THEN l.time[q] - d ELSE l.time[q]
           /\ b1.queue[q] = [i \in DOMAIN l.queue[q] |-> Moved(l.queue[q][i], d)]
  <2>1. /\ b1 \in Links /\ Frame(a, b1) /\ b1.nextHardSync = a.nextHardSync - a.time[p]
        /\ b1.waiting = a.waiting /\ b1.asleep = a.asleep /\ b1.failed = a.failed
        /\ \A q \in Players :
             /\ b1.time[q] = IF q \in a.attached THEN a.time[q] - a.time[p] ELSE a.time[q]
             /\ b1.queue[q] = [i \in DOMAIN a.queue[q] |-> Moved(a.queue[q][i], a.time[p])]
    BY <1>6, AdvanceCycleFacts
  <2> QED
    BY <1>6, <2>1
<1> HIDE DEF b1
<1>8. S \in SUBSET Nat
  <2>1. l.attached \in SUBSET Players
    BY DEF Links
  <2> QED
    BY <2>1, AttachedFinite DEF Secondaries, Ids
<1> HIDE DEF S
<1>9. /\ b \in Links /\ Frame(b1, b) /\ b.nextHardSync = b1.nextHardSync
      /\ b.waiting = S /\ b.asleep = b1.asleep /\ b.failed = b1.failed
      /\ b.time = b1.time /\ b.queue = b1.queue
  BY <1>7, <1>8 DEF Links, Frame
<1> HIDE DEF b
<1>10. /\ c \in Links /\ Frame(b, c) /\ c.nextHardSync = b.nextHardSync
       /\ c.waiting = b.waiting /\ c.failed = b.failed
       /\ c.time = b.time /\ c.queue = b.queue
       /\ c.asleep = [b.asleep EXCEPT ![p] = TRUE]
  BY <1>9, SleepFacts
<1> HIDE DEF c
<1>11. /\ m \in Links /\ Frame(c, m) /\ m.nextHardSync = c.nextHardSync
       /\ m.waiting = c.waiting /\ m.failed = c.failed
       /\ m.time = c.time /\ m.queue = c.queue
       /\ m.asleep = [q \in Players |->
                         c.asleep[q] /\ ~ (q \in c.attached /\ PlayerId(c, q) \in S)]
  <2>1. c \in Links
    BY <1>10
  <2> QED
    BY <2>1, WakeFacts, Zenon
<1> HIDE DEF m
<1>12. c.attached = l.attached /\ Frame(l, m) /\ \A q : PlayerId(c, q) = PlayerId(l, q)
  BY <1>6, <1>7, <1>9, <1>10, <1>11 DEF Frame, PlayerId
<1>13. l.asleep \in [Players -> BOOLEAN]
  BY DEF Links
<1>14. ASSUME NEW q \in Players
       PROVE  m.asleep[q] <=> /\ q = p \/ l.asleep[q]
                              /\ ~ (q \in l.attached /\ PlayerId(l, q) \in S)
  <2>1. c.asleep[q] <=> q = p \/ l.asleep[q]
    BY <1>6, <1>7, <1>9, <1>10, <1>13
  <2> QED
    BY <1>11, <1>12, <2>1
<1>15. m.failed = a.failed /\ m.nextHardSync = l.nextHardSync - d /\ m.waiting = S
       /\ m.time = b1.time /\ m.queue = b1.queue
  BY <1>7, <1>9, <1>10, <1>11
<1> QED
  BY <1>1, <1>6, <1>7, <1>11, <1>12, <1>14, <1>15 DEF S

LEMMA AckPlayerFacts ==
  ASSUME NEW l \in Links, NEW p \in Players
  PROVE  LET m == AckPlayer(l, p)
             w == l.waiting \ {PlayerId(l, p)}
         IN  /\ m \in Links
             /\ PlayerId(l, p) = 0 => m = l
             /\ m.attached = l.attached /\ m.transferMode = l.transferMode
             /\ m.data = l.data /\ m.offset = l.offset /\ m.event = l.event
             /\ m.complete = l.complete /\ m.newer = l.newer /\ m.busy = l.busy
             /\ m.mode = l.mode /\ m.time = l.time /\ m.queue = l.queue
             /\ m.nextHardSync = l.nextHardSync /\ m.failed = l.failed
             /\ PlayerId(l, p) # 0 =>
                  /\ m.waiting = w
                  /\ m.transferActive <=> l.transferActive /\ w # {}
                  /\ \A q \in Players :
                       /\ m.asleep[q] <=> \/ q = p
                                          \/ /\ l.asleep[q]
                                             /\ ~ (/\ w = {} /\ q \in l.attached
                                                   /\ PlayerId(l, q) = 0)
                       /\ m.dataReceived[q] <=> \/ l.dataReceived[q]
                                                \/ w = {} /\ l.transferActive /\ q \in l.attached
<1> DEFINE w == l.waiting \ {PlayerId(l, p)}
           a == [l EXCEPT !.waiting = @ \ {PlayerId(l, p)}]
           b == [a EXCEPT !.transferActive = FALSE,
                          !.dataReceived = [q \in Players |->
                              @[q] \/ (l.transferActive /\ q \in l.attached)]]
           c == Wake(b, {0})
<1>1. CASE PlayerId(l, p) = 0
  BY <1>1 DEF AckPlayer
<1>2. CASE PlayerId(l, p) # 0
  <2>1. AckPlayer(l, p) = Sleep(IF a.waiting = {} THEN c ELSE a, p)
    BY <1>2 DEF AckPlayer
  <2>2. /\ a \in Links /\ Frame(l, a) /\ a.nextHardSync = l.nextHardSync
        /\ a.time = l.time /\ a.queue = l.queue /\ a.failed = l.failed
        /\ a.asleep = l.asleep /\ a.waiting = w
    BY DEF Links, Frame
  <2> HIDE DEF a
  <2>3. /\ b \in Links /\ b.attached = a.attached /\ b.transferMode = a.transferMode
        /\ b.data = a.data /\ b.offset = a.offset /\ b.event = a.event
        /\ b.complete = a.complete /\ b.newer = a.newer /\ b.busy = a.busy
        /\ b.mode = a.mode /\ b.time = a.time /\ b.queue = a.queue
        /\ b.nextHardSync = a.nextHardSync /\ b.failed = a.failed
        /\ b.waiting = a.waiting /\ b.asleep = a.asleep /\ b.transferActive = FALSE
        /\ b.dataReceived = [q \in Players |->
               a.dataReceived[q] \/ (l.transferActive /\ q \in l.attached)]
    BY <2>2 DEF Links
  <2> HIDE DEF b
  <2>4. /\ c \in Links /\ Frame(b, c) /\ c.nextHardSync = b.nextHardSync
        /\ c.time = b.time /\ c.queue = b.queue /\ c.failed = b.failed
        /\ c.waiting = b.waiting
        /\ c.asleep = [q \in Players |->
               b.asleep[q] /\ ~ (q \in b.attached /\ PlayerId(b, q) \in {0})]
    BY <2>3, WakeFacts
  <2> HIDE DEF c
  <2>5. /\ a.attached = l.attached /\ b.attached = l.attached /\ c.attached = l.attached
        /\ \A q : PlayerId(b, q) = PlayerId(l, q)
    BY <2>2, <2>3, <2>4 DEF Frame, PlayerId
  <2>6. l.asleep \in [Players -> BOOLEAN] /\ l.dataReceived \in [Players -> BOOLEAN]
        /\ l.transferActive \in BOOLEAN /\ p \in Players
    BY DEF Links
  <2>7. CASE w = {}
    <3> DEFINE m == Sleep(c, p)
    <3>1. /\ m \in Links /\ Frame(c, m) /\ m.nextHardSync = c.nextHardSync
          /\ m.time = c.time /\ m.queue = c.queue /\ m.failed = c.failed
          /\ m.waiting = c.waiting /\ m.asleep = [c.asleep EXCEPT ![p] = TRUE]
      BY <2>4, SleepFacts
    <3>2. AckPlayer(l, p) = m
      BY <2>1, <2>2, <2>7
    <3> HIDE DEF m
    <3>3. ASSUME NEW q \in Players
          PROVE  /\ m.asleep[q] <=> q = p \/ (l.asleep[q] /\ ~ (q \in l.attached /\ PlayerId(l, q) = 0))
                 /\ m.dataReceived[q] <=> l.dataReceived[q] \/ (l.transferActive /\ q \in l.attached)
      <4>1. m.asleep[q] <=> q = p \/ c.asleep[q]
        BY <2>4, <3>1 DEF Links
      <4>2. c.asleep[q] <=> l.asleep[q] /\ ~ (q \in l.attached /\ PlayerId(l, q) = 0)
        BY <2>2, <2>3, <2>4, <2>5, ZenonT(30)
      <4>3. b.dataReceived[q] <=> l.dataReceived[q] \/ (l.transferActive /\ q \in l.attached)
        BY <2>2, <2>3 DEF Frame
      <4>4. m.dataReceived = b.dataReceived
        BY <2>4, <3>1 DEF Frame
      <4> QED
        BY <4>1, <4>2, <4>3, <4>4
    <3> QED
      BY <1>2, <2>2, <2>3, <2>4, <2>5, <2>7, <3>1, <3>2, <3>3 DEF Frame
  <2>8. CASE w # {}
    <3> DEFINE m == Sleep(a, p)
    <3>1. /\ m \in Links /\ Frame(a, m) /\ m.nextHardSync = a.nextHardSync
          /\ m.time = a.time /\ m.queue = a.queue /\ m.failed = a.failed
          /\ m.waiting = a.waiting /\ m.asleep = [a.asleep EXCEPT ![p] = TRUE]
      BY <2>2, SleepFacts
    <3>2. AckPlayer(l, p) = m
      BY <2>1, <2>2, <2>8
    <3> HIDE DEF m
    <3>3. ASSUME NEW q \in Players
          PROVE  m.asleep[q] <=> q = p \/ l.asleep[q]
      BY <2>2, <2>6, <3>1
    <3> QED
      BY <1>2, <2>2, <2>8, <3>1, <3>2, <3>3, ZenonT(30) DEF Frame
  <2> QED
    BY <2>7, <2>8
<1> QED
  BY <1>1, <1>2

-----------------------------------------------------------------------------
(* The handlers return a link.                                             *)
LEMMA HardSyncType ==
  ASSUME NEW l \in Links, NEW p \in Players
  PROVE  HardSync(l, p) \in Links
<1> DEFINE e == Event(l, p, "HARD_SYNC")
           k == EnqueueEvent(l, e, Secondaries(l))
<1>1. e \in Events
  BY EventFacts DEF Types
<1> HIDE DEF e
<1>2. k \in Links
  BY <1>1, EnqueueEventFacts
<1>3. HardSync(l, p) = WaitOnPlayers(k, p)
  BY DEF HardSync, e
<1> HIDE DEF k
<1> QED
  BY <1>2, <1>3, WaitOnPlayersFacts

LEMMA SetModeType ==
  ASSUME NEW l \in Links, NEW p \in Players, NEW m \in Modes
  PROVE  SetMode(l, p, m) \in Links
<1> DEFINE a == [l EXCEPT !.mode[p] = m, !.busy[p] = FALSE]
           c == [a EXCEPT !.transferMode = m]
           b == IF PlayerId(l, p) # 0 THEN a ELSE WaitOnPlayers(c, p)
           e == Event(b, p, "MODE_SET")
           t == Ids(l) \ {PlayerId(l, p)}
<1>1. a \in Links
  BY DEF Links
<1> HIDE DEF a
<1>2. c \in Links
  BY <1>1 DEF Links
<1> HIDE DEF c
<1>3. b \in Links
  BY <1>1, <1>2, WaitOnPlayersFacts
<1>4. SetMode(l, p, m) = EnqueueEvent(b, e, t)
  BY DEF SetMode, a, c
<1> HIDE DEF b, t
<1>5. e \in Events
  BY <1>3, EventFacts DEF Types
<1> HIDE DEF e
<1> QED
  BY <1>3, <1>4, <1>5, EnqueueEventFacts

LEMMA StartType ==
  ASSUME NEW l \in Links, NEW p \in Players
  PROVE  Start(l, p) \in Links
<1> DEFINE a == [l EXCEPT !.busy[p] = TRUE]
           e == Event(l, p, "TRANSFER_START")
           f == [e EXCEPT !.finish = @ + Transfer]
           c == [a EXCEPT !.data = {p}]
           b == EnqueueEvent(c, f, Secondaries(l))
           w == WaitOnPlayers(b, p)
           m == [w EXCEPT !.transferActive = TRUE, !.complete[p] = Transfer, !.newer[p] = TRUE]
<1>1. a \in Links
  BY DEF Links
<1>2. e \in Events
  BY EventFacts DEF Types
<1>3. Start(l, p) = IF l.transferActive \/ PlayerId(l, p) # 0 THEN a ELSE m
  BY DEF Start
<1> HIDE DEF a, e
<1>4. Transfer \in Int
  BY CyclesAssumption
<1>5. f \in Events
  BY <1>2, <1>4 DEF Events
<1> HIDE DEF f
<1>6. c \in Links
  BY <1>1 DEF Links
<1> HIDE DEF c
<1>7. b \in Links
  BY <1>5, <1>6, EnqueueEventFacts
<1> HIDE DEF b
<1>8. w \in Links
  BY <1>7, WaitOnPlayersFacts
<1> HIDE DEF w
<1>9. m \in Links
  BY <1>4, <1>8 DEF Links
<1> QED
  BY <1>1, <1>3, <1>9

LEMMA FinishType ==
  ASSUME NEW l \in Links, NEW p \in Players
  PROVE  Finish(l, p) \in Links
<1> DEFINE a == [l EXCEPT !.complete[p] = Never, !.busy[p] = FALSE, !.newer[p] = FALSE]
           b == [a EXCEPT !.dataReceived[p] = FALSE]
<1>1. Finish(l, p) = IF l.transferMode # l.mode[p] THEN a
                     ELSE IF PlayerId(l, p) = 0 THEN HardSync(b, p) ELSE b
  BY DEF Finish
<1>2. Never \in Int
  BY CyclesAssumption
<1>3. a \in Links
  BY <1>2 DEF Links
<1> HIDE DEF a
<1>4. b \in Links
  BY <1>3 DEF Links
<1> HIDE DEF b
<1> QED
  BY <1>1, <1>3, <1>4, HardSyncType

LEMMA LeadType ==
  ASSUME NEW l \in Links, NEW p \in Players
  PROVE  Lead(l, p) \in Links
<1> DEFINE a == AdvanceCycle(l, p)
           b == IF a.transferActive THEN a ELSE Wake(a, Secondaries(a))
           c == IF b.waiting = {} THEN HardSync(b, p) ELSE b
           m == [c EXCEPT !.nextHardSync = @ + HardSyncInterval]
<1>1. Lead(l, p) = IF b.nextHardSync >= 0 THEN b ELSE m
  BY DEF Lead
<1>2. a \in Links
  BY AdvanceCycleFacts
<1> HIDE DEF a
<1>3. b \in Links
  BY <1>2, WakeFacts
<1> HIDE DEF b
<1>4. c \in Links
  BY <1>3, HardSyncType
<1> HIDE DEF c
<1>5. HardSyncInterval \in Int
  BY CyclesAssumption
<1>6. c.nextHardSync + HardSyncInterval \in Int
  BY <1>4, <1>5 DEF Links
<1>7. m \in Links
  BY <1>4, <1>6 DEF Links
<1> QED
  BY <1>1, <1>3, <1>7

LEMMA PassFacts ==
  ASSUME NEW l \in Links, NEW p \in Players, NEW c \in Int
  PROVE  LET m == Pass(l, p, c)
         IN  /\ m \in Links /\ Keeps(l, m) /\ m.transferActive = l.transferActive
             /\ m.transferMode = l.transferMode /\ m.data = l.data /\ m.newer = l.newer
             /\ m.busy = l.busy /\ m.mode = l.mode /\ m.dataReceived = l.dataReceived
             /\ m.time[p] = l.time[p] + c /\ m.event[p] = l.event[p] - c
             /\ m.complete[p] = IF l.complete[p] = Never THEN Never ELSE l.complete[p] - c
             /\ \A q \in Players \ {p} : /\ m.time[q] = l.time[q] /\ m.event[q] = l.event[q]
                                        /\ m.complete[q] = l.complete[q]
<1> DEFINE T == [l.time EXCEPT ![p] = @ + c]
           E == [l.event EXCEPT ![p] = @ - c]
           C == [l.complete EXCEPT ![p] = IF @ = Never THEN Never ELSE @ - c]
           m == [l EXCEPT !.time = T, !.event = E, !.complete = C]
<1>1. Never \in Int
  BY CyclesAssumption
<1>2. /\ l.time \in [Players -> Int] /\ l.event \in [Players -> Int]
      /\ l.complete \in [Players -> Int]
  BY DEF Links
<1>3. T \in [Players -> Int] /\ E \in [Players -> Int]
  BY <1>2
<1>4. C \in [Players -> Int]
  BY <1>1, <1>2
<1>5. Pass(l, p, c) = m
  BY DEF Pass
<1>6. /\ T[p] = l.time[p] + c /\ E[p] = l.event[p] - c
      /\ C[p] = IF l.complete[p] = Never THEN Never ELSE l.complete[p] - c
      /\ \A q \in Players \ {p} : /\ T[q] = l.time[q] /\ E[q] = l.event[q]
                                 /\ C[q] = l.complete[q]
  BY <1>2
<1> HIDE DEF T, E, C
<1>7. /\ m \in Links /\ Keeps(l, m) /\ m.transferActive = l.transferActive
      /\ m.transferMode = l.transferMode /\ m.data = l.data /\ m.newer = l.newer
      /\ m.busy = l.busy /\ m.mode = l.mode /\ m.dataReceived = l.dataReceived
      /\ m.time = T /\ m.event = E /\ m.complete = C
  BY <1>3, <1>4 DEF Links, Keeps
<1> HIDE DEF m
<1> QED
  BY <1>5, <1>6, <1>7

-----------------------------------------------------------------------------
(* The loop over the queue.                                                *)
Loops == [link : Links, next : Int, wasDetach : BOOLEAN]

LEMMA TakeEventType ==
  ASSUME NEW x \in Loops, NEW p \in Players, NEW late \in Int, ~Caught(x.link, p)
  PROVE  TakeEvent(x, p, late) \in Loops
<1> DEFINE l == [x.link EXCEPT !.queue[p] = Tail(@)]
           e == Head(x.link.queue[p])
           n == e.finish - l.time[p] - late
           reply == Event(l, p, "MODE_SET")
           sent == [l EXCEPT !.complete[p] = n, !.busy[p] = TRUE, !.data = @ \cup {p}]
<1>1. x.link \in Links /\ x.next \in Int /\ x.wasDetach \in BOOLEAN
      /\ DOMAIN x = {"link", "next", "wasDetach"}
  BY DEF Loops
<1>2. x.link.queue[p] \in Seq(Events) /\ x.link.queue[p] # <<>>
  BY <1>1 DEF Caught, Links
<1>3. Tail(x.link.queue[p]) \in Seq(Events) /\ e \in Events
  BY <1>2, TailFacts
<1>4. l \in Links
  BY <1>1, <1>3 DEF Links
<1>5. TakeEvent(x, p, late) =
        CASE e.type = "ATTACH" -> [x EXCEPT !.link = EnqueueEvent(l, reply, {e.from})]
          [] e.type = "DETACH" ->
               [x EXCEPT !.link = EnqueueEvent(l, reply, Ids(l) \ {e.from}), !.wasDetach = TRUE]
          [] e.type = "HARD_SYNC" -> [x EXCEPT !.link = AckPlayer(l, p)]
          [] e.type = "MODE_SET" -> [x EXCEPT !.link = IF e.from = 0 THEN AckPlayer(l, p) ELSE l]
          [] e.type = "TRANSFER_START" ->
               [x EXCEPT !.next = n, !.link = AckPlayer(sent, p)]
  BY DEF TakeEvent
<1> HIDE DEF l, e
<1>6. n \in Int /\ e.type \in Types
  BY <1>3, <1>4 DEF Events, Links
<1> HIDE DEF n
<1>7. sent \in Links
  BY <1>4, <1>6 DEF Links
<1> HIDE DEF sent
<1>8. reply \in Events
  BY <1>4, EventFacts DEF Types
<1> HIDE DEF reply
<1>9. /\ AckPlayer(l, p) \in Links /\ AckPlayer(sent, p) \in Links
      /\ \A t : EnqueueEvent(l, reply, t) \in Links
  BY <1>4, <1>7, <1>8, AckPlayerFacts, EnqueueEventFacts
<1>10. \A k \in Links : [x EXCEPT !.link = k] \in Loops
  BY <1>1 DEF Loops
<1>11. \A k \in Links : [x EXCEPT !.link = k, !.wasDetach = TRUE] \in Loops
  BY <1>1 DEF Loops
<1>12. \A k \in Links : [x EXCEPT !.next = n, !.link = k] \in Loops
  BY <1>1, <1>6 DEF Loops
<1> QED
  BY <1>4, <1>5, <1>6, <1>9, <1>10, <1>11, <1>12 DEF Types

\* A turn of the loop, and the loop over n turns.
Turn(y, p, late) == IF Caught(y.link, p) THEN y ELSE TakeEvent(y, p, late)

IsLoop(g, n, x, p, late) ==
  /\ g = [i \in 0 .. n |-> g[i]] /\ g[0] = x
  /\ \A i \in 1 .. n : g[i] = Turn(g[i - 1], p, late)

IsTaken(f, x, p, late) ==
  f = [n \in Nat |-> IF n = 0 THEN x ELSE Turn(f[n - 1], p, late)]

LEMMA LoopExists ==
  ASSUME NEW x, NEW p, NEW late, NEW n \in Nat
  PROVE  \E g : IsLoop(g, n, x, p, late)
<1> DEFINE S == {k \in Nat : \E g : IsLoop(g, k, x, p, late)}
<1>1. 0 \in S
  <2>1. IsLoop([i \in 0 .. 0 |-> x], 0, x, p, late)
    BY DEF IsLoop
  <2> QED
    BY <2>1
<1>2. ASSUME NEW k \in S
      PROVE  k + 1 \in S
  <2>1. PICK g : IsLoop(g, k, x, p, late)
    OBVIOUS
  <2> DEFINE h == [i \in 0 .. k + 1 |-> IF i = k + 1 THEN Turn(g[k], p, late) ELSE g[i]]
  <2>2. h[k + 1] = Turn(g[k], p, late) /\ \A i \in 0 .. k : h[i] = g[i]
    OBVIOUS
  <2>3. h = [i \in 0 .. k + 1 |-> h[i]]
    OBVIOUS
  <2> HIDE DEF h
  <2>4. h[0] = x
    BY <2>1, <2>2 DEF IsLoop
  <2>5. ASSUME NEW i \in 1 .. k + 1
        PROVE  h[i] = Turn(h[i - 1], p, late)
    <3>1. CASE i = k + 1
      <4>1. i - 1 = k /\ k \in 0 .. k
        BY <3>1
      <4> QED
        BY <2>2, <3>1, <4>1
    <3>2. CASE i # k + 1
      <4>1. i \in 1 .. k /\ i \in 0 .. k /\ i - 1 \in 0 .. k
        BY <3>2
      <4>2. g[i] = Turn(g[i - 1], p, late)
        BY <2>1, <4>1 DEF IsLoop
      <4>3. h[i] = g[i] /\ h[i - 1] = g[i - 1]
        BY <2>2, <4>1
      <4> QED
        BY <4>2, <4>3
    <3> QED
      BY <3>1, <3>2
  <2>6. IsLoop(h, k + 1, x, p, late)
    BY <2>3, <2>4, <2>5 DEF IsLoop
  <2> QED
    BY <2>6
<1>3. S = Nat
  <2>1. S \in SUBSET Nat
    OBVIOUS
  <2> HIDE DEF S
  <2> QED
    BY <1>1, <1>2, <2>1, Induction
<1> QED
  BY <1>3

LEMMA LoopsAgree ==
  ASSUME NEW x, NEW p, NEW late, NEW n \in Nat, NEW m \in n .. n + 1, NEW g, NEW h,
         IsLoop(g, n, x, p, late), IsLoop(h, m, x, p, late)
  PROVE  g[n] = h[n]
<1> DEFINE S == {k \in Nat : k <= n => g[k] = h[k]}
<1>1. 0 \in S
  BY DEF IsLoop
<1>2. ASSUME NEW k \in S
      PROVE  k + 1 \in S
  <2>1. CASE k + 1 <= n
    <3>1. k + 1 \in 1 .. n /\ k + 1 \in 1 .. m /\ k <= n /\ (k + 1) - 1 = k
      BY <2>1
    <3>2. g[k + 1] = Turn(g[k], p, late) /\ h[k + 1] = Turn(h[k], p, late)
      BY <3>1 DEF IsLoop
    <3> QED
      BY <3>1, <3>2
  <2> QED
    BY <2>1
<1>3. S = Nat
  <2>1. S \in SUBSET Nat
    OBVIOUS
  <2> HIDE DEF S
  <2> QED
    BY <1>1, <1>2, <2>1, Induction
<1> QED
  BY <1>3

LEMMA TakenExists ==
  ASSUME NEW x, NEW p, NEW late
  PROVE  \E f : IsTaken(f, x, p, late)
<1> DEFINE R(n) == CHOOSE g : IsLoop(g, n, x, p, late)
           f == [n \in Nat |-> R(n)[n]]
<1>1. ASSUME NEW n \in Nat
      PROVE  IsLoop(R(n), n, x, p, late)
  BY LoopExists
<1>2. ASSUME NEW n \in Nat
      PROVE  f[n] = IF n = 0 THEN x ELSE Turn(f[n - 1], p, late)
  <2>1. CASE n = 0
    BY <1>1, <2>1 DEF IsLoop
  <2>2. CASE n # 0
    <3>1. n - 1 \in Nat /\ n \in n - 1 .. (n - 1) + 1
      BY <2>2
    <3>2. IsLoop(R(n), n, x, p, late) /\ IsLoop(R(n - 1), n - 1, x, p, late)
      BY <1>1, <3>1
    <3>3. R(n - 1)[n - 1] = R(n)[n - 1]
      BY <3>1, <3>2, LoopsAgree
    <3>4. R(n)[n] = Turn(R(n)[n - 1], p, late)
      BY <2>2, <3>2 DEF IsLoop
    <3>5. f[n] = R(n)[n] /\ f[n - 1] = R(n - 1)[n - 1]
      BY <3>1
    <3> QED
      BY <2>2, <3>3, <3>4, <3>5
  <2> QED
    BY <2>1, <2>2
<1>3. IsTaken(f, x, p, late)
  <2>1. f = [n \in Nat |-> f[n]]
    OBVIOUS
  <2> HIDE DEF f
  <2> QED
    BY <1>2, <2>1 DEF IsTaken
<1> QED
  BY <1>3

\* The loop starts with x and goes on turn by turn.
LEMMA TakenFacts ==
  ASSUME NEW x, NEW p, NEW late
  PROVE  /\ Taken(x, p, late)[0] = x
         /\ \A n \in Nat : Taken(x, p, late)[n + 1] = Turn(Taken(x, p, late)[n], p, late)
<1>1. Taken(x, p, late) = CHOOSE f : IsTaken(f, x, p, late)
  BY DEF Taken, IsTaken, Turn
<1>2. PICK t : t = Taken(x, p, late)
  OBVIOUS
<1>3. t = [n \in Nat |-> IF n = 0 THEN x ELSE Turn(t[n - 1], p, late)]
  BY <1>1, <1>2, TakenExists DEF IsTaken
<1> QED
  BY <1>2, <1>3

\* What holds before the loop and stays so over each of its turns holds after it.
LEMMA LoopInvariant ==
  ASSUME NEW p, NEW late, NEW S, NEW x \in S, \A y \in S : Turn(y, p, late) \in S,
         NEW n \in Nat
  PROVE  Taken(x, p, late)[n] \in S
<1> DEFINE K == {k \in Nat : Taken(x, p, late)[k] \in S}
<1>1. 0 \in K
  BY TakenFacts
<1>2. ASSUME NEW k \in K
      PROVE  k + 1 \in K
  BY TakenFacts
<1>3. K = Nat
  <2>1. K \in SUBSET Nat
    OBVIOUS
  <2> HIDE DEF K
  <2> QED
    BY <1>1, <1>2, <2>1, Induction
<1> QED
  BY <1>3

LEMMA TakeEventsType ==
  ASSUME NEW x \in Loops, NEW p \in Players, NEW late \in Int
  PROVE  TakeEvents(x, p, late) \in Loops
<1>1. \A y \in Loops : Turn(y, p, late) \in Loops
  BY TakeEventType DEF Turn
<1>2. 2 * Len(x.link.queue[p]) \in Nat
  BY DEF Loops, Links
<1> QED
  BY <1>1, <1>2, LoopInvariant DEF TakeEvents

LEMMA LockstepEventType ==
  ASSUME NEW l \in Links, NEW p \in Players
  PROVE  LockstepEvent(l, p) \in Links
<1> DEFINE a == IF PlayerId(l, p) = 0 /\ l.time[p] >= 0 THEN Lead(l, p) ELSE l
           u == UntilNextSync(a, p)
           w == l.queue[p] # <<>> /\ Head(l.queue[p]).type = "DETACH"
           y == [link |-> a, next |-> u, wasDetach |-> w]
           x == TakeEvents(y, p, -l.event[p])
           b == x.link
           empty == b.queue[p] = <<>>
           n == IF ~empty /\ Head(b.queue[p]).at - b.time[p] < x.next
                THEN Head(b.queue[p]).at - b.time[p] ELSE x.next
           c == [b EXCEPT !.event[p] = n, !.newer[p] = FALSE]
           s == Sleep(c, p)
           m == [s EXCEPT !.event[p] = IF n < Gain THEN Gain ELSE n]
<1>1. LockstepEvent(l, p) =
        IF PlayerId(b, p) # 0 /\ n <= Interval /\ (empty \/ x.wasDetach) THEN m ELSE c
  BY DEF LockstepEvent
<1>2. a \in Links
  BY LeadType
<1> HIDE DEF a
<1>3. {Interval, Gain} \subseteq Int
  BY CyclesAssumption
<1>4. u \in Int
  BY <1>2, <1>3 DEF UntilNextSync, Links
<1> HIDE DEF u
<1>5. w \in BOOLEAN
  OBVIOUS
<1> HIDE DEF w
<1>6. y \in Loops
  BY <1>2, <1>4, <1>5 DEF Loops
<1> HIDE DEF y
<1>7. -l.event[p] \in Int
  BY DEF Links
<1>8. x \in Loops
  BY <1>6, <1>7, TakeEventsType
<1> HIDE DEF x
<1>9. b \in Links /\ x.next \in Int
  BY <1>8 DEF Loops
<1> HIDE DEF b
<1>10. b.queue[p] \in Seq(Events) /\ b.time[p] \in Int
  BY <1>9 DEF Links
<1>11. ~empty => Head(b.queue[p]).at \in Int
  BY <1>10, TailFacts DEF Events
<1>12. n \in Int
  BY <1>9, <1>10, <1>11
<1> HIDE DEF n
<1>13. c \in Links
  BY <1>9, <1>12 DEF Links
<1> HIDE DEF c
<1>14. s \in Links
  BY <1>13, SleepFacts
<1> HIDE DEF s
<1>15. m \in Links
  BY <1>3, <1>12, <1>14 DEF Links
<1> QED
  BY <1>1, <1>13, <1>15

-----------------------------------------------------------------------------
(* Type correctness.                                                       *)
LEMMA AloneType ==
  ASSUME NEW l \in Links, NEW p \in Players
  PROVE  Alone(l, p) \in Links
<1> DEFINE d == l.time[p] + l.offset[p]
           s == Shift(l, d)
           t == IF l.transferActive THEN s.transferMode ELSE l.mode[p]
           m == [s EXCEPT !.nextHardSync = HardSyncInterval, !.transferMode = t]
<1>1. d \in Int
  BY DEF Links
<1>2. Alone(l, p) = m
  BY DEF Alone
<1> HIDE DEF d
<1>3. s \in Links
  BY <1>1, ShiftFacts
<1> HIDE DEF s
<1>4. t \in Modes /\ HardSyncInterval \in Int
  BY <1>3, CyclesAssumption DEF Links
<1> HIDE DEF t
<1>5. m \in Links
  BY <1>3, <1>4 DEF Links
<1> QED
  BY <1>2, <1>5

LEMMA JoinAsType ==
  ASSUME NEW l \in Links, NEW p \in Players, NEW m \in Modes, NEW o \in Int
  PROVE  JoinAs(l, p, m, o) \in Links
<1> DEFINE zero == 0
           A == l.attached \cup {p}
           T == [l.time EXCEPT ![p] = zero]
           M == [l.mode EXCEPT ![p] = m]
           O == [l.offset EXCEPT ![p] = o]
           a == [l EXCEPT !.attached = A, !.time = T, !.mode = M, !.offset = O]
           Z == [a.offset EXCEPT ![p] = zero]
           z == [a EXCEPT !.offset = Z]
           e == Event(a, p, "ATTACH")
           t == Ids(a) \ {PlayerId(a, p)}
           b == IF l.attached = {} THEN Alone(z, p)
                ELSE IF PlayerId(a, p) = 0 THEN a ELSE EnqueueEvent(a, e, t)
           u == UntilNextSync(b, p)
           j == [b EXCEPT !.event[p] = u]
<1>1. JoinAs(l, p, m, o) = j
  BY DEF JoinAs
<1>2. zero \in Int
  OBVIOUS
<1> HIDE DEF zero
<1>a. /\ A \in SUBSET Players /\ T \in [Players -> Int] /\ M \in [Players -> Modes]
      /\ O \in [Players -> Int]
  BY <1>2 DEF Links
<1> HIDE DEF A, T, M, O
<1>b. a \in Links
  BY <1>a DEF Links
<1> HIDE DEF a
<1>c. Z \in [Players -> Int]
  BY <1>2, <1>b DEF Links
<1> HIDE DEF Z
<1>3. z \in Links
  BY <1>b, <1>c DEF Links
<1> HIDE DEF z
<1>4. e \in Events
  BY <1>b, EventFacts DEF Types
<1> HIDE DEF e, t
<1>5. b \in Links
  BY <1>b, <1>3, <1>4, AloneType, EnqueueEventFacts
<1> HIDE DEF b
<1>6. Interval \in Int
  BY CyclesAssumption
<1>7. u \in Int
  BY <1>5, <1>6 DEF UntilNextSync, Links
<1> HIDE DEF u
<1>8. j \in Links
  BY <1>5, <1>7 DEF Links
<1> QED
  BY <1>1, <1>8

LEMMA StoppedType ==
  ASSUME NEW l \in Links, NEW p \in Players
  PROVE  Stopped(l, p) \in Links
<1> DEFINE nil == 0
           B == [l.busy EXCEPT ![p] = FALSE]
           W == [l.newer EXCEPT ![p] = FALSE]
           T == [l.time EXCEPT ![p] = nil]
           E == [l.event EXCEPT ![p] = nil]
           C == [l.complete EXCEPT ![p] = Never]
           O == [l.offset EXCEPT ![p] = nil]
           b == [l EXCEPT !.busy = B, !.newer = W, !.time = T, !.event = E, !.complete = C,
                          !.offset = O]
<1>1. Stopped(l, p) = b
  BY DEF Stopped
<1>2. nil \in Int /\ Never \in Int
  BY CyclesAssumption
<1> HIDE DEF nil
<1>3. B \in [Players -> BOOLEAN] /\ W \in [Players -> BOOLEAN]
  BY DEF Links
<1>4. /\ T \in [Players -> Int] /\ E \in [Players -> Int]
      /\ C \in [Players -> Int] /\ O \in [Players -> Int]
  BY <1>2 DEF Links
<1> HIDE DEF B, W, T, E, C, O
<1>5. b \in Links
  BY <1>3, <1>4 DEF Links
<1> QED
  BY <1>1, <1>5

LEMMA LeaveAsType ==
  ASSUME NEW l \in Links, NEW p \in Players
  PROVE  LeaveAs(l, p) \in Links
<1> DEFINE e == Event(l, p, "DETACH")
           t == Ids(l) \ {PlayerId(l, p)}
           a == Stopped(EnqueueEvent(l, e, t), p)
           A == a.attached \ {p}
           Q == [a.queue EXCEPT ![p] = <<>>]
           S == [a.asleep EXCEPT ![p] = FALSE]
           R == [a.dataReceived EXCEPT ![p] = FALSE]
           D == a.data \ {p}
           b == [a EXCEPT !.attached = A, !.waiting = {}, !.transferActive = FALSE,
                          !.data = D, !.queue = Q, !.asleep = S, !.dataReceived = R]
           o == CHOOSE q \in b.attached : TRUE
           c == IF Cardinality(b.attached) # 1 THEN b ELSE Alone(b, o)
<1>1. LeaveAs(l, p) = Wake(c, {0})
  <2> DEFINE k == [a EXCEPT !.attached = @ \ {p}, !.waiting = {}, !.transferActive = FALSE,
                            !.data = @ \ {p}, !.queue[p] = <<>>, !.asleep[p] = FALSE,
                            !.dataReceived[p] = FALSE]
             Rest(x) == Wake(IF Cardinality(x.attached) # 1 THEN x
                             ELSE Alone(x, CHOOSE q \in x.attached : TRUE), {0})
  <2>1. LeaveAs(l, p) = Rest(k)
    BY Zenon DEF LeaveAs
  <2>2. k = b
    <3> HIDE DEF a
    <3> QED
      OBVIOUS
  <2>3. Rest(b) = Wake(c, {0})
    OBVIOUS
  <2> HIDE DEF Rest, k, b
  <2> QED
    BY <2>1, <2>2, <2>3
<1>2. e \in Events
  BY EventFacts DEF Types
<1> HIDE DEF e, t
<1>3. a \in Links
  BY <1>2, EnqueueEventFacts, StoppedType
<1> HIDE DEF a
<1>4. <<>> \in Seq(Events)
  OBVIOUS
<1>5. /\ A \in SUBSET Players /\ D \in SUBSET Players
      /\ Q \in [Players -> Seq(Events)]
  BY <1>3, <1>4 DEF Links
<1>6. S \in [Players -> BOOLEAN] /\ R \in [Players -> BOOLEAN]
  BY <1>3 DEF Links
<1> HIDE DEF A, Q, S, R, D
<1>7. b \in Links
  BY <1>3, <1>5, <1>6 DEF Links
<1> HIDE DEF b
<1>8. Cardinality(b.attached) = 1 => o \in Players
  <2>1. b.attached \in SUBSET Players /\ IsFiniteSet(b.attached)
    BY <1>7, AttachedFinite DEF Links
  <2>2. Cardinality(b.attached) = 1 => b.attached # {}
    BY <2>1, FS_EmptySet
  <2> QED
    BY <2>1, <2>2
<1> HIDE DEF o
<1>9. c \in Links
  BY <1>7, <1>8, AloneType
<1> HIDE DEF c
<1> QED
  BY <1>1, <1>9, WakeFacts

\* Before anything has happened: those who joined, each a little ahead of the first.
LEMMA InitFacts ==
  ASSUME Init
  PROVE  /\ link \in Links /\ calls = 0 /\ joins = 0
         /\ link.attached = Joined /\ link.waiting = {} /\ link.failed = {}
         /\ link.transferActive = FALSE /\ link.transferMode = "normal"
         /\ link.nextHardSync = HardSyncInterval
         /\ \A p \in Players :
              /\ link.time[p] = 0 /\ link.queue[p] = <<>> /\ link.asleep[p] = FALSE
              /\ link.complete[p] = Never /\ link.mode[p] = "normal"
              /\ link.event[p] = IF p = First THEN Interval ELSE IF p \in Joined THEN Gain ELSE 0
<1>1. PICK o \in Offsets :
        link = [Empty EXCEPT
            !.attached = Joined, !.nextHardSync = HardSyncInterval,
            !.offset = [p \in Players |-> IF p \in Joined \ {First} THEN o ELSE 0],
            !.event = [p \in Players |-> IF p = First THEN Interval
                                         ELSE IF p \in Joined THEN Gain ELSE 0]]
  BY DEF Init
<1> DEFINE O == [p \in Players |-> IF p \in Joined \ {First} THEN o ELSE 0]
           E == [p \in Players |-> IF p = First THEN Interval
                                   ELSE IF p \in Joined THEN Gain ELSE 0]
<1>2. {Interval, Gain, HardSyncInterval, Never, o} \subseteq Int
  BY CyclesAssumption, OffsetsAssumption
<1>3. O \in [Players -> Int] /\ E \in [Players -> Int]
  BY <1>2
<1>4. \A p \in Players :
        E[p] = IF p = First THEN Interval ELSE IF p \in Joined THEN Gain ELSE 0
  OBVIOUS
<1> HIDE DEF O, E
<1>5. link = [Empty EXCEPT !.attached = Joined, !.nextHardSync = HardSyncInterval,
                           !.offset = O, !.event = E]
  BY <1>1 DEF O, E
<1>6. Empty \in Links
  <2>1. /\ [p \in Players |-> 0] \in [Players -> Int]
        /\ [p \in Players |-> Never] \in [Players -> Int]
        /\ [p \in Players |-> FALSE] \in [Players -> BOOLEAN]
        /\ [p \in Players |-> "normal"] \in [Players -> Modes]
        /\ [p \in Players |-> <<>>] \in [Players -> Seq(Events)]
    BY <1>2 DEF Modes
  <2> QED
    BY <2>1 DEF Empty, Links, Modes
<1>7. /\ Empty.waiting = {} /\ Empty.failed = {} /\ Empty.transferActive = FALSE
      /\ Empty.transferMode = "normal"
      /\ \A p \in Players :
           /\ Empty.time[p] = 0 /\ Empty.queue[p] = <<>> /\ Empty.asleep[p] = FALSE
           /\ Empty.complete[p] = Never /\ Empty.mode[p] = "normal"
  BY DEF Empty
<1>8. Joined \in SUBSET Players
  BY JoinedAssumption
<1>9. /\ link \in Links /\ link.attached = Joined /\ link.nextHardSync = HardSyncInterval
      /\ link.event = E /\ link.waiting = Empty.waiting /\ link.failed = Empty.failed
      /\ link.transferActive = Empty.transferActive /\ link.transferMode = Empty.transferMode
      /\ link.time = Empty.time /\ link.queue = Empty.queue /\ link.asleep = Empty.asleep
      /\ link.complete = Empty.complete /\ link.mode = Empty.mode
  BY <1>2, <1>3, <1>5, <1>6, <1>8 DEF Links
<1> QED
  BY <1>4, <1>7, <1>9 DEF Init

\* Every step keeps the link's type.
LEMMA TypeStep ==
  ASSUME TypeOK, [Next]_vars
  PROVE  TypeOK'
<1>1. CASE UNCHANGED vars
  BY <1>1 DEF vars, TypeOK
<1>2. CASE Join
  <2>1. PICK p \in Players, m \in Modes, o \in Int : link' = JoinAs(link, p, m, o)
    BY <1>2, OffsetsAssumption DEF Join
  <2>2. link' \in Links
    BY <2>1, JoinAsType DEF TypeOK
  <2>3. joins' \in 0 .. MaxJoins /\ calls' = calls
    BY <1>2, BoundsAssumption DEF Join, TypeOK
  <2> QED
    BY <2>2, <2>3 DEF TypeOK
<1>3. CASE Leave
  <2>1. PICK p \in Players : link' = LeaveAs(link, p)
    BY <1>3 DEF Leave, TypeOK, Links
  <2>2. link' \in Links
    BY <2>1, LeaveAsType DEF TypeOK
  <2>3. joins' \in 0 .. MaxJoins /\ calls' = calls
    BY <1>3, BoundsAssumption DEF Leave, TypeOK
  <2> QED
    BY <2>2, <2>3 DEF TypeOK
<1>4. 1 .. MaxStep \subseteq Int
  OBVIOUS
<1>5. ASSUME NEW p \in Players, Run(p)
      PROVE  TypeOK'
  <2>1. PICK c \in Int : link' = Pass(link, p, c)
    BY <1>4, <1>5 DEF Run
  <2>2. link' \in Links
    BY <2>1, PassFacts DEF TypeOK
  <2> QED
    BY <1>5, <2>2 DEF TypeOK, Run
<1>6. ASSUME NEW p \in Players, Call(p)
      PROVE  TypeOK'
  <2>1. PICK c \in Int, l \in Links : link' = Pass(l, p, c)
    <3>1. CASE \E c \in 1 .. MaxStep, m \in Modes : link' = Pass(SetMode(link, p, m), p, c)
      BY <1>4, <3>1, SetModeType DEF TypeOK
    <3>2. CASE \E c \in 1 .. MaxStep : link' = Pass(Start(link, p), p, c)
      BY <1>4, <3>2, StartType DEF TypeOK
    <3>3. CASE \E c \in 1 .. MaxStep, m \in Modes : link' = Pass(Start(SetMode(link, p, m), p), p, c)
      BY <1>4, <3>3, SetModeType, StartType DEF TypeOK
    <3> QED
      BY <1>6, <3>1, <3>2, <3>3 DEF Call
  <2>2. link' \in Links
    BY <2>1, PassFacts
  <2>3. calls' \in 0 .. MaxCalls /\ joins' = joins
    BY <1>6, BoundsAssumption DEF Call, TypeOK
  <2> QED
    BY <2>2, <2>3 DEF TypeOK
<1>7. ASSUME NEW p \in Players, Fire(p)
      PROVE  TypeOK'
  <2>1. link' \in Links
    BY <1>7, LockstepEventType, FinishType DEF Fire, TypeOK
  <2> QED
    BY <1>7, <2>1 DEF TypeOK, Fire
<1> QED
  BY <1>1, <1>2, <1>3, <1>5, <1>6, <1>7 DEF Next

\* The link keeps its type, whoever joins or leaves: the numbers, times and events
\* that the handlers compute are those that its fields hold.
THEOREM LinkTypeCorrect == Spec => []TypeOK
<1>1. Init => TypeOK
  BY InitFacts, BoundsAssumption DEF TypeOK
<1>2. TypeOK /\ [Next]_vars => TypeOK'
  BY TypeStep
<1> QED
  BY <1>1, <1>2, PTL DEF Spec

-----------------------------------------------------------------------------
(* Who waits for whom, as long as nobody joins or leaves: those on the link*)
(* are the ones who were on it at the start, the primary sleeps exactly    *)
(* while it waits, and whom it waits for is awake and has something to     *)
(* acknowledge in its queue.                                               *)
Stable(l) ==
  /\ l.attached = Joined /\ l.waiting \subseteq 1 .. N - 1
  /\ \A p \in Players : \A i \in 1 .. Len(l.queue[p]) :
       l.queue[p][i].type \notin {"ATTACH", "DETACH"} /\ l.queue[p][i].from < N

Sleeps(l) ==
  /\ l.asleep[First] <=> l.waiting # {}
  /\ \A p \in Joined : Id(p) \in l.waiting => ~l.asleep[p]

Has(l, p) == \E i \in 1 .. Len(l.queue[p]) : Acknowledged(l.queue[p][i])
Answered(l) == \A p \in Joined : Id(p) \in l.waiting => Has(l, p)

Base(l) == l \in Links /\ Stable(l) /\ Sleeps(l)
Core(l) == Base(l) /\ Answered(l)

LEMMA StableFacts ==
  ASSUME NEW l, l.attached = Joined
  PROVE  /\ Cardinality(l.attached) = N /\ Ids(l) = 0 .. N - 1 /\ Secondaries(l) = 1 .. N - 1
         /\ \A p : PlayerId(l, p) = Id(p)
<1>1. Cardinality(l.attached) = N /\ Ids(l) = 0 .. N - 1 /\ \A p : PlayerId(l, p) = Id(p)
  BY DEF N, Ids, PlayerId, Id
<1> QED
  BY <1>1, IdFacts DEF Secondaries

LEMMA JoinedFacts ==
  /\ \A p \in Joined : p \in Players /\ (p \in Others <=> Id(p) \in 1 .. N - 1)
  /\ First \in Joined /\ Id(First) = 0 /\ 0 \notin 1 .. N - 1
  BY IdFacts, FirstFacts, JoinedAssumption DEF Others

\* The fields that these depend on.
LEMMA SameCore ==
  ASSUME NEW l, NEW m \in Links,
         m.attached = l.attached, m.waiting = l.waiting, m.asleep = l.asleep,
         m.queue = l.queue
  PROVE  (Base(l) => Base(m)) /\ (Core(l) => Core(m)) /\ \A p : Has(l, p) => Has(m, p)
  BY DEF Base, Core, Stable, Sleeps, Answered, Has

\* An event that joins a queue is in it, with all that were.
LEMMA InsertMembers ==
  ASSUME NEW q \in Seq(Events), NEW e \in Events
  PROVE  LET r == InsertEvent(q, e)
         IN  /\ \E i \in 1 .. Len(r) : r[i] = e
             /\ \A i \in 1 .. Len(r) : r[i] = e \/ \E j \in 1 .. Len(q) : r[i] = q[j]
             /\ \A j \in 1 .. Len(q) : \E i \in 1 .. Len(r) : r[i] = q[j]
<1> DEFINE r == InsertEvent(q, e)
<1>1. PICK k \in 1 .. Len(q) + 1 :
         /\ Len(r) = Len(q) + 1 /\ r[k] = e
         /\ \A i \in 1 .. k - 1 : r[i] = q[i]
         /\ \A i \in k + 1 .. Len(q) + 1 : r[i] = q[i - 1]
  BY InsertEventFacts
<1> HIDE DEF r
<1>2. Len(q) \in Nat /\ k \in 1 .. Len(r)
  BY <1>1
<1>3. ASSUME NEW i \in 1 .. Len(r)
      PROVE  r[i] = e \/ \E j \in 1 .. Len(q) : r[i] = q[j]
  <2>1. CASE i = k
    BY <1>1, <2>1
  <2>2. CASE i < k
    <3>1. i \in 1 .. k - 1 /\ i \in 1 .. Len(q)
      BY <1>1, <1>2, <2>2
    <3> QED
      BY <1>1, <3>1
  <2>3. CASE i > k
    <3>1. i \in k + 1 .. Len(q) + 1 /\ i - 1 \in 1 .. Len(q)
      BY <1>1, <1>2, <2>3
    <3> QED
      BY <1>1, <3>1
  <2> QED
    BY <1>2, <2>1, <2>2, <2>3
<1>4. ASSUME NEW j \in 1 .. Len(q)
      PROVE  \E i \in 1 .. Len(r) : r[i] = q[j]
  <2>1. CASE j < k
    <3>1. j \in 1 .. k - 1 /\ j \in 1 .. Len(r)
      BY <1>1, <1>2, <2>1
    <3> QED
      BY <1>1, <3>1
  <2>2. CASE ~ (j < k)
    <3>1. j + 1 \in k + 1 .. Len(q) + 1 /\ j + 1 \in 1 .. Len(r) /\ (j + 1) - 1 = j
      BY <1>1, <1>2, <2>2
    <3> QED
      BY <1>1, <3>1
  <2> QED
    BY <2>1, <2>2
<1> QED
  BY <1>1, <1>2, <1>3, <1>4 DEF r

\* The event e of a player, in the queues of those whom it tells.
LEMMA EnqueueCore ==
  ASSUME NEW l, Base(l), NEW e \in Events, NEW t,
         e.type \notin {"ATTACH", "DETACH"}, e.from < N
  PROVE  LET m == EnqueueEvent(l, e, t)
         IN  /\ Base(m) /\ (Core(l) => Core(m))
             /\ \A p \in Joined : Has(l, p) => Has(m, p)
             /\ Acknowledged(e) => \A p \in Joined : Id(p) \in t => Has(m, p)
<1> DEFINE m == EnqueueEvent(l, e, t)
<1>1. l \in Links /\ Stable(l) /\ l.attached = Joined /\ l.queue \in [Players -> Seq(Events)]
  BY DEF Base, Stable, Links
<1>2. /\ m \in Links /\ Frame(l, m) /\ m.waiting = l.waiting /\ m.asleep = l.asleep
      /\ \A p \in Players :
           m.queue[p] = IF p \in Joined /\ Id(p) \in t
                        THEN InsertEvent(l.queue[p], e) ELSE l.queue[p]
  BY <1>1, EnqueueEventFacts, StableFacts
<1> HIDE DEF m
<1>3. ASSUME NEW p \in Players, NEW i \in 1 .. Len(m.queue[p])
      PROVE  m.queue[p][i] = e \/ \E j \in 1 .. Len(l.queue[p]) : m.queue[p][i] = l.queue[p][j]
  <2>1. l.queue[p] \in Seq(Events)
    BY <1>1
  <2>2. CASE m.queue[p] = InsertEvent(l.queue[p], e)
    <3> DEFINE r == InsertEvent(l.queue[p], e)
    <3>1. \A k \in 1 .. Len(r) : r[k] = e \/ \E j \in 1 .. Len(l.queue[p]) : r[k] = l.queue[p][j]
      BY <2>1, InsertMembers
    <3> HIDE DEF r
    <3>2. m.queue[p] = r
      BY <2>2 DEF r
    <3> QED
      BY <3>1, <3>2
  <2>3. CASE m.queue[p] = l.queue[p]
    BY <2>3
  <2> QED
    BY <1>2, <2>2, <2>3
<1>4. Stable(m)
  <2>1. ASSUME NEW p \in Players, NEW i \in 1 .. Len(m.queue[p])
        PROVE  m.queue[p][i].type \notin {"ATTACH", "DETACH"} /\ m.queue[p][i].from < N
    BY <1>1, <1>3 DEF Stable
  <2> QED
    BY <1>1, <1>2, <2>1 DEF Stable, Frame
<1>5. Base(m)
  BY <1>2, <1>4 DEF Base, Sleeps
<1>6. ASSUME NEW p \in Joined
      PROVE  /\ Has(l, p) => Has(m, p)
             /\ Acknowledged(e) /\ Id(p) \in t => Has(m, p)
  <2>1. p \in Players /\ l.queue[p] \in Seq(Events)
    BY <1>1, JoinedFacts
  <2>2. CASE Id(p) \in t
    <3>1. m.queue[p] = InsertEvent(l.queue[p], e)
      BY <1>2, <2>1, <2>2
    <3>2. Has(l, p) => Has(m, p)
      <4> DEFINE r == InsertEvent(l.queue[p], e)
      <4>1. \A j \in 1 .. Len(l.queue[p]) : \E i \in 1 .. Len(r) : r[i] = l.queue[p][j]
        BY <2>1, InsertMembers
      <4> HIDE DEF r
      <4>2. m.queue[p] = r
        BY <3>1 DEF r
      <4> QED
        BY <4>1, <4>2 DEF Has
    <3>3. Acknowledged(e) => Has(m, p)
      BY <2>1, <3>1, InsertMembers DEF Has
    <3> QED
      BY <3>2, <3>3
  <2>3. CASE Id(p) \notin t
    <3>1. m.queue[p] = l.queue[p]
      BY <1>2, <2>1, <2>3
    <3> QED
      BY <2>3, <3>1 DEF Has
  <2> QED
    BY <2>2, <2>3
<1>7. Core(l) => Core(m)
  BY <1>2, <1>5, <1>6 DEF Core, Answered
<1> QED
  BY <1>5, <1>6, <1>7 DEF m

\* Events of a queue that has moved with the clock.
LEMMA MovedCore ==
  ASSUME NEW l \in Links, NEW m \in Links, NEW d \in Int, Stable(l),
         m.attached = l.attached,
         \A p \in Players : m.queue[p] = [i \in DOMAIN l.queue[p] |-> Moved(l.queue[p][i], d)]
  PROVE  /\ m.waiting \subseteq 1 .. N - 1 => Stable(m)
         /\ \A p \in Joined : Has(l, p) <=> Has(m, p)
<1>1. ASSUME NEW p \in Players
      PROVE  /\ Len(m.queue[p]) = Len(l.queue[p])
             /\ \A i \in 1 .. Len(l.queue[p]) : /\ m.queue[p][i].type = l.queue[p][i].type
                                                /\ m.queue[p][i].from = l.queue[p][i].from
  <2>1. l.queue[p] \in Seq(Events)
    BY DEF Links
  <2> DEFINE r == [i \in DOMAIN l.queue[p] |-> Moved(l.queue[p][i], d)]
  <2>2. /\ Len(r) = Len(l.queue[p])
        /\ \A i \in 1 .. Len(l.queue[p]) : /\ r[i].type = l.queue[p][i].type
                                           /\ r[i].from = l.queue[p][i].from
    BY <2>1, ShiftedQueue
  <2>3. m.queue[p] = r
    OBVIOUS
  <2> HIDE DEF r
  <2> QED
    BY <2>2, <2>3
<1>2. m.waiting \subseteq 1 .. N - 1 => Stable(m)
  BY <1>1 DEF Stable
<1>3. ASSUME NEW p \in Joined
      PROVE  Has(l, p) <=> Has(m, p)
  <2>1. p \in Players /\ Len(m.queue[p]) = Len(l.queue[p])
    BY <1>1, JoinedFacts
  <2>2. \A i \in 1 .. Len(l.queue[p]) :
           Acknowledged(m.queue[p][i]) <=> Acknowledged(l.queue[p][i])
    BY <1>1, <2>1 DEF Acknowledged
  <2> QED
    BY <2>1, <2>2 DEF Has
<1> QED
  BY <1>2, <1>3

\* The primary starts to wait.
LEMMA WaitCore ==
  ASSUME NEW l, Base(l)
  PROVE  LET m == WaitOnPlayers(l, First)
         IN  /\ Base(m) /\ m.waiting \in {l.waiting, 1 .. N - 1}
             /\ \A p \in Joined : Has(l, p) => Has(m, p)
<1> DEFINE m == WaitOnPlayers(l, First)
<1>1. /\ l \in Links /\ Stable(l) /\ l.attached = Joined /\ First \in Players
      /\ First \in Joined /\ Cardinality(l.attached) = N /\ Secondaries(l) = 1 .. N - 1
      /\ \A p : PlayerId(l, p) = Id(p)
  BY StableFacts, JoinedFacts DEF Base, Stable
<1>2. m \in Links /\ Frame(l, m) /\ m.attached = Joined
  BY <1>1, WaitOnPlayersFacts DEF Frame
<1>3. CASE N < 2
  <2>1. m.queue = l.queue /\ m.waiting = l.waiting /\ m.asleep = l.asleep
    BY <1>1, <1>3, WaitOnPlayersFacts
  <2> QED
    BY <1>1, <1>2, <2>1, SameCore
<1>4. CASE ~ (N < 2)
  <2> DEFINE d == l.time[First]
  <2>1. /\ m.waiting = 1 .. N - 1
        /\ \A q \in Players :
             /\ m.asleep[q] <=> /\ q = First \/ l.asleep[q]
                                /\ ~ (q \in Joined /\ Id(q) \in 1 .. N - 1)
             /\ m.queue[q] = [i \in DOMAIN l.queue[q] |-> Moved(l.queue[q][i], d)]
    <3>1. ~ (Cardinality(l.attached) < 2)
      BY <1>1, <1>4
    <3>2. /\ m.waiting = Secondaries(l)
          /\ \A q \in Players :
               /\ m.asleep[q] <=> /\ q = First \/ l.asleep[q]
                                  /\ ~ (/\ q \in l.attached
                                        /\ PlayerId(l, q) \in Secondaries(l))
               /\ m.queue[q] = [i \in DOMAIN l.queue[q] |-> Moved(l.queue[q][i], d)]
      BY <1>1, <3>1, WaitOnPlayersFacts
    <3> HIDE DEF m, d
    <3> QED
      BY <1>1, <3>2
  <2>2. d \in Int
    BY <1>1 DEF Links
  <2> HIDE DEF m, d
  <2>3. Stable(m) /\ \A p \in Joined : Has(l, p) => Has(m, p)
    <3>1. \A p \in Players :
             m.queue[p] = [i \in DOMAIN l.queue[p] |-> Moved(l.queue[p][i], d)]
      BY <2>1
    <3>2. m.waiting \subseteq 1 .. N - 1 /\ m \in Links /\ m.attached = l.attached
      BY <1>1, <1>2, <2>1
    <3> QED
      BY <1>1, <2>2, <3>1, <3>2, MovedCore
  <2>4. m.asleep[First] /\ m.waiting # {}
    <3>1. 1 \in 1 .. N - 1
      BY <1>4, IdFacts
    <3> QED
      BY <1>1, <2>1, <3>1, JoinedFacts
  <2>5. \A p \in Joined : Id(p) \in m.waiting => ~m.asleep[p]
    BY <2>1, JoinedFacts
  <2> QED
    BY <1>2, <2>1, <2>3, <2>4, <2>5 DEF Base, Sleeps, m
<1> QED
  BY <1>3, <1>4

LEMMA HardSyncCore ==
  ASSUME NEW l, Core(l)
  PROVE  Core(HardSync(l, First))
<1> DEFINE e == Event(l, First, "HARD_SYNC")
           k == EnqueueEvent(l, e, Secondaries(l))
<1>1. /\ Base(l) /\ l \in Links /\ l.attached = Joined /\ First \in Players
      /\ Secondaries(l) = 1 .. N - 1 /\ PlayerId(l, First) = 0
  BY StableFacts, JoinedFacts DEF Core, Base, Stable
<1>2. e \in Events /\ e.type = "HARD_SYNC" /\ e.from = 0
  BY <1>1, EventFacts DEF Types
<1>3. HardSync(l, First) = WaitOnPlayers(k, First)
  BY DEF HardSync
<1> HIDE DEF e
<1>4. e.from < N /\ e.type \notin {"ATTACH", "DETACH"} /\ Acknowledged(e)
  BY <1>2, IdFacts DEF Acknowledged
<1>5. Base(k) /\ \A p \in Joined : Id(p) \in 1 .. N - 1 => Has(k, p)
  BY <1>1, <1>2, <1>4, EnqueueCore
<1> HIDE DEF k
<1> DEFINE m == WaitOnPlayers(k, First)
<1>6. Base(m) /\ \A p \in Joined : Has(k, p) => Has(m, p)
  BY <1>5, WaitCore
<1> HIDE DEF m
<1>7. Core(m)
  BY <1>5, <1>6 DEF Core, Base, Stable, Answered
<1> QED
  BY <1>3, <1>7 DEF m

LEMMA SetModeCore ==
  ASSUME NEW l, Core(l), NEW p \in Joined, NEW mode \in Modes
  PROVE  Core(SetMode(l, p, mode))
<1> DEFINE a == [l EXCEPT !.mode[p] = mode, !.busy[p] = FALSE]
           c == [a EXCEPT !.transferMode = mode]
           b == IF PlayerId(l, p) # 0 THEN a ELSE WaitOnPlayers(c, p)
           e == Event(b, p, "MODE_SET")
           t == Ids(l) \ {PlayerId(l, p)}
           m == EnqueueEvent(b, e, t)
<1>1. /\ Base(l) /\ l \in Links /\ l.attached = Joined /\ p \in Players
      /\ PlayerId(l, p) = Id(p) /\ Ids(l) = 0 .. N - 1
  BY StableFacts, JoinedFacts DEF Core, Base, Stable
<1>2. SetMode(l, p, mode) = m
  BY DEF SetMode
<1>3. /\ a \in Links /\ a.attached = l.attached /\ a.waiting = l.waiting
      /\ a.asleep = l.asleep /\ a.queue = l.queue
  BY <1>1 DEF Links
<1> HIDE DEF a
<1>4. /\ c \in Links /\ c.attached = l.attached /\ c.waiting = l.waiting
      /\ c.asleep = l.asleep /\ c.queue = l.queue
  BY <1>3 DEF Links
<1> HIDE DEF c
<1>5. Core(a) /\ Base(a) /\ Base(c)
  BY <1>1, <1>3, <1>4, SameCore DEF Core
<1>6. CASE p # First
  <2>1. b = a
    BY <1>1, <1>6, IdFacts
  <2> HIDE DEF b
  <2>2. PlayerId(a, p) = Id(p) /\ Id(p) < N
    BY <1>1, <1>3, StableFacts, IdFacts
  <2>3. e \in Events /\ e.type = "MODE_SET" /\ e.from < N
    BY <1>1, <1>3, <2>1, <2>2, EventFacts DEF Types
  <2> HIDE DEF e, t
  <2>4. Core(m)
    BY <1>5, <2>1, <2>3, EnqueueCore
  <2> QED
    BY <1>2, <2>4
<1>7. CASE p = First
  <2>1. b = WaitOnPlayers(c, First)
    BY <1>1, <1>7, IdFacts
  <2> HIDE DEF b
  <2>2. Base(b)
    BY <1>5, <2>1, WaitCore
  <2>3. b \in Links /\ b.attached = Joined
    BY <2>2 DEF Base, Stable
  <2>4. PlayerId(b, p) = 0
    BY <1>7, <2>3, StableFacts, JoinedFacts
  <2>5. e \in Events /\ e.type = "MODE_SET" /\ e.from = 0 /\ e.from < N
    BY <1>1, <2>3, <2>4, EventFacts, IdFacts DEF Types
  <2> HIDE DEF e
  <2>6. t = 1 .. N - 1
    BY <1>1, <1>7, IdFacts, FirstFacts
  <2> HIDE DEF t
  <2>7. Acknowledged(e)
    BY <2>5 DEF Acknowledged
  <2>8. Base(m) /\ \A q \in Joined : Id(q) \in 1 .. N - 1 => Has(m, q)
    BY <2>2, <2>5, <2>6, <2>7, EnqueueCore
  <2> HIDE DEF m
  <2>9. Core(m)
    BY <2>8 DEF Core, Base, Stable, Answered
  <2> QED
    BY <1>2, <2>9
<1> QED
  BY <1>6, <1>7

LEMMA StartCore ==
  ASSUME NEW l, Core(l), NEW p \in Joined
  PROVE  Core(Start(l, p))
<1> DEFINE a == [l EXCEPT !.busy[p] = TRUE]
           e == Event(l, p, "TRANSFER_START")
           f == [e EXCEPT !.finish = @ + Transfer]
           c == [a EXCEPT !.data = {p}]
           b == EnqueueEvent(c, f, Secondaries(l))
           w == WaitOnPlayers(b, p)
           m == [w EXCEPT !.transferActive = TRUE, !.complete[p] = Transfer, !.newer[p] = TRUE]
<1>1. /\ Base(l) /\ l \in Links /\ l.attached = Joined /\ p \in Players
      /\ Secondaries(l) = 1 .. N - 1 /\ PlayerId(l, p) = Id(p)
  BY StableFacts, JoinedFacts DEF Core, Base, Stable
<1>2. Start(l, p) = IF l.transferActive \/ PlayerId(l, p) # 0 THEN a ELSE m
  BY DEF Start
<1>3. /\ a \in Links /\ a.attached = l.attached /\ a.waiting = l.waiting
      /\ a.asleep = l.asleep /\ a.queue = l.queue
  BY <1>1 DEF Links
<1> HIDE DEF a
<1>4. Core(a)
  BY <1>3, SameCore
<1>5. CASE Id(p) # 0
  BY <1>1, <1>2, <1>4, <1>5
<1>6. CASE Id(p) = 0
  <2>1. p = First
    BY <1>6, IdFacts
  <2>2. e \in Events /\ e.type = "TRANSFER_START" /\ e.from = 0 /\ Transfer \in Int
    BY <1>1, <1>6, EventFacts, CyclesAssumption DEF Types
  <2> HIDE DEF e
  <2>3. f \in Events /\ f.type = "TRANSFER_START" /\ f.from = 0
    BY <2>2 DEF Events
  <2> HIDE DEF f
  <2>4. f.from < N /\ f.type \notin {"ATTACH", "DETACH"} /\ Acknowledged(f)
    BY <2>3, IdFacts DEF Acknowledged
  <2>5. /\ c \in Links /\ c.attached = l.attached /\ c.waiting = l.waiting
        /\ c.asleep = l.asleep /\ c.queue = l.queue
    BY <1>1, <1>3 DEF Links
  <2> HIDE DEF c
  <2>6. Base(c)
    BY <1>1, <2>5, SameCore
  <2>7. Base(b) /\ \A q \in Joined : Id(q) \in 1 .. N - 1 => Has(b, q)
    BY <1>1, <2>3, <2>4, <2>6, EnqueueCore
  <2> HIDE DEF b
  <2>8. Base(w) /\ \A q \in Joined : Has(b, q) => Has(w, q)
    BY <2>1, <2>7, WaitCore
  <2> HIDE DEF w
  <2>9. Core(w)
    BY <2>7, <2>8 DEF Core, Base, Stable, Answered
  <2>10. /\ m \in Links /\ m.attached = w.attached /\ m.waiting = w.waiting
         /\ m.asleep = w.asleep /\ m.queue = w.queue
    BY <2>2, <2>8 DEF Base, Links
  <2> HIDE DEF m
  <2>11. Core(m)
    BY <2>9, <2>10, SameCore
  <2> QED
    BY <1>2, <1>4, <2>11
<1> QED
  BY <1>5, <1>6

LEMMA FinishCore ==
  ASSUME NEW l, Core(l), NEW p \in Joined
  PROVE  Core(Finish(l, p))
<1> DEFINE a == [l EXCEPT !.complete[p] = Never, !.busy[p] = FALSE, !.newer[p] = FALSE]
           b == [a EXCEPT !.dataReceived[p] = FALSE]
<1>1. /\ l \in Links /\ l.attached = Joined /\ p \in Players /\ PlayerId(l, p) = Id(p)
      /\ Never \in Int
  BY StableFacts, JoinedFacts, CyclesAssumption DEF Core, Base, Stable
<1>2. Finish(l, p) = IF l.transferMode # l.mode[p] THEN a
                     ELSE IF PlayerId(l, p) = 0 THEN HardSync(b, p) ELSE b
  BY DEF Finish
<1>3. /\ a \in Links /\ a.attached = l.attached /\ a.waiting = l.waiting
      /\ a.asleep = l.asleep /\ a.queue = l.queue
  BY <1>1 DEF Links
<1> HIDE DEF a
<1>4. /\ b \in Links /\ b.attached = l.attached /\ b.waiting = l.waiting
      /\ b.asleep = l.asleep /\ b.queue = l.queue
  BY <1>1, <1>3 DEF Links
<1> HIDE DEF b
<1>5. Core(a) /\ Core(b)
  BY <1>3, <1>4, SameCore
<1>6. Id(p) = 0 => Core(HardSync(b, p))
  BY <1>5, HardSyncCore, IdFacts
<1> QED
  BY <1>1, <1>2, <1>5, <1>6

LEMMA LeadCore ==
  ASSUME NEW l, Core(l)
  PROVE  Core(Lead(l, First))
<1> DEFINE a == AdvanceCycle(l, First)
           b == IF a.transferActive THEN a ELSE Wake(a, Secondaries(a))
           c == IF b.waiting = {} THEN HardSync(b, First) ELSE b
           m == [c EXCEPT !.nextHardSync = @ + HardSyncInterval]
           d == l.time[First]
<1>1. /\ l \in Links /\ Stable(l) /\ l.attached = Joined /\ First \in Players
  BY JoinedFacts DEF Core, Base, Stable
<1>2. Lead(l, First) = IF b.nextHardSync >= 0 THEN b ELSE m
  BY DEF Lead
<1>3. /\ a \in Links /\ Frame(l, a) /\ a.waiting = l.waiting /\ a.asleep = l.asleep
      /\ \A q \in Players : a.queue[q] = [i \in DOMAIN l.queue[q] |-> Moved(l.queue[q][i], d)]
  BY <1>1, AdvanceCycleFacts
<1> HIDE DEF a
<1>4. d \in Int /\ a.attached = Joined
  BY <1>1, <1>3 DEF Links, Frame
<1> HIDE DEF d
<1>5. Core(a)
  <2>1. a.attached = l.attached /\ a.waiting \subseteq 1 .. N - 1
    BY <1>1, <1>3, <1>4 DEF Stable
  <2>2. Stable(a) /\ \A p \in Joined : Has(l, p) => Has(a, p)
    BY <1>1, <1>3, <1>4, <2>1, MovedCore
  <2> QED
    BY <1>3, <2>2 DEF Core, Base, Sleeps, Answered
<1>6. Core(b)
  <2> DEFINE w == Wake(a, Secondaries(a))
  <2>1. Secondaries(a) = 1 .. N - 1 /\ \A p : PlayerId(a, p) = Id(p)
    BY <1>4, StableFacts
  <2>2. /\ w \in Links /\ Frame(a, w) /\ w.queue = a.queue /\ w.waiting = a.waiting
        /\ w.asleep = [p \in Players |->
               a.asleep[p] /\ ~ (p \in a.attached /\ PlayerId(a, p) \in Secondaries(a))]
    BY <1>3, WakeFacts
  <2> HIDE DEF w
  <2>3. \A p \in Players : w.asleep[p] <=> a.asleep[p] /\ ~ (p \in Joined /\ Id(p) \in 1 .. N - 1)
    BY <1>4, <2>1, <2>2
  <2>4. Sleeps(w)
    BY <1>1, <1>5, <2>2, <2>3, JoinedFacts DEF Core, Base, Sleeps
  <2>5. Core(w)
    BY <1>5, <2>2, <2>4 DEF Core, Base, Stable, Answered, Has, Frame
  <2> QED
    BY <1>5, <2>5 DEF w
<1> HIDE DEF b
<1>7. Core(c)
  BY <1>6, HardSyncCore
<1> HIDE DEF c
<1>8. c \in Links /\ c.nextHardSync + HardSyncInterval \in Int
  BY <1>7, CyclesAssumption DEF Core, Base, Links
<1>9. /\ m \in Links /\ m.attached = c.attached /\ m.waiting = c.waiting
      /\ m.asleep = c.asleep /\ m.queue = c.queue
  BY <1>8 DEF Links
<1> HIDE DEF m
<1>10. Core(m)
  BY <1>7, <1>9, SameCore
<1> QED
  BY <1>2, <1>6, <1>10

LEMMA AckCore ==
  ASSUME NEW l, Base(l), NEW p \in Joined,
         \A q \in Joined \ {p} : Id(q) \in l.waiting => Has(l, q)
  PROVE  Core(AckPlayer(l, p))
<1> DEFINE m == AckPlayer(l, p)
           w == l.waiting \ {PlayerId(l, p)}
<1>1. /\ l \in Links /\ Stable(l) /\ Sleeps(l) /\ l.attached = Joined /\ p \in Players
      /\ l.waiting \subseteq 1 .. N - 1 /\ \A q : PlayerId(l, q) = Id(q)
  BY StableFacts, JoinedFacts DEF Base, Stable
<1>2. CASE p = First
  <2>1. m = l
    BY <1>1, <1>2, JoinedFacts, AckPlayerFacts
  <2>2. Id(p) \notin l.waiting
    BY <1>1, <1>2, JoinedFacts
  <2>3. Answered(l)
    BY <2>2 DEF Answered
  <2> QED
    BY <2>1, <2>3 DEF Core
<1>3. CASE p # First
  <2>1. Id(p) # 0
    BY <1>3, IdFacts
  <2>2. /\ m \in Links /\ m.attached = Joined /\ m.queue = l.queue /\ m.waiting = w
        /\ \A q \in Players :
             m.asleep[q] <=> \/ q = p
                             \/ l.asleep[q] /\ ~ (w = {} /\ q \in Joined /\ Id(q) = 0)
    <3>1. PlayerId(l, p) # 0
      BY <1>1, <2>1
    <3>2. /\ m \in Links /\ m.attached = l.attached /\ m.queue = l.queue /\ m.waiting = w
          /\ \A q \in Players :
               m.asleep[q] <=> \/ q = p
                               \/ /\ l.asleep[q]
                                  /\ ~ (w = {} /\ q \in l.attached /\ PlayerId(l, q) = 0)
      BY <1>1, <3>1, AckPlayerFacts
    <3> QED
      BY <1>1, <3>2
  <2> HIDE DEF m
  <2>3. w = l.waiting \ {Id(p)}
    BY <1>1
  <2> HIDE DEF w
  <2>4. Stable(m)
    BY <1>1, <2>2, <2>3 DEF Stable
  <2>5. m.asleep[First] <=> m.waiting # {}
    BY <1>1, <1>3, <2>2, <2>3, JoinedFacts DEF Sleeps
  <2>6. ASSUME NEW q \in Joined, Id(q) \in m.waiting
        PROVE  ~m.asleep[q] /\ Has(m, q)
    <3>1. q # p /\ Id(q) \in l.waiting
      BY <2>2, <2>3, <2>6
    <3>2. ~l.asleep[q] /\ Has(l, q) /\ q \in Players
      BY <1>1, <3>1, JoinedFacts DEF Sleeps
    <3> QED
      BY <2>2, <3>1, <3>2 DEF Has
  <2>7. Core(m)
    BY <2>2, <2>4, <2>5, <2>6 DEF Core, Base, Sleeps, Answered
  <2> QED
    BY <2>7 DEF m
<1> QED
  BY <1>2, <1>3

\* The link without the first event of a queue, and with the transfer of this event.
Popped(l, p) == [l EXCEPT !.queue[p] = Tail(@)]
Sent(l, p, n) == [l EXCEPT !.complete[p] = n, !.busy[p] = TRUE, !.data = @ \cup {p}]

LEMMA PoppedFacts ==
  ASSUME NEW l \in Links, NEW p \in Players, l.queue[p] # <<>>
  PROVE  LET m == Popped(l, p)
         IN  /\ m \in Links /\ Frame(l, m) /\ m.time = l.time
             /\ m.nextHardSync = l.nextHardSync /\ m.waiting = l.waiting
             /\ m.asleep = l.asleep /\ m.failed = l.failed
             /\ m.queue = [l.queue EXCEPT ![p] = Tail(l.queue[p])]
<1> DEFINE Q == [l.queue EXCEPT ![p] = Tail(l.queue[p])]
<1>1. l.queue \in [Players -> Seq(Events)]
  BY DEF Links
<1>2. Tail(l.queue[p]) \in Seq(Events)
  BY <1>1, TailFacts
<1>3. Q \in [Players -> Seq(Events)]
  BY <1>1, <1>2
<1>4. Popped(l, p) = [l EXCEPT !.queue = Q]
  BY DEF Popped
<1>5. Q = [l.queue EXCEPT ![p] = Tail(l.queue[p])]
  OBVIOUS
<1> HIDE DEF Q
<1> QED
  BY <1>3, <1>4, <1>5 DEF Links, Frame

LEMMA SentFacts ==
  ASSUME NEW l \in Links, NEW p \in Players, NEW n \in Int
  PROVE  LET m == Sent(l, p, n)
         IN  /\ m \in Links /\ Keeps(l, m) /\ m.time = l.time /\ m.event = l.event
             /\ m.transferActive = l.transferActive /\ m.transferMode = l.transferMode
             /\ m.mode = l.mode /\ m.dataReceived = l.dataReceived
             /\ m.data = l.data \cup {p} /\ m.complete[p] = n
             /\ \A q \in Players \ {p} : /\ m.complete[q] = l.complete[q]
                                        /\ m.busy[q] = l.busy[q]
<1> DEFINE C == [l.complete EXCEPT ![p] = n]
           B == [l.busy EXCEPT ![p] = TRUE]
           D == l.data \cup {p}
<1>1. C \in [Players -> Int] /\ B \in [Players -> BOOLEAN] /\ D \in SUBSET Players
  BY DEF Links
<1>2. Sent(l, p, n) = [l EXCEPT !.complete = C, !.busy = B, !.data = D]
  BY DEF Sent
<1>3. /\ C[p] = n /\ D = l.data \cup {p}
      /\ \A q \in Players \ {p} : C[q] = l.complete[q] /\ B[q] = l.busy[q]
  BY DEF Links
<1> HIDE DEF C, B, D
<1>4. LET m == [l EXCEPT !.complete = C, !.busy = B, !.data = D]
      IN  /\ m \in Links /\ Keeps(l, m) /\ m.time = l.time /\ m.event = l.event
          /\ m.transferActive = l.transferActive /\ m.transferMode = l.transferMode
          /\ m.mode = l.mode /\ m.dataReceived = l.dataReceived
          /\ m.complete = C /\ m.busy = B /\ m.data = D
  BY <1>1 DEF Links, Keeps
<1> DEFINE m == [l EXCEPT !.complete = C, !.busy = B, !.data = D]
<1> HIDE DEF m
<1> QED
  BY <1>2, <1>3, <1>4 DEF m

\* What a turn of the loop does, when nobody joins or leaves.
LEMMA TakeEventCases ==
  ASSUME NEW x \in Loops, NEW p \in Players, NEW late \in Int, ~Caught(x.link, p),
         Stable(x.link)
  PROVE  LET y == TakeEvent(x, p, late)
             l == Popped(x.link, p)
             e == Head(x.link.queue[p])
             n == e.finish - x.link.time[p] - late
         IN  /\ x.link.queue[p] # <<>> /\ e = x.link.queue[p][1] /\ e \in Events
             /\ e.type \in {"HARD_SYNC", "MODE_SET", "TRANSFER_START"} /\ n \in Int
             /\ y.wasDetach = x.wasDetach
             /\ y.next = IF e.type = "TRANSFER_START" THEN n ELSE x.next
             /\ y.link = IF e.type = "TRANSFER_START" THEN AckPlayer(Sent(l, p, n), p)
                         ELSE IF Acknowledged(e) THEN AckPlayer(l, p) ELSE l
<1> DEFINE l == Popped(x.link, p)
           e == Head(x.link.queue[p])
           n == e.finish - l.time[p] - late
           reply == Event(l, p, "MODE_SET")
           sent == Sent(l, p, n)
<1>1. x.link \in Links /\ DOMAIN x = {"link", "next", "wasDetach"}
  BY DEF Loops
<1>2. x.link.queue[p] \in Seq(Events) /\ x.link.queue[p] # <<>>
  BY <1>1 DEF Caught, Links
<1>3. e \in Events /\ e = x.link.queue[p][1] /\ 1 \in 1 .. Len(x.link.queue[p])
  BY <1>2, TailFacts
<1>4. l.time = x.link.time /\ x.link.time[p] \in Int
  BY <1>1, <1>2, PoppedFacts DEF Links
<1>5. TakeEvent(x, p, late) =
        CASE e.type = "ATTACH" -> [x EXCEPT !.link = EnqueueEvent(l, reply, {e.from})]
          [] e.type = "DETACH" ->
               [x EXCEPT !.link = EnqueueEvent(l, reply, Ids(l) \ {e.from}), !.wasDetach = TRUE]
          [] e.type = "HARD_SYNC" -> [x EXCEPT !.link = AckPlayer(l, p)]
          [] e.type = "MODE_SET" -> [x EXCEPT !.link = IF e.from = 0 THEN AckPlayer(l, p) ELSE l]
          [] e.type = "TRANSFER_START" ->
               [x EXCEPT !.next = n, !.link = AckPlayer(sent, p)]
  BY DEF TakeEvent, Popped, Sent
<1>6. n = e.finish - x.link.time[p] - late
  BY <1>4
<1> HIDE DEF l
<1>7. e.type \in Types /\ e.type \notin {"ATTACH", "DETACH"} /\ n \in Int
  BY <1>3, <1>4, SMTT(30) DEF Stable, Events
<1> HIDE DEF e, n, reply, sent
<1> DEFINE y == TakeEvent(x, p, late)
<1>8. /\ e.type \in {"HARD_SYNC", "MODE_SET", "TRANSFER_START"}
      /\ y.wasDetach = x.wasDetach
      /\ y.next = IF e.type = "TRANSFER_START" THEN n ELSE x.next
      /\ y.link = IF e.type = "TRANSFER_START" THEN AckPlayer(sent, p)
                  ELSE IF Acknowledged(e) THEN AckPlayer(l, p) ELSE l
  <2>1. CASE e.type = "HARD_SYNC"
    <3>1. y = [x EXCEPT !.link = AckPlayer(l, p)]
      BY <1>5, <2>1
    <3> HIDE DEF y
    <3> QED
      BY <1>1, <2>1, <3>1 DEF Acknowledged, Loops
  <2>2. CASE e.type = "MODE_SET"
    <3>1. y = [x EXCEPT !.link = IF e.from = 0 THEN AckPlayer(l, p) ELSE l]
      BY <1>5, <2>2
    <3> HIDE DEF y
    <3> QED
      BY <1>1, <2>2, <3>1 DEF Acknowledged, Loops
  <2>3. CASE e.type = "TRANSFER_START"
    <3>1. y = [x EXCEPT !.next = n, !.link = AckPlayer(sent, p)]
      BY <1>5, <2>3
    <3> HIDE DEF y
    <3> QED
      BY <1>1, <2>3, <3>1 DEF Loops
  <2> QED
    BY <1>7, <2>1, <2>2, <2>3 DEF Types
<1> QED
  BY <1>2, <1>3, <1>6, <1>7, <1>8 DEF l, e, n, sent

\* A turn of the loop of a player.
LEMMA TurnCore ==
  ASSUME NEW x \in Loops, NEW p \in Joined, NEW late \in Int, Core(x.link), ~x.wasDetach
  PROVE  LET y == Turn(x, p, late) IN y \in Loops /\ Core(y.link) /\ ~y.wasDetach
<1>1. p \in Players /\ x.link \in Links /\ Stable(x.link) /\ Base(x.link)
  BY JoinedFacts DEF Core, Base
<1>2. CASE Caught(x.link, p)
  BY <1>2 DEF Turn
<1>3. CASE ~Caught(x.link, p)
  <2> DEFINE y == TakeEvent(x, p, late)
             l == Popped(x.link, p)
             e == Head(x.link.queue[p])
             n == e.finish - x.link.time[p] - late
             s == Sent(l, p, n)
  <2>1. /\ x.link.queue[p] # <<>> /\ e = x.link.queue[p][1] /\ n \in Int
        /\ y.wasDetach = x.wasDetach
        /\ y.link = IF e.type = "TRANSFER_START" THEN AckPlayer(s, p)
                    ELSE IF Acknowledged(e) THEN AckPlayer(l, p) ELSE l
    BY <1>1, <1>3, TakeEventCases
  <2>2. y \in Loops
    BY <1>1, <1>3, TakeEventType
  <2>3. Turn(x, p, late) = y
    BY <1>3 DEF Turn
  <2> HIDE DEF y, n
  <2>4. x.link.queue \in [Players -> Seq(Events)] /\ x.link.queue[p] \in Seq(Events)
    BY <1>1 DEF Links
  <2>5. /\ l \in Links /\ Frame(x.link, l) /\ l.waiting = x.link.waiting
        /\ l.asleep = x.link.asleep
        /\ l.queue = [x.link.queue EXCEPT ![p] = Tail(x.link.queue[p])]
    BY <1>1, <2>1, PoppedFacts
  <2> HIDE DEF l, e
  <2>6. /\ l.queue[p] = Tail(x.link.queue[p])
        /\ \A q \in Players \ {p} : l.queue[q] = x.link.queue[q]
    BY <1>1, <2>4, <2>5
  <2>7. /\ Len(x.link.queue[p]) \in Nat \ {0}
        /\ Len(l.queue[p]) = Len(x.link.queue[p]) - 1
        /\ \A i \in 1 .. Len(x.link.queue[p]) - 1 : l.queue[p][i] = x.link.queue[p][i + 1]
    BY <2>1, <2>4, <2>6, TailFacts
  <2>8. Base(l)
    <3>1. ASSUME NEW q \in Players, NEW i \in 1 .. Len(l.queue[q])
          PROVE  l.queue[q][i].type \notin {"ATTACH", "DETACH"} /\ l.queue[q][i].from < N
      <4>1. CASE q # p
        BY <1>1, <2>6, <4>1 DEF Stable
      <4>2. CASE q = p
        <5>1. i + 1 \in 1 .. Len(x.link.queue[p]) /\ l.queue[p][i] = x.link.queue[p][i + 1]
          BY <2>7, <4>2
        <5> QED
          BY <1>1, <4>2, <5>1 DEF Stable
      <4> QED
        BY <4>1, <4>2
    <3>2. Stable(l)
      BY <1>1, <2>5, <3>1 DEF Stable, Frame
    <3> QED
      BY <1>1, <2>5, <3>2 DEF Base, Sleeps
  <2>9. \A q \in Joined \ {p} : Id(q) \in l.waiting => Has(l, q)
    BY <2>5, <2>6, JoinedFacts DEF Core, Answered, Has
  <2>10. CASE e.type = "TRANSFER_START"
    <3>1. s \in Links /\ Keeps(l, s)
      <4>1. l \in Links /\ n \in Int /\ p \in Players
        BY <1>1, <2>1, <2>5
      <4> QED
        BY <4>1, SentFacts
    <3> HIDE DEF s
    <3>2. Base(s) /\ \A q \in Joined \ {p} : Id(q) \in s.waiting => Has(s, q)
      BY <2>8, <2>9, <3>1, SameCore DEF Has, Keeps
    <3>3. Core(AckPlayer(s, p))
      BY <3>2, AckCore
    <3> QED
      BY <2>1, <2>2, <2>3, <2>10, <3>3
  <2>11. CASE e.type # "TRANSFER_START" /\ Acknowledged(e)
    <3>1. Core(AckPlayer(l, p))
      BY <2>8, <2>9, AckCore
    <3> QED
      BY <2>1, <2>2, <2>3, <2>11, <3>1
  <2>12. CASE e.type # "TRANSFER_START" /\ ~Acknowledged(e)
    <3>1. ASSUME Has(x.link, p)
          PROVE  Has(l, p)
      <4>1. PICK i \in 1 .. Len(x.link.queue[p]) : Acknowledged(x.link.queue[p][i])
        BY <3>1 DEF Has
      <4>2. i # 1
        BY <2>1, <2>12, <4>1
      <4>3. i - 1 \in 1 .. Len(l.queue[p]) /\ i - 1 \in 1 .. Len(x.link.queue[p]) - 1
            /\ (i - 1) + 1 = i
        BY <2>7, <4>2
      <4>4. l.queue[p][i - 1] = x.link.queue[p][i]
        BY <2>7, <4>3
      <4> QED
        BY <4>1, <4>3, <4>4 DEF Has
    <3>2. Core(l)
      BY <2>5, <2>8, <2>9, <3>1 DEF Core, Answered
    <3> QED
      BY <2>1, <2>2, <2>3, <2>12, <3>2
  <2> QED
    BY <2>10, <2>11, <2>12
<1> QED
  BY <1>2, <1>3

LEMMA TakeEventsCore ==
  ASSUME NEW x \in Loops, NEW p \in Joined, NEW late \in Int, Core(x.link), ~x.wasDetach
  PROVE  LET y == TakeEvents(x, p, late) IN y \in Loops /\ Core(y.link) /\ ~y.wasDetach
<1> DEFINE S == {y \in Loops : Core(y.link) /\ ~y.wasDetach}
<1>1. x \in S
  OBVIOUS
<1>2. \A y \in S : Turn(y, p, late) \in S
  BY TurnCore
<1>3. 2 * Len(x.link.queue[p]) \in Nat
  <2>1. x.link.queue[p] \in Seq(Events)
    BY JoinedFacts DEF Loops, Links
  <2> QED
    BY <2>1
<1> HIDE DEF S
<1>4. TakeEvents(x, p, late) \in S
  BY <1>1, <1>2, <1>3, LoopInvariant DEF TakeEvents
<1> QED
  BY <1>4 DEF S

\* The states of _lockstepEvent: the link with the clock moved, what the loop over the
\* queue returns, and the time until the next call.
Led(l, p) == IF p = First /\ l.time[p] >= 0 THEN Lead(l, p) ELSE l
Enters(l, p) ==
  [link |-> Led(l, p), next |-> UntilNextSync(Led(l, p), p), wasDetach |-> FALSE]
Leaves(l, p) == TakeEvents(Enters(l, p), p, -l.event[p])
NextCall(x, p) ==
  LET q == x.link.queue[p]
  IN  IF q # <<>> /\ Head(q).at - x.link.time[p] < x.next
      THEN Head(q).at - x.link.time[p] ELSE x.next

\* The fields that the end of _lockstepEvent leaves alone.
Ends(l, m) ==
  /\ m.attached = l.attached /\ m.transferActive = l.transferActive
  /\ m.transferMode = l.transferMode /\ m.data = l.data /\ m.complete = l.complete
  /\ m.busy = l.busy /\ m.mode = l.mode /\ m.dataReceived = l.dataReceived
  /\ m.time = l.time /\ m.queue = l.queue /\ m.nextHardSync = l.nextHardSync
  /\ m.failed = l.failed /\ m.waiting = l.waiting

\* What _lockstepEvent does once the queue is done with: the time of its next call,
\* and the sleep of a player that nothing is left for.
LEMMA LockstepEventCases ==
  ASSUME NEW l \in Links, NEW p \in Joined, Core(l)
  PROVE  LET x == Leaves(l, p)
             b == x.link
             n == NextCall(x, p)
             m == LockstepEvent(l, p)
         IN  /\ Core(Led(l, p)) /\ Enters(l, p) \in Loops
             /\ x \in Loops /\ Core(b) /\ n \in Int
             /\ m \in Links /\ Ends(b, m) /\ m.newer = [b.newer EXCEPT ![p] = FALSE]
             /\ \/ /\ p = First \/ b.queue[p] # <<>> \/ ~ (n <= Interval)
                   /\ m.asleep = b.asleep /\ m.event = [b.event EXCEPT ![p] = n]
                \/ /\ p # First /\ b.queue[p] = <<>> /\ n <= Interval
                   /\ m.asleep = [b.asleep EXCEPT ![p] = TRUE]
                   /\ m.event = [b.event EXCEPT ![p] = IF n < Gain THEN Gain ELSE n]
<1> DEFINE a == IF p = First /\ l.time[p] >= 0 THEN Lead(l, p) ELSE l
           y == [link |-> a, next |-> UntilNextSync(a, p), wasDetach |-> FALSE]
           x == TakeEvents(y, p, -l.event[p])
           b == x.link
           empty == b.queue[p] = <<>>
           n == IF ~empty /\ Head(b.queue[p]).at - b.time[p] < x.next
                THEN Head(b.queue[p]).at - b.time[p] ELSE x.next
           E == [b.event EXCEPT ![p] = n]
           W == [b.newer EXCEPT ![p] = FALSE]
           c == [b EXCEPT !.event = E, !.newer = W]
           s == Sleep(c, p)
           F == [s.event EXCEPT ![p] = IF n < Gain THEN Gain ELSE n]
           m == [s EXCEPT !.event = F]
<1>1. /\ p \in Players /\ l.attached = Joined /\ Stable(l)
      /\ l.queue[p] \in Seq(Events) /\ {Interval, Gain} \subseteq Int
  <2>1. p \in Players /\ l.attached = Joined /\ Stable(l) /\ l \in Links
    BY JoinedFacts DEF Core, Base, Stable
  <2>2. l.queue[p] \in Seq(Events)
    BY <2>1 DEF Links
  <2>3. {Interval, Gain} \subseteq Int
    BY CyclesAssumption
  <2> QED
    BY <2>1, <2>2, <2>3
<1>2. ~ (l.queue[p] # <<>> /\ Head(l.queue[p]).type = "DETACH")
  <2>1. CASE l.queue[p] # <<>>
    <3>1. Head(l.queue[p]) = l.queue[p][1] /\ 1 \in 1 .. Len(l.queue[p])
      BY <1>1, <2>1, TailFacts
    <3> QED
      BY <1>1, <3>1 DEF Stable
  <2> QED
    BY <2>1
<1>3. \A k \in Links : k.attached = Joined => (PlayerId(k, p) = 0 <=> p = First)
  BY StableFacts, IdFacts
<1>4. a \in Links /\ Core(a)
  BY LeadCore, LeadType, <1>1
<1>5. LockstepEvent(l, p) =
        IF PlayerId(b, p) # 0 /\ n <= Interval /\ (empty \/ x.wasDetach) THEN m ELSE c
  <2> DEFINE w == l.queue[p] # <<>> /\ Head(l.queue[p]).type = "DETACH"
             a2 == IF PlayerId(l, p) = 0 /\ l.time[p] >= 0 THEN Lead(l, p) ELSE l
             y2 == [link |-> a2, next |-> UntilNextSync(a2, p), wasDetach |-> w]
             x2 == TakeEvents(y2, p, -l.event[p])
             Rest(z) ==
               LET k == z.link
                   none == k.queue[p] = <<>>
                   i == IF ~none /\ Head(k.queue[p]).at - k.time[p] < z.next
                        THEN Head(k.queue[p]).at - k.time[p] ELSE z.next
                   j == [k EXCEPT !.event[p] = i, !.newer[p] = FALSE]
               IN  IF PlayerId(k, p) # 0 /\ i <= Interval /\ (none \/ z.wasDetach)
                   THEN [Sleep(j, p) EXCEPT !.event[p] = IF i < Gain THEN Gain ELSE i]
                   ELSE j
  <2>1. LockstepEvent(l, p) = Rest(x2)
    BY DEF LockstepEvent
  <2>2. w = FALSE
    BY <1>2
  <2>3. a2 = a
    BY <1>1, <1>3
  <2>4. x2 = x
    <3> HIDE DEF w, a2, a
    <3> QED
      BY <2>2, <2>3
  <2> HIDE DEF x2, x
  <2>5. Rest(x) = IF PlayerId(b, p) # 0 /\ n <= Interval /\ (empty \/ x.wasDetach) THEN m ELSE c
    OBVIOUS
  <2> HIDE DEF Rest
  <2> QED
    BY <2>1, <2>4, <2>5
<1> HIDE DEF a
<1>6. UntilNextSync(a, p) \in Int
  BY <1>1, <1>4 DEF UntilNextSync, Links
<1>7. y \in Loops /\ Core(y.link) /\ ~y.wasDetach
  BY <1>4, <1>6 DEF Loops
<1>8. -l.event[p] \in Int
  BY <1>1 DEF Links
<1> HIDE DEF y
<1>9. x \in Loops /\ Core(b) /\ ~x.wasDetach
  BY <1>7, <1>8, TakeEventsCore
<1> HIDE DEF x
<1>10. b \in Links /\ b.attached = Joined /\ x.next \in Int
  BY <1>9 DEF Loops, Core, Base, Stable
<1> HIDE DEF b
<1>11. b.queue[p] \in Seq(Events) /\ b.time[p] \in Int
  BY <1>1, <1>10 DEF Links
<1>12. n \in Int
  <2>1. ~empty => Head(b.queue[p]).at \in Int
    BY <1>11, TailFacts DEF Events
  <2> QED
    BY <1>10, <1>11, <2>1
<1> HIDE DEF n
<1>13. E \in [Players -> Int] /\ W \in [Players -> BOOLEAN]
  BY <1>10, <1>12 DEF Links
<1>14. E = [b.event EXCEPT ![p] = n] /\ W = [b.newer EXCEPT ![p] = FALSE]
  OBVIOUS
<1> HIDE DEF E, W
<1>15. /\ c \in Links /\ Ends(b, c) /\ c.asleep = b.asleep /\ c.event = E /\ c.newer = W
  BY <1>10, <1>13 DEF Links, Ends
<1> HIDE DEF c
<1>16. /\ s \in Links /\ Frame(c, s)
       /\ s.time = c.time /\ s.queue = c.queue /\ s.nextHardSync = c.nextHardSync
       /\ s.waiting = c.waiting /\ s.failed = c.failed
       /\ s.asleep = [c.asleep EXCEPT ![p] = TRUE]
  BY <1>1, <1>15, SleepFacts
<1> HIDE DEF s
<1>17. F \in [Players -> Int]
  BY <1>1, <1>12, <1>16 DEF Links
<1>18. F = [b.event EXCEPT ![p] = IF n < Gain THEN Gain ELSE n]
  <2>1. s.event = [b.event EXCEPT ![p] = n]
    BY <1>14, <1>15, <1>16 DEF Frame
  <2>2. b.event \in [Players -> Int]
    BY <1>10 DEF Links
  <2> QED
    BY <2>1, <2>2
<1> HIDE DEF F
<1>19. m \in Links /\ Ends(s, m) /\ m.asleep = s.asleep /\ m.event = F /\ m.newer = s.newer
  BY <1>16, <1>17 DEF Links, Ends
<1> HIDE DEF m
<1>20. PlayerId(b, p) = 0 <=> p = First
  BY <1>3, <1>10
<1>21. /\ Led(l, p) = a /\ Enters(l, p) = y /\ Leaves(l, p) = x /\ x.link = b
       /\ NextCall(x, p) = n
  BY DEF Led, Enters, Leaves, NextCall, a, y, x, b, n
<1> DEFINE r == LockstepEvent(l, p)
<1>22. CASE p # First /\ n <= Interval /\ empty
  <2>1. r = m
    BY <1>5, <1>20, <1>22
  <2> HIDE DEF r
  <2>2. Ends(b, m) /\ m.newer = W /\ m.asleep = [b.asleep EXCEPT ![p] = TRUE]
    BY <1>15, <1>16, <1>19 DEF Frame, Ends
  <2>3. Core(Led(l, p)) /\ Enters(l, p) \in Loops /\ x \in Loops /\ Core(b) /\ n \in Int
    BY <1>4, <1>7, <1>9, <1>12, <1>21
  <2> QED
    BY <1>14, <1>18, <1>19, <1>21, <1>22, <2>1, <2>2, <2>3 DEF r
<1>23. CASE ~ (p # First /\ n <= Interval /\ empty)
  <2>1. r = c
    BY <1>5, <1>9, <1>20, <1>23
  <2> HIDE DEF r
  <2>3. Core(Led(l, p)) /\ Enters(l, p) \in Loops /\ x \in Loops /\ Core(b) /\ n \in Int
    BY <1>4, <1>7, <1>9, <1>12, <1>21
  <2> QED
    BY <1>14, <1>15, <1>21, <1>23, <2>1, <2>3 DEF r
<1> QED
  BY <1>22, <1>23

LEMMA LockstepEventCore ==
  ASSUME NEW l \in Links, NEW p \in Joined, Core(l)
  PROVE  Core(LockstepEvent(l, p))
<1> DEFINE x == Leaves(l, p)
           b == x.link
           n == NextCall(x, p)
           m == LockstepEvent(l, p)
<1>1. /\ Core(b) /\ m \in Links /\ m.attached = b.attached /\ m.queue = b.queue
      /\ m.waiting = b.waiting
      /\ \/ m.asleep = b.asleep
         \/ p # First /\ b.queue[p] = <<>> /\ m.asleep = [b.asleep EXCEPT ![p] = TRUE]
  <2>1. /\ Core(b) /\ m \in Links /\ Ends(b, m)
        /\ \/ m.asleep = b.asleep
           \/ p # First /\ b.queue[p] = <<>> /\ m.asleep = [b.asleep EXCEPT ![p] = TRUE]
    <3>1. l \in Links
      BY DEF Core, Base
    <3> QED
      BY <3>1, LockstepEventCases
  <2> HIDE DEF b, m
  <2> QED
    BY <2>1 DEF Ends
<1> HIDE DEF b, m
<1>2. CASE m.asleep = b.asleep
  BY <1>1, <1>2, SameCore DEF m
<1>3. CASE p # First /\ b.queue[p] = <<>> /\ m.asleep = [b.asleep EXCEPT ![p] = TRUE]
  <2>1. b.asleep \in [Players -> BOOLEAN] /\ p \in Players /\ First \in Players
    BY <1>1, JoinedFacts DEF Core, Base, Links
  <2>2. ~ Has(b, p)
    BY <1>3 DEF Has
  <2>3. Id(p) \notin b.waiting
    BY <1>1, <2>2 DEF Core, Answered
  <2>4. m.asleep[First] = b.asleep[First]
    BY <1>3, <2>1
  <2>5. ASSUME NEW q \in Joined, Id(q) \in m.waiting
        PROVE  ~m.asleep[q]
    <3>1. q # p /\ q \in Players
      BY <1>1, <2>3, <2>5, JoinedFacts
    <3>2. m.asleep[q] = b.asleep[q]
      BY <1>3, <2>1, <3>1
    <3> QED
      BY <1>1, <2>5, <3>2 DEF Core, Base, Sleeps
  <2>6. Sleeps(m)
    BY <1>1, <2>4, <2>5 DEF Core, Base, Sleeps
  <2>7. Core(m)
    BY <1>1, <2>6 DEF Core, Base, Stable, Answered, Has
  <2> QED
    BY <2>7 DEF m
<1> QED
  BY <1>1, <1>2, <1>3

LEMMA PassCore ==
  ASSUME NEW l, Core(l), NEW p \in Players, NEW c \in Int
  PROVE  Core(Pass(l, p, c))
<1> DEFINE m == Pass(l, p, c)
<1>1. l \in Links
  BY DEF Core, Base
<1>2. m \in Links /\ Keeps(l, m)
  BY <1>1, PassFacts
<1> HIDE DEF m
<1>3. Core(m)
  BY <1>2, SameCore DEF Keeps
<1> QED
  BY <1>3 DEF m

-----------------------------------------------------------------------------
(* Nobody is left asleep, as long as nobody has joined or left.            *)
CoreInv == joins = 0 => Core(link)

LEMMA CoreInit ==
  ASSUME Init
  PROVE  Core(link)
<1>1. /\ link \in Links /\ link.attached = Joined /\ link.waiting = {}
      /\ \A p \in Players : link.queue[p] = <<>> /\ link.asleep[p] = FALSE
  BY InitFacts
<1>2. Stable(link)
  BY <1>1 DEF Stable
<1> QED
  BY <1>1, <1>2, JoinedFacts DEF Core, Base, Sleeps, Answered

LEMMA CoreStep ==
  ASSUME TypeOK, CoreInv, [Next]_vars
  PROVE  CoreInv'
<1> SUFFICES ASSUME joins' = 0 PROVE Core(link)'
  BY DEF CoreInv
<1>1. joins \in Nat /\ link \in Links
  BY DEF TypeOK
<1>2. CASE UNCHANGED vars
  BY <1>2 DEF vars, CoreInv, Core, Base, Stable, Sleeps, Answered, Has
<1>3. CASE Join \/ Leave
  BY <1>1, <1>3 DEF Join, Leave
<1>4. ASSUME NEW p \in Players, Run(p) \/ Call(p) \/ Fire(p)
      PROVE  Core(link)'
  <2>1. joins = 0 /\ Core(link) /\ p \in link.attached
    BY <1>4 DEF CoreInv, Run, Call, Fire, Runs
  <2>2. p \in Joined
    BY <2>1 DEF Core, Base, Stable
  <2>3. 1 .. MaxStep \subseteq Int
    OBVIOUS
  <2>5. CASE Run(p)
    <3>1. PICK c \in 1 .. MaxStep : link' = Pass(link, p, c)
      BY <2>5 DEF Run
    <3>2. Core(Pass(link, p, c))
      BY <2>1, <2>3, PassCore
    <3> QED
      BY <3>1, <3>2
  <2>6. CASE Call(p)
    <3>1. PICK c \in 1 .. MaxStep :
             \/ \E m \in Modes : link' = Pass(SetMode(link, p, m), p, c)
             \/ link' = Pass(Start(link, p), p, c)
             \/ \E m \in Modes : link' = Pass(Start(SetMode(link, p, m), p), p, c)
      BY <2>6 DEF Call
    <3>2. Core(Pass(Start(link, p), p, c))
      BY <2>1, <2>2, <2>3, StartCore, PassCore
    <3>3. \A m \in Modes : Core(Pass(SetMode(link, p, m), p, c))
      BY <2>1, <2>2, <2>3, SetModeCore, PassCore
    <3>4. \A m \in Modes : Core(Pass(Start(SetMode(link, p, m), p), p, c))
      BY <2>1, <2>2, <2>3, SetModeCore, StartCore, PassCore
    <3> QED
      BY <3>1, <3>2, <3>3, <3>4
  <2>7. CASE Fire(p)
    <3>1. link' = LockstepEvent(link, p) \/ link' = Finish(link, p)
      BY <2>7 DEF Fire
    <3>2. Core(LockstepEvent(link, p)) /\ Core(Finish(link, p))
      BY <1>1, <2>1, <2>2, LockstepEventCore, FinishCore
    <3> QED
      BY <3>1, <3>2
  <2> QED
    BY <1>4, <2>5, <2>6, <2>7
<1> QED
  BY <1>2, <1>3, <1>4 DEF Next

LEMMA CoreCorrect == Spec => []CoreInv
<1>1. Init => TypeOK /\ CoreInv
  BY CoreInit, InitFacts, BoundsAssumption DEF CoreInv, TypeOK
<1>2. TypeOK /\ CoreInv /\ [Next]_vars => TypeOK' /\ CoreInv'
  BY TypeStep, CoreStep
<1> QED
  BY <1>1, <1>2, PTL DEF Spec

\* Not all machines sleep, however their games, their instructions and the handlers
\* of their events interleave, as long as the players on the link are the ones who
\* were on it at the start.  The argument: the primary sleeps only while it waits
\* for someone, whoever it waits for is one of the players, and awake.
THEOREM SomeoneStaysAwake == Spec => [](joins = 0 => SomeoneAwake)
<1>1. CoreInv => (joins = 0 => SomeoneAwake)
  <2> SUFFICES ASSUME Core(link) PROVE \E p \in link.attached : ~link.asleep[p]
    BY DEF CoreInv, SomeoneAwake
  <2>1. link.attached = Joined /\ link.waiting \subseteq 1 .. N - 1
        /\ (link.asleep[First] <=> link.waiting # {})
        /\ \A p \in Joined : Id(p) \in link.waiting => ~link.asleep[p]
    BY DEF Core, Base, Stable, Sleeps
  <2>2. CASE link.waiting = {}
    BY <2>1, <2>2, FirstFacts
  <2>3. CASE link.waiting # {}
    <3>1. PICK k \in link.waiting : k \in 0 .. N - 1
      BY <2>1, <2>3
    <3>2. PICK p \in Joined : Id(p) = k
      BY <3>1, IdOnto
    <3> QED
      BY <2>1, <3>2
  <2> QED
    BY <2>2, <2>3
<1> QED
  BY <1>1, CoreCorrect, PTL

\* As long as nobody has joined or left, a primary that runs waits for no one: none
\* but the last acknowledgement wakes it.
THEOREM PrimaryRunsFreely == Spec => [](joins = 0 => AwakeIsFree)
<1>1. CoreInv => (joins = 0 => AwakeIsFree)
  <2> SUFFICES ASSUME Core(link),
                      NEW p \in link.attached, PlayerId(link, p) = 0, ~link.asleep[p]
               PROVE  link.waiting = {}
    BY DEF CoreInv, AwakeIsFree
  <2>1. link.attached = Joined /\ (link.asleep[First] <=> link.waiting # {})
    BY DEF Core, Base, Stable, Sleeps
  <2>2. p = First
    BY <2>1, StableFacts, IdFacts
  <2> QED
    BY <2>1, <2>2
<1> QED
  BY <1>1, CoreCorrect, PTL

\* As long as nobody has joined or left, whoever the primary waits for is awake and
\* has an event to acknowledge in its queue, so that the wait comes to an end.
THEOREM WaitsAreAnswered == Spec => [](joins = 0 => WaitIsAnswered)
<1>1. CoreInv => (joins = 0 => WaitIsAnswered)
  <2> SUFFICES ASSUME Core(link),
                      NEW p \in link.attached, PlayerId(link, p) \in link.waiting
               PROVE  /\ ~link.asleep[p]
                      /\ \E i \in DOMAIN link.queue[p] : Acknowledged(link.queue[p][i])
    BY DEF CoreInv, WaitIsAnswered
  <2>1. link.attached = Joined /\ link \in Links
    BY DEF Core, Base, Stable
  <2>2. p \in Joined /\ Id(p) \in link.waiting /\ p \in Players
    BY <2>1, StableFacts, JoinedFacts
  <2>3. ~link.asleep[p] /\ Has(link, p)
    BY <2>2 DEF Core, Base, Sleeps, Answered
  <2>4. link.queue[p] \in Seq(Events)
    BY <2>1, <2>2 DEF Links
  <2> QED
    BY <2>3, <2>4 DEF Has
<1> QED
  BY <1>1, CoreCorrect, PTL

-----------------------------------------------------------------------------
(* How far a player may fall behind.  What it has to acknowledge is at most*)
(* one event, of no earlier than the last instruction of the primary.      *)

\* A queue with no event to acknowledge, and with at most one, no earlier than t.
None(q) == \A i \in 1 .. Len(q) : ~Acknowledged(q[i])
Once(q, t) ==
  \A i \in 1 .. Len(q) : Acknowledged(q[i]) =>
     q[i].at >= t /\ \A j \in 1 .. Len(q) : Acknowledged(q[j]) => i = j

LEMMA OnceFacts ==
  ASSUME NEW q, NEW t \in Int
  PROVE  /\ None(q) => Once(q, t)
         /\ \A u \in Int : q \in Seq(Events) /\ Once(q, t) /\ u <= t => Once(q, u)
<1>1. None(q) => Once(q, t)
  BY DEF None, Once
<1>2. ASSUME NEW u \in Int, q \in Seq(Events), Once(q, t), u <= t
      PROVE  Once(q, u)
  <2>1. \A i \in 1 .. Len(q) : q[i].at \in Int
    <3>1. \A e \in Events : e.at \in Int
      BY DEF Events
    <3>2. \A i \in 1 .. Len(q) : q[i] \in Events
      BY <1>2
    <3> QED
      BY <3>1, <3>2
  <2> QED
    BY <1>2, <2>1 DEF Once
<1> QED
  BY <1>1, <1>2

LEMMA OnceInsert ==
  ASSUME NEW q \in Seq(Events), NEW e \in Events, NEW t \in Int
  PROVE  /\ None(q) /\ ~Acknowledged(e) => None(InsertEvent(q, e))
         /\ Once(q, t) /\ ~Acknowledged(e) => Once(InsertEvent(q, e), t)
         /\ None(q) /\ e.at >= t => Once(InsertEvent(q, e), t)
<1> DEFINE r == InsertEvent(q, e)
<1>1. PICK k \in 1 .. Len(q) + 1 :
         /\ Len(r) = Len(q) + 1 /\ r[k] = e
         /\ \A i \in 1 .. k - 1 : r[i] = q[i]
         /\ \A i \in k + 1 .. Len(q) + 1 : r[i] = q[i - 1]
  BY InsertEventFacts
<1> HIDE DEF r
<1> DEFINE From(i) == IF i < k THEN i ELSE i - 1
<1>2. ASSUME NEW i \in 1 .. Len(r), i # k
      PROVE  From(i) \in 1 .. Len(q) /\ r[i] = q[From(i)]
  <2>1. Len(q) \in Nat
    OBVIOUS
  <2>2. CASE i < k
    <3>1. i \in 1 .. k - 1 /\ i \in 1 .. Len(q)
      BY <1>1, <2>1, <2>2
    <3> QED
      BY <1>1, <2>2, <3>1
  <2>3. CASE ~ (i < k)
    <3>1. i \in k + 1 .. Len(q) + 1 /\ i - 1 \in 1 .. Len(q)
      BY <1>1, <1>2, <2>1, <2>3
    <3> QED
      BY <1>1, <2>3, <3>1
  <2> QED
    BY <2>2, <2>3
<1>3. \A i, j \in 1 .. Len(r) : i # k /\ j # k /\ From(i) = From(j) => i = j
  BY <1>1
<1> HIDE DEF From
<1>4. ASSUME None(q), ~Acknowledged(e)
      PROVE  None(r)
  BY <1>1, <1>2, <1>4 DEF None
<1>5. ASSUME Once(q, t), ~Acknowledged(e)
      PROVE  Once(r, t)
  <2> SUFFICES ASSUME NEW i \in 1 .. Len(r), Acknowledged(r[i])
               PROVE  /\ r[i].at >= t
                      /\ \A j \in 1 .. Len(r) : Acknowledged(r[j]) => i = j
    BY DEF Once
  <2>1. i # k /\ From(i) \in 1 .. Len(q) /\ r[i] = q[From(i)]
    BY <1>1, <1>2, <1>5
  <2>2. r[i].at >= t
    BY <1>5, <2>1 DEF Once
  <2>3. ASSUME NEW j \in 1 .. Len(r), Acknowledged(r[j])
        PROVE  i = j
    <3>1. j # k /\ From(j) \in 1 .. Len(q) /\ r[j] = q[From(j)]
      BY <1>1, <1>2, <1>5, <2>3
    <3>2. From(i) = From(j)
      BY <1>5, <2>1, <2>3, <3>1 DEF Once
    <3> QED
      BY <1>3, <2>1, <3>1, <3>2
  <2> QED
    BY <2>2, <2>3
<1>6. ASSUME None(q), e.at >= t
      PROVE  Once(r, t)
  <2>1. \A i \in 1 .. Len(r) : Acknowledged(r[i]) => i = k
    BY <1>2, <1>6 DEF None
  <2> QED
    BY <1>1, <1>6, <2>1 DEF Once
<1> QED
  BY <1>4, <1>5, <1>6 DEF r

LEMMA OnceTail ==
  ASSUME NEW q \in Seq(Events), q # <<>>, NEW t \in Int
  PROVE  /\ None(q) => None(Tail(q))
         /\ Once(q, t) => Once(Tail(q), t)
         /\ Once(q, t) /\ Acknowledged(Head(q)) => None(Tail(q)) /\ Head(q).at >= t
<1>1. PICK r : r = Tail(q)
  OBVIOUS
<1>2. /\ Len(q) \in Nat \ {0} /\ Len(r) = Len(q) - 1 /\ Head(q) = q[1] /\ 1 \in 1 .. Len(q)
      /\ \A i \in 1 .. Len(r) : r[i] = q[i + 1] /\ i + 1 \in 1 .. Len(q) /\ i + 1 # 1
  BY <1>1, TailFacts
<1>3. None(q) => None(r)
  BY <1>2 DEF None
<1>4. Once(q, t) => Once(r, t)
  <2> SUFFICES ASSUME Once(q, t), NEW i \in 1 .. Len(r), Acknowledged(r[i])
               PROVE  /\ r[i].at >= t
                      /\ \A j \in 1 .. Len(r) : Acknowledged(r[j]) => i = j
    BY DEF Once
  <2>1. r[i].at >= t
    BY <1>2 DEF Once
  <2>2. ASSUME NEW j \in 1 .. Len(r), Acknowledged(r[j])
        PROVE  i = j
    <3>1. i + 1 = j + 1
      BY <1>2, <2>2 DEF Once
    <3> QED
      BY <1>2, <3>1
  <2> QED
    BY <2>1, <2>2
<1>5. Once(q, t) /\ Acknowledged(Head(q)) => None(r) /\ Head(q).at >= t
  BY <1>2 DEF None, Once
<1> QED
  BY <1>1, <1>3, <1>4, <1>5

LEMMA OnceMoved ==
  ASSUME NEW q \in Seq(Events), NEW t \in Int, NEW d \in Int
  PROVE  LET r == [i \in DOMAIN q |-> Moved(q[i], d)]
         IN  (None(q) => None(r)) /\ (Once(q, t) => Once(r, t - d))
<1>1. PICK r : r = [i \in DOMAIN q |-> Moved(q[i], d)]
  OBVIOUS
<1>2. /\ Len(r) = Len(q)
      /\ \A i \in 1 .. Len(q) : /\ r[i].type = q[i].type /\ r[i].from = q[i].from
                                /\ r[i].at = q[i].at - d
  BY <1>1, ShiftedQueue
<1>3. \A i \in 1 .. Len(q) : Acknowledged(r[i]) <=> Acknowledged(q[i])
  BY <1>2 DEF Acknowledged
<1>4. \A i \in 1 .. Len(q) : q[i].at \in Int
  <2>1. \A e \in Events : e.at \in Int
    BY DEF Events
  <2>2. \A i \in 1 .. Len(q) : q[i] \in Events
    OBVIOUS
  <2> QED
    BY <2>1, <2>2
<1>5. None(q) => None(r)
  BY <1>2, <1>3 DEF None
<1>6. Once(q, t) => Once(r, t - d)
  BY <1>2, <1>3, <1>4 DEF Once
<1> QED
  BY <1>1, <1>5, <1>6

\* What a player owes: an event, no earlier than t, and none if nobody waits for it.
Owes(l, t) ==
  \A p \in Joined : /\ Once(l.queue[p], t)
                    /\ Id(p) \notin l.waiting => None(l.queue[p])

\* The primary is not behind the clock, and handles its event in time; the next hard
\* sync is near.
Clock(l) ==
  /\ l.time[First] >= 0 /\ l.event[First] >= 1 - MaxStep
  /\ l.time[First] + l.event[First] <= Interval
  /\ l.nextHardSync <= HardSyncInterval
  /\ l.nextHardSync >= l.time[First] + l.event[First] - Interval

\* How far the others are behind the last hard sync, while nobody waits for them.
Near(l, p) == l.time[p] >= l.nextHardSync - HardSyncInterval - MaxStep

\* How far they are behind, also while the primary waits: who has acknowledged has
\* come up to the clock, and who has not was near before the hard sync.
Behind(l) ==
  \A p \in Others :
    /\ Id(p) \notin l.waiting => Near(l, p)
    /\ l.waiting # {} /\ Id(p) \notin l.waiting => l.time[p] >= l.time[First] - MaxStep
    /\ Id(p) \in l.waiting =>
         \/ Near(l, p)
         \/ /\ l.event[First] >= 1
            /\ l.time[p] >= -(HardSyncInterval + Interval + 2 * MaxStep)

Timely(l) == Owes(l, l.time[First] - MaxStep) /\ Clock(l) /\ Behind(l)

LEMMA Cycles ==
  /\ Interval \in Nat \ {0} /\ HardSyncInterval \in Nat \ {0} /\ Gain \in Nat \ {0}
  /\ Transfer \in Nat \ {0} /\ MaxStep \in Nat \ {0} /\ Never \in Nat
  /\ Interval + MaxStep <= HardSyncInterval
  BY CyclesAssumption

LEMMA TimeTypes ==
  ASSUME NEW l \in Links
  PROVE  /\ l.nextHardSync \in Int
         /\ \A p \in Players : /\ l.time[p] \in Int /\ l.event[p] \in Int
                               /\ l.complete[p] \in Int /\ l.queue[p] \in Seq(Events)
  BY DEF Links

\* The fields that these depend on.
LEMMA SameTimely ==
  ASSUME NEW l, NEW m, m.waiting = l.waiting, m.queue = l.queue, m.time = l.time,
         m.event[First] = l.event[First], m.nextHardSync = l.nextHardSync
  PROVE  Timely(l) => Timely(m)
  BY DEF Timely, Owes, Clock, Behind, Near

\* The primary starts to wait, and the clock moves by d to its time.
LEMMA WaitTimely ==
  ASSUME NEW l, Base(l), l.time[First] >= 0, WaitOnPlayers(l, First).failed = {}
  PROVE  LET m == WaitOnPlayers(l, First)
         IN  /\ l.failed = {} /\ l.waiting = {} /\ m.waiting = 1 .. N - 1
             /\ \E d \in 0 .. l.time[First] :
                  /\ m.nextHardSync = l.nextHardSync - d
                  /\ \A p \in Joined :
                       /\ m.time[p] = l.time[p] - d
                       /\ None(l.queue[p]) => None(m.queue[p])
                       /\ \A t \in Int : Once(l.queue[p], t) => Once(m.queue[p], t - d)
<1> DEFINE m == WaitOnPlayers(l, First)
           d == l.time[First]
<1>1. /\ l \in Links /\ l.attached = Joined /\ First \in Players
      /\ Cardinality(l.attached) = N /\ Secondaries(l) = 1 .. N - 1 /\ N \in Nat \ {0}
  BY StableFacts, JoinedFacts, IdFacts DEF Base, Stable
<1>2. l.failed = {} /\ l.waiting = {}
  BY <1>1, WaitOnPlayersFacts
<1>3. d \in Int /\ l.nextHardSync \in Int
      /\ \A p \in Joined : p \in Players /\ l.time[p] \in Int /\ l.queue[p] \in Seq(Events)
  BY <1>1, TimeTypes, JoinedFacts
<1>4. CASE N < 2
  <2>1. m.waiting = l.waiting /\ m.time = l.time /\ m.queue = l.queue
        /\ m.nextHardSync = l.nextHardSync
    BY <1>1, <1>4, WaitOnPlayersFacts
  <2> HIDE DEF m
  <2>2. 1 .. N - 1 = {}
    BY <1>1, <1>4
  <2>3. 0 \in 0 .. d /\ \A t \in Int : t - 0 = t
    BY <1>3
  <2>4. /\ m.nextHardSync = l.nextHardSync - 0
        /\ \A p \in Joined :
             /\ m.time[p] = l.time[p] - 0
             /\ None(l.queue[p]) => None(m.queue[p])
             /\ \A t \in Int : Once(l.queue[p], t) => Once(m.queue[p], t - 0)
    BY <1>3, <2>1, <2>3
  <2> QED
    BY <1>2, <2>1, <2>2, <2>3, <2>4 DEF m
<1>5. CASE ~ (N < 2)
  <2>1. /\ m.waiting = 1 .. N - 1 /\ m.nextHardSync = l.nextHardSync - d
        /\ \A q \in Players :
             /\ m.time[q] = IF q \in Joined THEN l.time[q] - d ELSE l.time[q]
             /\ m.queue[q] = [i \in DOMAIN l.queue[q] |-> Moved(l.queue[q][i], d)]
    <3>1. ~ (Cardinality(l.attached) < 2)
      BY <1>1, <1>5
    <3>2. /\ m.waiting = Secondaries(l) /\ m.nextHardSync = l.nextHardSync - l.time[First]
          /\ \A q \in Players :
               /\ m.time[q] = IF q \in l.attached THEN l.time[q] - l.time[First] ELSE l.time[q]
               /\ m.queue[q] = [i \in DOMAIN l.queue[q] |-> Moved(l.queue[q][i], l.time[First])]
      BY <1>1, <3>1, WaitOnPlayersFacts
    <3> HIDE DEF m
    <3> QED
      BY <1>1, <3>2
  <2>2. d \in 0 .. d
    BY <1>3
  <2> HIDE DEF m, d
  <2>3. ASSUME NEW p \in Joined
        PROVE  /\ m.time[p] = l.time[p] - d
               /\ None(l.queue[p]) => None(m.queue[p])
               /\ \A t \in Int : Once(l.queue[p], t) => Once(m.queue[p], t - d)
    <3>1. m.time[p] = l.time[p] - d
          /\ m.queue[p] = [i \in DOMAIN l.queue[p] |-> Moved(l.queue[p][i], d)]
      BY <1>3, <2>1
    <3> DEFINE r == [i \in DOMAIN l.queue[p] |-> Moved(l.queue[p][i], d)]
    <3>2. \A t \in Int : (None(l.queue[p]) => None(r)) /\ (Once(l.queue[p], t) => Once(r, t - d))
      BY <1>3, OnceMoved
    <3> HIDE DEF r
    <3>3. m.queue[p] = r /\ 0 \in Int
      BY <3>1 DEF r
    <3> QED
      BY <3>1, <3>2, <3>3
  <2> QED
    BY <1>2, <2>1, <2>2, <2>3 DEF m, d
<1> QED
  BY <1>1, <1>4, <1>5

\* The primary tells all others to catch up.
LEMMA HardSyncTimely ==
  ASSUME NEW l, Core(l), l.time[First] >= 0, HardSync(l, First).failed = {},
         \A p \in Joined : Id(p) \notin l.waiting => None(l.queue[p])
  PROVE  LET m == HardSync(l, First)
         IN  /\ l.failed = {} /\ l.waiting = {} /\ m.waiting = 1 .. N - 1
             /\ Frame(l, m) /\ Owes(m, m.time[First])
             /\ \E d \in 0 .. l.time[First] :
                  /\ m.nextHardSync = l.nextHardSync - d
                  /\ \A p \in Joined : m.time[p] = l.time[p] - d
<1> DEFINE e == Event(l, First, "HARD_SYNC")
           k == EnqueueEvent(l, e, Secondaries(l))
           m == WaitOnPlayers(k, First)
<1>1. /\ Base(l) /\ l \in Links /\ l.attached = Joined /\ First \in Players
      /\ Secondaries(l) = 1 .. N - 1 /\ \A p : PlayerId(l, p) = Id(p)
  BY StableFacts, JoinedFacts DEF Core, Base, Stable
<1>2. e \in Events /\ e.type = "HARD_SYNC" /\ e.from = 0 /\ e.at = l.time[First]
  BY <1>1, JoinedFacts, EventFacts DEF Types
<1>3. HardSync(l, First) = m
  BY DEF HardSync
<1> HIDE DEF e
<1>4. e.from < N /\ e.type \notin {"ATTACH", "DETACH"} /\ Acknowledged(e)
  BY <1>2, IdFacts DEF Acknowledged
<1>5. Base(k)
  BY <1>1, <1>2, <1>4, EnqueueCore
<1>6. /\ k \in Links /\ Frame(l, k) /\ k.time = l.time /\ k.nextHardSync = l.nextHardSync
      /\ k.waiting = l.waiting /\ (k.failed = {} => l.failed = {})
      /\ \A p \in Players :
           k.queue[p] = IF p \in Joined /\ Id(p) \in 1 .. N - 1
                        THEN InsertEvent(l.queue[p], e) ELSE l.queue[p]
  <2>1. /\ k \in Links /\ Frame(l, k) /\ k.time = l.time /\ k.nextHardSync = l.nextHardSync
        /\ k.waiting = l.waiting /\ (k.failed = {} => l.failed = {})
        /\ \A p \in Players :
             k.queue[p] = IF p \in l.attached /\ PlayerId(l, p) \in Secondaries(l)
                          THEN InsertEvent(l.queue[p], e) ELSE l.queue[p]
    <3>1. l \in Links /\ e \in Events
      BY <1>1, <1>2
    <3> QED
      BY <3>1, EnqueueEventFacts
  <2> HIDE DEF k
  <2> QED
    BY <1>1, <2>1
<1> HIDE DEF k
<1>7. m.failed = {} /\ k.time[First] >= 0
  BY <1>3, <1>6
<1>8. /\ k.failed = {} /\ k.waiting = {} /\ m.waiting = 1 .. N - 1
      /\ \E d \in 0 .. k.time[First] :
           /\ m.nextHardSync = k.nextHardSync - d
           /\ \A p \in Joined :
                /\ m.time[p] = k.time[p] - d
                /\ None(k.queue[p]) => None(m.queue[p])
                /\ \A t \in Int : Once(k.queue[p], t) => Once(m.queue[p], t - d)
  BY <1>5, <1>7, WaitTimely
<1>9. m \in Links /\ Frame(k, m)
  BY <1>1, <1>6, WaitOnPlayersFacts
<1> HIDE DEF m
<1>10. PICK d \in 0 .. l.time[First] :
         /\ m.nextHardSync = l.nextHardSync - d
         /\ \A p \in Joined :
              /\ m.time[p] = l.time[p] - d
              /\ None(k.queue[p]) => None(m.queue[p])
              /\ \A t \in Int : Once(k.queue[p], t) => Once(m.queue[p], t - d)
  BY <1>6, <1>8
<1>11. ASSUME NEW p \in Joined
       PROVE  Once(m.queue[p], m.time[First]) /\ (Id(p) \notin m.waiting => None(m.queue[p]))
  <2>1. /\ p \in Players /\ l.queue[p] \in Seq(Events) /\ None(l.queue[p])
        /\ l.time[First] \in Int
    BY <1>1, <1>6, <1>8, TimeTypes, JoinedFacts
  <2>2. m.time[First] = l.time[First] - d /\ l.time[First] >= l.time[First]
    BY <1>10, <2>1, JoinedFacts
  <2>3. CASE Id(p) \in 1 .. N - 1
    <3>1. Once(k.queue[p], l.time[First])
      BY <1>2, <1>6, <2>1, <2>2, <2>3, OnceInsert
    <3> QED
      BY <1>8, <1>10, <2>1, <2>2, <2>3, <3>1
  <2>4. CASE Id(p) \notin 1 .. N - 1
    <3>1. None(k.queue[p])
      BY <1>6, <2>1, <2>4
    <3>2. None(m.queue[p]) /\ m.time[First] \in Int
      BY <1>10, <2>1, <2>2, <3>1
    <3> QED
      BY <3>2, OnceFacts
  <2> QED
    BY <2>3, <2>4
<1>12. Frame(l, m)
  BY <1>6, <1>9 DEF Frame
<1> QED
  BY <1>3, <1>6, <1>8, <1>10, <1>11, <1>12 DEF Owes

\* Before the primary goes on after a call: nobody has been near for long.
Fresh(l) ==
  /\ Owes(l, l.time[First]) /\ Clock(l) /\ l.event[First] >= 1
  /\ \A p \in Others : Near(l, p)
  /\ l.waiting \in {{}, 1 .. N - 1}

\* The clock moves by d to the time of the primary, or stays.
LEMMA NearWaits ==
  ASSUME NEW l \in Links, NEW m \in Links, NEW d \in 0 .. l.time[First],
         m.nextHardSync = l.nextHardSync - d,
         \A p \in Joined : m.time[p] = l.time[p] - d,
         m.event = l.event
  PROVE  /\ Clock(l) => Clock(m)
         /\ \A p \in Others : Near(l, p) => Near(m, p)
<1>1. /\ First \in Joined /\ Others \subseteq Joined /\ Joined \subseteq Players
      /\ l.nextHardSync \in Int
      /\ \A p \in Joined : l.time[p] \in Int /\ l.event[p] \in Int
  BY TimeTypes, JoinedFacts DEF Others
<1>2. Clock(l) => Clock(m)
  BY <1>1, Cycles DEF Clock
<1>3. \A p \in Others : Near(l, p) => Near(m, p)
  BY <1>1, Cycles DEF Near
<1> QED
  BY <1>2, <1>3

LEMMA RunsFresh ==
  ASSUME NEW l, Core(l), Timely(l), ~l.asleep[First], l.event[First] >= 1
  PROVE  Fresh(l) /\ l.waiting = {}
<1>1. l \in Links /\ l.waiting = {} /\ First \in Players
  BY JoinedFacts DEF Core, Base, Sleeps
<1>2. l.time[First] \in Int
  BY <1>1, TimeTypes
<1>3. Owes(l, l.time[First])
  BY <1>1, <1>2, OnceFacts DEF Timely, Owes
<1>4. \A p \in Others : Near(l, p)
  BY <1>1 DEF Timely, Behind
<1> QED
  BY <1>1, <1>3, <1>4 DEF Fresh, Timely

LEMMA FreshPasses ==
  ASSUME NEW l, Core(l), Fresh(l), NEW c \in 1 .. MaxStep
  PROVE  Timely(Pass(l, First, c))
<1> DEFINE m == Pass(l, First, c)
<1>1. l \in Links /\ First \in Players /\ First \in Joined /\ c \in Int
  BY JoinedFacts DEF Core, Base
<1>2. /\ m \in Links /\ Keeps(l, m)
      /\ m.time[First] = l.time[First] + c /\ m.event[First] = l.event[First] - c
      /\ \A q \in Players \ {First} : m.time[q] = l.time[q]
  BY <1>1, PassFacts
<1> HIDE DEF m
<1>3. /\ m.time[First] = l.time[First] + c /\ m.event[First] = l.event[First] - c
      /\ \A p \in Players \ {First} : m.time[p] = l.time[p]
      /\ l.time[First] \in Int /\ l.event[First] \in Int /\ l.nextHardSync \in Int
      /\ m.waiting = l.waiting /\ m.queue = l.queue /\ m.nextHardSync = l.nextHardSync
  BY <1>1, <1>2, TimeTypes DEF Keeps
<1>4. Owes(m, m.time[First] - MaxStep)
  <2>1. /\ m.time[First] - MaxStep \in Int /\ m.time[First] - MaxStep <= l.time[First]
        /\ \A p \in Joined : l.queue[p] \in Seq(Events)
    <3>1. \A p \in Joined : l.queue[p] \in Seq(Events)
      BY <1>1, TimeTypes, JoinedFacts
    <3>2. c <= MaxStep /\ MaxStep \in Int
      BY Cycles
    <3> QED
      BY <1>1, <1>3, <3>1, <3>2
  <2> QED
    BY <1>3, <2>1, OnceFacts DEF Fresh, Owes
<1>5. Clock(m)
  <2>1. /\ c >= 1 /\ c <= MaxStep /\ MaxStep \in Int /\ Interval \in Int
        /\ HardSyncInterval \in Int
    BY Cycles
  <2>2. Clock(l) /\ l.event[First] >= 1
    BY DEF Fresh
  <2> QED
    BY <1>1, <1>3, <2>1, <2>2 DEF Clock
<1>6. \A p \in Others : Near(m, p)
  BY <1>3, JoinedFacts DEF Fresh, Near, Others
<1>7. Behind(m)
  BY <1>3, <1>6, JoinedFacts DEF Fresh, Behind, Others
<1>8. Timely(m)
  BY <1>4, <1>5, <1>7 DEF Timely
<1> QED
  BY <1>8 DEF m

LEMMA SetModeFresh ==
  ASSUME NEW l, Core(l), Fresh(l), NEW mode \in Modes, SetMode(l, First, mode).failed = {}
  PROVE  Fresh(SetMode(l, First, mode))
<1> DEFINE a == [l EXCEPT !.mode[First] = mode, !.busy[First] = FALSE]
           c == [a EXCEPT !.transferMode = mode]
           b == WaitOnPlayers(c, First)
           e == Event(b, First, "MODE_SET")
           t == Ids(l) \ {PlayerId(l, First)}
           m == EnqueueEvent(b, e, t)
<1>1. /\ Base(l) /\ l \in Links /\ l.attached = Joined /\ First \in Players
      /\ PlayerId(l, First) = 0 /\ Ids(l) = 0 .. N - 1 /\ First \in Joined
  BY StableFacts, JoinedFacts DEF Core, Base, Stable
<1>2. SetMode(l, First, mode) = m
  BY <1>1 DEF SetMode
<1>3. /\ a \in Links /\ a.attached = l.attached /\ a.waiting = l.waiting
      /\ a.asleep = l.asleep /\ a.queue = l.queue /\ a.time = l.time
      /\ a.nextHardSync = l.nextHardSync /\ a.event = l.event /\ a.failed = l.failed
  BY <1>1 DEF Links
<1> HIDE DEF a
<1>4. /\ c \in Links /\ c.attached = l.attached /\ c.waiting = l.waiting
      /\ c.asleep = l.asleep /\ c.queue = l.queue /\ c.time = l.time
      /\ c.nextHardSync = l.nextHardSync /\ c.event = l.event /\ c.failed = l.failed
  BY <1>3 DEF Links
<1> HIDE DEF c
<1>5. Base(c)
  BY <1>1, <1>4, SameCore
<1>6. b \in Links /\ Frame(c, b) /\ Base(b)
  BY <1>1, <1>4, <1>5, WaitOnPlayersFacts, WaitCore
<1>7. b.attached = Joined /\ b.event = l.event
  BY <1>1, <1>4, <1>6 DEF Frame
<1>8. /\ PlayerId(b, First) = 0 /\ \A p : PlayerId(b, p) = Id(p)
  BY <1>7, StableFacts, JoinedFacts
<1>9. e \in Events /\ e.from = 0 /\ e.at = b.time[First]
  BY <1>1, <1>6, <1>8, EventFacts DEF Types
<1>10. t = 1 .. N - 1
  BY <1>1, IdFacts
<1> HIDE DEF e, t
<1>11. /\ m \in Links /\ Frame(b, m) /\ m.time = b.time /\ m.nextHardSync = b.nextHardSync
       /\ m.waiting = b.waiting /\ (m.failed = {} => b.failed = {})
       /\ \A p \in Players :
            m.queue[p] = IF p \in b.attached /\ PlayerId(b, p) \in t
                         THEN InsertEvent(b.queue[p], e) ELSE b.queue[p]
  BY <1>6, <1>9, EnqueueEventFacts
<1> HIDE DEF m
<1>12. b.failed = {} /\ c.time[First] >= 0
  BY <1>2, <1>4, <1>11 DEF Fresh, Clock
<1>13. /\ c.waiting = {} /\ b.waiting = 1 .. N - 1
       /\ \E d \in 0 .. c.time[First] :
            /\ b.nextHardSync = c.nextHardSync - d
            /\ \A p \in Joined :
                 /\ b.time[p] = c.time[p] - d
                 /\ None(c.queue[p]) => None(b.queue[p])
  BY <1>5, <1>12, WaitTimely
<1> HIDE DEF b
<1>14. PICK d \in 0 .. l.time[First] :
         /\ m.nextHardSync = l.nextHardSync - d
         /\ \A p \in Joined : m.time[p] = l.time[p] - d
         /\ \A p \in Joined : None(l.queue[p]) => None(b.queue[p])
  BY <1>4, <1>11, <1>13
<1>15. m.event = l.event /\ m.waiting = 1 .. N - 1 /\ l.waiting = {}
  BY <1>4, <1>7, <1>11, <1>13 DEF Frame
<1>16. Clock(m) /\ \A p \in Others : Near(m, p)
  BY <1>1, <1>11, <1>14, <1>15, NearWaits DEF Fresh
<1>17. ASSUME NEW p \in Joined
       PROVE  Once(m.queue[p], m.time[First]) /\ (Id(p) \notin m.waiting => None(m.queue[p]))
  <2>1. p \in Players /\ b.queue[p] \in Seq(Events) /\ m.time[First] \in Int
    BY <1>1, <1>6, <1>11, TimeTypes, JoinedFacts
  <2>2. None(b.queue[p])
    BY <1>14, <1>15 DEF Fresh, Owes
  <2>3. CASE Id(p) \in 1 .. N - 1
    <3>1. m.queue[p] = InsertEvent(b.queue[p], e) /\ e.at >= m.time[First]
      BY <1>7, <1>8, <1>9, <1>10, <1>11, <2>1, <2>3
    <3> QED
      BY <1>9, <1>15, <2>1, <2>2, <2>3, <3>1, OnceInsert
  <2>4. CASE Id(p) \notin 1 .. N - 1
    <3>1. None(m.queue[p])
      BY <1>8, <1>10, <1>11, <2>1, <2>2, <2>4
    <3> QED
      BY <2>1, <3>1, OnceFacts
  <2> QED
    BY <2>3, <2>4
<1>18. Fresh(m)
  BY <1>15, <1>16, <1>17 DEF Fresh, Owes
<1> QED
  BY <1>2, <1>18

LEMMA StartFresh ==
  ASSUME NEW l, Core(l), Fresh(l), Start(l, First).failed = {}
  PROVE  Fresh(Start(l, First))
<1> DEFINE a == [l EXCEPT !.busy[First] = TRUE]
           e == Event(l, First, "TRANSFER_START")
           f == [e EXCEPT !.finish = @ + Transfer]
           c == [a EXCEPT !.data = {First}]
           b == EnqueueEvent(c, f, Secondaries(l))
           w == WaitOnPlayers(b, First)
           C == [w.complete EXCEPT ![First] = Transfer]
           W == [w.newer EXCEPT ![First] = TRUE]
           m == [w EXCEPT !.transferActive = TRUE, !.complete = C, !.newer = W]
<1>1. /\ Base(l) /\ l \in Links /\ l.attached = Joined /\ First \in Players
      /\ Secondaries(l) = 1 .. N - 1 /\ PlayerId(l, First) = 0 /\ First \in Joined
  BY StableFacts, JoinedFacts DEF Core, Base, Stable
<1>2. Start(l, First) = IF l.transferActive THEN a ELSE m
  BY <1>1 DEF Start
<1>3. /\ a \in Links /\ a.attached = l.attached /\ a.waiting = l.waiting
      /\ a.asleep = l.asleep /\ a.queue = l.queue /\ a.time = l.time
      /\ a.nextHardSync = l.nextHardSync /\ a.event = l.event
  BY <1>1 DEF Links
<1> HIDE DEF a
<1>4. Fresh(a)
  BY <1>3 DEF Fresh, Owes, Clock, Near
<1>5. CASE l.transferActive
  BY <1>2, <1>4, <1>5
<1>6. CASE ~l.transferActive
  <2>1. e \in Events /\ e.type = "TRANSFER_START" /\ e.from = 0 /\ e.at = l.time[First]
    BY <1>1, EventFacts DEF Types
  <2> HIDE DEF e
  <2>2. /\ f \in Events /\ f.type = "TRANSFER_START" /\ f.from = 0
        /\ f.at = l.time[First]
    BY <2>1, Cycles DEF Events
  <2> HIDE DEF f
  <2>3. f.from < N /\ f.type \notin {"ATTACH", "DETACH"} /\ Acknowledged(f)
    BY <2>2, IdFacts DEF Acknowledged
  <2>4. /\ c \in Links /\ c.attached = l.attached /\ c.waiting = l.waiting
        /\ c.asleep = l.asleep /\ c.queue = l.queue /\ c.time = l.time
        /\ c.nextHardSync = l.nextHardSync /\ c.event = l.event
    BY <1>1, <1>3 DEF Links
  <2> HIDE DEF c
  <2>5. Base(c) /\ \A p : PlayerId(c, p) = Id(p)
    BY <1>1, <2>4, SameCore, StableFacts
  <2>6. Base(b)
    BY <1>1, <2>2, <2>3, <2>5, EnqueueCore
  <2>7. /\ b \in Links /\ Frame(c, b) /\ b.time = c.time /\ b.nextHardSync = c.nextHardSync
        /\ b.waiting = c.waiting
        /\ \A p \in Players :
             b.queue[p] = IF p \in c.attached /\ PlayerId(c, p) \in Secondaries(l)
                          THEN InsertEvent(c.queue[p], f) ELSE c.queue[p]
    BY <2>2, <2>4, EnqueueEventFacts
  <2> HIDE DEF b
  <2>8. w \in Links /\ Frame(b, w)
    BY <1>1, <2>7, WaitOnPlayersFacts
  <2>9. /\ m \in Links /\ m.time = w.time /\ m.nextHardSync = w.nextHardSync
        /\ m.event = w.event /\ m.queue = w.queue /\ m.waiting = w.waiting
        /\ m.failed = w.failed
    <3> HIDE DEF w
    <3>1. w.complete \in [Players -> Int] /\ w.newer \in [Players -> BOOLEAN]
      BY <2>8 DEF Links
    <3>2. Transfer \in Int
      BY Cycles
    <3>3. C \in [Players -> Int]
      BY <3>1, <3>2
    <3>4. W \in [Players -> BOOLEAN]
      BY <3>1
    <3> HIDE DEF C, W
    <3> QED
      BY <2>8, <3>3, <3>4 DEF Links
  <2> HIDE DEF m
  <2>10. w.failed = {} /\ b.time[First] >= 0
    BY <1>2, <1>6, <2>4, <2>7, <2>9 DEF Fresh, Clock
  <2>11. /\ b.waiting = {} /\ w.waiting = 1 .. N - 1
         /\ \E d \in 0 .. b.time[First] :
              /\ w.nextHardSync = b.nextHardSync - d
              /\ \A p \in Joined :
                   /\ w.time[p] = b.time[p] - d
                   /\ None(b.queue[p]) => None(w.queue[p])
                   /\ \A t \in Int : Once(b.queue[p], t) => Once(w.queue[p], t - d)
    BY <2>6, <2>10, WaitTimely
  <2> HIDE DEF w
  <2>12. PICK d \in 0 .. l.time[First] :
           /\ m.nextHardSync = l.nextHardSync - d
           /\ \A p \in Joined : m.time[p] = l.time[p] - d
           /\ \A p \in Joined :
                /\ None(b.queue[p]) => None(m.queue[p])
                /\ \A t \in Int : Once(b.queue[p], t) => Once(m.queue[p], t - d)
    BY <2>4, <2>7, <2>9, <2>11
  <2>13. m.event = l.event /\ m.waiting = 1 .. N - 1 /\ l.waiting = {}
    BY <2>4, <2>7, <2>8, <2>9, <2>11 DEF Frame
  <2>14. Clock(m) /\ \A p \in Others : Near(m, p)
    BY <1>1, <2>9, <2>12, <2>13, NearWaits DEF Fresh
  <2>15. ASSUME NEW p \in Joined
         PROVE  Once(m.queue[p], m.time[First]) /\ (Id(p) \notin m.waiting => None(m.queue[p]))
    <3>1. /\ p \in Players /\ l.queue[p] \in Seq(Events) /\ m.time[First] \in Int
          /\ l.time[First] \in Int /\ m.time[First] = l.time[First] - d
          /\ l.time[First] >= l.time[First]
      BY <1>1, <2>9, <2>12, TimeTypes, JoinedFacts
    <3>2. None(l.queue[p])
      BY <2>13 DEF Fresh, Owes
    <3>3. CASE Id(p) \in 1 .. N - 1
      <4>1. b.queue[p] = InsertEvent(l.queue[p], f)
        BY <1>1, <2>4, <2>5, <2>7, <3>1, <3>3
      <4>2. Once(b.queue[p], l.time[First])
        BY <2>2, <3>1, <3>2, <4>1, OnceInsert
      <4> QED
        BY <2>12, <2>13, <3>1, <3>3, <4>2
    <3>4. CASE Id(p) \notin 1 .. N - 1
      <4>1. None(b.queue[p])
        BY <1>1, <2>4, <2>5, <2>7, <3>1, <3>2, <3>4
      <4>2. None(m.queue[p])
        BY <2>12, <4>1
      <4> QED
        BY <3>1, <4>2, OnceFacts
    <3> QED
      BY <3>3, <3>4
  <2>16. Fresh(m)
    BY <2>13, <2>14, <2>15 DEF Fresh, Owes
  <2> QED
    BY <1>2, <1>6, <2>16
<1> QED
  BY <1>5, <1>6

\* The steps of the others leave the primary and the clock as they are.
LEMMA GrowsTimely ==
  ASSUME NEW l \in Links, NEW m \in Links,
         m.waiting = l.waiting, m.queue = l.queue, m.nextHardSync = l.nextHardSync,
         m.time[First] = l.time[First], m.event[First] = l.event[First],
         \A q \in Others : m.time[q] >= l.time[q]
  PROVE  Timely(l) => Timely(m)
<1>1. /\ First \in Players /\ Others \subseteq Players
      /\ l.nextHardSync \in Int /\ l.time[First] \in Int /\ l.event[First] \in Int
      /\ \A p \in Others : l.time[p] \in Int /\ m.time[p] \in Int
  BY TimeTypes, JoinedFacts DEF Others
<1>2. MaxStep \in Int /\ HardSyncInterval \in Int /\ Interval \in Int
  BY Cycles
<1>3. \A p \in Others : Near(l, p) => Near(m, p)
  BY <1>1, <1>2 DEF Near
<1>4. Behind(l) => Behind(m)
  BY <1>1, <1>2, <1>3 DEF Behind
<1>5. Owes(l, l.time[First] - MaxStep) => Owes(m, m.time[First] - MaxStep)
  BY DEF Owes
<1>6. Clock(l) => Clock(m)
  BY DEF Clock
<1> QED
  BY <1>4, <1>5, <1>6 DEF Timely

LEMMA OtherPasses ==
  ASSUME NEW l, Core(l), Timely(l), NEW p \in Others, NEW c \in 1 .. MaxStep
  PROVE  Timely(Pass(l, p, c))
<1> DEFINE m == Pass(l, p, c)
<1>1. l \in Links /\ p \in Players /\ p # First /\ First \in Players /\ c \in Int
  BY JoinedFacts DEF Core, Base, Others
<1>2. /\ m \in Links /\ Keeps(l, m) /\ m.time[p] = l.time[p] + c
      /\ \A q \in Players \ {p} : m.time[q] = l.time[q] /\ m.event[q] = l.event[q]
  BY <1>1, PassFacts
<1> HIDE DEF m
<1>3. Others \subseteq Players /\ \A q \in Players : l.time[q] \in Int
  BY <1>1, TimeTypes, JoinedFacts DEF Others
<1>4. \A q \in Others : m.time[q] >= l.time[q]
  BY <1>1, <1>2, <1>3
<1>5. /\ m.waiting = l.waiting /\ m.queue = l.queue /\ m.nextHardSync = l.nextHardSync
      /\ m.time[First] = l.time[First] /\ m.event[First] = l.event[First]
  BY <1>1, <1>2 DEF Keeps
<1>6. Timely(m)
  BY <1>1, <1>2, <1>4, <1>5, GrowsTimely
<1> QED
  BY <1>6 DEF m

LEMMA OtherSetsMode ==
  ASSUME NEW l, Core(l), Timely(l), NEW p \in Others, NEW mode \in Modes
  PROVE  Timely(SetMode(l, p, mode))
<1> DEFINE a == [l EXCEPT !.mode[p] = mode, !.busy[p] = FALSE]
           e == Event(a, p, "MODE_SET")
           t == Ids(l) \ {PlayerId(l, p)}
           m == EnqueueEvent(a, e, t)
<1>1. /\ l \in Links /\ l.attached = Joined /\ p \in Players /\ PlayerId(l, p) \in 1 .. N - 1
      /\ PlayerId(l, p) # 0 /\ First \in Players
  BY StableFacts, JoinedFacts DEF Core, Base, Stable, Others
<1>2. SetMode(l, p, mode) = m
  BY <1>1 DEF SetMode
<1>3. /\ a \in Links /\ a.attached = l.attached /\ a.waiting = l.waiting
      /\ a.queue = l.queue /\ a.time = l.time
      /\ a.nextHardSync = l.nextHardSync /\ a.event = l.event
  BY <1>1 DEF Links
<1> HIDE DEF a
<1>4. PlayerId(a, p) # 0
  BY <1>1, <1>3 DEF PlayerId
<1>5. e \in Events /\ e.type = "MODE_SET" /\ e.from # 0
  BY <1>1, <1>3, <1>4, EventFacts DEF Types
<1> HIDE DEF e, t
<1>6. ~Acknowledged(e)
  BY <1>5 DEF Acknowledged
<1>7. /\ m \in Links /\ Frame(a, m) /\ m.time = a.time
      /\ m.nextHardSync = a.nextHardSync /\ m.waiting = a.waiting
      /\ \A q \in Players :
           m.queue[q] = IF q \in a.attached /\ PlayerId(a, q) \in t
                        THEN InsertEvent(a.queue[q], e) ELSE a.queue[q]
  BY <1>3, <1>5, EnqueueEventFacts
<1> HIDE DEF m
<1>8. /\ m.time = l.time /\ m.event = l.event /\ m.waiting = l.waiting
      /\ m.nextHardSync = l.nextHardSync
  BY <1>3, <1>7 DEF Frame
<1>9. l.time[First] - MaxStep \in Int
  BY <1>1, TimeTypes, Cycles
<1> DEFINE u == l.time[First] - MaxStep
<1>10. Owes(m, u)
  <2>1. ASSUME NEW q \in Joined
        PROVE  Once(m.queue[q], u) /\ (Id(q) \notin m.waiting => None(m.queue[q]))
    <3>1. l.queue[q] \in Seq(Events) /\ q \in Players /\ u \in Int
      BY <1>1, <1>9, TimeTypes, JoinedFacts
    <3>2. m.queue[q] = InsertEvent(l.queue[q], e) \/ m.queue[q] = l.queue[q]
      BY <1>3, <1>7, <3>1
    <3>3. Once(l.queue[q], u) /\ (Id(q) \notin l.waiting => None(l.queue[q]))
      BY DEF Timely, Owes
    <3> HIDE DEF u
    <3>4. /\ Once(l.queue[q], u) => Once(InsertEvent(l.queue[q], e), u)
          /\ None(l.queue[q]) => None(InsertEvent(l.queue[q], e))
      BY <1>5, <1>6, <3>1, OnceInsert
    <3> QED
      BY <1>8, <3>2, <3>3, <3>4
  <2> HIDE DEF u
  <2> QED
    BY <2>1 DEF Owes
<1>11. Clock(m) /\ Behind(m)
  BY <1>8 DEF Timely, Clock, Behind, Near
<1>12. Timely(m)
  BY <1>8, <1>10, <1>11 DEF Timely
<1> QED
  BY <1>2, <1>12

LEMMA OtherStarts ==
  ASSUME NEW l, Core(l), Timely(l), NEW p \in Others
  PROVE  Timely(Start(l, p))
<1> DEFINE a == [l EXCEPT !.busy[p] = TRUE]
<1>1. /\ l \in Links /\ PlayerId(l, p) # 0
  BY StableFacts, JoinedFacts DEF Core, Base, Stable, Others
<1>2. Start(l, p) = a
  BY <1>1 DEF Start
<1>3. /\ a.waiting = l.waiting /\ a.queue = l.queue /\ a.time = l.time
      /\ a.event = l.event /\ a.nextHardSync = l.nextHardSync
  BY <1>1 DEF Links
<1> HIDE DEF a
<1> QED
  BY <1>2, <1>3, SameTimely

LEMMA PassTimely ==
  ASSUME NEW l, Core(l), Timely(l), NEW p \in Joined, ~l.asleep[p], l.event[p] >= 1,
         NEW c \in 1 .. MaxStep
  PROVE  Timely(Pass(l, p, c))
<1>1. CASE p = First
  BY <1>1, RunsFresh, FreshPasses
<1>2. CASE p # First
  BY <1>2, OtherPasses DEF Others
<1> QED
  BY <1>1, <1>2

LEMMA SetModeTimely ==
  ASSUME NEW l, Core(l), Timely(l), NEW p \in Joined, ~l.asleep[p], l.event[p] >= 1,
         NEW mode \in Modes, NEW c \in 1 .. MaxStep,
         Pass(SetMode(l, p, mode), p, c).failed = {}
  PROVE  Timely(Pass(SetMode(l, p, mode), p, c))
<1> DEFINE m == SetMode(l, p, mode)
<1>1. Core(m) /\ m \in Links /\ p \in Players /\ c \in Int
  BY SetModeCore, JoinedFacts DEF Core, Base
<1>2. m.failed = {}
  <2> HIDE DEF m
  <2>1. Keeps(m, Pass(m, p, c)) /\ Pass(m, p, c).failed = {}
    BY <1>1, PassFacts DEF m
  <2> QED
    BY <2>1 DEF Keeps
<1>3. CASE p = First
  BY <1>1, <1>2, <1>3, RunsFresh, SetModeFresh, FreshPasses
<1>4. CASE p # First
  BY <1>1, <1>4, OtherSetsMode, OtherPasses DEF Others
<1> QED
  BY <1>3, <1>4

LEMMA StartTimely ==
  ASSUME NEW l, Core(l), Timely(l), NEW p \in Joined, ~l.asleep[p], l.event[p] >= 1,
         NEW c \in 1 .. MaxStep, Pass(Start(l, p), p, c).failed = {}
  PROVE  Timely(Pass(Start(l, p), p, c))
<1> DEFINE m == Start(l, p)
<1>1. Core(m) /\ m \in Links /\ p \in Players /\ c \in Int
  BY StartCore, JoinedFacts DEF Core, Base
<1>2. m.failed = {}
  <2> HIDE DEF m
  <2>1. Keeps(m, Pass(m, p, c)) /\ Pass(m, p, c).failed = {}
    BY <1>1, PassFacts DEF m
  <2> QED
    BY <2>1 DEF Keeps
<1>3. CASE p = First
  BY <1>1, <1>2, <1>3, RunsFresh, StartFresh, FreshPasses
<1>4. CASE p # First
  BY <1>1, <1>4, OtherStarts, OtherPasses DEF Others
<1> QED
  BY <1>3, <1>4

\* A start that finds no transfer under way fails when somebody is waited for.
LEMMA StartFails ==
  ASSUME NEW l \in Links, NEW p \in Players, Start(l, p).failed = {}
  PROVE  /\ l.failed = {}
         /\ ~l.transferActive /\ PlayerId(l, p) = 0 => l.waiting = {}
<1> DEFINE a == [l EXCEPT !.busy[p] = TRUE]
           e == Event(l, p, "TRANSFER_START")
           f == [e EXCEPT !.finish = @ + Transfer]
           c == [a EXCEPT !.data = {p}]
           b == EnqueueEvent(c, f, Secondaries(l))
           w == WaitOnPlayers(b, p)
           m == [w EXCEPT !.transferActive = TRUE, !.complete[p] = Transfer, !.newer[p] = TRUE]
<1>1. Start(l, p) = IF l.transferActive \/ PlayerId(l, p) # 0 THEN a ELSE m
  BY DEF Start
<1>2. a \in Links /\ a.failed = l.failed /\ a.waiting = l.waiting
  BY DEF Links
<1> HIDE DEF a
<1>3. c \in Links /\ c.failed = l.failed /\ c.waiting = l.waiting
  BY <1>2 DEF Links
<1>4. e \in Events
  BY EventFacts DEF Types
<1> HIDE DEF c, e
<1>5. f \in Events
  BY <1>4, Cycles DEF Events
<1> HIDE DEF f
<1>6. b \in Links /\ b.waiting = c.waiting /\ (b.failed = {} => c.failed = {})
  BY <1>3, <1>5, EnqueueEventFacts
<1> HIDE DEF b
<1>7. w \in Links /\ (w.failed = {} => b.failed = {} /\ b.waiting = {})
  BY <1>6, WaitOnPlayersFacts
<1> HIDE DEF w
<1>8. m.failed = w.failed
  BY <1>7 DEF Links
<1> HIDE DEF m
<1> QED
  BY <1>1, <1>2, <1>3, <1>6, <1>7, <1>8

LEMMA SwitchAndStartTimely ==
  ASSUME NEW l, Core(l), Timely(l), ~l.asleep[First], l.event[First] >= 1,
         NEW mode \in Modes, NEW c \in 1 .. MaxStep,
         Pass(Start(SetMode(l, First, mode), First), First, c).failed = {}
  PROVE  Timely(Pass(Start(SetMode(l, First, mode), First), First, c))
<1> DEFINE x == SetMode(l, First, mode)
           m == Start(x, First)
<1>1. First \in Joined /\ First \in Players /\ c \in Int
  BY JoinedFacts
<1>2. Core(x) /\ x \in Links
  BY <1>1, SetModeCore DEF Core, Base
<1>3. Core(m) /\ m \in Links
  <2> HIDE DEF x
  <2> QED
    BY <1>1, <1>2, StartCore DEF Core, Base
<1>4. m.failed = {}
  <2> HIDE DEF m
  <2>1. Keeps(m, Pass(m, First, c)) /\ Pass(m, First, c).failed = {}
    BY <1>1, <1>3, PassFacts DEF m
  <2> QED
    BY <2>1 DEF Keeps
<1>5. x.failed = {}
  <2> HIDE DEF x
  <2> QED
    BY <1>1, <1>2, <1>4, StartFails
<1>6. Fresh(x)
  BY <1>5, RunsFresh, SetModeFresh
<1>7. Fresh(m)
  <2> HIDE DEF x
  <2> QED
    BY <1>2, <1>4, <1>6, StartFresh
<1> HIDE DEF m
<1>8. Timely(Pass(m, First, c))
  BY <1>3, <1>7, FreshPasses
<1> QED
  BY <1>8 DEF m

\* The end of a transfer: the primary waits for all others.
LEMMA FinishTimely ==
  ASSUME NEW l, Core(l), Timely(l), NEW p \in Joined, Finish(l, p).failed = {}
  PROVE  Timely(Finish(l, p))
<1> DEFINE C == [l.complete EXCEPT ![p] = Never]
           B == [l.busy EXCEPT ![p] = FALSE]
           W == [l.newer EXCEPT ![p] = FALSE]
           R == [l.dataReceived EXCEPT ![p] = FALSE]
           a == [l EXCEPT !.complete = C, !.busy = B, !.newer = W]
           b == [a EXCEPT !.dataReceived = R]
           m == HardSync(b, First)
<1>1. /\ l \in Links /\ l.attached = Joined /\ p \in Players
      /\ \A q : PlayerId(l, q) = Id(q)
      /\ PlayerId(l, p) = 0 <=> p = First
  BY StableFacts, JoinedFacts, IdFacts DEF Core, Base, Stable
<1>2. Finish(l, p) = IF l.transferMode # l.mode[p] THEN a
                     ELSE IF p = First THEN m ELSE b
  BY <1>1 DEF Finish
<1>3. C \in [Players -> Int] /\ B \in [Players -> BOOLEAN] /\ W \in [Players -> BOOLEAN]
      /\ R \in [Players -> BOOLEAN]
  BY <1>1, Cycles DEF Links
<1> HIDE DEF C, B, W, R
<1>4. /\ a \in Links /\ a.attached = l.attached /\ a.waiting = l.waiting
      /\ a.asleep = l.asleep /\ a.queue = l.queue /\ a.time = l.time
      /\ a.nextHardSync = l.nextHardSync /\ a.event = l.event
  BY <1>1, <1>3 DEF Links
<1>5. /\ b \in Links /\ b.attached = l.attached /\ b.waiting = l.waiting
      /\ b.asleep = l.asleep /\ b.queue = l.queue /\ b.time = l.time
      /\ b.nextHardSync = l.nextHardSync /\ b.event = l.event
  BY <1>1, <1>3 DEF Links
<1> HIDE DEF a, b
<1>6. Timely(a) /\ Timely(b) /\ Core(b)
  BY <1>1, <1>4, <1>5, SameTimely, SameCore
<1>7. CASE l.transferMode = l.mode[p] /\ p = First
  <2>1. m.failed = {} /\ b.time[First] >= 0
    BY <1>2, <1>6, <1>7 DEF Timely, Clock
  <2>2. \A q \in Joined : Id(q) \notin b.waiting => None(b.queue[q])
    BY <1>6 DEF Timely, Owes
  <2>3. /\ b.waiting = {} /\ m.waiting = 1 .. N - 1 /\ Frame(b, m) /\ Owes(m, m.time[First])
        /\ \E d \in 0 .. b.time[First] :
             /\ m.nextHardSync = b.nextHardSync - d
             /\ \A q \in Joined : m.time[q] = b.time[q] - d
    BY <1>6, <2>1, <2>2, HardSyncTimely
  <2>4. m \in Links /\ First \in Players
    BY <1>5, JoinedFacts, HardSyncType
  <2> HIDE DEF m
  <2>5. m.event = b.event
    BY <2>3 DEF Frame
  <2>6. \A q \in Others : Near(b, q)
    BY <1>6, <2>3 DEF Timely, Behind
  <2>7. Clock(m) /\ \A q \in Others : Near(m, q)
    BY <1>5, <1>6, <2>3, <2>4, <2>5, <2>6, NearWaits DEF Timely
  <2>8. Owes(m, m.time[First] - MaxStep)
    <3>1. /\ m.time[First] \in Int /\ m.time[First] - MaxStep \in Int
          /\ m.time[First] - MaxStep <= m.time[First]
          /\ \A q \in Joined : m.queue[q] \in Seq(Events)
      BY <2>4, TimeTypes, JoinedFacts, Cycles
    <3> QED
      BY <2>3, <3>1, OnceFacts DEF Owes
  <2>9. Behind(m)
    BY <2>3, <2>7, JoinedFacts DEF Behind, Others
  <2>10. Timely(m)
    BY <2>7, <2>8, <2>9 DEF Timely
  <2> QED
    BY <1>2, <1>7, <2>10
<1> QED
  BY <1>2, <1>6, <1>7

\* After the primary has moved the clock: the clock is its time.
Mid(l) ==
  /\ Owes(l, 0 - MaxStep) /\ l.time[First] = 0
  /\ l.nextHardSync >= 0 /\ l.nextHardSync <= HardSyncInterval
  /\ \A p \in Others :
       /\ Id(p) \notin l.waiting => Near(l, p)
       /\ l.waiting # {} /\ Id(p) \notin l.waiting => l.time[p] >= 0 - MaxStep
       /\ Id(p) \in l.waiting =>
            Near(l, p) \/ l.time[p] >= -(HardSyncInterval + Interval + 2 * MaxStep)

\* The primary moves the clock, and waits for the others where a hard sync is due.
LEMMA LeadTimely ==
  ASSUME NEW l, Core(l), Timely(l), l.event[First] <= 0, Lead(l, First).failed = {}
  PROVE  Mid(Lead(l, First))
<1> DEFINE a == AdvanceCycle(l, First)
           b == IF a.transferActive THEN a ELSE Wake(a, Secondaries(a))
           c == IF b.waiting = {} THEN HardSync(b, First) ELSE b
           m == [c EXCEPT !.nextHardSync = @ + HardSyncInterval]
           d == l.time[First]
<1>1. /\ l \in Links /\ Stable(l) /\ l.attached = Joined /\ First \in Players
      /\ Others \subseteq Joined /\ Joined \subseteq Players /\ First \in Joined
  BY JoinedFacts DEF Core, Base, Stable, Others
<1>2. Lead(l, First) = IF b.nextHardSync >= 0 THEN b ELSE m
  BY DEF Lead
<1>3. /\ a \in Links /\ Frame(l, a) /\ a.waiting = l.waiting /\ a.asleep = l.asleep
      /\ a.nextHardSync = l.nextHardSync - d
      /\ \A q \in Players :
           /\ a.time[q] = IF q \in l.attached THEN l.time[q] - d ELSE l.time[q]
           /\ a.queue[q] = [i \in DOMAIN l.queue[q] |-> Moved(l.queue[q][i], d)]
  BY <1>1, AdvanceCycleFacts
<1> HIDE DEF a
<1>4. d \in Int /\ \A p \in Players : l.time[p] \in Int /\ l.queue[p] \in Seq(Events)
  BY <1>1, TimeTypes
<1>5. /\ MaxStep \in Int /\ MaxStep >= 1 /\ HardSyncInterval \in Int /\ Interval \in Int
      /\ Interval >= 1 /\ Interval + MaxStep <= HardSyncInterval
      /\ l.nextHardSync \in Int /\ l.event[First] \in Int
  BY <1>1, TimeTypes, Cycles
<1>6. \A p \in Others : Near(l, p)
  BY <1>5 DEF Timely, Behind
<1>7. a.time[First] = 0 /\ \A p \in Joined : a.time[p] = l.time[p] - d
  <2> HIDE DEF d
  <2>1. d = l.time[First] /\ l.time[First] \in Int
    BY <1>1, <1>4 DEF d
  <2>2. \A p \in Joined : a.time[p] = l.time[p] - d
    BY <1>1, <1>3
  <2>3. a.time[First] = l.time[First] - d
    BY <1>1, <2>2
  <2> QED
    BY <2>1, <2>2, <2>3
<1> HIDE DEF d
<1>8. Owes(a, 0 - MaxStep)
  <2>1. ASSUME NEW p \in Joined
        PROVE  Once(a.queue[p], 0 - MaxStep) /\ (Id(p) \notin a.waiting => None(a.queue[p]))
    <3>1. p \in Players /\ l.queue[p] \in Seq(Events) /\ d - MaxStep \in Int
          /\ (d - MaxStep) - d = 0 - MaxStep
      BY <1>1, <1>4, <1>5
    <3>2. /\ Once(l.queue[p], d - MaxStep) /\ (Id(p) \notin l.waiting => None(l.queue[p]))
      BY DEF Timely, Owes, d
    <3> DEFINE r == [i \in DOMAIN l.queue[p] |-> Moved(l.queue[p][i], d)]
               t == d - MaxStep
    <3>3. (None(l.queue[p]) => None(r)) /\ (Once(l.queue[p], t) => Once(r, t - d))
      <4>1. l.queue[p] \in Seq(Events) /\ t \in Int /\ d \in Int
        BY <1>4, <3>1
      <4> HIDE DEF t
      <4> QED
        BY <4>1, OnceMoved
    <3>4. a.queue[p] = r
      BY <1>3, <3>1
    <3> HIDE DEF r
    <3> QED
      BY <1>3, <3>1, <3>2, <3>3, <3>4
  <2> QED
    BY <2>1 DEF Owes
<1>9. Core(a)
  <2>1. a.attached = l.attached /\ a.waiting \subseteq 1 .. N - 1
    BY <1>1, <1>3 DEF Stable, Frame
  <2>2. /\ l \in Links /\ a \in Links /\ d \in Int /\ Stable(l)
        /\ \A p \in Players :
             a.queue[p] = [i \in DOMAIN l.queue[p] |-> Moved(l.queue[p][i], d)]
    BY <1>1, <1>3, <1>4
  <2>3. Stable(a) /\ \A p \in Joined : Has(l, p) => Has(a, p)
    BY <2>1, <2>2, MovedCore
  <2> QED
    BY <1>3, <2>3 DEF Core, Base, Sleeps, Answered
<1>10. /\ b \in Links /\ Frame(a, b) /\ b.time = a.time /\ b.queue = a.queue
       /\ b.nextHardSync = a.nextHardSync /\ b.waiting = a.waiting
  <2> DEFINE w == Wake(a, Secondaries(a))
  <2>1. /\ w \in Links /\ Frame(a, w) /\ w.time = a.time /\ w.queue = a.queue
        /\ w.nextHardSync = a.nextHardSync /\ w.waiting = a.waiting
    BY <1>3, WakeFacts
  <2>2. Frame(a, a)
    BY DEF Frame
  <2>3. b = IF a.transferActive THEN a ELSE w
    OBVIOUS
  <2> HIDE DEF b, w
  <2> QED
    BY <1>3, <2>1, <2>2, <2>3
<1>11. Core(b)
  <2> DEFINE w == Wake(a, Secondaries(a))
  <2>1. a.attached = Joined
    BY <1>1, <1>3 DEF Frame
  <2>2. Secondaries(a) = 1 .. N - 1 /\ \A p : PlayerId(a, p) = Id(p)
    BY <2>1, StableFacts
  <2>3. /\ w \in Links /\ Frame(a, w) /\ w.queue = a.queue /\ w.waiting = a.waiting
        /\ w.asleep = [p \in Players |->
               a.asleep[p] /\ ~ (p \in a.attached /\ PlayerId(a, p) \in Secondaries(a))]
    BY <1>3, WakeFacts
  <2> HIDE DEF w
  <2>4. \A p \in Players : w.asleep[p] <=> a.asleep[p] /\ ~ (p \in Joined /\ Id(p) \in 1 .. N - 1)
    BY <2>1, <2>2, <2>3
  <2>5. Sleeps(w)
    BY <1>1, <1>9, <2>3, <2>4, JoinedFacts DEF Core, Base, Sleeps
  <2>6. Core(w)
    BY <1>9, <2>3, <2>5 DEF Core, Base, Stable, Answered, Has, Frame
  <2> QED
    BY <1>9, <2>6 DEF w
<1> HIDE DEF b
<1>12. /\ Owes(b, 0 - MaxStep) /\ b.time[First] = 0
       /\ b.nextHardSync <= HardSyncInterval /\ b.nextHardSync \in Int
       /\ b.nextHardSync >= 1 - MaxStep - Interval
       /\ \A p \in Others : Near(b, p) /\ b.time[p] \in Int
       /\ \A p \in Others :
            b.waiting # {} /\ Id(p) \notin b.waiting => b.time[p] >= 0 - MaxStep
  <2>1. Owes(b, 0 - MaxStep) /\ b.time[First] = 0
    BY <1>7, <1>8, <1>10 DEF Owes
  <2>2. Clock(l) /\ d = l.time[First]
    BY DEF Timely, d
  <2>3. /\ b.nextHardSync <= HardSyncInterval /\ b.nextHardSync \in Int
        /\ b.nextHardSync >= 1 - MaxStep - Interval
    <3>1. b.nextHardSync = l.nextHardSync - d
      BY <1>3, <1>10
    <3>2. /\ d >= 0 /\ d + l.event[First] <= Interval /\ l.event[First] >= 1 - MaxStep
          /\ l.nextHardSync <= HardSyncInterval
          /\ l.nextHardSync >= d + l.event[First] - Interval
      BY <2>2 DEF Clock
    <3> QED
      BY <1>4, <1>5, <3>1, <3>2, SMTT(30)
  <2>4. ASSUME NEW p \in Others
        PROVE  /\ Near(b, p) /\ b.time[p] \in Int
               /\ b.waiting # {} /\ Id(p) \notin b.waiting => b.time[p] >= 0 - MaxStep
    <3>1. /\ l.time[p] \in Int /\ b.time[p] = l.time[p] - d
          /\ b.nextHardSync = l.nextHardSync - d /\ b.waiting = l.waiting
      BY <1>1, <1>3, <1>4, <1>7, <1>10
    <3>2. Near(b, p)
      BY <1>4, <1>5, <1>6, <3>1 DEF Near
    <3>3. l.waiting # {} /\ Id(p) \notin l.waiting => l.time[p] >= d - MaxStep
      BY DEF Timely, Behind, d
    <3> QED
      BY <1>4, <1>5, <3>1, <3>2, <3>3
  <2> QED
    BY <2>1, <2>3, <2>4
<1>13. CASE b.nextHardSync >= 0
  BY <1>2, <1>12, <1>13 DEF Mid
<1>14. CASE ~ (b.nextHardSync >= 0)
  <2>1. c \in Links
    BY <1>1, <1>10, HardSyncType
  <2>2. /\ m.waiting = c.waiting /\ m.queue = c.queue /\ m.time = c.time
        /\ m.failed = c.failed /\ m.nextHardSync = c.nextHardSync + HardSyncInterval
    <3> HIDE DEF c
    <3> QED
      BY <2>1 DEF Links
  <2>3. c.failed = {}
    BY <1>2, <1>14, <2>2
  <2>4. CASE b.waiting = {}
    <3>1. c = HardSync(b, First)
      BY <2>4
    <3>2. \A p \in Joined : Id(p) \notin b.waiting => None(b.queue[p])
      BY <1>12 DEF Owes
    <3>3. /\ c.waiting = 1 .. N - 1 /\ Owes(c, c.time[First])
          /\ \E f \in 0 .. b.time[First] :
               /\ c.nextHardSync = b.nextHardSync - f
               /\ \A p \in Joined : c.time[p] = b.time[p] - f
      BY <1>11, <1>12, <2>3, <3>1, <3>2, HardSyncTimely
    <3> HIDE DEF c
    <3>4. /\ c.nextHardSync = b.nextHardSync /\ c.time[First] = 0
          /\ \A p \in Others : c.time[p] = b.time[p]
      BY <1>1, <1>12, <3>3
    <3>5. Owes(m, 0 - MaxStep)
      <4>1. /\ 0 - MaxStep \in Int /\ 0 - MaxStep <= 0 /\ 0 \in Int
            /\ \A p \in Joined : c.queue[p] \in Seq(Events)
        BY <1>1, <1>5, <2>1, TimeTypes
      <4> QED
        BY <2>2, <3>3, <3>4, <4>1, OnceFacts DEF Owes
    <3>6. ASSUME NEW p \in Others
          PROVE  m.time[p] >= -(HardSyncInterval + Interval + 2 * MaxStep)
      BY <1>5, <1>12, <2>2, <3>4 DEF Near
    <3>7. /\ m.time[First] = 0 /\ m.nextHardSync >= 0 /\ m.nextHardSync <= HardSyncInterval
      BY <1>5, <1>12, <1>14, <2>2, <3>4
    <3>8. \A p \in Others : Id(p) \in m.waiting
      BY <1>1, <2>2, <3>3, JoinedFacts
    <3>9. Mid(m)
      BY <3>5, <3>6, <3>7, <3>8 DEF Mid
    <3> QED
      BY <1>2, <1>14, <3>9
  <2>5. CASE b.waiting # {}
    <3>1. c = b
      BY <2>5
    <3> HIDE DEF c
    <3>2. Owes(m, 0 - MaxStep)
      BY <1>12, <2>2, <3>1 DEF Owes
    <3>3. /\ m.time[First] = 0 /\ m.nextHardSync >= 0 /\ m.nextHardSync <= HardSyncInterval
      BY <1>5, <1>12, <1>14, <2>2, <3>1
    <3>4. ASSUME NEW p \in Others
          PROVE  /\ Id(p) \notin m.waiting => m.time[p] >= 0 - MaxStep /\ Near(m, p)
                 /\ m.time[p] >= -(HardSyncInterval + Interval + 2 * MaxStep)
      <4>1. m.time[p] = b.time[p] /\ b.time[p] \in Int /\ m.waiting = b.waiting
            /\ m.nextHardSync = b.nextHardSync + HardSyncInterval
        BY <1>12, <2>2, <3>1
      <4>2. Id(p) \notin m.waiting => m.time[p] >= 0 - MaxStep
        BY <1>12, <2>5, <4>1
      <4>3. m.time[p] >= 0 - MaxStep => Near(m, p)
        BY <1>5, <1>12, <1>14, <4>1 DEF Near
      <4>4. m.time[p] >= -(HardSyncInterval + Interval + 2 * MaxStep)
        BY <1>5, <1>12, <4>1 DEF Near
      <4> QED
        BY <4>2, <4>3, <4>4
    <3>5. Mid(m)
      BY <3>2, <3>3, <3>4 DEF Mid
    <3> QED
      BY <1>2, <1>14, <3>5
  <2> QED
    BY <2>4, <2>5
<1> QED
  BY <1>13, <1>14

\* What a turn of the loop does to the queue and to those waited for.
LEMMA TurnFacts ==
  ASSUME NEW x \in Loops, NEW p \in Joined, NEW late \in Int, Core(x.link),
         ~Caught(x.link, p)
  PROVE  LET y == Turn(x, p, late)
             e == Head(x.link.queue[p])
         IN  /\ x.link.queue[p] # <<>> /\ e \in Events
             /\ ~Acknowledged(e) => y.next = x.next
             /\ y.link.queue[p] = Tail(x.link.queue[p])
             /\ \A q \in Players \ {p} : y.link.queue[q] = x.link.queue[q]
             /\ y.link.time = x.link.time /\ y.link.event = x.link.event
             /\ y.link.nextHardSync = x.link.nextHardSync
             /\ y.link.failed = x.link.failed
             /\ y.link.waiting = IF Acknowledged(e) THEN x.link.waiting \ {Id(p)}
                                 ELSE x.link.waiting
<1> DEFINE y == TakeEvent(x, p, late)
           l == Popped(x.link, p)
           e == Head(x.link.queue[p])
           n == e.finish - x.link.time[p] - late
           s == Sent(l, p, n)
<1>1. p \in Players /\ x.link \in Links /\ Stable(x.link) /\ x.link.attached = Joined
      /\ x.link.waiting \subseteq 1 .. N - 1
  BY JoinedFacts DEF Core, Base, Stable
<1>2. /\ x.link.queue[p] # <<>> /\ e \in Events /\ n \in Int
      /\ y.next = IF e.type = "TRANSFER_START" THEN n ELSE x.next
      /\ y.link = IF e.type = "TRANSFER_START" THEN AckPlayer(s, p)
                  ELSE IF Acknowledged(e) THEN AckPlayer(l, p) ELSE l
  BY <1>1, TakeEventCases
<1>3. Turn(x, p, late) = y
  BY DEF Turn
<1> HIDE DEF y, n
<1>4. x.link.queue \in [Players -> Seq(Events)]
  BY <1>1 DEF Links
<1>5. /\ l \in Links /\ Frame(x.link, l) /\ l.waiting = x.link.waiting
      /\ l.time = x.link.time /\ l.nextHardSync = x.link.nextHardSync
      /\ l.failed = x.link.failed
      /\ l.queue = [x.link.queue EXCEPT ![p] = Tail(x.link.queue[p])]
  BY <1>1, <1>2, PoppedFacts
<1> HIDE DEF l
<1>6. /\ l.queue[p] = Tail(x.link.queue[p])
      /\ \A q \in Players \ {p} : l.queue[q] = x.link.queue[q]
  BY <1>1, <1>4, <1>5
<1>7. l.attached = Joined /\ l.event = x.link.event
  BY <1>1, <1>5 DEF Frame
<1> HIDE DEF e
<1>8. s \in Links /\ Keeps(l, s) /\ s.time = l.time /\ s.event = l.event
  <2>1. l \in Links /\ n \in Int /\ p \in Players
    BY <1>1, <1>2, <1>5
  <2> QED
    BY <2>1, SentFacts
<1> HIDE DEF s
<1>9. ASSUME NEW k \in Links, k.attached = Joined, k.waiting = l.waiting
      PROVE  LET m == AckPlayer(k, p)
             IN  /\ m.queue = k.queue /\ m.time = k.time /\ m.event = k.event
                 /\ m.nextHardSync = k.nextHardSync /\ m.failed = k.failed
                 /\ m.waiting = k.waiting \ {Id(p)}
  <2> DEFINE m == AckPlayer(k, p)
  <2>1. /\ m.queue = k.queue /\ m.time = k.time /\ m.event = k.event
        /\ m.nextHardSync = k.nextHardSync /\ m.failed = k.failed
        /\ PlayerId(k, p) = 0 => m = k
        /\ PlayerId(k, p) # 0 => m.waiting = k.waiting \ {PlayerId(k, p)}
    BY <1>1, AckPlayerFacts
  <2>2. PlayerId(k, p) = Id(p)
    BY <1>9, StableFacts
  <2>3. 0 \notin k.waiting
    BY <1>1, <1>5, <1>9, JoinedFacts
  <2> HIDE DEF m
  <2>4. m.waiting = k.waiting \ {Id(p)}
    BY <2>1, <2>2, <2>3
  <2> QED
    BY <2>1, <2>4 DEF m
<1>10. CASE e.type = "TRANSFER_START"
  <2> DEFINE m == AckPlayer(s, p)
  <2>1. /\ s.attached = Joined /\ s.waiting = l.waiting /\ s.queue = l.queue
        /\ s.nextHardSync = l.nextHardSync /\ s.failed = l.failed
    BY <1>7, <1>8 DEF Keeps
  <2>2. /\ m.queue = s.queue /\ m.time = s.time /\ m.event = s.event
        /\ m.nextHardSync = s.nextHardSync /\ m.failed = s.failed
        /\ m.waiting = s.waiting \ {Id(p)}
    BY <1>8, <1>9, <2>1
  <2>3. y.link = m /\ Acknowledged(e)
    BY <1>2, <1>10 DEF Acknowledged
  <2> HIDE DEF m
  <2>4. /\ m.queue = l.queue /\ m.time = l.time /\ m.event = l.event
        /\ m.nextHardSync = l.nextHardSync /\ m.failed = l.failed
        /\ m.waiting = l.waiting \ {Id(p)}
    BY <1>8, <2>1, <2>2
  <2> QED
    BY <1>2, <1>3, <1>5, <1>6, <1>7, <2>3, <2>4 DEF e
<1>11. CASE e.type # "TRANSFER_START" /\ Acknowledged(e)
  <2> DEFINE m == AckPlayer(l, p)
  <2>1. /\ m.queue = l.queue /\ m.time = l.time /\ m.event = l.event
        /\ m.nextHardSync = l.nextHardSync /\ m.failed = l.failed
        /\ m.waiting = l.waiting \ {Id(p)}
    BY <1>5, <1>7, <1>9
  <2>2. y.link = m
    BY <1>2, <1>11
  <2> HIDE DEF m
  <2> QED
    BY <1>2, <1>3, <1>5, <1>6, <1>7, <1>11, <2>1, <2>2 DEF e
<1>12. CASE e.type # "TRANSFER_START" /\ ~Acknowledged(e)
  <2>1. y.link = l /\ y.next = x.next
    BY <1>2, <1>12
  <2> QED
    BY <1>2, <1>3, <1>5, <1>6, <1>7, <1>12, <2>1 DEF e
<1> QED
  BY <1>10, <1>11, <1>12

LEMMA PoppedOwes ==
  ASSUME NEW l \in Links, NEW k \in Links, NEW p \in Joined, NEW t \in Int,
         l.queue[p] # <<>>, k.queue[p] = Tail(l.queue[p]),
         \A q \in Players \ {p} : k.queue[q] = l.queue[q],
         k.waiting = IF Acknowledged(Head(l.queue[p])) THEN l.waiting \ {Id(p)}
                     ELSE l.waiting,
         Owes(l, t)
  PROVE  Owes(k, t) /\ (Acknowledged(Head(l.queue[p])) => Head(l.queue[p]).at >= t)
<1>1. l.queue[p] \in Seq(Events) /\ p \in Players
  BY TimeTypes, JoinedFacts
<1>2. Once(l.queue[p], t) /\ (Id(p) \notin l.waiting => None(l.queue[p]))
  BY DEF Owes
<1>3. /\ None(l.queue[p]) => None(k.queue[p])
      /\ Once(k.queue[p], t)
      /\ Acknowledged(Head(l.queue[p])) => None(k.queue[p]) /\ Head(l.queue[p]).at >= t
  BY <1>1, <1>2, OnceTail
<1>4. ASSUME NEW q \in Joined, q # p
      PROVE  Once(k.queue[q], t) /\ (Id(q) \notin k.waiting => None(k.queue[q]))
  <2>1. k.queue[q] = l.queue[q] /\ Id(q) # Id(p)
    BY <1>4, IdFacts, JoinedFacts
  <2>2. Id(q) \notin k.waiting => Id(q) \notin l.waiting
    BY <2>1
  <2>3. Once(l.queue[q], t) /\ (Id(q) \notin l.waiting => None(l.queue[q]))
    BY DEF Owes
  <2> QED
    BY <2>1, <2>2, <2>3
<1>5. Id(p) \notin k.waiting => None(k.queue[p])
  BY <1>2, <1>3
<1> QED
  BY <1>3, <1>4, <1>5 DEF Owes

\* A player that has acknowledged is near: what it acknowledged was in its past.
LEMMA OtherTurn ==
  ASSUME NEW x \in Loops, NEW p \in Others, NEW late \in Int, Core(x.link),
         Turn(x, p, late) \in Loops, Timely(x.link)
  PROVE  Timely(Turn(x, p, late).link)
<1> DEFINE y == Turn(x, p, late)
           l == x.link
           k == y.link
           e == Head(l.queue[p])
           u == l.time[First] - MaxStep
<1>1. /\ l \in Links /\ k \in Links /\ p \in Joined /\ p \in Players /\ First \in Players
      /\ Others \subseteq Joined /\ Joined \subseteq Players
  BY JoinedFacts DEF Loops, Others
<1>2. CASE Caught(l, p)
  BY <1>2 DEF Turn
<1>3. CASE ~Caught(l, p)
  <2>1. /\ l.queue[p] # <<>> /\ e \in Events /\ k.queue[p] = Tail(l.queue[p])
        /\ \A q \in Players \ {p} : k.queue[q] = l.queue[q]
        /\ k.time = l.time /\ k.event = l.event /\ k.nextHardSync = l.nextHardSync
        /\ k.waiting = IF Acknowledged(e) THEN l.waiting \ {Id(p)} ELSE l.waiting
    BY <1>1, <1>3, TurnFacts, ZenonT(30)
  <2>2. e.at \in Int /\ e.at <= l.time[p] /\ l.time[p] \in Int
    <3>1. e.at \in Int /\ l.time[p] \in Int
      BY <1>1, <2>1, TimeTypes DEF Events
    <3>2. ~ (e.at > l.time[p])
      BY <1>3 DEF Caught
    <3> HIDE DEF e, l
    <3> QED
      BY <3>1, <3>2
  <2>3. u \in Int /\ l.time[First] \in Int /\ l.nextHardSync \in Int
    BY <1>1, TimeTypes, Cycles
  <2> HIDE DEF y, k, l, e
  <2>4. Owes(l, u) /\ Clock(l) /\ Behind(l)
    BY DEF Timely, l
  <2>5. Owes(k, u) /\ (Acknowledged(e) => e.at >= u)
    <3> HIDE DEF u
    <3>1. k.waiting = IF Acknowledged(Head(l.queue[p])) THEN l.waiting \ {Id(p)}
                      ELSE l.waiting
      BY <2>1 DEF e
    <3>2. Owes(k, u) /\ (Acknowledged(Head(l.queue[p])) => Head(l.queue[p]).at >= u)
      BY <1>1, <2>1, <2>3, <2>4, <3>1, PoppedOwes
    <3> QED
      BY <3>2 DEF e
  <2>6. Clock(k)
    BY <2>1, <2>4 DEF Clock
  <2>7. ASSUME NEW q \in Others
        PROVE  /\ Id(q) \notin k.waiting => Near(k, q)
               /\ k.waiting # {} /\ Id(q) \notin k.waiting => k.time[q] >= u
               /\ Id(q) \in k.waiting =>
                    \/ Near(k, q)
                    \/ /\ k.event[First] >= 1
                       /\ k.time[q] >= -(HardSyncInterval + Interval + 2 * MaxStep)
    <3>1. Near(l, q) => Near(k, q)
      BY <2>1 DEF Near
    <3>2. /\ Id(q) \notin l.waiting => Near(k, q)
          /\ l.waiting # {} /\ Id(q) \notin l.waiting => k.time[q] >= u
          /\ Id(q) \in l.waiting =>
               \/ Near(k, q)
               \/ /\ k.event[First] >= 1
                  /\ k.time[q] >= -(HardSyncInterval + Interval + 2 * MaxStep)
      BY <2>1, <2>4, <3>1 DEF Behind
    <3>3. CASE q # p \/ ~Acknowledged(e)
      <4>1. Id(q) \in k.waiting <=> Id(q) \in l.waiting
        BY <1>1, <2>1, <3>3, IdFacts
      <4>2. k.waiting # {} => l.waiting # {}
        BY <2>1
      <4> QED
        BY <3>2, <4>1, <4>2
    <3>4. CASE q = p /\ Acknowledged(e)
      <4>1. Id(q) \notin k.waiting
        BY <2>1, <3>4
      <4>2. k.time[q] >= u
        BY <2>1, <2>2, <2>3, <2>5, <3>4
      <4>3. Near(k, q)
        <5>1. l.time[First] >= 0 /\ l.nextHardSync <= HardSyncInterval
          BY <2>4 DEF Clock
        <5>2. k.time[q] \in Int /\ HardSyncInterval \in Int /\ MaxStep \in Int
          BY <2>1, <2>2, <3>4, Cycles
        <5> QED
          BY <2>1, <2>3, <4>2, <5>1, <5>2 DEF Near
      <4> QED
        BY <4>1, <4>2, <4>3
    <3> QED
      BY <3>3, <3>4
  <2>8. k.time[First] - MaxStep = u
    BY <2>1
  <2> HIDE DEF u
  <2>9. Behind(k)
    BY <2>7, <2>8 DEF Behind
  <2>10. Timely(k)
    BY <2>5, <2>6, <2>8, <2>9 DEF Timely
  <2> QED
    BY <2>10 DEF k, y
<1> QED
  BY <1>2, <1>3

\* The queue of the primary has nothing that would change its next call.
LEMMA FirstTurn ==
  ASSUME NEW x \in Loops, NEW late \in Int, Core(x.link),
         Turn(x, First, late) \in Loops, Mid(x.link)
  PROVE  Mid(Turn(x, First, late).link) /\ Turn(x, First, late).next = x.next
<1> DEFINE y == Turn(x, First, late)
           l == x.link
           k == y.link
           e == Head(l.queue[First])
<1>1. /\ l \in Links /\ k \in Links /\ First \in Joined /\ First \in Players
      /\ Id(First) \notin l.waiting
  BY JoinedFacts DEF Loops, Core, Base, Stable
<1>2. CASE Caught(l, First)
  BY <1>2 DEF Turn
<1>3. CASE ~Caught(l, First)
  <2>1. /\ l.queue[First] # <<>> /\ (~Acknowledged(e) => y.next = x.next)
        /\ k.queue[First] = Tail(l.queue[First])
        /\ \A q \in Players \ {First} : k.queue[q] = l.queue[q]
        /\ k.time = l.time /\ k.nextHardSync = l.nextHardSync
        /\ k.waiting = IF Acknowledged(e) THEN l.waiting \ {Id(First)} ELSE l.waiting
    BY <1>1, <1>3, TurnFacts, ZenonT(30)
  <2>2. ~Acknowledged(e)
    <3>1. None(l.queue[First])
      BY <1>1 DEF Mid, Owes
    <3>2. l.queue[First] \in Seq(Events)
      BY <1>1, TimeTypes
    <3>3. e = l.queue[First][1] /\ Len(l.queue[First]) \in Nat \ {0}
      BY <2>1, <3>2, TailFacts
    <3> QED
      BY <3>1, <3>3 DEF None
  <2>3. 0 - MaxStep \in Int
    BY Cycles
  <2> HIDE DEF y, k, l, e
  <2>4. Owes(k, 0 - MaxStep)
    <3> DEFINE u == 0 - MaxStep
    <3>1. Owes(l, u) /\ u \in Int
      BY <2>3 DEF Mid, l
    <3>2. k.waiting = IF Acknowledged(Head(l.queue[First])) THEN l.waiting \ {Id(First)}
                      ELSE l.waiting
      BY <2>1 DEF e
    <3> HIDE DEF u
    <3>3. Owes(k, u)
      BY <1>1, <2>1, <3>1, <3>2, PoppedOwes
    <3> QED
      BY <3>3 DEF u
  <2>5. k.waiting = l.waiting
    BY <2>1, <2>2
  <2>6. Mid(l)
    BY DEF l
  <2>7. Mid(k)
    BY <2>1, <2>4, <2>5, <2>6 DEF Mid, Near
  <2> QED
    BY <2>1, <2>2, <2>7 DEF k, y
<1> QED
  BY <1>2, <1>3

\* The loop ends with nothing in the queue that is due.
LEMMA Drained ==
  ASSUME NEW x \in Loops, NEW p \in Joined, NEW late \in Int, Core(x.link), ~x.wasDetach
  PROVE  Caught(TakeEvents(x, p, late).link, p)
<1> DEFINE f == Taken(x, p, late)
           len == Len(x.link.queue[p])
           Ok(y, k) == /\ y \in Loops /\ Core(y.link) /\ ~y.wasDetach
                       /\ Caught(y.link, p) \/ Len(y.link.queue[p]) = len - k
           S == {k \in Nat : Ok(f[k], k)}
<1>1. f[0] = x /\ \A n \in Nat : f[n + 1] = Turn(f[n], p, late)
  BY TakenFacts
<1>2. x.link.queue[p] \in Seq(Events) /\ len \in Nat
  <2>1. x.link.queue[p] \in Seq(Events)
    BY JoinedFacts DEF Loops, Links
  <2> QED
    BY <2>1
<1> HIDE DEF f
<1>3. Ok(f[0], 0)
  <2> HIDE DEF len
  <2>1. Len(x.link.queue[p]) = len - 0
    BY <1>2 DEF len
  <2> QED
    BY <1>1, <2>1
<1>4. ASSUME NEW n \in Nat, Ok(f[n], n)
      PROVE  Ok(f[n + 1], n + 1)
  <2> DEFINE y == f[n]
             z == Turn(y, p, late)
  <2>1. y \in Loops /\ Core(y.link) /\ ~y.wasDetach
    BY <1>4
  <2>2. f[n + 1] = z
    BY <1>1
  <2> HIDE DEF y, z, len
  <2>3. z \in Loops /\ Core(z.link) /\ ~z.wasDetach
    BY <2>1, TurnCore DEF z
  <2>4. CASE Caught(y.link, p)
    <3>1. z = y
      BY <2>4 DEF z, Turn
    <3> QED
      BY <2>2, <2>3, <2>4, <3>1
  <2>5. CASE ~Caught(y.link, p)
    <3>1. Len(y.link.queue[p]) = len - n
      BY <1>4, <2>5 DEF y, len
    <3>2. y.link.queue[p] # <<>> /\ z.link.queue[p] = Tail(y.link.queue[p])
      BY <2>1, <2>5, TurnFacts DEF z
    <3>3. y.link.queue[p] \in Seq(Events)
      BY <2>1, JoinedFacts DEF Loops, Links
    <3>4. Len(z.link.queue[p]) = Len(y.link.queue[p]) - 1
      BY <3>2, <3>3, TailFacts
    <3>5. Len(z.link.queue[p]) = len - (n + 1)
      BY <1>2, <3>1, <3>4 DEF len
    <3> QED
      BY <2>2, <2>3, <3>5
  <2> QED
    BY <2>4, <2>5
<1> HIDE DEF Ok, len
<1>5. S = Nat
  <2>1. S \in SUBSET Nat /\ 0 \in S /\ \A n \in S : n + 1 \in S
    BY <1>3, <1>4
  <2> HIDE DEF S
  <2> QED
    BY <2>1, Induction
<1>6. 2 * len \in Nat
  BY <1>2 DEF len
<1>7. Ok(f[2 * len], 2 * len)
  BY <1>5, <1>6
<1> DEFINE y == f[2 * len]
<1> HIDE DEF y
<1>8. /\ y \in Loops
      /\ Caught(y.link, p) \/ Len(y.link.queue[p]) = len - 2 * len
  BY <1>7 DEF Ok, y
<1>9. Caught(y.link, p)
  <2>1. y.link.queue[p] \in Seq(Events)
    BY <1>8, JoinedFacts DEF Loops, Links
  <2>2. CASE Len(y.link.queue[p]) = len - 2 * len
    <3> DEFINE left == Len(y.link.queue[p])
    <3>1. left \in Nat /\ len \in Nat /\ left = len - 2 * len
      <4>1. left \in Nat
        BY <2>1
      <4> QED
        BY <1>2, <2>2, <4>1 DEF len
    <3> HIDE DEF left
    <3>2. left = 0
      BY <3>1
    <3>3. y.link.queue[p] = <<>>
      BY <2>1, <3>2 DEF left
    <3> QED
      BY <3>3 DEF Caught
  <2> QED
    BY <1>8, <2>2
<1> QED
  BY <1>9 DEF TakeEvents, y, f, len

\* The handler of the primary fails where the move of the clock does.
LEMMA FirstLeads ==
  ASSUME NEW l, Core(l), Timely(l), LockstepEvent(l, First).failed = {}
  PROVE  Led(l, First) = Lead(l, First) /\ Lead(l, First).failed = {}
<1> DEFINE a == Led(l, First)
           late == -l.event[First]
           x == Leaves(l, First)
           F == {y \in Loops : Core(y.link) /\ ~y.wasDetach /\ y.link.failed = a.failed}
<1>1. l \in Links /\ First \in Joined /\ First \in Players
  BY JoinedFacts DEF Core, Base
<1>2. /\ Core(a) /\ Enters(l, First) \in Loops
      /\ Ends(x.link, LockstepEvent(l, First))
  BY <1>1, LockstepEventCases
<1>3. late \in Int
  BY <1>1, TimeTypes
<1>4. Enters(l, First).link = a /\ ~Enters(l, First).wasDetach
  BY DEF Enters
<1>5. x = TakeEvents(Enters(l, First), First, late)
  BY DEF Leaves
<1>6. 2 * Len(a.queue[First]) \in Nat
  <2>1. a.queue[First] \in Seq(Events)
    BY <1>1, <1>2, TimeTypes DEF Core, Base
  <2> HIDE DEF a
  <2> QED
    BY <2>1
<1> HIDE DEF a, late
<1>7. Enters(l, First) \in F
  BY <1>2, <1>4
<1>8. ASSUME NEW y \in F
      PROVE  Turn(y, First, late) \in F
  <2>1. y \in Loops /\ Core(y.link) /\ ~y.wasDetach /\ y.link.failed = a.failed
    OBVIOUS
  <2> DEFINE z == Turn(y, First, late)
  <2>2. z \in Loops /\ Core(z.link) /\ ~z.wasDetach
    BY <1>1, <1>3, <2>1, TurnCore
  <2>3. z.link.failed = y.link.failed
    <3>1. CASE Caught(y.link, First)
      BY <3>1 DEF Turn
    <3>2. CASE ~Caught(y.link, First)
      BY <1>1, <1>3, <2>1, <3>2, TurnFacts
    <3> QED
      BY <3>1, <3>2
  <2> HIDE DEF z
  <2>4. z \in F
    BY <2>1, <2>2, <2>3
  <2> QED
    BY <2>4 DEF z
<1> HIDE DEF F
<1>9. x \in F
  BY <1>4, <1>5, <1>6, <1>7, <1>8, LoopInvariant DEF TakeEvents
<1>10. a.failed = {}
  BY <1>2, <1>9 DEF F, Ends
<1>11. a = Lead(l, First)
  BY DEF a, Led, Timely, Clock
<1> QED
  BY <1>10, <1>11 DEF a

LEMMA LockstepEventTimely ==
  ASSUME NEW l, Core(l), Timely(l), NEW p \in Joined,
         l.event[p] <= 0, LockstepEvent(l, p).failed = {}
  PROVE  Timely(LockstepEvent(l, p))
<1> DEFINE a == Led(l, p)
           late == -l.event[p]
           x == Leaves(l, p)
           b == x.link
           n == NextCall(x, p)
           m == LockstepEvent(l, p)
<1>1. /\ l \in Links /\ p \in Players /\ First \in Players /\ First \in Joined
  BY JoinedFacts DEF Core, Base
<1>2. /\ Core(a) /\ Enters(l, p) \in Loops /\ x \in Loops /\ Core(b) /\ n \in Int
      /\ m \in Links /\ Ends(b, m)
      /\ \/ /\ p = First \/ b.queue[p] # <<>> \/ ~ (n <= Interval)
            /\ m.asleep = b.asleep /\ m.event = [b.event EXCEPT ![p] = n]
         \/ /\ p # First /\ b.queue[p] = <<>> /\ n <= Interval
            /\ m.asleep = [b.asleep EXCEPT ![p] = TRUE]
            /\ m.event = [b.event EXCEPT ![p] = IF n < Gain THEN Gain ELSE n]
  BY <1>1, LockstepEventCases
<1>3. late \in Int /\ b.event \in [Players -> Int]
  <2>1. l.event[p] \in Int
    BY <1>1, TimeTypes
  <2>2. b \in Links
    BY <1>2 DEF Core, Base
  <2> HIDE DEF b
  <2>3. b.event \in [Players -> Int]
    BY <2>2 DEF Links
  <2> QED
    BY <2>1, <2>3 DEF b
<1>4. /\ Enters(l, p).link = a /\ ~Enters(l, p).wasDetach
      /\ Enters(l, p).next = UntilNextSync(a, p)
  BY DEF Enters
<1>5. x = TakeEvents(Enters(l, p), p, late)
  BY DEF Leaves
<1>6. 2 * Len(a.queue[p]) \in Nat
  <2>1. a.queue[p] \in Seq(Events)
    BY <1>1, <1>2, TimeTypes DEF Core, Base
  <2> HIDE DEF a
  <2> QED
    BY <2>1
<1> HIDE DEF a, m, n, late
<1>7. m.waiting = b.waiting /\ m.queue = b.queue /\ m.time = b.time
      /\ m.nextHardSync = b.nextHardSync /\ m.failed = b.failed
  BY <1>2 DEF Ends
<1>8. CASE p # First
  <2> DEFINE S == {y \in Loops : Core(y.link) /\ ~y.wasDetach /\ Timely(y.link)}
  <2>1. p \in Others
    BY <1>8 DEF Others
  <2>2. a = l
    BY <1>8 DEF a, Led
  <2>3. Enters(l, p) \in S
    BY <1>2, <1>4, <2>2
  <2>4. ASSUME NEW y \in S
        PROVE  Turn(y, p, late) \in S
    <3>1. y \in Loops /\ Core(y.link) /\ ~y.wasDetach /\ Timely(y.link)
      OBVIOUS
    <3> DEFINE z == Turn(y, p, late)
    <3>2. z \in Loops /\ Core(z.link) /\ ~z.wasDetach
      BY <1>3, <3>1, TurnCore
    <3>3. Timely(z.link)
      BY <1>3, <2>1, <3>1, <3>2, OtherTurn
    <3> QED
      BY <3>2, <3>3
  <2> HIDE DEF S
  <2>5. x \in S
    BY <1>4, <1>5, <1>6, <2>3, <2>4, LoopInvariant DEF TakeEvents
  <2>6. Timely(b)
    BY <2>5 DEF S
  <2>7. m.event[First] = b.event[First]
    BY <1>1, <1>2, <1>3, <1>8
  <2>8. Timely(m)
    BY <1>7, <2>6, <2>7, SameTimely
  <2> QED
    BY <2>8 DEF m
<1>9. CASE p = First
  <2> DEFINE S == {y \in Loops : /\ Core(y.link) /\ ~y.wasDetach
                                 /\ Mid(y.link) /\ y.next = Interval}
  <2>6. Mid(a)
    BY <1>9, FirstLeads, LeadTimely DEF a, m
  <2>7. UntilNextSync(a, p) = Interval
    <3>1. PlayerId(a, p) = 0
      BY <1>2, <1>9, StableFacts, JoinedFacts DEF Core, Base, Stable
    <3>2. a.time[p] = 0 /\ Interval \in Int
      BY <1>9, <2>6, Cycles DEF Mid
    <3> QED
      BY <3>1, <3>2 DEF UntilNextSync
  <2>8. Enters(l, p) \in S
    BY <1>2, <1>4, <2>6, <2>7
  <2>9. ASSUME NEW y \in S
        PROVE  Turn(y, p, late) \in S
    <3>1. y \in Loops /\ Core(y.link) /\ ~y.wasDetach /\ Mid(y.link) /\ y.next = Interval
      OBVIOUS
    <3> DEFINE z == Turn(y, p, late)
    <3>2. z \in Loops /\ Core(z.link) /\ ~z.wasDetach
      BY <1>3, <3>1, TurnCore
    <3>3. Mid(z.link) /\ z.next = y.next
      BY <1>3, <1>9, <3>1, <3>2, FirstTurn
    <3> HIDE DEF z
    <3>4. z \in S
      BY <3>1, <3>2, <3>3
    <3> QED
      BY <3>4 DEF z
  <2> HIDE DEF S
  <2>10. x \in S
    BY <1>4, <1>5, <1>6, <2>8, <2>9, LoopInvariant DEF TakeEvents
  <2>11. Mid(b) /\ x.next = Interval
    BY <2>10 DEF S
  <2>12. Caught(b, p)
    BY <1>2, <1>3, <1>4, <1>5, Drained
  <2> HIDE DEF x
  <2>13. n >= 1 /\ n <= Interval /\ n \in Int
    <3>1. b.queue[p] \in Seq(Events) /\ b.time[p] = 0
      BY <1>2, <1>9, <2>11, JoinedFacts DEF Loops, Links, Mid
    <3>2. CASE b.queue[p] = <<>>
      BY <2>11, <3>2, Cycles DEF n, NextCall
    <3>3. CASE b.queue[p] # <<>>
      <4> DEFINE h == Head(b.queue[p]).at
      <4>1. h \in Int
        BY <3>1, <3>3, TailFacts DEF Events
      <4>2. h > 0
        BY <2>12, <3>1, <3>3 DEF Caught
      <4>3. n = IF h - b.time[p] < x.next THEN h - b.time[p] ELSE x.next
        BY <3>3 DEF n, NextCall
      <4> HIDE DEF h
      <4> QED
        BY <2>11, <3>1, <4>1, <4>2, <4>3, Cycles
    <3> QED
      BY <3>2, <3>3
  <2>14. m.event[First] = n
    BY <1>1, <1>2, <1>3, <1>9
  <2> HIDE DEF b
  <2>15. m.time[First] = 0 /\ m.nextHardSync >= 0 /\ m.nextHardSync <= HardSyncInterval
    BY <1>7, <2>11 DEF Mid
  <2>16. m.nextHardSync \in Int /\ MaxStep \in Int /\ MaxStep >= 1 /\ Interval \in Int
    BY <1>2, TimeTypes, Cycles
  <2>17. Clock(m)
    BY <2>13, <2>14, <2>15, <2>16 DEF Clock
  <2>18. Owes(m, m.time[First] - MaxStep)
    BY <1>7, <2>11, <2>15 DEF Mid, Owes
  <2>19. Behind(m)
    BY <1>7, <2>11, <2>13, <2>14, <2>15 DEF Mid, Behind, Near
  <2>20. Timely(m)
    BY <2>17, <2>18, <2>19 DEF Timely
  <2> QED
    BY <2>20 DEF m
<1> QED
  BY <1>8, <1>9

TimelyInv == joins = 0 /\ link.failed = {} => Timely(link)

LEMMA TimelyInit ==
  ASSUME Init
  PROVE  Timely(link)
<1>1. /\ link.waiting = {} /\ link.nextHardSync = HardSyncInterval
      /\ First \in Players /\ Others \subseteq Players
      /\ \A p \in Players : link.time[p] = 0 /\ link.queue[p] = <<>>
      /\ link.event[First] = Interval
  BY InitFacts, JoinedFacts DEF Others
<1>2. Owes(link, link.time[First] - MaxStep)
  BY <1>1, JoinedFacts DEF Owes, Once, None
<1>3. Clock(link)
  BY <1>1, Cycles DEF Clock
<1>4. \A p \in Others : Near(link, p)
  BY <1>1, Cycles DEF Near
<1>5. Behind(link)
  BY <1>1, <1>4 DEF Behind
<1> QED
  BY <1>2, <1>3, <1>5 DEF Timely

LEMMA TimelyStep ==
  ASSUME TypeOK, CoreInv, TimelyInv, [Next]_vars
  PROVE  TimelyInv'
<1> SUFFICES ASSUME joins' = 0, link'.failed = {} PROVE Timely(link)'
  BY DEF TimelyInv
<1>1. joins \in Nat /\ link \in Links
  BY DEF TypeOK
<1>2. CASE UNCHANGED vars
  <2>1. link' = link /\ joins' = joins
    BY <1>2 DEF vars
  <2> QED
    BY <2>1 DEF TimelyInv, Timely, Owes, Clock, Behind, Near
<1>3. CASE Join \/ Leave
  BY <1>1, <1>3 DEF Join, Leave
<1>4. ASSUME NEW p \in Players, link.failed = {}, Run(p) \/ Call(p) \/ Fire(p)
      PROVE  Timely(link)'
  <2>1. joins = 0 /\ Core(link) /\ Timely(link) /\ p \in link.attached
    BY <1>4 DEF CoreInv, TimelyInv, Run, Call, Fire, Runs
  <2>2. p \in Joined /\ link.event[p] \in Int
    BY <1>1, <2>1, TimeTypes DEF Core, Base, Stable
  <2>3. Runs(p) => ~link.asleep[p] /\ link.event[p] >= 1
    BY <2>2 DEF Runs, Due
  <2>4. ASSUME NEW k, link' = k, Timely(k)
        PROVE  Timely(link)'
    BY <2>4 DEF Timely, Owes, Clock, Behind, Near
  <2>5. CASE Run(p)
    <3>1. PICK c \in 1 .. MaxStep : link' = Pass(link, p, c)
      BY <2>5 DEF Run
    <3>2. Timely(Pass(link, p, c))
      BY <2>1, <2>2, <2>3, <2>5, PassTimely DEF Run
    <3> QED
      BY <2>4, <3>1, <3>2
  <2>6. CASE Call(p)
    <3>1. PICK c \in 1 .. MaxStep :
             \/ \E m \in Modes : link' = Pass(SetMode(link, p, m), p, c)
             \/ link' = Pass(Start(link, p), p, c)
             \/ /\ PlayerId(link, p) = 0
                /\ \E m \in Modes : link' = Pass(Start(SetMode(link, p, m), p), p, c)
      BY <2>6 DEF Call
    <3>2. Runs(p)
      BY <2>6 DEF Call
    <3>3. CASE link' = Pass(Start(link, p), p, c)
      <4>1. Pass(Start(link, p), p, c).failed = {}
        BY <3>3
      <4>2. Timely(Pass(Start(link, p), p, c))
        BY <2>1, <2>2, <2>3, <3>2, <4>1, StartTimely
      <4> QED
        BY <2>4, <3>3, <4>2
    <3>4. ASSUME NEW m \in Modes, link' = Pass(SetMode(link, p, m), p, c)
          PROVE  Timely(link)'
      <4>1. Pass(SetMode(link, p, m), p, c).failed = {}
        BY <3>4
      <4>2. Timely(Pass(SetMode(link, p, m), p, c))
        BY <2>1, <2>2, <2>3, <3>2, <4>1, SetModeTimely
      <4> QED
        BY <2>4, <3>4, <4>2
    <3>5. ASSUME PlayerId(link, p) = 0, NEW m \in Modes,
                 link' = Pass(Start(SetMode(link, p, m), p), p, c)
          PROVE  Timely(link)'
      <4>1. Pass(Start(SetMode(link, p, m), p), p, c).failed = {}
        BY <3>5
      <4>2. p = First
        BY <2>1, <2>2, <3>5, IdFacts, StableFacts DEF Core, Base, Stable
      <4>3. Timely(Pass(Start(SetMode(link, p, m), p), p, c))
        BY <2>1, <2>2, <2>3, <3>2, <4>1, <4>2, SwitchAndStartTimely
      <4> QED
        BY <2>4, <3>5, <4>3
    <3> QED
      BY <3>1, <3>3, <3>4, <3>5
  <2>7. CASE Fire(p)
    <3>1. CASE link.event[p] <= 0 /\ link' = LockstepEvent(link, p)
      <4>1. Timely(LockstepEvent(link, p))
        BY <2>1, <2>2, <3>1, LockstepEventTimely
      <4> QED
        BY <2>4, <3>1, <4>1
    <3>2. CASE link' = Finish(link, p)
      <4>1. Timely(Finish(link, p))
        BY <2>1, <2>2, <3>2, FinishTimely
      <4> QED
        BY <2>4, <3>2, <4>1
    <3> QED
      BY <2>7, <3>1, <3>2 DEF Fire
  <2> QED
    BY <1>4, <2>5, <2>6, <2>7
<1> QED
  BY <1>2, <1>3, <1>4 DEF Next

\* No machine falls behind the shared clock by more than two instructions, a hard sync
\* and an interval of the primary, for every number of players and of calls of their
\* games.  The argument: the primary does not go on before all have acknowledged what
\* it told them last, which was at most an instruction ago, and whoever is told of a
\* hard sync was within its interval when the one before it was over.
THEOREM NobodyFallsBehind == Spec => []InStep
<1>1. TypeOK /\ CoreInv /\ TimelyInv => InStep
  <2> SUFFICES ASSUME link \in Links, Core(link), Timely(link), NEW p \in link.attached
               PROVE  link.time[p] >= -(HardSyncInterval + Interval + 2 * MaxStep)
    BY DEF TypeOK, CoreInv, TimelyInv, InStep
  <2>1. p \in Joined /\ p \in Players /\ First \in Players
    BY JoinedFacts DEF Core, Base, Stable
  <2>2. /\ link.time[p] \in Int /\ link.time[First] \in Int /\ link.event[First] \in Int
        /\ link.nextHardSync \in Int
    BY <2>1, TimeTypes
  <2>3. Clock(link) /\ Behind(link)
    BY DEF Timely
  <2>4. CASE p = First
    BY <2>2, <2>3, <2>4, Cycles DEF Clock
  <2>5. CASE p # First
    <3>1. p \in Others
      BY <2>1, <2>5 DEF Others
    <3>2. Near(link, p) \/ link.time[p] >= -(HardSyncInterval + Interval + 2 * MaxStep)
      BY <2>3, <3>1 DEF Behind
    <3> QED
      BY <2>2, <2>3, <3>2, Cycles DEF Clock, Near
  <2> QED
    BY <2>4, <2>5
<1>2. Init => TypeOK /\ CoreInv /\ TimelyInv
  BY CoreInit, TimelyInit, InitFacts, BoundsAssumption DEF CoreInv, TimelyInv, TypeOK
<1>3. TypeOK /\ CoreInv /\ TimelyInv /\ [Next]_vars => TypeOK' /\ CoreInv' /\ TimelyInv'
  BY TypeStep, CoreStep, TimelyStep
<1> QED
  BY <1>1, <1>2, <1>3, PTL DEF Spec

-----------------------------------------------------------------------------
(* The words of a transfer between two machines.                           *)

\* What a player has to handle comes from others, and says when a transfer ends.
Good(q, id) ==
  \A i \in 1 .. Len(q) :
    /\ q[i].from # id
    /\ q[i].type = "TRANSFER_START" => q[i].finish = q[i].at + Transfer
Starts(q) == \E i \in 1 .. Len(q) : q[i].type = "TRANSFER_START"

LEMMA GoodInsert ==
  ASSUME NEW q \in Seq(Events), NEW e \in Events, NEW id, e.from # id,
         e.type = "TRANSFER_START" => e.finish = e.at + Transfer
  PROVE  LET r == InsertEvent(q, e)
         IN  /\ Good(q, id) => Good(r, id)
             /\ Starts(r) <=> Starts(q) \/ e.type = "TRANSFER_START"
<1> DEFINE r == InsertEvent(q, e)
<1>1. /\ \E i \in 1 .. Len(r) : r[i] = e
      /\ \A i \in 1 .. Len(r) : r[i] = e \/ \E j \in 1 .. Len(q) : r[i] = q[j]
      /\ \A j \in 1 .. Len(q) : \E i \in 1 .. Len(r) : r[i] = q[j]
  BY InsertMembers
<1> HIDE DEF r
<1>2. Good(q, id) => Good(r, id)
  BY <1>1 DEF Good
<1>3. Starts(r) <=> Starts(q) \/ e.type = "TRANSFER_START"
  BY <1>1, ZenonT(30) DEF Starts
<1> QED
  BY <1>2, <1>3 DEF r

LEMMA GoodMoved ==
  ASSUME NEW q \in Seq(Events), NEW id, NEW d \in Int
  PROVE  LET r == [i \in DOMAIN q |-> Moved(q[i], d)]
         IN  (Good(q, id) => Good(r, id)) /\ (Starts(r) <=> Starts(q))
<1> DEFINE r == [i \in DOMAIN q |-> Moved(q[i], d)]
<1>1. /\ Len(r) = Len(q)
      /\ \A i \in 1 .. Len(q) : /\ r[i].type = q[i].type /\ r[i].from = q[i].from
                                /\ r[i].at = q[i].at - d /\ r[i].finish = q[i].finish - d
  BY ShiftedQueue
<1> HIDE DEF r
<1>2. \A i \in 1 .. Len(q) : q[i].at \in Int /\ q[i].finish \in Int
  <2>1. \A e \in Events : e.at \in Int /\ e.finish \in Int
    BY DEF Events
  <2>2. \A i \in 1 .. Len(q) : q[i] \in Events
    OBVIOUS
  <2> QED
    BY <2>1, <2>2
<1>3. Transfer \in Int
  BY Cycles
<1>4. ASSUME Good(q, id), NEW i \in 1 .. Len(r)
      PROVE  /\ r[i].from # id
             /\ r[i].type = "TRANSFER_START" => r[i].finish = r[i].at + Transfer
  <2>1. i \in 1 .. Len(q)
    BY <1>1
  <2>2. /\ q[i].from # id
        /\ q[i].type = "TRANSFER_START" => q[i].finish = q[i].at + Transfer
    BY <1>4, <2>1 DEF Good
  <2> QED
    BY <1>1, <1>2, <1>3, <2>1, <2>2
<1>5. Starts(r) <=> Starts(q)
  BY <1>1 DEF Starts
<1> QED
  BY <1>4, <1>5 DEF r, Good

LEMMA GoodTail ==
  ASSUME NEW q \in Seq(Events), q # <<>>, NEW id
  PROVE  Good(q, id) => Good(Tail(q), id)
<1>1. /\ Len(q) \in Nat \ {0} /\ Len(Tail(q)) = Len(q) - 1
      /\ \A i \in 1 .. Len(q) - 1 : Tail(q)[i] = q[i + 1]
  BY TailFacts
<1>2. \A i \in 1 .. Len(Tail(q)) : Tail(q)[i] = q[i + 1] /\ i + 1 \in 1 .. Len(q)
  BY <1>1
<1> QED
  BY <1>2 DEF Good

\* The primary has sent its word and waits; when all have answered, the words of all
\* are there.
Sends(l) ==
  /\ l.transferMode = l.mode[First]
  /\ l.transferActive => /\ l.data = {First} /\ l.busy[First] /\ l.waiting # {}
                         /\ l.complete[First] > 0
  /\ l.complete[First] # Never /\ ~l.transferActive =>
       l.dataReceived[First] /\ l.data = Joined

\* Another player has the start of a transfer before it, or has answered: then its
\* own end of the transfer comes before whatever would answer the next one.
Gets(l, s) ==
  /\ l.transferActive <=> Starts(l.queue[s])
  /\ l.complete[s] # Never =>
       /\ l.dataReceived[s] /\ l.data = Joined /\ ~l.transferActive
       /\ l.busy[First] \/ l.waiting # {}
       /\ l.complete[s] <= l.event[s] /\ ~l.newer[s]

Transfers(l) ==
  /\ \A p \in Joined : /\ Good(l.queue[p], Id(p))
                       /\ l.complete[p] = Never \/ l.complete[p] <= Transfer
  /\ Sends(l)
  /\ \A s \in Others : Gets(l, s)

\* The same queues but for the clock and for events that start no transfer.
Queues(l, m) ==
  \A p \in Joined : /\ Good(l.queue[p], Id(p)) => Good(m.queue[p], Id(p))
                    /\ Starts(m.queue[p]) <=> Starts(l.queue[p])

LEMMA FrameTransfers ==
  ASSUME NEW l, NEW m, Frame(l, m), Queues(l, m), l.waiting # {} => m.waiting # {}
  PROVE  Transfers(l) => Transfers(m)
<1> SUFFICES ASSUME Transfers(l) PROVE Transfers(m)
  OBVIOUS
<1>1. Others \subseteq Joined
  BY DEF Others
<1>2. Sends(m)
  BY DEF Transfers, Sends, Frame
<1>3. \A s \in Others : Gets(m, s)
  BY <1>1 DEF Transfers, Gets, Frame, Queues
<1>4. \A p \in Joined : /\ Good(m.queue[p], Id(p))
                        /\ m.complete[p] = Never \/ m.complete[p] <= Transfer
  BY DEF Transfers, Frame, Queues
<1> QED
  BY <1>2, <1>3, <1>4 DEF Transfers

LEMMA WaitTwo ==
  ASSUME N = 2, NEW l \in Links, l.attached = Joined
  PROVE  LET m == WaitOnPlayers(l, First)
         IN  m \in Links /\ Frame(l, m) /\ Queues(l, m) /\ m.waiting # {}
<1> DEFINE m == WaitOnPlayers(l, First)
           d == l.time[First]
<1>1. /\ Cardinality(l.attached) = N /\ Secondaries(l) = 1 .. N - 1 /\ First \in Players
      /\ Joined \subseteq Players
  BY StableFacts, JoinedFacts
<1>2. ~ (Cardinality(l.attached) < 2)
  BY <1>1
<1>3. /\ m \in Links /\ Frame(l, m) /\ m.waiting = Secondaries(l)
      /\ \A q \in Players : m.queue[q] = [i \in DOMAIN l.queue[q] |-> Moved(l.queue[q][i], d)]
  BY <1>1, <1>2, WaitOnPlayersFacts
<1>4. d \in Int
  BY <1>1, TimeTypes
<1> HIDE DEF m, d
<1>5. m.waiting # {}
  BY <1>1, <1>3
<1>6. ASSUME NEW p \in Joined
      PROVE  /\ Good(l.queue[p], Id(p)) => Good(m.queue[p], Id(p))
             /\ Starts(m.queue[p]) <=> Starts(l.queue[p])
  <2> DEFINE r == [i \in DOMAIN l.queue[p] |-> Moved(l.queue[p][i], d)]
  <2>1. l.queue[p] \in Seq(Events) /\ m.queue[p] = r
    BY <1>1, <1>3, TimeTypes
  <2>2. (Good(l.queue[p], Id(p)) => Good(r, Id(p))) /\ (Starts(r) <=> Starts(l.queue[p]))
    BY <1>4, <2>1, GoodMoved
  <2> HIDE DEF r
  <2> QED
    BY <2>1, <2>2
<1> QED
  BY <1>3, <1>5, <1>6 DEF m, Queues

\* Events that go to other players than the one they are from.
LEMMA EnqueueQueues ==
  ASSUME NEW l \in Links, l.attached = Joined, NEW e \in Events, NEW t, e.from \notin t,
         e.type # "TRANSFER_START"
  PROVE  LET m == EnqueueEvent(l, e, t)
         IN  m \in Links /\ Frame(l, m) /\ Queues(l, m) /\ m.waiting = l.waiting
<1> DEFINE m == EnqueueEvent(l, e, t)
<1>1. /\ m \in Links /\ Frame(l, m) /\ m.waiting = l.waiting
      /\ \A p \in Players :
           m.queue[p] = IF p \in l.attached /\ PlayerId(l, p) \in t
                        THEN InsertEvent(l.queue[p], e) ELSE l.queue[p]
  BY EnqueueEventFacts
<1> HIDE DEF m
<1>2. ASSUME NEW p \in Joined
      PROVE  /\ Good(l.queue[p], Id(p)) => Good(m.queue[p], Id(p))
             /\ Starts(m.queue[p]) <=> Starts(l.queue[p])
  <2>1. /\ l.queue[p] \in Seq(Events) /\ p \in Players /\ PlayerId(l, p) = Id(p)
    BY TimeTypes, JoinedFacts, StableFacts
  <2>2. CASE Id(p) \in t
    <3>1. m.queue[p] = InsertEvent(l.queue[p], e) /\ e.from # Id(p)
      BY <1>1, <2>1, <2>2
    <3> DEFINE q == l.queue[p]
               i == Id(p)
    <3>2. q \in Seq(Events) /\ e.from # i /\ e.type # "TRANSFER_START"
      BY <2>1, <3>1
    <3> HIDE DEF q, i
    <3>3. /\ Good(q, i) => Good(InsertEvent(q, e), i)
          /\ Starts(InsertEvent(q, e)) <=> Starts(q) \/ e.type = "TRANSFER_START"
      BY <3>2, GoodInsert
    <3> QED
      BY <3>1, <3>2, <3>3 DEF q, i
  <2>3. CASE Id(p) \notin t
    BY <1>1, <2>1, <2>3
  <2> QED
    BY <2>2, <2>3
<1> QED
  BY <1>1, <1>2 DEF m, Queues

LEMMA HardSyncTwo ==
  ASSUME N = 2, NEW l \in Links, l.attached = Joined
  PROVE  LET m == HardSync(l, First)
         IN  m \in Links /\ Frame(l, m) /\ Queues(l, m) /\ m.waiting # {}
<1> DEFINE e == Event(l, First, "HARD_SYNC")
           k == EnqueueEvent(l, e, Secondaries(l))
           m == WaitOnPlayers(k, First)
<1>1. HardSync(l, First) = m
  BY DEF HardSync
<1>2. First \in Players /\ Secondaries(l) = 1 .. N - 1 /\ PlayerId(l, First) = 0
  BY StableFacts, JoinedFacts
<1>3. e \in Events /\ e.type = "HARD_SYNC" /\ e.from \notin Secondaries(l)
  BY <1>2, EventFacts, JoinedFacts DEF Types
<1> HIDE DEF e
<1>4. k \in Links /\ Frame(l, k) /\ Queues(l, k)
  BY <1>3, EnqueueQueues
<1> HIDE DEF k
<1>5. k.attached = Joined
  BY <1>4 DEF Frame
<1>6. m \in Links /\ Frame(k, m) /\ Queues(k, m) /\ m.waiting # {}
  BY <1>4, <1>5, WaitTwo
<1> HIDE DEF m
<1>7. Frame(l, m) /\ Queues(l, m)
  BY <1>4, <1>6 DEF Frame, Queues
<1> QED
  BY <1>1, <1>6, <1>7

LEMMA PassTransfers ==
  ASSUME NEW l \in Links, Transfers(l), NEW p \in Joined, NEW c \in 1 .. MaxStep,
         p = First /\ l.transferActive => l.complete[First] > c
  PROVE  Transfers(Pass(l, p, c))
<1> DEFINE m == Pass(l, p, c)
<1>1. /\ p \in Players /\ c \in Int /\ c >= 1 /\ First \in Joined /\ Joined \subseteq Players
      /\ Others \subseteq Joined
  BY JoinedFacts DEF Others
<1>2. /\ m \in Links /\ Keeps(l, m) /\ m.transferActive = l.transferActive
      /\ m.transferMode = l.transferMode /\ m.data = l.data /\ m.newer = l.newer
      /\ m.busy = l.busy /\ m.mode = l.mode /\ m.dataReceived = l.dataReceived
      /\ m.event[p] = l.event[p] - c
      /\ m.complete[p] = IF l.complete[p] = Never THEN Never ELSE l.complete[p] - c
      /\ \A q \in Players \ {p} : m.event[q] = l.event[q] /\ m.complete[q] = l.complete[q]
  BY <1>1, PassFacts
<1> HIDE DEF m
<1>3. /\ \A q \in Joined : l.complete[q] \in Int /\ l.event[q] \in Int
      /\ Never \in Int /\ Transfer \in Int /\ Transfer < Never
  BY <1>1, TimeTypes, Cycles, CyclesAssumption
<1>4. m.queue = l.queue /\ m.waiting = l.waiting
  BY <1>2 DEF Keeps
<1>5. \A q \in Joined : l.complete[q] = Never \/ l.complete[q] <= Transfer
  BY DEF Transfers
<1>6. \A q \in Joined : /\ m.complete[q] = Never \/ m.complete[q] <= Transfer
                        /\ m.complete[q] = Never <=> l.complete[q] = Never
  BY <1>1, <1>2, <1>3, <1>5
<1>7. \A q \in Joined : Good(m.queue[q], Id(q))
  BY <1>4 DEF Transfers
<1>8. Sends(m)
  <2>1. Sends(l)
    BY DEF Transfers
  <2>2. l.transferActive => m.complete[First] > 0
    <3>1. CASE p = First
      BY <1>1, <1>2, <1>3, <3>1
    <3>2. CASE p # First
      BY <1>1, <1>2, <2>1, <3>2 DEF Sends
    <3> QED
      BY <3>1, <3>2
  <2> QED
    BY <1>1, <1>2, <1>4, <1>6, <2>1, <2>2 DEF Sends
<1>9. ASSUME NEW s \in Others
      PROVE  Gets(m, s)
  <2>1. Gets(l, s) /\ s \in Joined
    BY <1>1 DEF Transfers
  <2>2. l.complete[s] # Never => m.complete[s] <= m.event[s]
    <3>1. CASE p = s
      BY <1>1, <1>2, <1>3, <2>1, <3>1 DEF Gets
    <3>2. CASE p # s
      BY <1>1, <1>2, <2>1, <3>2 DEF Gets
    <3> QED
      BY <3>1, <3>2
  <2> QED
    BY <1>2, <1>4, <1>6, <2>1, <2>2 DEF Gets
<1>10. Transfers(m)
  BY <1>6, <1>7, <1>8, <1>9 DEF Transfers
<1> QED
  BY <1>10 DEF m

\* A switch of mode may throw away the busy bit of a transfer that has not ended; the
\* primary waits all the same.
LEMMA SetModeTransfers ==
  ASSUME N = 2, NEW l, Core(l), Transfers(l), NEW p \in Joined, NEW mode \in Modes,
         p = First => ~l.transferActive
  PROVE  /\ Transfers(SetMode(l, p, mode))
         /\ SetMode(l, p, mode).transferActive = l.transferActive
<1> DEFINE M == [l.mode EXCEPT ![p] = mode]
           B == [l.busy EXCEPT ![p] = FALSE]
           a == [l EXCEPT !.mode = M, !.busy = B]
           c == [a EXCEPT !.transferMode = mode]
           b == IF p # First THEN a ELSE WaitOnPlayers(c, p)
           e == Event(b, p, "MODE_SET")
           t == Ids(l) \ {PlayerId(l, p)}
           m == EnqueueEvent(b, e, t)
<1>1. /\ l \in Links /\ l.attached = Joined /\ p \in Players /\ First \in Joined
      /\ Others \subseteq Joined /\ Joined \subseteq Players
      /\ \A q : PlayerId(l, q) = Id(q)
      /\ Id(p) = 0 <=> p = First
  BY StableFacts, JoinedFacts, IdFacts DEF Core, Base, Stable, Others
<1>2. SetMode(l, p, mode) = m
  BY <1>1 DEF SetMode
<1>3. /\ M \in [Players -> Modes] /\ B \in [Players -> BOOLEAN]
      /\ M[p] = mode /\ B[p] = FALSE
      /\ \A q \in Players \ {p} : M[q] = l.mode[q] /\ B[q] = l.busy[q]
  BY <1>1 DEF Links
<1> HIDE DEF M, B
<1>4. /\ a \in Links /\ a.attached = l.attached /\ a.waiting = l.waiting
      /\ a.queue = l.queue /\ a.event = l.event /\ a.complete = l.complete
      /\ a.transferActive = l.transferActive /\ a.transferMode = l.transferMode
      /\ a.data = l.data /\ a.newer = l.newer /\ a.dataReceived = l.dataReceived
      /\ a.mode = M /\ a.busy = B
  BY <1>1, <1>3 DEF Links
<1> HIDE DEF a
<1>5. /\ c \in Links /\ c.attached = l.attached /\ c.waiting = l.waiting
      /\ c.queue = l.queue /\ c.event = l.event /\ c.complete = l.complete
      /\ c.transferActive = l.transferActive /\ c.transferMode = mode
      /\ c.data = l.data /\ c.newer = l.newer /\ c.dataReceived = l.dataReceived
      /\ c.mode = M /\ c.busy = B
  BY <1>4 DEF Links
<1> HIDE DEF c
<1>6. Sends(l) /\ \A s \in Others : Gets(l, s)
  BY DEF Transfers
<1>7. b \in Links /\ b.attached = Joined /\ Transfers(b) /\ b.transferActive = l.transferActive
  <2>1. CASE p # First
    <3>1. b = a
      BY <2>1
    <3>2. Sends(a)
      BY <1>1, <1>3, <1>4, <1>6, <2>1 DEF Sends
    <3>3. \A s \in Others : Gets(a, s)
      BY <1>1, <1>3, <1>4, <1>6, <2>1 DEF Gets
    <3>4. Transfers(a)
      BY <1>4, <3>2, <3>3 DEF Transfers
    <3> QED
      BY <1>1, <1>4, <3>1, <3>4
  <2>2. CASE p = First
    <3> DEFINE w == WaitOnPlayers(c, First)
    <3>1. w \in Links /\ Frame(c, w) /\ Queues(c, w) /\ w.waiting # {}
      BY <1>1, <1>5, WaitTwo
    <3>2. b = w
      BY <2>2
    <3> HIDE DEF w, b
    <3>3. /\ w.attached = Joined /\ w.transferActive = l.transferActive
          /\ w.transferMode = mode /\ w.data = l.data /\ w.event = l.event
          /\ w.complete = l.complete /\ w.newer = l.newer /\ w.mode = M
          /\ w.dataReceived = l.dataReceived
      BY <1>1, <1>5, <3>1 DEF Frame
    <3>4. \A q \in Joined : /\ Good(l.queue[q], Id(q)) => Good(w.queue[q], Id(q))
                            /\ Starts(w.queue[q]) <=> Starts(l.queue[q])
      BY <1>5, <3>1 DEF Queues
    <3>5. Sends(w)
      BY <1>3, <1>6, <2>2, <3>3 DEF Sends
    <3>6. \A s \in Others : Gets(w, s)
      BY <1>1, <1>6, <3>1, <3>3, <3>4 DEF Gets
    <3>7. Transfers(w)
      BY <3>3, <3>4, <3>5, <3>6 DEF Transfers
    <3> QED
      BY <3>1, <3>2, <3>3, <3>7
  <2> QED
    BY <2>1, <2>2
<1> HIDE DEF b
<1>8. e \in Events /\ e.type = "MODE_SET" /\ e.from \notin t
  <2>1. PlayerId(b, p) = PlayerId(l, p)
    BY <1>1, <1>7 DEF PlayerId
  <2> QED
    BY <1>1, <1>7, <2>1, EventFacts DEF Types
<1> HIDE DEF e, t
<1>9. m \in Links /\ Frame(b, m) /\ Queues(b, m) /\ m.waiting = b.waiting
  BY <1>7, <1>8, EnqueueQueues
<1> HIDE DEF m
<1>10. Transfers(m) /\ m.transferActive = l.transferActive
  BY <1>7, <1>9, FrameTransfers DEF Frame
<1> QED
  BY <1>2, <1>10

\* A start: nobody is still at the transfer before it.
LEMMA StartTransfers ==
  ASSUME N = 2, NEW l, Core(l), Transfers(l), NEW p \in Joined,
         p = First => ~l.busy[First] /\ l.waiting = {}
  PROVE  /\ Transfers(Start(l, p))
         /\ p = First => Start(l, p).complete[First] = Transfer
<1> DEFINE A == [l.busy EXCEPT ![p] = TRUE]
           a == [l EXCEPT !.busy = A]
           c == [a EXCEPT !.data = {p}]
           e == Event(l, p, "TRANSFER_START")
           f == [e EXCEPT !.finish = @ + Transfer]
           b == EnqueueEvent(c, f, Secondaries(l))
           w == WaitOnPlayers(b, p)
           C == [w.complete EXCEPT ![p] = Transfer]
           W == [w.newer EXCEPT ![p] = TRUE]
           m == [w EXCEPT !.transferActive = TRUE, !.complete = C, !.newer = W]
<1>1. /\ l \in Links /\ l.attached = Joined /\ p \in Players /\ First \in Joined
      /\ Others \subseteq Joined /\ Joined \subseteq Players /\ Secondaries(l) = 1 .. N - 1
      /\ \A q : PlayerId(l, q) = Id(q)
      /\ \A q \in Joined : Id(q) = 0 <=> q = First
  BY StableFacts, JoinedFacts, IdFacts DEF Core, Base, Stable, Others
<1>2. Start(l, p) = IF l.transferActive \/ p # First THEN a ELSE m
  BY <1>1 DEF Start
<1>3. /\ A \in [Players -> BOOLEAN] /\ A[p] = TRUE
      /\ \A q \in Players \ {p} : A[q] = l.busy[q]
  BY <1>1 DEF Links
<1> HIDE DEF A
<1>4. /\ a \in Links /\ a.attached = l.attached /\ a.waiting = l.waiting
      /\ a.queue = l.queue /\ a.event = l.event /\ a.complete = l.complete
      /\ a.transferActive = l.transferActive /\ a.transferMode = l.transferMode
      /\ a.data = l.data /\ a.newer = l.newer /\ a.dataReceived = l.dataReceived
      /\ a.mode = l.mode /\ a.busy = A
  BY <1>1, <1>3 DEF Links
<1> HIDE DEF a
<1>5. Sends(l) /\ \A s \in Others : Gets(l, s)
  BY DEF Transfers
<1>6. CASE p # First
  <2>1. Sends(a)
    BY <1>1, <1>3, <1>4, <1>5, <1>6 DEF Sends
  <2>2. \A s \in Others : Gets(a, s)
    BY <1>1, <1>3, <1>4, <1>5, <1>6 DEF Gets
  <2>3. Transfers(a)
    BY <1>4, <2>1, <2>2 DEF Transfers
  <2> QED
    BY <1>2, <1>6, <2>3
<1>7. CASE p = First
  <2>1. ~l.transferActive
    BY <1>5, <1>7 DEF Sends
  <2>2. \A s \in Others : l.complete[s] = Never
    BY <1>5, <1>7 DEF Gets
  <2>3. /\ c \in Links /\ c.attached = l.attached /\ c.waiting = l.waiting
        /\ c.queue = l.queue /\ c.event = l.event /\ c.complete = l.complete
        /\ c.transferMode = l.transferMode /\ c.data = {First}
        /\ c.newer = l.newer /\ c.mode = l.mode /\ c.busy = A
    BY <1>1, <1>4, <1>7 DEF Links
  <2>4. /\ e \in Events /\ e.type = "TRANSFER_START" /\ e.from = 0
        /\ e.at = l.time[p] /\ e.finish = l.time[p] /\ l.time[p] \in Int
    BY <1>1, <1>7, EventFacts, TimeTypes DEF Types
  <2> HIDE DEF e, c
  <2>5. /\ f \in Events /\ f.type = "TRANSFER_START" /\ f.from = 0
        /\ f.finish = f.at + Transfer
    BY <2>4, Cycles DEF Events
  <2> HIDE DEF f
  <2>6. /\ b \in Links /\ Frame(c, b)
        /\ \A q \in Players :
             b.queue[q] = IF q \in c.attached /\ PlayerId(c, q) \in Secondaries(l)
                          THEN InsertEvent(c.queue[q], f) ELSE c.queue[q]
    BY <2>3, <2>5, EnqueueEventFacts
  <2> HIDE DEF b
  <2>7. /\ b.attached = Joined
        /\ \A q : PlayerId(c, q) = Id(q)
    BY <1>1, <2>3, <2>6, StableFacts DEF Frame
  <2>8. ASSUME NEW q \in Joined
        PROVE  /\ Good(b.queue[q], Id(q))
               /\ q \in Others => Starts(b.queue[q])
    <3>1. l.queue[q] \in Seq(Events) /\ q \in Players /\ Good(l.queue[q], Id(q))
      BY <1>1, TimeTypes DEF Transfers
    <3>2. CASE Id(q) \in 1 .. N - 1
      <4> DEFINE k == l.queue[q]
                 i == Id(q)
      <4>1. b.queue[q] = InsertEvent(k, f)
        BY <1>1, <2>3, <2>6, <2>7, <3>1, <3>2
      <4>2. /\ k \in Seq(Events) /\ Good(k, i) /\ f \in Events /\ f.from # i
            /\ f.type = "TRANSFER_START" => f.finish = f.at + Transfer
        BY <2>5, <3>1, <3>2
      <4> HIDE DEF k, i
      <4>3. /\ Good(k, i) => Good(InsertEvent(k, f), i)
            /\ Starts(InsertEvent(k, f)) <=> Starts(k) \/ f.type = "TRANSFER_START"
        BY <4>2, GoodInsert
      <4> QED
        BY <2>5, <4>1, <4>2, <4>3 DEF k, i
    <3>3. CASE Id(q) \notin 1 .. N - 1
      <4>1. b.queue[q] = l.queue[q] /\ q \notin Others
        BY <1>1, <2>3, <2>6, <2>7, <3>1, <3>3, JoinedFacts
      <4> QED
        BY <3>1, <4>1
    <3> QED
      BY <3>2, <3>3
  <2> DEFINE v == WaitOnPlayers(b, First)
  <2>9. v \in Links /\ Frame(b, v) /\ Queues(b, v) /\ v.waiting # {}
    BY <2>6, <2>7, WaitTwo
  <2>10. w = v
    BY <1>7
  <2> HIDE DEF w, v
  <2>11. /\ w.complete \in [Players -> Int] /\ w.newer \in [Players -> BOOLEAN]
         /\ Transfer \in Int /\ Never \in Int /\ Transfer < Never /\ Transfer > 0
    BY <2>9, <2>10, Cycles, CyclesAssumption DEF Links
  <2>12. /\ w.transferMode = l.transferMode /\ w.data = {First} /\ w.complete = l.complete
         /\ w.mode = l.mode /\ w.busy = A
    BY <2>3, <2>6, <2>9, <2>10 DEF Frame
  <2>13. /\ C \in [Players -> Int] /\ C[First] = Transfer
         /\ \A q \in Players \ {First} : C[q] = l.complete[q]
    BY <1>1, <1>7, <2>11, <2>12
  <2>14. W \in [Players -> BOOLEAN]
    BY <2>11
  <2> HIDE DEF C, W
  <2>15. /\ m.transferActive = TRUE /\ m.transferMode = w.transferMode /\ m.data = w.data
         /\ m.complete = C /\ m.mode = w.mode /\ m.busy = w.busy
         /\ m.queue = w.queue /\ m.waiting = w.waiting
    BY <2>9, <2>10, <2>13, <2>14 DEF Links
  <2> HIDE DEF m
  <2>16. \A q \in Joined : Good(m.queue[q], Id(q)) /\ (q \in Others => Starts(m.queue[q]))
    BY <2>8, <2>9, <2>10, <2>15 DEF Queues
  <2>17. Sends(m)
    BY <1>3, <1>5, <1>7, <2>9, <2>10, <2>11, <2>12, <2>13, <2>15 DEF Sends
  <2>18. ASSUME NEW s \in Others
         PROVE  Gets(m, s)
    <3>1. s \in Players \ {First} /\ s \in Joined
      BY <1>1 DEF Others
    <3> QED
      BY <2>2, <2>13, <2>15, <2>16, <3>1 DEF Gets
  <2>19. \A q \in Joined : m.complete[q] = Never \/ m.complete[q] <= Transfer
    BY <1>1, <2>11, <2>13, <2>15 DEF Transfers
  <2>20. Transfers(m)
    BY <2>16, <2>17, <2>18, <2>19 DEF Transfers
  <2> QED
    BY <1>2, <1>7, <2>1, <2>13, <2>15, <2>20
<1> QED
  BY <1>6, <1>7

\* Who switches the mode as the primary waits for the other.
LEMMA SetModeWaits ==
  ASSUME N = 2, NEW l, Core(l), NEW mode \in Modes
  PROVE  /\ SetMode(l, First, mode).waiting # {}
         /\ SetMode(l, First, mode).attached = Joined
<1> DEFINE a == [l EXCEPT !.mode[First] = mode, !.busy[First] = FALSE]
           c == [a EXCEPT !.transferMode = mode]
           b == WaitOnPlayers(c, First)
           e == Event(b, First, "MODE_SET")
           t == Ids(l) \ {PlayerId(l, First)}
           m == EnqueueEvent(b, e, t)
<1>1. l \in Links /\ l.attached = Joined /\ First \in Players /\ PlayerId(l, First) = 0
  BY StableFacts, JoinedFacts DEF Core, Base, Stable
<1>2. SetMode(l, First, mode) = m
  BY <1>1 DEF SetMode
<1>3. a \in Links /\ a.attached = Joined
  BY <1>1 DEF Links
<1> HIDE DEF a
<1>4. c \in Links /\ c.attached = Joined
  BY <1>3 DEF Links
<1> HIDE DEF c
<1>5. b \in Links /\ Frame(c, b) /\ b.waiting # {}
  BY <1>4, WaitTwo
<1> HIDE DEF b
<1>6. e \in Events
  BY <1>1, <1>5, EventFacts DEF Types
<1> HIDE DEF e, t
<1>7. Frame(b, m) /\ m.waiting = b.waiting
  BY <1>5, <1>6, EnqueueEventFacts
<1> HIDE DEF m
<1> QED
  BY <1>2, <1>4, <1>5, <1>7 DEF Frame

\* An operation changes no other player's end of a transfer.
LEMMA OwnComplete ==
  ASSUME NEW l \in Links, NEW p \in Players, NEW q \in Players \ {p}
  PROVE  /\ \A mode \in Modes : SetMode(l, p, mode).complete[q] = l.complete[q]
         /\ Start(l, p).complete[q] = l.complete[q]
         /\ Finish(l, p).complete[q] = l.complete[q]
<1>1. ASSUME NEW mode \in Modes
      PROVE  SetMode(l, p, mode).complete = l.complete
  <2> DEFINE a == [l EXCEPT !.mode[p] = mode, !.busy[p] = FALSE]
             c == [a EXCEPT !.transferMode = mode]
             w == WaitOnPlayers(c, p)
             b == IF PlayerId(l, p) # 0 THEN a ELSE w
             e == Event(b, p, "MODE_SET")
             t == Ids(l) \ {PlayerId(l, p)}
             m == EnqueueEvent(b, e, t)
  <2>1. SetMode(l, p, mode) = m
    BY DEF SetMode
  <2>2. a \in Links /\ a.complete = l.complete
    BY DEF Links
  <2> HIDE DEF a
  <2>3. c \in Links /\ c.complete = l.complete
    BY <2>2 DEF Links
  <2> HIDE DEF c
  <2>4. w \in Links /\ Frame(c, w)
    BY <2>3, WaitOnPlayersFacts
  <2> HIDE DEF w
  <2>5. b \in Links /\ b.complete = l.complete
    BY <2>2, <2>3, <2>4 DEF Frame
  <2> HIDE DEF b
  <2>6. e \in Events
    BY <2>5, EventFacts DEF Types
  <2> HIDE DEF e, t
  <2>7. Frame(b, m)
    BY <2>5, <2>6, EnqueueEventFacts
  <2> HIDE DEF m
  <2> QED
    BY <2>1, <2>5, <2>7 DEF Frame
<1>2. Start(l, p).complete[q] = l.complete[q]
  <2> DEFINE a == [l EXCEPT !.busy[p] = TRUE]
             c == [a EXCEPT !.data = {p}]
             e == Event(l, p, "TRANSFER_START")
             f == [e EXCEPT !.finish = @ + Transfer]
             b == EnqueueEvent(c, f, Secondaries(l))
             w == WaitOnPlayers(b, p)
             C == [w.complete EXCEPT ![p] = Transfer]
             W == [w.newer EXCEPT ![p] = TRUE]
             m == [w EXCEPT !.transferActive = TRUE, !.complete = C, !.newer = W]
  <2>1. Start(l, p) = IF l.transferActive \/ PlayerId(l, p) # 0 THEN a ELSE m
    BY DEF Start
  <2>2. a \in Links /\ a.complete = l.complete
    BY DEF Links
  <2> HIDE DEF a
  <2>3. c \in Links /\ c.complete = l.complete
    BY <2>2 DEF Links
  <2>4. e \in Events
    BY EventFacts DEF Types
  <2> HIDE DEF c, e
  <2>5. f \in Events
    BY <2>4, Cycles DEF Events
  <2> HIDE DEF f
  <2>6. b \in Links /\ Frame(c, b)
    BY <2>3, <2>5, EnqueueEventFacts
  <2> HIDE DEF b
  <2>7. w \in Links /\ Frame(b, w)
    BY <2>6, WaitOnPlayersFacts
  <2> HIDE DEF w
  <2>8. w.complete = l.complete /\ w.complete \in [Players -> Int] /\ Transfer \in Int
    BY <2>3, <2>6, <2>7, Cycles DEF Frame, Links
  <2>9. W \in [Players -> BOOLEAN]
    BY <2>7 DEF Links
  <2>10. C \in [Players -> Int] /\ C[q] = l.complete[q]
    BY <2>8
  <2> HIDE DEF C, W
  <2>11. m.complete = C
    BY <2>7, <2>9, <2>10 DEF Links
  <2> HIDE DEF m
  <2> QED
    BY <2>1, <2>2, <2>10, <2>11
<1>3. Finish(l, p).complete[q] = l.complete[q]
  <2> DEFINE C == [l.complete EXCEPT ![p] = Never]
             B == [l.busy EXCEPT ![p] = FALSE]
             W == [l.newer EXCEPT ![p] = FALSE]
             R == [l.dataReceived EXCEPT ![p] = FALSE]
             a == [l EXCEPT !.complete = C, !.busy = B, !.newer = W]
             b == [a EXCEPT !.dataReceived = R]
             m == HardSync(b, p)
             e == Event(b, p, "HARD_SYNC")
             k == EnqueueEvent(b, e, Secondaries(b))
             w == WaitOnPlayers(k, p)
  <2>1. Finish(l, p) = IF l.transferMode # l.mode[p] THEN a
                       ELSE IF PlayerId(l, p) = 0 THEN m ELSE b
    BY DEF Finish
  <2>2. /\ C \in [Players -> Int] /\ B \in [Players -> BOOLEAN]
        /\ W \in [Players -> BOOLEAN] /\ R \in [Players -> BOOLEAN]
        /\ C[q] = l.complete[q]
    BY Cycles DEF Links
  <2>3. m = w
    BY DEF HardSync
  <2> HIDE DEF C, B, W, R, m
  <2>4. a.complete = C /\ b \in Links /\ b.complete = C
    BY <2>2 DEF Links
  <2> HIDE DEF a, b
  <2>5. e \in Events
    BY <2>4, EventFacts DEF Types
  <2> HIDE DEF e
  <2>6. k \in Links /\ Frame(b, k)
    BY <2>4, <2>5, EnqueueEventFacts
  <2> HIDE DEF k
  <2>7. Frame(k, w)
    BY <2>6, WaitOnPlayersFacts
  <2> HIDE DEF w
  <2> QED
    BY <2>1, <2>2, <2>3, <2>4, <2>6, <2>7 DEF Frame
<1> QED
  BY <1>1, <1>2, <1>3

\* The end of a transfer: the primary tells all to catch up before it starts another.
LEMMA FinishTransfers ==
  ASSUME N = 2, NEW l, Core(l), Transfers(l), NEW p \in Joined,
         p = First => ~l.transferActive
  PROVE  Transfers(Finish(l, p))
<1> DEFINE C == [l.complete EXCEPT ![p] = Never]
           B == [l.busy EXCEPT ![p] = FALSE]
           W == [l.newer EXCEPT ![p] = FALSE]
           R == [l.dataReceived EXCEPT ![p] = FALSE]
           a == [l EXCEPT !.complete = C, !.busy = B, !.newer = W]
           b == [a EXCEPT !.dataReceived = R]
           m == HardSync(b, First)
<1>1. /\ l \in Links /\ l.attached = Joined /\ p \in Players /\ First \in Joined
      /\ Others \subseteq Joined /\ Joined \subseteq Players
      /\ PlayerId(l, p) = 0 <=> p = First
  BY StableFacts, JoinedFacts, IdFacts DEF Core, Base, Stable, Others
<1>2. Finish(l, p) = IF l.transferMode # l.mode[p] THEN a
                     ELSE IF p = First THEN m ELSE b
  BY <1>1 DEF Finish
<1>3. /\ C \in [Players -> Int] /\ B \in [Players -> BOOLEAN]
      /\ W \in [Players -> BOOLEAN] /\ R \in [Players -> BOOLEAN]
      /\ C[p] = Never /\ W[p] = FALSE
      /\ \A q \in Players \ {p} : /\ C[q] = l.complete[q] /\ B[q] = l.busy[q]
                                  /\ W[q] = l.newer[q] /\ R[q] = l.dataReceived[q]
  BY <1>1, Cycles DEF Links
<1> HIDE DEF C, B, W, R
<1>4. /\ a \in Links /\ a.attached = l.attached /\ a.waiting = l.waiting
      /\ a.queue = l.queue /\ a.event = l.event /\ a.mode = l.mode
      /\ a.transferActive = l.transferActive /\ a.transferMode = l.transferMode
      /\ a.data = l.data /\ a.complete = C /\ a.busy = B /\ a.newer = W
      /\ a.dataReceived = l.dataReceived
  BY <1>1, <1>3 DEF Links
<1> HIDE DEF a
<1>5. /\ b \in Links /\ b.attached = l.attached /\ b.waiting = l.waiting
      /\ b.queue = l.queue /\ b.event = l.event /\ b.mode = l.mode
      /\ b.transferActive = l.transferActive /\ b.transferMode = l.transferMode
      /\ b.data = l.data /\ b.complete = C /\ b.busy = B /\ b.newer = W
      /\ b.dataReceived = R
  BY <1>3, <1>4 DEF Links
<1> HIDE DEF b
<1>6. Sends(l) /\ \A s \in Others : Gets(l, s)
  BY DEF Transfers
<1>7. \A q \in Joined : C[q] = Never \/ C[q] <= Transfer
  BY <1>1, <1>3 DEF Transfers
<1>8. CASE p # First
  <2>1. Sends(a) /\ Sends(b)
    BY <1>1, <1>3, <1>4, <1>5, <1>6, <1>8 DEF Sends
  <2>2. ASSUME NEW s \in Others
        PROVE  Gets(a, s) /\ Gets(b, s)
    <3>1. s \in Players /\ Gets(l, s)
      BY <1>1, <1>6
    <3>2. CASE s = p
      BY <1>3, <1>4, <1>5, <3>1, <3>2 DEF Gets
    <3>3. CASE s # p
      BY <1>1, <1>3, <1>4, <1>5, <1>8, <3>1, <3>3 DEF Gets
    <3> QED
      BY <3>2, <3>3
  <2>3. Transfers(a) /\ Transfers(b)
    BY <1>4, <1>5, <1>7, <2>1, <2>2 DEF Transfers
  <2> QED
    BY <1>2, <1>8, <2>3
<1>9. CASE p = First
  <2>1. Finish(l, p) = m
    BY <1>2, <1>6, <1>9 DEF Sends
  <2>2. m \in Links /\ Frame(b, m) /\ Queues(b, m) /\ m.waiting # {}
    BY <1>1, <1>5, HardSyncTwo
  <2> HIDE DEF m
  <2>3. /\ m.transferActive = FALSE /\ m.transferMode = l.transferMode /\ m.data = l.data
        /\ m.event = l.event /\ m.complete = C /\ m.newer = W /\ m.busy = B
        /\ m.mode = l.mode /\ m.dataReceived = R
    <3>1. l.transferActive = FALSE
      BY <1>1, <1>9 DEF Links
    <3> QED
      BY <1>5, <2>2, <3>1 DEF Frame
  <2>4. \A q \in Joined : /\ Good(m.queue[q], Id(q))
                          /\ Starts(m.queue[q]) <=> Starts(l.queue[q])
    BY <1>5, <2>2 DEF Queues, Transfers
  <2>5. Sends(m)
    BY <1>3, <1>6, <1>9, <2>3 DEF Sends
  <2>6. ASSUME NEW s \in Others
        PROVE  Gets(m, s)
    <3>1. s \in Players \ {First} /\ s \in Joined /\ Gets(l, s)
      BY <1>1, <1>6 DEF Others
    <3> QED
      BY <1>3, <1>9, <2>2, <2>3, <2>4, <3>1 DEF Gets
  <2>7. Transfers(m)
    BY <1>7, <2>3, <2>4, <2>5, <2>6 DEF Transfers
  <2> QED
    BY <2>1, <2>7
<1> QED
  BY <1>8, <1>9

LEMMA LeadTransfers ==
  ASSUME N = 2, NEW l, Core(l), Transfers(l)
  PROVE  Frame(l, Lead(l, First)) /\ Transfers(Lead(l, First))
<1> DEFINE a == AdvanceCycle(l, First)
           w == Wake(a, Secondaries(a))
           b == IF a.transferActive THEN a ELSE w
           h == HardSync(b, First)
           c == IF b.waiting = {} THEN h ELSE b
           m == [c EXCEPT !.nextHardSync = @ + HardSyncInterval]
           d == l.time[First]
<1>1. /\ l \in Links /\ l.attached = Joined /\ First \in Players /\ Joined \subseteq Players
  BY JoinedFacts DEF Core, Base, Stable
<1>2. Lead(l, First) = IF b.nextHardSync >= 0 THEN b ELSE m
  BY DEF Lead
<1>3. /\ a \in Links /\ Frame(l, a) /\ a.waiting = l.waiting
      /\ \A q \in Players : a.queue[q] = [i \in DOMAIN l.queue[q] |-> Moved(l.queue[q][i], d)]
  BY <1>1, AdvanceCycleFacts
<1> HIDE DEF a
<1>4. d \in Int
  BY <1>1, TimeTypes
<1> HIDE DEF d
<1>5. Queues(l, a)
  <2>1. ASSUME NEW p \in Joined
        PROVE  /\ Good(l.queue[p], Id(p)) => Good(a.queue[p], Id(p))
               /\ Starts(a.queue[p]) <=> Starts(l.queue[p])
    <3> DEFINE r == [i \in DOMAIN l.queue[p] |-> Moved(l.queue[p][i], d)]
    <3>1. l.queue[p] \in Seq(Events) /\ a.queue[p] = r
      BY <1>1, <1>3, TimeTypes
    <3>2. (Good(l.queue[p], Id(p)) => Good(r, Id(p))) /\ (Starts(r) <=> Starts(l.queue[p]))
      BY <1>4, <3>1, GoodMoved
    <3> HIDE DEF r
    <3> QED
      BY <3>1, <3>2
  <2> QED
    BY <2>1 DEF Queues
<1>6. w \in Links /\ Frame(a, w) /\ w.queue = a.queue /\ w.waiting = a.waiting
  BY <1>3, WakeFacts
<1> HIDE DEF w
<1>7. b \in Links /\ Frame(a, b) /\ b.queue = a.queue /\ b.waiting = a.waiting
  <2>1. Frame(a, a)
    BY DEF Frame
  <2> QED
    BY <1>3, <1>6, <2>1
<1> HIDE DEF b
<1>8. b.attached = Joined
  BY <1>1, <1>3, <1>7 DEF Frame
<1>9. h \in Links /\ Frame(b, h) /\ Queues(b, h) /\ h.waiting # {}
  BY <1>7, <1>8, HardSyncTwo
<1> HIDE DEF h
<1>10. c \in Links /\ Frame(b, c) /\ Queues(b, c) /\ (b.waiting # {} => c.waiting # {})
  <2>1. Frame(b, b) /\ Queues(b, b)
    BY DEF Frame, Queues
  <2> QED
    BY <1>7, <1>9, <2>1
<1> HIDE DEF c
<1>11. m.waiting = c.waiting /\ m.queue = c.queue /\ Frame(c, m)
  BY <1>10 DEF Links, Frame
<1> HIDE DEF m
<1>12. /\ Frame(l, b) /\ Queues(l, b) /\ (l.waiting # {} => b.waiting # {})
       /\ Frame(l, m) /\ Queues(l, m) /\ (l.waiting # {} => m.waiting # {})
  <2>1. Frame(l, b) /\ Frame(l, m)
    BY <1>3, <1>7, <1>10, <1>11 DEF Frame
  <2>2. Queues(l, b) /\ Queues(l, m)
    BY <1>5, <1>7, <1>10, <1>11 DEF Queues
  <2> QED
    BY <1>3, <1>7, <1>10, <1>11, <2>1, <2>2
<1>13. Transfers(b) /\ Transfers(m)
  BY <1>12, FrameTransfers
<1> QED
  BY <1>2, <1>12, <1>13

\* What the primary takes from its queue changes nothing else.
LEMMA FirstTurnFrame ==
  ASSUME NEW x \in Loops, NEW late \in Int, Core(x.link), Mid(x.link)
  PROVE  LET y == Turn(x, First, late)
         IN  Frame(x.link, y.link) /\ (Transfers(x.link) => Transfers(y.link))
<1> DEFINE y == Turn(x, First, late)
           l == x.link
           k == Popped(l, First)
           e == Head(l.queue[First])
           n == e.finish - l.time[First] - late
<1>1. /\ l \in Links /\ Stable(l) /\ First \in Joined /\ First \in Players
      /\ Id(First) \notin l.waiting /\ Joined \subseteq Players
  BY JoinedFacts DEF Loops, Core, Base, Stable
<1>2. CASE Caught(l, First)
  <2>1. y = x
    BY <1>2 DEF Turn
  <2> QED
    BY <2>1 DEF Frame
<1>3. CASE ~Caught(l, First)
  <2>1. TakeEvent(x, First, late) = y
    BY <1>3 DEF Turn
  <2>2. /\ l.queue[First] # <<>> /\ e = l.queue[First][1]
        /\ TakeEvent(x, First, late).link =
             IF e.type = "TRANSFER_START" THEN AckPlayer(Sent(k, First, n), First)
             ELSE IF Acknowledged(e) THEN AckPlayer(k, First) ELSE k
    BY <1>1, <1>3, TakeEventCases
  <2>3. l.queue[First] \in Seq(Events)
    BY <1>1, TimeTypes
  <2>4. ~Acknowledged(e)
    <3>1. None(l.queue[First])
      BY <1>1 DEF Mid, Owes
    <3>2. Len(l.queue[First]) \in Nat \ {0}
      BY <2>2, <2>3, TailFacts
    <3> QED
      BY <2>2, <3>1, <3>2 DEF None
  <2>5. y.link = k
    BY <2>1, <2>2, <2>4 DEF Acknowledged
  <2>6. /\ Frame(l, k) /\ k.waiting = l.waiting
        /\ k.queue = [l.queue EXCEPT ![First] = Tail(l.queue[First])]
    BY <1>1, <2>2, PoppedFacts
  <2>7. l.queue \in [Players -> Seq(Events)]
    BY <1>1 DEF Links
  <2> HIDE DEF k, y
  <2>8. /\ k.queue[First] = Tail(l.queue[First])
        /\ \A q \in Players \ {First} : k.queue[q] = l.queue[q]
    BY <1>1, <2>6, <2>7
  <2>9. Transfers(l) => Transfers(k)
    <3> SUFFICES ASSUME Transfers(l) PROVE Transfers(k)
      OBVIOUS
    <3>1. Good(l.queue[First], Id(First)) => Good(k.queue[First], Id(First))
      BY <2>2, <2>3, <2>8, GoodTail
    <3>2. \A q \in Joined : /\ Good(k.queue[q], Id(q))
                            /\ k.complete[q] = Never \/ k.complete[q] <= Transfer
      BY <1>1, <2>6, <2>8, <3>1 DEF Transfers, Frame
    <3>3. Sends(k)
      BY <2>6 DEF Transfers, Sends, Frame
    <3>4. \A s \in Others : s \in Players \ {First}
      BY <1>1 DEF Others
    <3>5. \A s \in Others : Gets(k, s)
      BY <2>6, <2>8, <3>4 DEF Transfers, Gets, Frame
    <3> QED
      BY <3>2, <3>3, <3>5 DEF Transfers
  <2> QED
    BY <2>5, <2>6, <2>9 DEF k, y
<1> QED
  BY <1>2, <1>3

LEMMA TwoPlayers ==
  ASSUME N = 2, NEW p \in Others
  PROVE  /\ Id(p) = 1 /\ p # First /\ p \in Joined /\ p \in Players
         /\ \A q \in Joined : q = First \/ q = p
<1>1. p \in Joined /\ p # First
  BY DEF Others
<1>2. \A q \in Joined : Id(q) \in {0, 1}
  BY IdFacts
<1> QED
  BY <1>1, <1>2, IdFacts, JoinedFacts

\* Whatever the other player finds in its queue is for the primary to wait for, and
\* it finds no more than that.
LEMMA OnlyOne ==
  ASSUME N = 2, NEW l, Core(l), Timely(l), NEW p \in Others, Good(l.queue[p], Id(p)),
         l.queue[p] # <<>>
  PROVE  /\ Acknowledged(Head(l.queue[p])) /\ Tail(l.queue[p]) = <<>>
         /\ Starts(l.queue[p]) <=> Head(l.queue[p]).type = "TRANSFER_START"
         /\ Head(l.queue[p]).type = "TRANSFER_START" =>
              Head(l.queue[p]).finish = Head(l.queue[p]).at + Transfer
<1> DEFINE q == l.queue[p]
<1>1. /\ l \in Links /\ Stable(l) /\ p \in Joined /\ p \in Players /\ Id(p) = 1
  BY TwoPlayers DEF Core, Base
<1>2. q \in Seq(Events)
  BY <1>1, TimeTypes
<1>3. ASSUME NEW i \in 1 .. Len(q)
      PROVE  Acknowledged(q[i])
  <2>1. q[i] \in Events
    BY <1>2
  <2>2. q[i].type \notin {"ATTACH", "DETACH"} /\ q[i].from < 2
    BY <1>1 DEF Stable
  <2>3. q[i].from # 1
    BY <1>1 DEF Good
  <2>4. q[i].from \in Nat /\ q[i].type \in Types
    BY <2>1 DEF Events
  <2> QED
    BY <2>2, <2>3, <2>4 DEF Acknowledged, Types
<1>4. Once(q, l.time[First] - MaxStep)
  BY <1>1 DEF Timely, Owes
<1>5. /\ Len(q) \in Nat \ {0} /\ Head(q) = q[1] /\ Tail(q) \in Seq(Events)
      /\ Len(Tail(q)) = Len(q) - 1
  BY <1>2, TailFacts
<1>6. Good(q, 1)
  BY <1>1
<1> HIDE DEF q
<1>7. \A i, j \in 1 .. Len(q) : i = j
  BY <1>3, <1>4 DEF Once
<1>8. Len(q) = 1
  <2>1. CASE Len(q) > 1
    <3>1. 1 \in 1 .. Len(q) /\ 2 \in 1 .. Len(q)
      BY <1>5, <2>1
    <3> QED
      BY <1>7, <3>1
  <2> QED
    BY <1>5, <2>1
<1>9. Tail(q) = <<>>
  <2>1. \A r \in Seq(Events) : Len(r) = 0 => r = <<>>
    OBVIOUS
  <2>2. Tail(q) \in Seq(Events) /\ Len(Tail(q)) = 0
    BY <1>5, <1>8
  <2> QED
    BY <2>1, <2>2
<1>10. \A i \in 1 .. Len(q) : i = 1
  BY <1>8
<1>11. Starts(q) <=> q[1].type = "TRANSFER_START"
  BY <1>8, <1>10 DEF Starts
<1>12. q[1].type = "TRANSFER_START" => q[1].finish = q[1].at + Transfer
  BY <1>6, <1>8 DEF Good
<1>13. Acknowledged(q[1])
  BY <1>3, <1>8
<1> QED
  BY <1>5, <1>9, <1>11, <1>12, <1>13 DEF q

\* The loop of the other player: it has nothing under way but what it has just
\* answered.
Answers(x, p) ==
  LET l == x.link
  IN  /\ \A q \in Joined : /\ Good(l.queue[q], Id(q))
                           /\ l.complete[q] = Never \/ l.complete[q] <= Transfer
      /\ Sends(l)
      /\ l.transferActive <=> Starts(l.queue[p])
      /\ l.complete[p] # Never =>
           /\ l.dataReceived[p] /\ l.data = Joined /\ ~l.transferActive
           /\ l.busy[First] \/ l.waiting # {}
           /\ l.complete[p] = x.next /\ l.queue[p] = <<>>

LEMMA OtherAnswers ==
  ASSUME N = 2, NEW x \in Loops, NEW p \in Others, NEW late \in Nat,
         Core(x.link), Timely(x.link), Answers(x, p)
  PROVE  Answers(Turn(x, p, late), p)
<1> DEFINE y == Turn(x, p, late)
           l == x.link
           k == Popped(l, p)
           e == Head(l.queue[p])
           n == e.finish - l.time[p] - late
           s == Sent(k, p, n)
<1>1. /\ l \in Links /\ Stable(l) /\ l.attached = Joined /\ l.waiting \subseteq 1 .. N - 1
      /\ First \in Joined /\ Joined \subseteq Players /\ p \in Players /\ p \in Joined
      /\ Id(p) = 1 /\ p # First /\ late \in Int
      /\ \A q \in Joined : q = First \/ q = p
  BY JoinedFacts, TwoPlayers DEF Loops, Core, Base, Stable
<1>2. CASE Caught(l, p)
  BY <1>2 DEF Turn
<1>3. CASE ~Caught(l, p)
  <2>1. TakeEvent(x, p, late) = y
    BY <1>3 DEF Turn
  <2>2. /\ l.queue[p] # <<>> /\ e \in Events /\ n \in Int
        /\ y.next = IF e.type = "TRANSFER_START" THEN n ELSE x.next
        /\ y.link = IF e.type = "TRANSFER_START" THEN AckPlayer(s, p)
                    ELSE IF Acknowledged(e) THEN AckPlayer(k, p) ELSE k
    BY <1>1, <1>3, <2>1, TakeEventCases
  <2>3. /\ Acknowledged(e) /\ Tail(l.queue[p]) = <<>>
        /\ Starts(l.queue[p]) <=> e.type = "TRANSFER_START"
        /\ e.type = "TRANSFER_START" => e.finish = e.at + Transfer
    BY <1>1, <2>2, OnlyOne DEF Answers
  <2>4. /\ Sends(l) /\ l.complete[p] = Never
        /\ l.transferActive <=> e.type = "TRANSFER_START"
        /\ \A q \in Joined : /\ Good(l.queue[q], Id(q))
                             /\ l.complete[q] = Never \/ l.complete[q] <= Transfer
    BY <2>2, <2>3 DEF Answers
  <2>5. /\ k \in Links /\ Frame(l, k) /\ k.waiting = l.waiting
        /\ k.queue = [l.queue EXCEPT ![p] = Tail(l.queue[p])]
    BY <1>1, <2>2, PoppedFacts
  <2>6. l.queue \in [Players -> Seq(Events)] /\ l.time[p] \in Int
    BY <1>1, TimeTypes DEF Links
  <2>7. ~ (e.at > l.time[p])
    BY <1>3, <2>2 DEF Caught
  <2>8. n <= Transfer \/ e.type # "TRANSFER_START"
    <3>1. e.at \in Int /\ e.finish \in Int
      BY <2>2 DEF Events
    <3>2. n = e.finish - l.time[p] - late
      OBVIOUS
    <3> HIDE DEF n, e, l
    <3> QED
      BY <2>3, <2>6, <2>7, <3>1, <3>2, Cycles
  <2> HIDE DEF k, e, n, y
  <2>9. /\ k.queue[p] = <<>>
        /\ \A q \in Players \ {p} : k.queue[q] = l.queue[q]
    BY <1>1, <2>3, <2>5, <2>6
  <2>10. /\ \A q \in Joined : Good(k.queue[q], Id(q))
         /\ ~Starts(k.queue[p])
    <3>1. Good(k.queue[p], Id(p)) /\ ~Starts(k.queue[p])
      BY <2>9 DEF Good, Starts
    <3> QED
      BY <1>1, <2>4, <2>9, <3>1
  <2>11. /\ k.attached = Joined /\ k.transferActive = l.transferActive
         /\ k.transferMode = l.transferMode /\ k.data = l.data /\ k.complete = l.complete
         /\ k.busy = l.busy /\ k.mode = l.mode /\ k.dataReceived = l.dataReceived
    BY <1>1, <2>5 DEF Frame
  <2>12. ASSUME NEW j \in Links, j.attached = Joined, j.waiting = l.waiting,
                j.queue = k.queue
         PROVE  LET m == AckPlayer(j, p)
                IN  /\ m.transferMode = j.transferMode /\ m.data = j.data
                    /\ m.complete = j.complete /\ m.busy = j.busy /\ m.mode = j.mode
                    /\ m.queue = k.queue /\ ~m.transferActive
                    /\ \A q \in Joined :
                         m.dataReceived[q] <=> j.dataReceived[q] \/ j.transferActive
    <3> DEFINE m == AckPlayer(j, p)
               v == j.waiting \ {PlayerId(j, p)}
    <3>1. PlayerId(j, p) = 1
      BY <1>1, <2>12, StableFacts
    <3>2. v = {}
      BY <1>1, <2>12, <3>1
    <3>3. PlayerId(j, p) # 0
      BY <3>1
    <3> HIDE DEF v
    <3>4. /\ m.transferMode = j.transferMode /\ m.data = j.data
          /\ m.complete = j.complete /\ m.busy = j.busy /\ m.mode = j.mode
          /\ m.queue = j.queue
          /\ m.transferActive <=> j.transferActive /\ v # {}
          /\ \A q \in Players : m.dataReceived[q] <=>
               \/ j.dataReceived[q]
               \/ v = {} /\ j.transferActive /\ q \in j.attached
      BY <1>1, <2>12, <3>3, AckPlayerFacts DEF v
    <3> HIDE DEF m
    <3>5. \A q \in Joined : m.dataReceived[q] <=> j.dataReceived[q] \/ j.transferActive
      BY <1>1, <2>12, <3>2, <3>4
    <3>6. ~m.transferActive
      BY <3>2, <3>4
    <3> QED
      BY <2>12, <3>4, <3>5, <3>6 DEF m
  <2>13. CASE e.type = "TRANSFER_START"
    <3> DEFINE m == AckPlayer(s, p)
    <3>1. /\ s \in Links /\ Keeps(k, s)
          /\ s.transferActive = k.transferActive /\ s.transferMode = k.transferMode
          /\ s.mode = k.mode /\ s.dataReceived = k.dataReceived
          /\ s.data = k.data \cup {p} /\ s.complete[p] = n
          /\ \A q \in Players \ {p} : /\ s.complete[q] = k.complete[q]
                                      /\ s.busy[q] = k.busy[q]
      <4>1. k \in Links /\ p \in Players /\ n \in Int
        BY <1>1, <2>2, <2>5
      <4> QED
        BY <4>1, SentFacts
    <3> HIDE DEF s
    <3>2. s.attached = Joined /\ s.waiting = l.waiting /\ s.queue = k.queue
      BY <2>5, <2>11, <3>1 DEF Keeps
    <3>3. /\ m.transferMode = s.transferMode /\ m.data = s.data
          /\ m.complete = s.complete /\ m.busy = s.busy /\ m.mode = s.mode
          /\ m.queue = k.queue /\ ~m.transferActive
          /\ \A q \in Joined : m.dataReceived[q] <=> s.dataReceived[q] \/ s.transferActive
      BY <2>12, <3>1, <3>2
    <3> HIDE DEF m
    <3>4. l.data = {First} /\ l.busy[First] /\ l.transferActive
      BY <2>4, <2>13 DEF Sends
    <3>5. m.data = Joined
      BY <1>1, <2>11, <3>1, <3>3, <3>4
    <3>6. m.busy[First] /\ m.dataReceived[First] /\ m.dataReceived[p]
      BY <1>1, <2>11, <3>1, <3>3, <3>4
    <3>7. Sends(m)
      BY <2>4, <2>11, <3>1, <3>3, <3>5, <3>6 DEF Sends
    <3>8. /\ \A q \in Players \ {p} : m.complete[q] = l.complete[q]
          /\ m.complete[p] = n
      BY <2>11, <3>1, <3>3
    <3>9. \A q \in Joined : m.complete[q] = Never \/ m.complete[q] <= Transfer
      BY <1>1, <2>4, <2>8, <2>13, <3>8
    <3>10. y.link = m /\ y.next = n
      BY <2>2, <2>13 DEF m
    <3>11. Answers(y, p)
      BY <2>9, <2>10, <3>3, <3>5, <3>6, <3>7, <3>8, <3>9, <3>10 DEF Answers
    <3> QED
      BY <3>11 DEF y
  <2>14. CASE e.type # "TRANSFER_START"
    <3> DEFINE m == AckPlayer(k, p)
    <3>1. /\ m.transferMode = k.transferMode /\ m.data = k.data
          /\ m.complete = k.complete /\ m.busy = k.busy /\ m.mode = k.mode
          /\ m.queue = k.queue /\ ~m.transferActive
          /\ \A q \in Joined : m.dataReceived[q] <=> k.dataReceived[q] \/ k.transferActive
      BY <2>5, <2>11, <2>12
    <3> HIDE DEF m
    <3>2. ~l.transferActive
      BY <2>4, <2>14
    <3>3. Sends(m)
      BY <1>1, <2>4, <2>11, <3>1, <3>2 DEF Sends
    <3>4. y.link = m
      BY <2>2, <2>3, <2>14 DEF m
    <3>5. \A q \in Joined : m.complete[q] = Never \/ m.complete[q] <= Transfer
      BY <2>4, <2>11, <3>1
    <3>6. Answers(y, p)
      BY <2>4, <2>10, <2>11, <3>1, <3>3, <3>4, <3>5 DEF Answers
    <3> QED
      BY <3>6 DEF y
  <2> QED
    BY <2>13, <2>14
<1> QED
  BY <1>2, <1>3

LEMMA OtherEventTransfers ==
  ASSUME N = 2, NEW l, Core(l), Timely(l), Transfers(l), NEW p \in Others,
         l.event[p] <= 0, l.complete[p] = Never
  PROVE  Transfers(LockstepEvent(l, p))
<1> DEFINE late == -l.event[p]
           x == Leaves(l, p)
           b == x.link
           n == NextCall(x, p)
           m == LockstepEvent(l, p)
           S == {y \in Loops :
                   Core(y.link) /\ ~y.wasDetach /\ Timely(y.link) /\ Answers(y, p)}
<1>1. /\ l \in Links /\ p \in Players /\ p \in Joined /\ p # First /\ First \in Players
      /\ \A s \in Others : s = p
  BY TwoPlayers, JoinedFacts DEF Core, Base, Others
<1>2. /\ Enters(l, p) \in Loops /\ x \in Loops /\ Core(b) /\ n \in Int
      /\ m \in Links /\ Ends(b, m) /\ m.newer = [b.newer EXCEPT ![p] = FALSE]
      /\ \/ m.event = [b.event EXCEPT ![p] = n]
         \/ m.event = [b.event EXCEPT ![p] = IF n < Gain THEN Gain ELSE n]
  BY <1>1, LockstepEventCases
<1>3. late \in Nat /\ late \in Int
  BY <1>1, TimeTypes
<1>4. /\ Enters(l, p).link = l /\ ~Enters(l, p).wasDetach
  BY <1>1 DEF Enters, Led
<1>5. x = TakeEvents(Enters(l, p), p, late)
  BY DEF Leaves
<1>6. 2 * Len(l.queue[p]) \in Nat
  <2>1. l.queue[p] \in Seq(Events)
    BY <1>1, TimeTypes
  <2> QED
    BY <2>1
<1> HIDE DEF late, m, n
<1>7. Answers(Enters(l, p), p)
  BY <1>1, <1>4 DEF Answers, Transfers, Gets
<1>8. Enters(l, p) \in S
  BY <1>2, <1>4, <1>7
<1>9. ASSUME NEW y \in S
      PROVE  Turn(y, p, late) \in S
  <2>1. y \in Loops /\ Core(y.link) /\ ~y.wasDetach /\ Timely(y.link) /\ Answers(y, p)
    OBVIOUS
  <2> DEFINE z == Turn(y, p, late)
  <2>2. z \in Loops /\ Core(z.link) /\ ~z.wasDetach
    BY <1>1, <1>3, <2>1, TurnCore
  <2>3. Timely(z.link)
    BY <1>3, <2>1, <2>2, OtherTurn
  <2>4. Answers(z, p)
    BY <1>3, <2>1, OtherAnswers
  <2> HIDE DEF z
  <2>5. z \in S
    BY <2>1, <2>2, <2>3, <2>4
  <2> QED
    BY <2>5 DEF z
<1> HIDE DEF S
<1>10. x \in S
  BY <1>4, <1>5, <1>6, <1>8, <1>9, LoopInvariant DEF TakeEvents
<1>11. Answers(x, p)
  BY <1>10 DEF S
<1> HIDE DEF x
<1>12. b \in Links /\ b.event \in [Players -> Int] /\ b.newer \in [Players -> BOOLEAN]
  <2>1. b \in Links
    BY <1>2 DEF Core, Base
  <2> HIDE DEF b
  <2> QED
    BY <2>1 DEF Links
<1>13. b.queue[p] = <<>> => n = x.next
  BY DEF n, NextCall
<1> HIDE DEF b
<1>14. /\ m.transferActive = b.transferActive /\ m.transferMode = b.transferMode
       /\ m.data = b.data /\ m.complete = b.complete /\ m.busy = b.busy
       /\ m.mode = b.mode /\ m.dataReceived = b.dataReceived /\ m.queue = b.queue
       /\ m.waiting = b.waiting
  BY <1>2 DEF Ends
<1>15. m.event[p] >= n /\ ~m.newer[p]
  BY <1>1, <1>2, <1>12, Cycles
<1>16. /\ \A q \in Joined : /\ Good(b.queue[q], Id(q))
                            /\ b.complete[q] = Never \/ b.complete[q] <= Transfer
       /\ Sends(b)
       /\ b.transferActive <=> Starts(b.queue[p])
       /\ b.complete[p] # Never =>
            /\ b.dataReceived[p] /\ b.data = Joined /\ ~b.transferActive
            /\ b.busy[First] \/ b.waiting # {}
            /\ b.complete[p] = x.next /\ b.queue[p] = <<>>
  BY <1>11 DEF Answers, b
<1>17. Sends(m)
  BY <1>14, <1>16 DEF Sends
<1>18. Gets(m, p)
  BY <1>13, <1>14, <1>15, <1>16 DEF Gets
<1>19. Transfers(m)
  BY <1>1, <1>14, <1>16, <1>17, <1>18 DEF Transfers
<1> QED
  BY <1>19 DEF m

LEMMA FirstEventTransfers ==
  ASSUME N = 2, NEW l, Core(l), Timely(l), Transfers(l), l.event[First] <= 0,
         Lead(l, First).failed = {}
  PROVE  LET m == LockstepEvent(l, First)
         IN  Transfers(m) /\ m.complete = l.complete
<1> DEFINE a == Led(l, First)
           late == -l.event[First]
           x == Leaves(l, First)
           b == x.link
           n == NextCall(x, First)
           m == LockstepEvent(l, First)
           S == {y \in Loops : /\ Core(y.link) /\ ~y.wasDetach /\ Mid(y.link)
                               /\ Transfers(y.link) /\ y.link.complete = l.complete}
<1>1. l \in Links /\ First \in Joined /\ First \in Players /\ Joined \subseteq Players
  BY JoinedFacts DEF Core, Base
<1>2. /\ Core(a) /\ Enters(l, First) \in Loops /\ x \in Loops /\ Core(b) /\ n \in Int
      /\ Ends(b, m) /\ m.newer = [b.newer EXCEPT ![First] = FALSE]
      /\ \/ m.event = [b.event EXCEPT ![First] = n]
         \/ m.event = [b.event EXCEPT ![First] = IF n < Gain THEN Gain ELSE n]
  BY <1>1, LockstepEventCases
<1>3. late \in Int
  BY <1>1, TimeTypes
<1>4. Enters(l, First).link = a /\ ~Enters(l, First).wasDetach
  BY DEF Enters
<1>5. x = TakeEvents(Enters(l, First), First, late)
  BY DEF Leaves
<1>6. a = Lead(l, First)
  BY DEF Led, Timely, Clock
<1>7. Mid(a) /\ Frame(l, a) /\ Transfers(a)
  BY <1>6, LeadTimely, LeadTransfers
<1>8. 2 * Len(a.queue[First]) \in Nat
  <2>1. a.queue[First] \in Seq(Events)
    BY <1>1, <1>2, TimeTypes DEF Core, Base
  <2> HIDE DEF a
  <2> QED
    BY <2>1
<1> HIDE DEF a, late, m, n
<1>9. Enters(l, First) \in S
  BY <1>2, <1>4, <1>7 DEF Frame
<1>10. ASSUME NEW y \in S
       PROVE  Turn(y, First, late) \in S
  <2>1. /\ y \in Loops /\ Core(y.link) /\ ~y.wasDetach /\ Mid(y.link)
        /\ Transfers(y.link) /\ y.link.complete = l.complete
    OBVIOUS
  <2> DEFINE z == Turn(y, First, late)
  <2>2. z \in Loops /\ Core(z.link) /\ ~z.wasDetach
    BY <1>1, <1>3, <2>1, TurnCore
  <2>3. Mid(z.link)
    BY <1>3, <2>1, <2>2, FirstTurn
  <2>4. Frame(y.link, z.link) /\ Transfers(z.link)
    BY <1>3, <2>1, FirstTurnFrame
  <2> HIDE DEF z
  <2>5. z \in S
    BY <2>1, <2>2, <2>3, <2>4 DEF Frame
  <2> QED
    BY <2>5 DEF z
<1> HIDE DEF S
<1>11. x \in S
  BY <1>4, <1>5, <1>8, <1>9, <1>10, LoopInvariant DEF TakeEvents
<1>12. Transfers(b) /\ b.complete = l.complete
  BY <1>11 DEF S
<1> HIDE DEF x
<1>13. b \in Links /\ b.event \in [Players -> Int] /\ b.newer \in [Players -> BOOLEAN]
  <2>1. b \in Links
    BY <1>2 DEF Core, Base
  <2> HIDE DEF b
  <2> QED
    BY <2>1 DEF Links
<1> HIDE DEF b
<1>14. /\ m.transferActive = b.transferActive /\ m.transferMode = b.transferMode
       /\ m.data = b.data /\ m.complete = b.complete /\ m.busy = b.busy
       /\ m.mode = b.mode /\ m.dataReceived = b.dataReceived /\ m.queue = b.queue
       /\ m.waiting = b.waiting
  BY <1>2 DEF Ends
<1>15. \A s \in Others : m.event[s] = b.event[s] /\ m.newer[s] = b.newer[s]
  <2>1. \A s \in Others : s \in Players /\ s # First
    BY <1>1 DEF Others
  <2> QED
    BY <1>1, <1>2, <1>13, <2>1
<1>16. Sends(m)
  BY <1>12, <1>14 DEF Transfers, Sends
<1>17. \A s \in Others : Gets(m, s)
  BY <1>12, <1>14, <1>15 DEF Transfers, Gets
<1>18. Transfers(m)
  BY <1>12, <1>14, <1>16, <1>17 DEF Transfers
<1> QED
  BY <1>12, <1>14, <1>18 DEF m

\* While the primary waits it calls for no hard sync.
LEMMA LeadFails ==
  ASSUME NEW l, Core(l), l.waiting # {}
  PROVE  Lead(l, First).failed = l.failed
<1> DEFINE a == AdvanceCycle(l, First)
           w == Wake(a, Secondaries(a))
           b == IF a.transferActive THEN a ELSE w
           c == IF b.waiting = {} THEN HardSync(b, First) ELSE b
           m == [c EXCEPT !.nextHardSync = @ + HardSyncInterval]
<1>1. l \in Links /\ First \in Players
  BY JoinedFacts DEF Core, Base
<1>2. Lead(l, First) = IF b.nextHardSync >= 0 THEN b ELSE m
  BY DEF Lead
<1>3. a \in Links /\ a.waiting = l.waiting /\ a.failed = l.failed
  BY <1>1, AdvanceCycleFacts
<1> HIDE DEF a
<1>4. w \in Links /\ w.waiting = a.waiting /\ w.failed = a.failed
  BY <1>3, WakeFacts
<1> HIDE DEF w
<1>5. b \in Links /\ b.waiting = l.waiting /\ b.failed = l.failed
  BY <1>3, <1>4
<1> HIDE DEF b
<1>6. c = b
  BY <1>5
<1> HIDE DEF c
<1>7. m.failed = b.failed
  BY <1>5, <1>6 DEF Links
<1> QED
  BY <1>2, <1>5, <1>7

TransfersInv == joins = 0 /\ link.failed = {} /\ N = 2 => Transfers(link)

LEMMA TransfersInit ==
  ASSUME Init
  PROVE  Transfers(link)
<1>1. /\ link.waiting = {} /\ link.transferActive = FALSE /\ link.transferMode = "normal"
      /\ First \in Players /\ Others \subseteq Players /\ Joined \subseteq Players
      /\ \A p \in Players : /\ link.queue[p] = <<>> /\ link.complete[p] = Never
                            /\ link.mode[p] = "normal"
  BY InitFacts, JoinedFacts DEF Others
<1>2. \A p \in Joined : Good(link.queue[p], Id(p)) /\ ~Starts(link.queue[p])
  BY <1>1 DEF Good, Starts
<1>3. Sends(link)
  BY <1>1 DEF Sends
<1>4. \A s \in Others : Gets(link, s)
  BY <1>1, <1>2 DEF Gets, Others
<1> QED
  BY <1>1, <1>2, <1>3, <1>4 DEF Transfers

\* The handler of a player changes no other's end of a transfer, either.
LEMMA TurnOwnComplete ==
  ASSUME NEW x \in Loops, NEW p \in Joined, NEW late \in Int, Core(x.link),
         NEW q \in Players \ {p}
  PROVE  Turn(x, p, late).link.complete[q] = x.link.complete[q]
<1> DEFINE y == Turn(x, p, late)
           l == x.link
           k == Popped(l, p)
           e == Head(l.queue[p])
           n == e.finish - l.time[p] - late
           s == Sent(k, p, n)
<1>1. l \in Links /\ Stable(l) /\ p \in Players
  BY JoinedFacts DEF Loops, Core, Base
<1>2. CASE Caught(l, p)
  BY <1>2 DEF Turn
<1>3. CASE ~Caught(l, p)
  <2>1. TakeEvent(x, p, late) = y
    BY <1>3 DEF Turn
  <2>2. /\ l.queue[p] # <<>> /\ n \in Int
        /\ y.link = IF e.type = "TRANSFER_START" THEN AckPlayer(s, p)
                    ELSE IF Acknowledged(e) THEN AckPlayer(k, p) ELSE k
    BY <1>1, <1>3, <2>1, TakeEventCases
  <2>3. k \in Links /\ k.complete = l.complete
    BY <1>1, <2>2, PoppedFacts DEF Frame
  <2> HIDE DEF k, e, n, y
  <2>4. s \in Links /\ s.complete[q] = k.complete[q]
    <3>1. k \in Links /\ p \in Players /\ n \in Int
      BY <1>1, <2>2, <2>3
    <3> QED
      BY <3>1, SentFacts
  <2> HIDE DEF s
  <2>5. AckPlayer(k, p).complete = k.complete /\ AckPlayer(s, p).complete = s.complete
    BY <1>1, <2>3, <2>4, AckPlayerFacts
  <2>6. y.link \in {AckPlayer(s, p), AckPlayer(k, p), k}
    BY <2>2
  <2>7. y.link.complete[q] = l.complete[q]
    BY <2>3, <2>4, <2>5, <2>6
  <2> QED
    BY <2>7 DEF y
<1> QED
  BY <1>2, <1>3

LEMMA EventOwnComplete ==
  ASSUME N = 2, NEW l, Core(l), Transfers(l), NEW p \in Joined, NEW q \in Players \ {p}
  PROVE  LockstepEvent(l, p).complete[q] = l.complete[q]
<1> DEFINE a == Led(l, p)
           late == -l.event[p]
           x == Leaves(l, p)
           m == LockstepEvent(l, p)
           S == {y \in Loops :
                   Core(y.link) /\ ~y.wasDetach /\ y.link.complete[q] = l.complete[q]}
<1>1. l \in Links /\ p \in Players
  BY JoinedFacts DEF Core, Base
<1>2. Core(a) /\ Enters(l, p) \in Loops /\ Ends(x.link, m)
  BY <1>1, LockstepEventCases
<1>3. late \in Int
  BY <1>1, TimeTypes
<1>4. Enters(l, p).link = a /\ ~Enters(l, p).wasDetach
  BY DEF Enters
<1>5. x = TakeEvents(Enters(l, p), p, late)
  BY DEF Leaves
<1>6. a.complete = l.complete
  BY LeadTransfers DEF Led, Frame
<1>7. 2 * Len(a.queue[p]) \in Nat
  <2>1. a.queue[p] \in Seq(Events)
    BY <1>1, <1>2, TimeTypes DEF Core, Base
  <2> HIDE DEF a
  <2> QED
    BY <2>1
<1> HIDE DEF a, late, m
<1>8. Enters(l, p) \in S
  BY <1>2, <1>4, <1>6
<1>9. ASSUME NEW y \in S
      PROVE  Turn(y, p, late) \in S
  <2>1. y \in Loops /\ Core(y.link) /\ ~y.wasDetach /\ y.link.complete[q] = l.complete[q]
    OBVIOUS
  <2> DEFINE z == Turn(y, p, late)
  <2>2. z \in Loops /\ Core(z.link) /\ ~z.wasDetach
    BY <1>3, <2>1, TurnCore
  <2>3. z.link.complete[q] = y.link.complete[q]
    BY <1>3, <2>1, TurnOwnComplete
  <2> HIDE DEF z
  <2>4. z \in S
    BY <2>1, <2>2, <2>3
  <2> QED
    BY <2>4 DEF z
<1> HIDE DEF S
<1>10. x \in S
  BY <1>4, <1>5, <1>7, <1>8, <1>9, LoopInvariant DEF TakeEvents
<1> QED
  BY <1>2, <1>10 DEF S, Ends, m

\* A step of a player: the transfers stay in order, and it changes no other player's
\* end of a transfer, nor that of a primary whose transfer is under way.
LEMMA TransfersStep ==
  ASSUME MaxStep < Transfer, N = 2, link \in Links, Core(link), Timely(link),
         Transfers(link), link.failed = {},
         NEW p \in Joined, Run(p) \/ Call(p) \/ Fire(p)
  PROVE  /\ link'.failed = {} => Transfers(link)'
         /\ \A q \in Players \ {p} : link'.complete[q] = link.complete[q]
         /\ link.transferActive => link'.complete[First] = link.complete[First]
<1>1. p \in Players /\ First \in Players /\ First \in Joined
  BY JoinedFacts
<1>2. /\ link.asleep[First] <=> link.waiting # {}
      /\ link.attached = Joined /\ \A q : PlayerId(link, q) = Id(q)
      /\ PlayerId(link, p) = 0 <=> p = First
  BY IdFacts, StableFacts DEF Core, Base, Stable, Sleeps
<1>3. Sends(link) /\ \A s \in Others : Gets(link, s)
  BY DEF Transfers
<1>4. Runs(p) /\ p = First => ~link.transferActive /\ link.waiting = {}
  BY <1>2, <1>3 DEF Runs, Sends
<1>5. ASSUME NEW k, link' = k, k.failed = {} => Transfers(k),
             \A q \in Players \ {p} : k.complete[q] = link.complete[q],
             p = First /\ link.transferActive => k.complete[First] = link.complete[First]
      PROVE  /\ link'.failed = {} => Transfers(link)'
             /\ \A q \in Players \ {p} : link'.complete[q] = link.complete[q]
             /\ link.transferActive => link'.complete[First] = link.complete[First]
  <2>1. link'.failed = {} => Transfers(link)'
    BY <1>5 DEF Transfers, Sends, Gets
  <2> QED
    BY <1>1, <1>5, <2>1
<1>6. ASSUME NEW j \in Links, NEW c \in 1 .. MaxStep, Transfers(j),
             \A q \in Players \ {p} : j.complete[q] = link.complete[q],
             p = First /\ j.transferActive => j.complete[First] > c,
             Runs(p), link' = Pass(j, p, c)
      PROVE  /\ link'.failed = {} => Transfers(link)'
             /\ \A q \in Players \ {p} : link'.complete[q] = link.complete[q]
             /\ link.transferActive => link'.complete[First] = link.complete[First]
  <2> DEFINE k == Pass(j, p, c)
  <2>1. Transfers(k)
    BY <1>6, PassTransfers
  <2>2. c \in Int
    OBVIOUS
  <2>3. \A q \in Players \ {p} : k.complete[q] = j.complete[q]
    BY <1>1, <2>2, PassFacts
  <2>4. link' = k
    BY <1>6
  <2> HIDE DEF k
  <2> QED
    BY <1>4, <1>5, <1>6, <2>1, <2>3, <2>4
<1>7. CASE Run(p)
  <2>1. PICK c \in 1 .. MaxStep : link' = Pass(link, p, c)
    BY <1>7 DEF Run
  <2>2. Runs(p)
    BY <1>7 DEF Run
  <2> QED
    BY <1>4, <1>6, <2>1, <2>2
<1>8. CASE Call(p)
  <2>1. PICK c \in 1 .. MaxStep :
           \/ \E m \in Modes : link' = Pass(SetMode(link, p, m), p, c)
           \/ p = First /\ ~link.busy[First] /\ link' = Pass(Start(link, p), p, c)
           \/ p = First /\ \E m \in Modes : link' = Pass(Start(SetMode(link, p, m), p), p, c)
    BY <1>2, <1>8 DEF Call
  <2>2. Runs(p)
    BY <1>8 DEF Call
  <2>3. ASSUME NEW m \in Modes, link' = Pass(SetMode(link, p, m), p, c)
        PROVE  /\ link'.failed = {} => Transfers(link)'
               /\ \A q \in Players \ {p} : link'.complete[q] = link.complete[q]
               /\ link.transferActive => link'.complete[First] = link.complete[First]
    <3> DEFINE j == SetMode(link, p, m)
    <3>1. j \in Links
      BY <1>1, SetModeType
    <3>2. Transfers(j) /\ j.transferActive = link.transferActive
      BY <1>4, <2>2, SetModeTransfers
    <3>3. \A q \in Players \ {p} : j.complete[q] = link.complete[q]
      BY <1>1, OwnComplete
    <3>4. link' = Pass(j, p, c)
      BY <2>3
    <3> HIDE DEF j
    <3> QED
      BY <1>4, <1>6, <2>2, <3>1, <3>2, <3>3, <3>4
  <2>4. CASE p = First /\ ~link.busy[First] /\ link' = Pass(Start(link, p), p, c)
    <3> DEFINE j == Start(link, p)
    <3>1. j \in Links
      BY <1>1, StartType
    <3>2. Transfers(j) /\ j.complete[First] = Transfer
      BY <1>4, <2>2, <2>4, StartTransfers
    <3>3. \A q \in Players \ {p} : j.complete[q] = link.complete[q]
      BY <1>1, OwnComplete
    <3>4. link' = Pass(j, p, c)
      BY <2>4
    <3> HIDE DEF j
    <3>5. j.complete[First] > c
      BY <3>2, Cycles
    <3> QED
      BY <1>6, <2>2, <3>1, <3>2, <3>3, <3>4, <3>5
  <2>5. ASSUME p = First, NEW m \in Modes,
               link' = Pass(Start(SetMode(link, p, m), p), p, c)
        PROVE  /\ link'.failed = {} => Transfers(link)'
               /\ \A q \in Players \ {p} : link'.complete[q] = link.complete[q]
               /\ link.transferActive => link'.complete[First] = link.complete[First]
    <3> DEFINE x == SetMode(link, p, m)
               j == Start(x, p)
               k == Pass(j, p, c)
    <3>1. x \in Links /\ x.waiting # {} /\ x.attached = Joined
      BY <1>1, <2>5, SetModeType, SetModeWaits
    <3>2. ~x.transferActive /\ ~link.transferActive
      BY <1>4, <2>2, <2>5, SetModeTransfers
    <3>3. \A q \in Players \ {p} : x.complete[q] = link.complete[q]
      BY <1>1, OwnComplete
    <3> HIDE DEF x
    <3>4. PlayerId(x, p) = 0
      BY <2>5, <3>1, StableFacts, JoinedFacts
    <3>5. j \in Links /\ j.failed # {}
      BY <1>1, <3>1, <3>2, <3>4, StartType, StartFails
    <3>6. \A q \in Players \ {p} : j.complete[q] = x.complete[q]
      BY <1>1, <3>1, OwnComplete
    <3> HIDE DEF j
    <3>7. /\ Keeps(j, k)
          /\ \A q \in Players \ {p} : k.complete[q] = j.complete[q]
      <4>1. c \in Int
        OBVIOUS
      <4> QED
        BY <1>1, <3>5, <4>1, PassFacts
    <3>8. link' = k
      BY <2>5 DEF j, x
    <3> HIDE DEF k
    <3>9. k.failed # {}
      BY <3>5, <3>7 DEF Keeps
    <3> QED
      BY <1>5, <3>2, <3>3, <3>6, <3>7, <3>8, <3>9
  <2> QED
    BY <2>1, <2>3, <2>4, <2>5
<1>9. CASE Fire(p)
  <2>1. link.event[p] \in Int /\ link.complete[p] \in Int /\ Never \in Int /\ Never > 0
    BY <1>1, TimeTypes, Cycles, CyclesAssumption
  <2>2. CASE ~CompletesFirst(p) /\ link.event[p] <= 0 /\ link' = LockstepEvent(link, p)
    <3> DEFINE k == LockstepEvent(link, p)
    <3>1. \A q \in Players \ {p} : k.complete[q] = link.complete[q]
      BY EventOwnComplete
    <3>2. CASE p = First
      <4>1. k.failed = {} => Transfers(k)
        BY <2>2, <3>2, FirstLeads, FirstEventTransfers
      <4>2. link.transferActive => k.complete[First] = link.complete[First]
        <5>1. link.transferActive => Lead(link, First).failed = {}
          BY <1>3, LeadFails DEF Sends
        <5> QED
          BY <2>2, <3>2, <5>1, FirstEventTransfers
      <4>3. link' = k
        BY <2>2
      <4> HIDE DEF k
      <4> QED
        BY <1>5, <3>1, <4>1, <4>2, <4>3
    <3>3. CASE p # First
      <4>1. p \in Others
        BY <3>3 DEF Others
      <4>2. link.complete[p] = Never
        BY <1>3, <2>1, <2>2, <4>1 DEF CompletesFirst, Gets
      <4>3. Transfers(k)
        BY <2>2, <4>1, <4>2, OtherEventTransfers
      <4>4. link' = k
        BY <2>2
      <4> HIDE DEF k
      <4> QED
        BY <1>5, <3>1, <3>3, <4>3, <4>4
    <3> QED
      BY <3>2, <3>3
  <2>3. CASE link.complete[p] <= 0 /\ link' = Finish(link, p)
    <3> DEFINE k == Finish(link, p)
    <3>1. p = First => ~link.transferActive
      BY <1>3, <2>1, <2>3 DEF Sends
    <3>2. Transfers(k)
      BY <3>1, FinishTransfers
    <3>3. \A q \in Players \ {p} : k.complete[q] = link.complete[q]
      BY <1>1, OwnComplete
    <3>4. link' = k
      BY <2>3
    <3> HIDE DEF k
    <3> QED
      BY <1>5, <3>1, <3>2, <3>3, <3>4
  <2> QED
    BY <1>9, <2>2, <2>3 DEF Fire
<1> QED
  BY <1>7, <1>8, <1>9

\* Between two machines whose instructions are shorter than a transfer, which takes
\* thousands of cycles, a transfer that ends finds the words of both and not yet those
\* of the next one, whatever the modes they switch to meanwhile.  The argument: the
\* primary waits until the other machine has sent its word, which then ends the
\* transfer before it handles anything else; and the primary starts none before its
\* own has ended and the other has answered the hard sync that follows.
THEOREM WordsAreThere == ASSUME MaxStep < Transfer PROVE Spec => DataOnTime
<1> DEFINE IInv == TypeOK /\ CoreInv /\ TimelyInv /\ TransfersInv
           OnTime == \A p \in Players :
                       joins' = 0 /\ Cardinality(link.attached) = 2 /\ Finishes(p) =>
                           link.dataReceived[p] /\ link.data = link.attached
<1>1. Init => IInv
  BY CoreInit, TimelyInit, TransfersInit, InitFacts, BoundsAssumption
  DEF CoreInv, TimelyInv, TransfersInv, TypeOK
<1>2. ASSUME IInv, Next, joins' = 0, N = 2
      PROVE  /\ link'.failed = {} => Transfers(link)'
             /\ OnTime
  <2>1. /\ link \in Links /\ link.failed = {} /\ joins \in Nat
        /\ First \in Joined /\ Joined \subseteq Players
    BY <1>2, JoinedFacts DEF TypeOK, Next
  <2>2. joins = 0 /\ \E p \in Players : Run(p) \/ Call(p) \/ Fire(p)
    BY <1>2, <2>1 DEF Next, Join, Leave, Run, Call, Fire
  <2>3. Core(link) /\ Timely(link) /\ Transfers(link) /\ link.attached = Joined
    BY <1>2, <2>1, <2>2 DEF CoreInv, TimelyInv, TransfersInv, Core, Base, Stable
  <2>4. PICK p \in Joined : Run(p) \/ Call(p) \/ Fire(p)
    BY <2>2, <2>3 DEF Run, Call, Fire, Runs
  <2>5. /\ link'.failed = {} => Transfers(link)'
        /\ \A q \in Players \ {p} : link'.complete[q] = link.complete[q]
        /\ link.transferActive => link'.complete[First] = link.complete[First]
    BY <1>2, <2>1, <2>3, <2>4, TransfersStep
  <2>6. Sends(link) /\ \A s \in Others : Gets(link, s)
    BY <2>3 DEF Transfers
  <2>7. ASSUME NEW q \in Players, Finishes(q)
        PROVE  link.dataReceived[q] /\ link.data = link.attached
    <3>1. link.complete[q] # Never /\ link'.complete[q] = Never
      BY <2>7 DEF Finishes
    <3>2. q = p
      BY <2>5, <3>1
    <3>3. CASE q = First
      BY <2>3, <2>5, <2>6, <3>1, <3>3 DEF Sends
    <3>4. CASE q # First
      <4>1. q \in Others
        BY <3>2, <3>4 DEF Others
      <4> QED
        BY <2>3, <2>6, <3>1, <4>1 DEF Gets
    <3> QED
      BY <3>3, <3>4
  <2> QED
    BY <2>5, <2>7
<1>3. IInv /\ [Next]_vars => IInv'
  <2> SUFFICES ASSUME IInv, [Next]_vars PROVE IInv'
    OBVIOUS
  <2>1. TypeOK' /\ CoreInv' /\ TimelyInv'
    BY TypeStep, CoreStep, TimelyStep
  <2>2. TransfersInv'
    <3>1. CASE Next
      BY <1>2, <3>1 DEF TransfersInv
    <3>2. CASE UNCHANGED vars
      <4>1. link' = link /\ joins' = joins
        BY <3>2 DEF vars
      <4> QED
        BY <4>1 DEF TransfersInv, Transfers, Sends, Gets
    <3> QED
      BY <3>1, <3>2
  <2> QED
    BY <2>1, <2>2
<1>4. IInv /\ [Next]_vars => [OnTime]_vars
  <2> SUFFICES ASSUME IInv, Next PROVE OnTime
    OBVIOUS
  <2> SUFFICES ASSUME joins' = 0, Cardinality(link.attached) = 2 PROVE OnTime
    OBVIOUS
  <2>1. N = 2
    <3>1. joins \in Nat
      BY DEF TypeOK
    <3>2. joins = 0
      BY <3>1 DEF Next, Join, Leave, Run, Call, Fire
    <3>3. CoreInv
      OBVIOUS
    <3>4. link.attached = Joined
      BY <3>2, <3>3 DEF CoreInv, Core, Base, Stable
    <3> QED
      BY <3>4 DEF N
  <2> QED
    BY <1>2, <2>1
<1>5. Spec => [][OnTime]_vars
  <2> HIDE DEF IInv, OnTime
  <2> QED
    BY <1>1, <1>3, <1>4, PTL DEF Spec
<1> QED
  BY <1>5 DEF DataOnTime
=============================================================================
