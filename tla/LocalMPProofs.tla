---------------------------- MODULE LocalMPProofs ----------------------------
(***************************************************************************)
(* Proofs about LocalMP, for any number of clients, any size of the rings, *)
(* and any number of packets and of instances that end and begin again.    *)
(***************************************************************************)
EXTENDS LocalMP, FiniteSetTheorems, TLAPS

\* Commands are numbered by round.  An instance may hear of an old one again, when
\* it reads old bytes, but of none that was not sent; and what is in the replies'
\* ring its sender has sent.
Rounds ==
    /\ round <= sent
    /\ \A i \in Instances : heard[i] <= round
    /\ \A c \in Clients : replied[c] <= round
    /\ \A s \in 0 .. Slots - 1 :
         /\ ring["packet"][s].round <= round
         /\ LET p == ring["reply"][s] IN p.from # Host => p.round <= replied[p.from]

IInv == TypeOK /\ Rounds /\ NoneStranded /\ RepliesAreCurrent

-----------------------------------------------------------------------------
(* What the proofs need to know of the operators.                          *)

LEMMA ConstantFacts ==
  /\ Slots \in Nat /\ Slots >= 1 /\ MaxPackets \in Nat /\ MaxBegins \in Nat
  /\ Host \notin Clients /\ Host \in Instances /\ Clients \subseteq Instances
  /\ IsFiniteSet(Instances)
<1>1. IsFiniteSet(Clients \cup {Host})
  BY HostAssumption, FS_AddElement
<1> QED
  BY <1>1, HostAssumption, SlotsAssumption, MaxAssumption DEF Instances

LEMMA NextSlot ==
  ASSUME NEW x \in 0 .. Slots - 1 PROVE (x + 1) % Slots \in 0 .. Slots - 1
  BY ConstantFacts

\* When the posts of one sender change, a reader's coming posts change by one at
\* most.
LEMMA ComingChanges ==
  ASSUME NEW f, NEW i, NEW s \in Instances,
         \A r \in Instances \ {s} : posts'[r] = posts[r]
  PROVE  /\ Coming(f, i) \in Nat
         /\ Coming(f, i)' = IF <<f, i>> \in posts'[s]
                            THEN IF <<f, i>> \in posts[s] THEN Coming(f, i) ELSE Coming(f, i) + 1
                            ELSE IF <<f, i>> \in posts[s] THEN Coming(f, i) - 1 ELSE Coming(f, i)
<1> DEFINE S == {r \in Instances : <<f, i>> \in posts[r]}
           T == {r \in Instances : <<f, i>> \in posts'[r]}
<1>1. IsFiniteSet(S) /\ Cardinality(S) \in Nat
  BY ConstantFacts, FS_Subset, FS_CardinalityType
<1>2. Coming(f, i) = Cardinality(S) /\ Coming(f, i)' = Cardinality(T)
  BY DEF Coming
<1>3. CASE <<f, i>> \in posts'[s]
  <2>1. T = S \cup {s} /\ (s \in S <=> <<f, i>> \in posts[s])
    BY <1>3
  <2> HIDE DEF S, T
  <2> QED
    BY <1>1, <1>2, <1>3, <2>1, FS_AddElement
<1>4. CASE <<f, i>> \notin posts'[s]
  <2>1. T = S \ {s} /\ (s \in S <=> <<f, i>> \in posts[s])
    BY <1>4
  <2> HIDE DEF S, T
  <2> QED
    BY <1>1, <1>2, <1>4, <2>1, FS_RemoveElement
<1> QED
  BY <1>3, <1>4

LEMMA InitIInv == Init => IInv
<1> SUFFICES ASSUME Init PROVE IInv
  OBVIOUS
<1>1. None \in Packets /\ 0 \in 0 .. Slots - 1 /\ 0 \in 0 .. MaxPackets /\ 0 \in 0 .. MaxBegins
  BY ConstantFacts DEF None, Packets
<1>2. TypeOK
  BY <1>1 DEF Init, TypeOK
<1>3. Rounds
  BY ConstantFacts DEF Init, Rounds, None, Fifos
<1>4. NoneStranded
  <2> SUFFICES ASSUME NEW f \in Fifos, NEW i \in Instances
               PROVE  sem[f][i] + Coming(f, i) >= unread[f][i]
    BY ConstantFacts DEF NoneStranded, Readers, Init
  <2>1. Coming(f, i) = 0
    <3>1. {s \in Instances : <<f, i>> \in posts[s]} = {}
      BY DEF Init
    <3> QED
      BY <3>1, FS_EmptySet DEF Coming
  <2> QED
    BY <2>1 DEF Init
<1>5. RepliesAreCurrent
  BY DEF Init, RepliesAreCurrent
<1> QED
  BY <1>2, <1>3, <1>4, <1>5 DEF IInv

-----------------------------------------------------------------------------
(* The rings and the readers, place by place.                              *)

LEMMA WriteFacts ==
  ASSUME TypeOK, NEW f \in Fifos, NEW p \in Packets, Write(f, p)
  PROVE  /\ ring' \in [Fifos -> [0 .. Slots - 1 -> Packets]]
         /\ writeAt' \in [Fifos -> 0 .. Slots - 1]
         /\ sent' \in 0 .. MaxPackets /\ sent' = sent + 1
         /\ \A g \in Fifos, s \in 0 .. Slots - 1 :
              (ring'[g][s] = p /\ g = f) \/ ring'[g][s] = ring[g][s]
<1>1. writeAt[f] \in 0 .. Slots - 1 /\ writeAt \in [Fifos -> 0 .. Slots - 1]
  BY DEF TypeOK
<1>2. ring \in [Fifos -> [0 .. Slots - 1 -> Packets]]
  BY DEF TypeOK
<1>3. ring' = [ring EXCEPT ![f] = [ring[f] EXCEPT ![writeAt[f]] = p]]
  BY DEF Write
<1>4. writeAt' = [writeAt EXCEPT ![f] = (writeAt[f] + 1) % Slots]
  BY DEF Write
<1>5. (writeAt[f] + 1) % Slots \in 0 .. Slots - 1
  BY <1>1, NextSlot
<1>6. sent' \in 0 .. MaxPackets /\ sent' = sent + 1
  BY ConstantFacts DEF Write, TypeOK
<1> HIDE DEF Write
<1>7. [ring[f] EXCEPT ![writeAt[f]] = p] \in [0 .. Slots - 1 -> Packets]
  BY <1>1, <1>2
<1> QED
  BY <1>1, <1>2, <1>3, <1>4, <1>5, <1>6, <1>7

\* What a reader has left when it catches up.
LEMMA CatchUpFacts ==
  ASSUME TypeOK, NEW fs, NEW i \in Instances,
         CatchUp(fs, i, writeAt), CaughtUp(fs, i)
  PROVE  /\ readAt' \in [Fifos -> [Instances -> 0 .. Slots - 1]]
         /\ sem' \in [Fifos -> [Instances -> Nat]]
         /\ unread' \in [Fifos -> [Instances -> Int]]
         /\ \A f \in Fifos, j \in Instances :
              IF f \in fs /\ j = i
              THEN sem'[f][j] = 0 /\ unread'[f][j] = 0
              ELSE sem'[f][j] = sem[f][j] /\ unread'[f][j] = unread[f][j]
<1>1. writeAt \in [Fifos -> 0 .. Slots - 1]
  BY DEF TypeOK
<1>2. readAt \in [Fifos -> [Instances -> 0 .. Slots - 1]]
  BY DEF TypeOK
<1>3. sem \in [Fifos -> [Instances -> Nat]]
  BY DEF TypeOK
<1>4. unread \in [Fifos -> [Instances -> Int]]
  BY DEF TypeOK
<1>5. readAt' \in [Fifos -> [Instances -> 0 .. Slots - 1]]
  BY <1>1, <1>2 DEF CatchUp
<1>6. sem' \in [Fifos -> [Instances -> Nat]]
  BY <1>3 DEF CatchUp
<1>7. unread' \in [Fifos -> [Instances -> Int]]
  BY <1>4 DEF CaughtUp
<1>8. ASSUME NEW f \in Fifos, NEW j \in Instances
      PROVE  IF f \in fs /\ j = i
             THEN sem'[f][j] = 0 /\ unread'[f][j] = 0
             ELSE sem'[f][j] = sem[f][j] /\ unread'[f][j] = unread[f][j]
  BY <1>3, <1>4 DEF CatchUp, CaughtUp
<1> QED
  BY <1>5, <1>6, <1>7, <1>8

\* One token and one packet are taken.
LEMMA ReadsFacts ==
  ASSUME TypeOK, NEW f \in Fifos, NEW i \in Instances,
         Reads(f, i, ring[f][readAt[f][i]])
  PROVE  /\ readAt' \in [Fifos -> [Instances -> 0 .. Slots - 1]]
         /\ sem' \in [Fifos -> [Instances -> Nat]]
         /\ unread' \in [Fifos -> [Instances -> Int]]
         /\ \A g \in Fifos, j \in Instances :
              IF g = f /\ j = i
              THEN sem'[g][j] = sem[g][j] - 1 /\ unread'[g][j] = unread[g][j] - 1
              ELSE sem'[g][j] = sem[g][j] /\ unread'[g][j] = unread[g][j]
         /\ readAt[f][i] \in 0 .. Slots - 1
<1>1. readAt \in [Fifos -> [Instances -> 0 .. Slots - 1]]
  BY DEF TypeOK
<1>2. sem \in [Fifos -> [Instances -> Nat]] /\ sem[f][i] \in Nat /\ sem[f][i] > 0
  BY DEF TypeOK, Reads
<1>3. unread \in [Fifos -> [Instances -> Int]] /\ unread[f][i] \in Int
  BY DEF TypeOK
<1>4. readAt' = [readAt EXCEPT ![f] = [readAt[f] EXCEPT ![i] = (readAt[f][i] + 1) % Slots]]
  BY DEF Reads
<1>5. sem' = [sem EXCEPT ![f] = [sem[f] EXCEPT ![i] = sem[f][i] - 1]]
  BY DEF Reads
<1>6. unread' = [unread EXCEPT ![f] = [unread[f] EXCEPT ![i] = unread[f][i] - 1]]
  BY DEF Reads
<1>7. readAt[f][i] \in 0 .. Slots - 1 /\ (readAt[f][i] + 1) % Slots \in 0 .. Slots - 1
  BY <1>1, NextSlot
<1>8. readAt' \in [Fifos -> [Instances -> 0 .. Slots - 1]]
  BY <1>1, <1>4, <1>7
<1>9. sem' \in [Fifos -> [Instances -> Nat]]
  BY <1>2, <1>5
<1>10. unread' \in [Fifos -> [Instances -> Int]]
  BY <1>3, <1>6
<1> QED
  BY <1>2, <1>3, <1>5, <1>6, <1>7, <1>8, <1>9, <1>10

-----------------------------------------------------------------------------
(* Every action preserves the invariant.                                   *)

\* Coming depends on the posts only.
LEMMA ComingStays ==
  ASSUME NEW f, NEW i, UNCHANGED posts PROVE Coming(f, i)' = Coming(f, i)
  BY DEF Coming

LEMMA ComingNat ==
  ASSUME NEW f, NEW i PROVE Coming(f, i) \in Nat
<1>1. IsFiniteSet({s \in Instances : <<f, i>> \in posts[s]})
  BY ConstantFacts, FS_Subset
<1> QED
  BY <1>1, FS_CardinalityType DEF Coming

LEMMA BeginPreserves ==
  ASSUME IInv, NEW i \in Instances, Begin(i) PROVE IInv'
<1> USE DEF IInv
<1>1. TypeOK /\ CatchUp(Fifos, i, writeAt) /\ CaughtUp(Fifos, i)
  BY DEF Begin
<1>2. /\ readAt' \in [Fifos -> [Instances -> 0 .. Slots - 1]]
      /\ sem' \in [Fifos -> [Instances -> Nat]]
      /\ unread' \in [Fifos -> [Instances -> Int]]
      /\ \A f \in Fifos, j \in Instances :
           IF j = i
           THEN sem'[f][j] = 0 /\ unread'[f][j] = 0
           ELSE sem'[f][j] = sem[f][j] /\ unread'[f][j] = unread[f][j]
  <2> HIDE DEF IInv
  <2> HIDE DEF IInv
  <2> QED
    BY <1>1, CatchUpFacts
<1>3. TypeOK'
  <2>1. begins' \in 0 .. MaxBegins /\ connected' \subseteq Instances
    BY ConstantFacts DEF Begin, TypeOK
  <2> QED
    BY <1>2, <2>1 DEF Begin, TypeOK, rings, host, history
<1>4. Rounds'
  BY DEF Begin, Rounds, rings, history
<1>5. NoneStranded'
  <2> SUFFICES ASSUME NEW f \in Fifos, NEW j \in Readers(f)'
               PROVE  sem'[f][j] + Coming(f, j)' >= unread'[f][j]
    BY DEF NoneStranded
  <2>1. j \in Instances /\ (j # i => j \in Readers(f))
    BY ConstantFacts DEF Readers, Begin, TypeOK
  <2>2. Coming(f, j)' = Coming(f, j) /\ Coming(f, j) \in Nat
    BY ComingStays, ComingNat DEF Begin
  <2>3. CASE j = i
    BY <1>2, <2>1, <2>2, <2>3
  <2>4. CASE j # i
    <3>1. sem[f][j] + Coming(f, j) >= unread[f][j]
      BY <2>1, <2>4 DEF NoneStranded
    <3> QED
      BY <1>2, <2>1, <2>2, <2>4, <3>1
  <2> QED
    BY <2>3, <2>4
<1>6. RepliesAreCurrent'
  BY DEF Begin, RepliesAreCurrent, host, history
<1> QED
  BY <1>3, <1>4, <1>5, <1>6

LEMMA EndPreserves ==
  ASSUME IInv, NEW i \in Instances, End(i) PROVE IInv'
<1> USE DEF IInv
<1>1. TypeOK'
  BY DEF End, TypeOK, rings, reading, host, history
<1>2. Rounds'
  BY DEF End, Rounds, rings, history
<1>3. NoneStranded'
  <2> SUFFICES ASSUME NEW f \in Fifos, NEW j \in Readers(f)'
               PROVE  sem'[f][j] + Coming(f, j)' >= unread'[f][j]
    BY DEF NoneStranded
  <2>1. j \in Readers(f) /\ Coming(f, j)' = Coming(f, j)
    BY ComingStays DEF Readers, End
  <2> QED
    BY <2>1 DEF End, reading, NoneStranded
<1>4. RepliesAreCurrent'
  BY DEF End, RepliesAreCurrent, host, history
<1> QED
  BY <1>1, <1>2, <1>3, <1>4

LEMMA SendPacketPreserves ==
  ASSUME IInv, NEW i \in Instances, SendPacket(i) PROVE IInv'
<1> USE DEF IInv
<1> DEFINE p == [from |-> i, round |-> 0, data |-> TRUE]
<1>1. p \in Packets /\ "packet" \in Fifos /\ Write("packet", p)
  BY ConstantFacts DEF SendPacket, Packets, Fifos
<1>2. /\ ring' \in [Fifos -> [0 .. Slots - 1 -> Packets]]
      /\ writeAt' \in [Fifos -> 0 .. Slots - 1]
      /\ sent' \in 0 .. MaxPackets /\ sent' = sent + 1
      /\ \A g \in Fifos, s \in 0 .. Slots - 1 :
           (ring'[g][s] = p /\ g = "packet") \/ ring'[g][s] = ring[g][s]
  <2> HIDE DEF p
  <2> QED
    BY <1>1, WriteFacts
<1>3. unread' \in [Fifos -> [Instances -> Int]] /\
      \A f \in Fifos, j \in Instances :
        unread'[f][j] = IF f = "packet" THEN unread[f][j] + 1 ELSE unread[f][j]
  <2>1. unread' = [unread EXCEPT !["packet"] =
                     [j \in Instances |-> IF j \in {} THEN 1 ELSE unread["packet"][j] + 1]]
    BY DEF SendPacket, Grows
  <2>2. unread \in [Fifos -> [Instances -> Int]]
    BY DEF TypeOK
  <2> QED
    BY <1>1, <2>1, <2>2
<1>4. /\ posts[i] = {} /\ posts' = [posts EXCEPT ![i] = {"packet"} \X connected]
      /\ posts \in [Instances -> SUBSET (Fifos \X Instances)]
  BY DEF SendPacket, Idle, TypeOK
<1>5. TypeOK'
  <2>1. posts' \in [Instances -> SUBSET (Fifos \X Instances)]
    BY <1>1, <1>4 DEF TypeOK
  <2> QED
    BY <1>2, <1>3, <2>1 DEF SendPacket, TypeOK, host, history
<1>6. Rounds'
  <2>1. "reply" \in Fifos /\ "reply" # "packet" /\ p.round = 0
    BY DEF Fifos
  <2>2. UNCHANGED <<round, heard, replied>> /\ round \in Nat /\ sent \in Nat
    BY DEF SendPacket, history, TypeOK
  <2>3. ASSUME NEW s \in 0 .. Slots - 1 PROVE ring'["packet"][s].round <= round
    <3>1. ring["packet"][s].round <= round
      BY DEF Rounds
    <3>2. ring'["packet"][s] = p \/ ring'["packet"][s] = ring["packet"][s]
      BY <1>1, <1>2
    <3> HIDE DEF p
    <3> QED
      BY <2>1, <2>2, <3>1, <3>2
  <2>4. \A s \in 0 .. Slots - 1 : ring'["reply"][s] = ring["reply"][s]
    BY <1>2, <2>1
  <2> QED
    BY <1>2, <2>2, <2>3, <2>4 DEF Rounds
<1>7. NoneStranded'
  <2> SUFFICES ASSUME NEW f \in Fifos, NEW j \in Readers(f)'
               PROVE  sem'[f][j] + Coming(f, j)' >= unread'[f][j]
    BY DEF NoneStranded
  <2>1. j \in Instances /\ j \in Readers(f) /\ sem'[f][j] = sem[f][j]
    BY ConstantFacts DEF Readers, SendPacket, TypeOK
  <2>2. sem[f][j] + Coming(f, j) >= unread[f][j]
    BY <2>1 DEF NoneStranded
  <2>3. /\ \A r \in Instances \ {i} : posts'[r] = posts[r]
        /\ <<f, j>> \notin posts[i]
        /\ (<<f, j>> \in posts'[i]) = (f = "packet" /\ j \in connected)
    BY <1>4
  <2>4. /\ Coming(f, j) \in Nat
        /\ Coming(f, j)' = IF f = "packet" /\ j \in connected
                           THEN Coming(f, j) + 1 ELSE Coming(f, j)
    BY <2>3, ComingChanges
  <2>5. sem[f][j] \in Nat /\ unread[f][j] \in Int
    BY <2>1 DEF TypeOK
  <2>6. f = "packet" => j \in connected
    BY <2>1 DEF Readers
  <2> QED
    BY <1>3, <2>1, <2>2, <2>4, <2>5, <2>6
<1>8. RepliesAreCurrent'
  BY DEF SendPacket, RepliesAreCurrent, host, history
<1> QED
  BY <1>5, <1>6, <1>7, <1>8

LEMMA SendCmdPreserves ==
  ASSUME IInv, SendCmd PROVE IInv'
<1> USE DEF IInv
<1> DEFINE p == [from |-> Host, round |-> round + 1, data |-> TRUE]
<1>1. /\ round \in Nat /\ sent \in Nat /\ round <= sent /\ sent < MaxPackets
      /\ Write("packet", p) /\ round' = round + 1
  BY DEF SendCmd, Write, TypeOK, Rounds
<1>2. p \in Packets /\ "packet" \in Fifos /\ "reply" \in Fifos /\ Host \in Instances
  BY <1>1, ConstantFacts DEF Packets, Fifos
<1>3. /\ ring' \in [Fifos -> [0 .. Slots - 1 -> Packets]]
      /\ writeAt' \in [Fifos -> 0 .. Slots - 1]
      /\ sent' \in 0 .. MaxPackets /\ sent' = sent + 1
      /\ \A g \in Fifos, s \in 0 .. Slots - 1 :
           (ring'[g][s] = p /\ g = "packet") \/ ring'[g][s] = ring[g][s]
  <2> HIDE DEF p
  <2> QED
    BY <1>1, <1>2, WriteFacts
<1>4. /\ unread' \in [Fifos -> [Instances -> Int]]
      /\ \A f \in Fifos, j \in Instances :
           unread'[f][j] = IF f = "packet" THEN unread[f][j] + 1
                           ELSE IF j = Host THEN 0 ELSE unread[f][j]
  <2>1. unread \in [Fifos -> [Instances -> Int]]
    BY DEF TypeOK
  <2>2. unread' = [f \in Fifos |-> [i \in Instances |->
                     IF f = "packet" THEN unread[f][i] + 1
                     ELSE IF i = Host THEN 0 ELSE unread[f][i]]]
    BY DEF SendCmd
  <2> QED
    BY <2>1, <2>2
<1>5. /\ readAt' \in [Fifos -> [Instances -> 0 .. Slots - 1]]
      /\ sem' \in [Fifos -> [Instances -> Nat]]
      /\ \A f \in Fifos, j \in Instances :
           sem'[f][j] = IF f = "reply" /\ j = Host THEN 0 ELSE sem[f][j]
  <2>1. /\ sem' = [f \in Fifos |-> [sem[f] EXCEPT ![Host] = IF f \in {"reply"} THEN 0 ELSE @]]
        /\ readAt' = [f \in Fifos |-> [readAt[f] EXCEPT ![Host] =
                        IF f \in {"reply"} THEN writeAt[f] ELSE @]]
    BY DEF SendCmd, CatchUp
  <2>2. /\ sem \in [Fifos -> [Instances -> Nat]] /\ writeAt \in [Fifos -> 0 .. Slots - 1]
        /\ readAt \in [Fifos -> [Instances -> 0 .. Slots - 1]]
    BY DEF TypeOK
  <2>3. readAt' \in [Fifos -> [Instances -> 0 .. Slots - 1]]
    BY <1>2, <2>1, <2>2
  <2>4. sem' \in [Fifos -> [Instances -> Nat]]
    BY <1>2, <2>1, <2>2
  <2> QED
    BY <1>2, <2>1, <2>2, <2>3, <2>4
<1>6. /\ posts[Host] = {} /\ posts' = [posts EXCEPT ![Host] = {"packet"} \X connected]
      /\ posts \in [Instances -> SUBSET (Fifos \X Instances)]
  BY DEF SendCmd, Idle, TypeOK
<1>7. TypeOK'
  <2>1. posts' \in [Instances -> SUBSET (Fifos \X Instances)]
    BY <1>2, <1>6 DEF TypeOK
  <2>2. collected' = {Host} /\ answered' = {} /\ UNCHANGED expected /\ round' \in 0 .. MaxPackets
    BY <1>1, ConstantFacts DEF SendCmd
  <2> QED
    BY <1>2, <1>3, <1>4, <1>5, <2>1, <2>2 DEF SendCmd, TypeOK
<1>8. Rounds'
  <2>1. UNCHANGED <<heard, replied>>
    BY DEF SendCmd
  <2>2. \A i \in Instances : heard'[i] <= round'
    BY <1>1, <2>1 DEF Rounds, TypeOK
  <2>3. \A c \in Clients : replied'[c] <= round'
    BY <1>1, <2>1 DEF Rounds, TypeOK
  <2>4. ASSUME NEW s \in 0 .. Slots - 1 PROVE ring'["packet"][s].round <= round'
    <3>1. ring["packet"][s].round <= round /\ ring["packet"][s] \in Packets
      BY <1>2 DEF Rounds, TypeOK
    <3>2. ring'["packet"][s] = p \/ ring'["packet"][s] = ring["packet"][s]
      BY <1>2, <1>3
    <3> QED
      BY <1>1, <3>1, <3>2 DEF Packets
  <2>5. \A s \in 0 .. Slots - 1 : ring'["reply"][s] = ring["reply"][s]
    BY <1>2, <1>3
  <2> QED
    BY <1>1, <1>3, <2>1, <2>2, <2>3, <2>4, <2>5 DEF Rounds
<1>9. NoneStranded'
  <2> SUFFICES ASSUME NEW f \in Fifos, NEW j \in Readers(f)'
               PROVE  sem'[f][j] + Coming(f, j)' >= unread'[f][j]
    BY DEF NoneStranded
  <2>1. j \in Instances /\ j \in Readers(f) /\ (f = "packet" => j \in connected)
        /\ (f # "packet" => f = "reply" /\ j = Host)
    BY ConstantFacts DEF Readers, SendCmd, TypeOK, Fifos
  <2>2. sem[f][j] + Coming(f, j) >= unread[f][j]
    BY <2>1 DEF NoneStranded
  <2>3. /\ \A r \in Instances \ {Host} : posts'[r] = posts[r]
        /\ <<f, j>> \notin posts[Host]
        /\ (<<f, j>> \in posts'[Host]) = (f = "packet" /\ j \in connected)
    BY <1>2, <1>6
  <2>4. /\ Coming(f, j) \in Nat
        /\ Coming(f, j)' = IF f = "packet" /\ j \in connected
                           THEN Coming(f, j) + 1 ELSE Coming(f, j)
    BY <1>2, <2>3, ComingChanges
  <2>5. sem[f][j] \in Nat /\ unread[f][j] \in Int
    BY <2>1 DEF TypeOK
  <2> QED
    BY <1>4, <1>5, <2>1, <2>2, <2>4, <2>5
<1>10. RepliesAreCurrent'
  BY DEF SendCmd, RepliesAreCurrent
<1> QED
  BY <1>7, <1>8, <1>9, <1>10

\* A client that replies is not one whose reply the host has.
LEMMA SendReplyPreserves ==
  ASSUME IInv, NEW c \in Clients, SendReply(c) PROVE IInv'
<1> USE DEF IInv
<1>1. PICK d \in BOOLEAN : Write("reply", [from |-> c, round |-> heard[c], data |-> d])
  BY DEF SendReply
<1> DEFINE p == [from |-> c, round |-> heard[c], data |-> d]
<1>2. /\ c \in Instances /\ c # Host /\ heard[c] \in 0 .. MaxPackets /\ replied[c] \in Nat
      /\ round \in Nat /\ heard[c] <= round /\ replied[c] < heard[c]
  BY ConstantFacts DEF TypeOK, Rounds, SendReply
<1>3. p \in Packets /\ "reply" \in Fifos /\ "packet" \in Fifos
  BY <1>2 DEF Packets, Fifos
<1>4. /\ ring' \in [Fifos -> [0 .. Slots - 1 -> Packets]]
      /\ writeAt' \in [Fifos -> 0 .. Slots - 1]
      /\ sent' \in 0 .. MaxPackets /\ sent' = sent + 1
      /\ \A g \in Fifos, s \in 0 .. Slots - 1 :
           (ring'[g][s] = p /\ g = "reply") \/ ring'[g][s] = ring[g][s]
  <2>1. Write("reply", p)
    BY <1>1
  <2> HIDE DEF p
  <2> QED
    BY <1>3, <2>1, WriteFacts
<1>5. unread' \in [Fifos -> [Instances -> Int]] /\
      \A f \in Fifos, j \in Instances :
        unread'[f][j] = IF f = "reply" THEN unread[f][j] + 1 ELSE unread[f][j]
  <2>1. unread' = [unread EXCEPT !["reply"] =
                     [j \in Instances |-> IF j \in {} THEN 1 ELSE unread["reply"][j] + 1]]
    BY DEF SendReply, Grows
  <2>2. unread \in [Fifos -> [Instances -> Int]]
    BY DEF TypeOK
  <2> QED
    BY <1>3, <2>1, <2>2
<1>6. /\ posts[c] = {} /\ posts' = [posts EXCEPT ![c] = {<<"reply", Host>>}]
      /\ posts \in [Instances -> SUBSET (Fifos \X Instances)]
  BY DEF SendReply, Idle, TypeOK
<1>7. replied' \in [Clients -> 0 .. MaxPackets]
      /\ \A k \in Clients : replied'[k] = IF k = c THEN heard[c] ELSE replied[k]
  BY <1>2 DEF SendReply, TypeOK
<1>8. TypeOK'
  <2>1. posts' \in [Instances -> SUBSET (Fifos \X Instances)]
    BY <1>2, <1>3, <1>6, ConstantFacts
  <2> QED
    BY <1>4, <1>5, <1>7, <2>1 DEF SendReply, TypeOK, host
<1>9. Rounds'
  <2>1. UNCHANGED <<round, heard>> /\ sent \in Nat
    BY DEF SendReply, TypeOK
  <2>2. \A k \in Clients : replied'[k] <= round
    BY <1>2, <1>7 DEF Rounds
  <2>3. \A s \in 0 .. Slots - 1 : ring'["packet"][s] = ring["packet"][s]
    BY <1>3, <1>4
  <2>4. ASSUME NEW s \in 0 .. Slots - 1, ring'["reply"][s].from # Host
        PROVE  ring'["reply"][s].round <= replied'[ring'["reply"][s].from]
    <3>1. CASE ring'["reply"][s] = p
      BY <1>2, <1>7, <3>1
    <3>2. CASE ring'["reply"][s] = ring["reply"][s]
      <4>1. PICK q \in Packets : q = ring["reply"][s]
        BY <1>3 DEF TypeOK
      <4>2. q.from \in Clients /\ q.round \in Nat
        BY <2>4, <3>2, <4>1 DEF Packets, Instances
      <4>3. q.round <= replied[q.from]
        BY <2>4, <3>2, <4>1 DEF Rounds
      <4>4. q.round <= replied'[q.from]
        BY <1>2, <1>7, <4>2, <4>3
      <4> QED
        BY <3>2, <4>1, <4>4
    <3> QED
      BY <1>3, <1>4, <3>1, <3>2
  <2> QED
    BY <1>2, <1>4, <2>1, <2>2, <2>3, <2>4 DEF Rounds
<1>10. NoneStranded'
  <2> SUFFICES ASSUME NEW f \in Fifos, NEW j \in Readers(f)'
               PROVE  sem'[f][j] + Coming(f, j)' >= unread'[f][j]
    BY DEF NoneStranded
  <2>1. j \in Instances /\ j \in Readers(f) /\ sem'[f][j] = sem[f][j]
        /\ (f = "reply" => j = Host)
    BY ConstantFacts DEF Readers, SendReply, TypeOK
  <2>2. sem[f][j] + Coming(f, j) >= unread[f][j]
    BY <2>1 DEF NoneStranded
  <2>3. /\ \A r \in Instances \ {c} : posts'[r] = posts[r]
        /\ <<f, j>> \notin posts[c]
        /\ (<<f, j>> \in posts'[c]) = (f = "reply" /\ j = Host)
    BY <1>2, <1>6
  <2>4. /\ Coming(f, j) \in Nat
        /\ Coming(f, j)' = IF f = "reply" /\ j = Host THEN Coming(f, j) + 1 ELSE Coming(f, j)
    BY <1>2, <2>3, ComingChanges
  <2>5. sem[f][j] \in Nat /\ unread[f][j] \in Int
    BY <2>1 DEF TypeOK
  <2> QED
    BY <1>5, <2>1, <2>2, <2>4, <2>5
<1>11. RepliesAreCurrent'
  <2> SUFFICES ASSUME NEW k \in collected' \ {Host} PROVE replied'[k] = round'
    BY DEF RepliesAreCurrent
  <2>1. k \in Clients /\ k \in collected /\ replied[k] = round /\ round' = round
    BY DEF SendReply, host, RepliesAreCurrent, TypeOK, Instances
  <2> QED
    BY <1>2, <1>7, <2>1
<1> QED
  BY <1>8, <1>9, <1>10, <1>11

LEMMA PostPreserves ==
  ASSUME IInv, NEW i \in Instances, Post(i) PROVE IInv'
<1> USE DEF IInv
<1>1. PICK t \in posts[i] : /\ sem' = [sem EXCEPT ![t[1]][t[2]] = @ + 1]
                            /\ posts' = [posts EXCEPT ![i] = @ \ {t}]
  BY DEF Post
<1>2. /\ posts \in [Instances -> SUBSET (Fifos \X Instances)]
      /\ sem \in [Fifos -> [Instances -> Nat]]
  BY DEF TypeOK
<1>3. t \in Fifos \X Instances /\ t[1] \in Fifos /\ t[2] \in Instances
  BY <1>2
<1>4. /\ sem' \in [Fifos -> [Instances -> Nat]]
      /\ \A f \in Fifos, j \in Instances :
           sem'[f][j] = IF f = t[1] /\ j = t[2] THEN sem[f][j] + 1 ELSE sem[f][j]
  <2>1. sem' = [sem EXCEPT ![t[1]] = [sem[t[1]] EXCEPT ![t[2]] = sem[t[1]][t[2]] + 1]]
    BY <1>1
  <2> QED
    BY <1>2, <1>3, <2>1
<1>5. TypeOK'
  <2>1. posts' \in [Instances -> SUBSET (Fifos \X Instances)]
    BY <1>1, <1>2
  <2> QED
    BY <1>4, <2>1 DEF Post, TypeOK, rings, host, history
<1>6. Rounds'
  BY DEF Post, Rounds, rings, history
<1>7. NoneStranded'
  <2> SUFFICES ASSUME NEW f \in Fifos, NEW j \in Readers(f)'
               PROVE  sem'[f][j] + Coming(f, j)' >= unread'[f][j]
    BY DEF NoneStranded
  <2>1. j \in Instances /\ j \in Readers(f) /\ unread'[f][j] = unread[f][j]
    BY ConstantFacts DEF Readers, Post, TypeOK
  <2>2. sem[f][j] + Coming(f, j) >= unread[f][j]
    BY <2>1 DEF NoneStranded
  <2>3. /\ \A r \in Instances \ {i} : posts'[r] = posts[r]
        /\ posts'[i] = posts[i] \ {t}
    BY <1>1, <1>2
  <2>4. <<f, j>> = t <=> f = t[1] /\ j = t[2]
    BY <1>3
  <2>5. /\ Coming(f, j) \in Nat
        /\ Coming(f, j)' = IF f = t[1] /\ j = t[2] THEN Coming(f, j) - 1 ELSE Coming(f, j)
    <3>1. t \in posts[i] /\ t \notin posts'[i]
      BY <2>3
    <3>2. CASE <<f, j>> = t
      BY <2>3, <2>4, <3>1, <3>2, ComingChanges
    <3>3. CASE <<f, j>> # t
      <4>1. <<f, j>> \in posts'[i] <=> <<f, j>> \in posts[i]
        BY <2>3, <3>3
      <4> QED
        BY <2>3, <2>4, <3>3, <4>1, ComingChanges
    <3> QED
      BY <3>2, <3>3
  <2>6. sem[f][j] \in Nat /\ unread[f][j] \in Int
    BY <2>1 DEF TypeOK
  <2> QED
    BY <1>4, <2>1, <2>2, <2>5, <2>6
<1>8. RepliesAreCurrent'
  BY DEF Post, RepliesAreCurrent, host, history
<1> QED
  BY <1>5, <1>6, <1>7, <1>8

\* However a reader reads, it keeps the tokens that it needs.
LEMMA ReadingPreserves ==
  ASSUME IInv, NEW f \in Fifos, NEW i \in Instances,
         Reads(f, i, ring[f][readAt[f][i]]) \/ Overtaken(f, i),
         UNCHANGED <<posts, connected>>
  PROVE  /\ readAt' \in [Fifos -> [Instances -> 0 .. Slots - 1]]
         /\ sem' \in [Fifos -> [Instances -> Nat]]
         /\ unread' \in [Fifos -> [Instances -> Int]]
         /\ NoneStranded'
<1>1. TypeOK
  BY DEF IInv
<1>2. /\ readAt' \in [Fifos -> [Instances -> 0 .. Slots - 1]]
      /\ sem' \in [Fifos -> [Instances -> Nat]]
      /\ unread' \in [Fifos -> [Instances -> Int]]
      /\ \A g \in Fifos, j \in Instances :
           \/ sem'[g][j] = 0 /\ unread'[g][j] = 0
           \/ sem'[g][j] = sem[g][j] - 1 /\ unread'[g][j] = unread[g][j] - 1
           \/ sem'[g][j] = sem[g][j] /\ unread'[g][j] = unread[g][j]
  <2>1. CASE Reads(f, i, ring[f][readAt[f][i]])
    BY <1>1, <2>1, ReadsFacts
  <2>2. CASE Overtaken(f, i)
    <3>1. CatchUp({f}, i, writeAt) /\ CaughtUp({f}, i)
      BY <2>2 DEF Overtaken
    <3> QED
      BY <1>1, <3>1, CatchUpFacts
  <2> QED
    BY <2>1, <2>2
<1>3. NoneStranded'
  <2> SUFFICES ASSUME NEW g \in Fifos, NEW j \in Readers(g)'
               PROVE  sem'[g][j] + Coming(g, j)' >= unread'[g][j]
    BY DEF NoneStranded
  <2>1. j \in Instances /\ j \in Readers(g)
    BY <1>1, ConstantFacts DEF Readers, TypeOK
  <2>2. sem[g][j] + Coming(g, j) >= unread[g][j]
    BY <2>1 DEF NoneStranded, IInv
  <2>3. Coming(g, j)' = Coming(g, j) /\ Coming(g, j) \in Nat
    BY ComingStays, ComingNat
  <2>4. sem[g][j] \in Nat /\ unread[g][j] \in Int
    BY <1>1, <2>1 DEF TypeOK
  <2>5. \/ sem'[g][j] = 0 /\ unread'[g][j] = 0
        \/ sem'[g][j] = sem[g][j] - 1 /\ unread'[g][j] = unread[g][j] - 1
        \/ sem'[g][j] = sem[g][j] /\ unread'[g][j] = unread[g][j]
    BY <1>2, <2>1
  <2> QED
    BY <2>2, <2>3, <2>4, <2>5
<1> QED
  BY <1>2, <1>3

\* Old bytes hold no command that was not sent.
LEMMA RecvPacketPreserves ==
  ASSUME IInv, NEW i \in Instances, RecvPacket(i) PROVE IInv'
<1> USE DEF IInv
<1> DEFINE p == ring["packet"][readAt["packet"][i]]
<1>1. "packet" \in Fifos /\ (Reads("packet", i, p) \/ Overtaken("packet", i))
      /\ UNCHANGED <<posts, connected>>
  BY DEF RecvPacket, Fifos
<1>2. /\ readAt' \in [Fifos -> [Instances -> 0 .. Slots - 1]]
      /\ sem' \in [Fifos -> [Instances -> Nat]]
      /\ unread' \in [Fifos -> [Instances -> Int]]
      /\ NoneStranded'
  BY <1>1, ReadingPreserves
<1>3. p.round \in 0 .. MaxPackets /\ p.round <= round
  <2>1. readAt["packet"][i] \in 0 .. Slots - 1
    BY <1>1 DEF TypeOK
  <2>2. p \in Packets
    <3>1. ring["packet"] \in [0 .. Slots - 1 -> Packets]
      BY <1>1 DEF TypeOK
    <3> QED
      BY <2>1, <3>1
  <2> QED
    BY <2>1, <2>2 DEF Rounds, Packets
<1>4. heard' = [heard EXCEPT ![i] = p.round] \/ heard' = heard
  <2>1. heard \in [Instances -> 0 .. MaxPackets]
    BY DEF TypeOK
  <2>2. CASE heard' = [heard EXCEPT ![i] = IF p.from # i /\ p.round > 0 THEN p.round ELSE @]
    BY <2>1, <2>2
  <2>3. CASE UNCHANGED heard
    BY <2>3
  <2> QED
    BY <2>2, <2>3 DEF RecvPacket
<1>5. heard' \in [Instances -> 0 .. MaxPackets] /\ \A j \in Instances : heard'[j] <= round
  <2>1. heard \in [Instances -> 0 .. MaxPackets] /\ \A j \in Instances : heard[j] <= round
    BY DEF TypeOK, Rounds
  <2> HIDE DEF p
  <2> QED
    BY <1>3, <1>4, <2>1
<1>6. TypeOK'
  BY <1>2, <1>5 DEF RecvPacket, TypeOK, rings, host
<1>7. Rounds'
  BY <1>5 DEF RecvPacket, Rounds, rings
<1>8. RepliesAreCurrent'
  BY DEF RecvPacket, RepliesAreCurrent, host
<1> QED
  BY <1>2, <1>6, <1>7, <1>8

\* A reply that is not stale is one to the last command.
LEMMA TakeFacts ==
  ASSUME IInv, NEW p \in Packets, Take(p),
         p.from # Host => p.round <= replied[p.from]
  PROVE  /\ answered' \subseteq collected' /\ collected' \subseteq Instances
         /\ expected' \subseteq Instances
         /\ \A c \in collected' \ {Host} : replied[c] = round
<1> USE DEF IInv
<1>1. CASE Stale(p)
  BY <1>1 DEF Take, host, TypeOK, RepliesAreCurrent
<1>2. CASE ~Stale(p)
  <2> DEFINE all == collected \cup {p.from}
             got == answered \cup (IF p.data THEN {p.from} ELSE {})
  <2>1. p.from \in Clients /\ p.from \in Instances /\ p.round \in Nat /\ round \in Nat
    BY <1>2 DEF Stale, Packets, Instances, TypeOK
  <2>2. replied[p.from] \in Nat /\ replied[p.from] <= round /\ p.round <= replied[p.from]
    BY <1>2, <2>1 DEF TypeOK, Rounds, Stale
  <2>3. replied[p.from] = round
    BY <1>2, <2>1, <2>2 DEF Stale
  <2>4. \/ expected' = {} /\ collected' = {} /\ answered' = {}
        \/ collected' = all /\ answered' = got /\ UNCHANGED expected
    BY <1>2 DEF Take, CollectReturns
  <2>5. got \subseteq all /\ all \subseteq Instances
    BY <2>1 DEF TypeOK
  <2>6. \A c \in all \ {Host} : replied[c] = round
    BY <2>3 DEF RepliesAreCurrent
  <2> HIDE DEF all, got
  <2> QED
    BY <2>4, <2>5, <2>6 DEF TypeOK
<1> QED
  BY <1>1, <1>2

LEMMA CollectPreserves ==
  ASSUME IInv, Collect PROVE IInv'
<1> USE DEF IInv
<1> DEFINE p == ring["reply"][readAt["reply"][Host]]
<1>1. "reply" \in Fifos /\ Host \in Instances
      /\ (Reads("reply", Host, p) \/ Overtaken("reply", Host))
      /\ UNCHANGED <<posts, connected>>
  BY ConstantFacts DEF Collect, Fifos
<1>2. /\ readAt' \in [Fifos -> [Instances -> 0 .. Slots - 1]]
      /\ sem' \in [Fifos -> [Instances -> Nat]]
      /\ unread' \in [Fifos -> [Instances -> Int]]
      /\ NoneStranded'
  BY <1>1, ReadingPreserves
<1>3. p \in Packets /\ (p.from # Host => p.round <= replied[p.from])
  <2>1. readAt["reply"][Host] \in 0 .. Slots - 1
    BY <1>1 DEF TypeOK
  <2>2. p \in Packets
    <3>1. ring["reply"] \in [0 .. Slots - 1 -> Packets]
      BY <1>1 DEF TypeOK
    <3> QED
      BY <2>1, <3>1
  <2> QED
    BY <2>1, <2>2 DEF Rounds
<1>4. /\ answered' \subseteq collected' /\ collected' \subseteq Instances
      /\ expected' \subseteq Instances
      /\ \A c \in collected' \ {Host} : replied[c] = round
  <2>1. CASE Take(p)
    <3> HIDE DEF p
    <3> QED
      BY <1>3, <2>1, TakeFacts
  <2>2. CASE CollectReturns
    BY <2>2 DEF CollectReturns
  <2> QED
    BY <2>1, <2>2 DEF Collect
<1>5. TypeOK'
  BY <1>2, <1>4 DEF Collect, TypeOK, rings, history
<1>6. Rounds'
  BY DEF Collect, Rounds, rings, history
<1>7. RepliesAreCurrent'
  BY <1>4 DEF Collect, RepliesAreCurrent, history
<1> QED
  BY <1>2, <1>5, <1>6, <1>7

\* A step that leaves the rings, the readers and the posts alone.
LEMMA HostStepPreserves ==
  ASSUME IInv, UNCHANGED <<rings, reading, connected, posts, history, begins>>,
         answered' \subseteq collected', collected' \subseteq collected,
         expected' \subseteq Instances
  PROVE  IInv'
<1> USE DEF IInv
<1>1. TypeOK'
  BY DEF TypeOK, rings, reading, history
<1>2. Rounds'
  BY DEF Rounds, rings, history
<1>3. NoneStranded'
  BY ComingStays DEF NoneStranded, Readers, reading
<1>4. RepliesAreCurrent'
  BY DEF RepliesAreCurrent, history
<1> QED
  BY <1>1, <1>2, <1>3, <1>4

LEMMA NextIInv == IInv /\ [Next]_vars => IInv'
<1> SUFFICES ASSUME IInv, [Next]_vars PROVE IInv'
  OBVIOUS
<1>1. ASSUME NEW i \in Instances, Begin(i) PROVE IInv'
  BY <1>1, BeginPreserves
<1>2. ASSUME NEW i \in Instances, End(i) PROVE IInv'
  BY <1>2, EndPreserves
<1>3. ASSUME NEW i \in Instances, SendPacket(i) PROVE IInv'
  BY <1>3, SendPacketPreserves
<1>4. ASSUME NEW i \in Instances, Post(i) PROVE IInv'
  BY <1>4, PostPreserves
<1>5. ASSUME NEW i \in Instances, RecvPacket(i) PROVE IInv'
  BY <1>5, RecvPacketPreserves
<1>6. CASE SendCmd
  BY <1>6, SendCmdPreserves
<1>7. CASE RecvReplies
  <2>1. /\ UNCHANGED <<rings, reading, connected, posts, history, begins>>
        /\ answered' \subseteq collected' /\ collected' \subseteq collected
        /\ expected' \subseteq Instances
    BY <1>7, ConstantFacts DEF RecvReplies, IInv, TypeOK
  <2> QED
    BY <2>1, HostStepPreserves
<1>8. CASE Collect
  BY <1>8, CollectPreserves
<1>9. CASE Timeout
  <2>1. /\ UNCHANGED <<rings, reading, connected, posts, history, begins>>
        /\ answered' \subseteq collected' /\ collected' \subseteq collected
        /\ expected' \subseteq Instances
    BY <1>9 DEF Timeout, CollectReturns
  <2> QED
    BY <2>1, HostStepPreserves
<1>10. ASSUME NEW c \in Clients, SendReply(c) PROVE IInv'
  BY <1>10, SendReplyPreserves
<1>11. CASE UNCHANGED vars
  <2>1. /\ UNCHANGED <<rings, reading, connected, posts, history, begins>>
        /\ answered' \subseteq collected' /\ collected' \subseteq collected
        /\ expected' \subseteq Instances
    BY <1>11 DEF vars, host, IInv, TypeOK
  <2> QED
    BY <2>1, HostStepPreserves
<1> QED
  BY <1>1, <1>2, <1>3, <1>4, <1>5, <1>6, <1>7, <1>8, <1>9, <1>10, <1>11 DEF Next

LEMMA Invariance == Spec => []IInv
  BY InitIInv, NextIInv, PTL DEF Spec

-----------------------------------------------------------------------------
(* What holds in every state.                                              *)

\* The cursors stay inside the rings, the semaphores never become negative, and
\* the host collects replies of instances only (LocalMP.cpp 39-124).
THEOREM TypeCorrect == Spec => []TypeOK
<1>1. IInv => TypeOK
  BY DEF IInv
<1> QED
  BY <1>1, Invariance, PTL

\* No connected instance has a packet to read and no token for it, now or when
\* the senders that were interrupted between the ring and the semaphores go on.
THEOREM NobodyIsStranded == Spec => []NoneStranded
<1>1. IInv => NoneStranded
  BY DEF IInv
<1> QED
  BY <1>1, Invariance, PTL

\* However late replies come and whatever old bytes are read, every client that
\* the host counts has replied to its last command.
THEOREM HostHasCurrentReplies == Spec => []RepliesAreCurrent
<1>1. IInv => RepliesAreCurrent
  BY DEF IInv
<1> QED
  BY <1>1, Invariance, PTL
=============================================================================
