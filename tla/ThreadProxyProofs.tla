-------------------------- MODULE ThreadProxyProofs --------------------------
(***************************************************************************)
(* Proofs about ThreadProxy, for any size of the buffer, with and without  *)
(* items that the proxy thread does not know.                              *)
(*                                                                         *)
(* Nearly all that is to be kept is about a thread that has not stopped:   *)
(* when it has, items may be lost one by one, and nothing in the buffer is *)
(* read until it was cleared.                                              *)
(***************************************************************************)
EXTENDS ThreadProxy, FiniteSetTheorems, TLAPS

-----------------------------------------------------------------------------
(* The invariant.                                                          *)

\* What is left of a call.
Rests ==
    {<<>>, <<"draw">>, <<"wake">>, <<"draw", "wake">>, <<"block", "draw", "wake">>,
     <<"vram", "block", "draw", "wake">>, <<"present">>, <<"wait", "present">>,
     <<"flush", "wait", "present">>, <<"draw", "flush", "wait", "present">>,
     <<"event">>, <<"wait", "event">>, <<"clear", "event">>, <<"stop">>,
     <<"event", "stop">>, <<"wait", "event", "stop">>, <<"flush", "wait", "event", "stop">>}

\* The drawings in a queue
Draws(q) == Cardinality({k \in 1 .. Len(q) : q[k] = "draw"})

InBody == proxy \in {"body", "starving", "starved"}
Running == InBody \/ proxy \in {"run", "draw"}
Stopped == threadState = "STOPPED"

\* When each thread is in which state: one that has stopped is about to exit, or
\* was asleep and is joined.
States ==
    /\ Running => threadState = "BUSY"
    /\ proxy = "return" => threadState # "IDLE"
    /\ proxy \in {"start", "asleep", "woken"} => threadState # "BUSY"
    /\ proxy = "exited" => Stopped
    /\ Stopped /\ proxy \notin {"return", "exited"} =>
          cpu = "join" /\ proxy \in {"start", "woken"}
    /\ cpu \in {"join", "off"} => Stopped /\ todo = <<"stop">>

\* An event is posted when the queue is empty, and waited for.
Events ==
    /\ At("event") => queue = <<>>
    /\ event => At("event") /\ cpu \in {"loop", "asleep"}

\* A block comes directly after its item, wherever the two are: drawn, in the
\* queue or still to be written.
Pairs ==
    /\ \A k \in 2 .. Len(queue) : queue[k] = "block" <=> queue[k - 1] = "vram"
    /\ queue # <<>> => (queue[1] = "block" <=> InBody)
    /\ At("block") <=> IF queue = <<>> THEN InBody ELSE queue[Len(queue)] = "vram"

\* Every drawing that is not done is in the queue or in the proxy's hands.
Counted == undrawn = Draws(queue) + IF proxy = "draw" THEN 1 ELSE 0

\* The item after the last drawing of a frame is read after the drawing was done.
FrameFlushed ==
    todo = <<"wait", "present">> /\ (Stopped => cpu # "run") =>
        IF queue = <<>> THEN undrawn = 0 ELSE queue[Len(queue)] = "flush"

\* Nothing that is not dropped is left to draw when a frame is used.
FrameDrawn == At("present") => undrawn = 0

IInv ==
    /\ ThreadsOK
    /\ todo \in Rests
    /\ States
    /\ Events
    /\ ~Stopped => Pairs /\ Counted
    /\ FrameFlushed
    /\ FrameDrawn

-----------------------------------------------------------------------------
(* Sequences.                                                              *)

LEMMA EmptyLen ==
  ASSUME NEW S, NEW q \in Seq(S) PROVE q = <<>> <=> Len(q) = 0
  OBVIOUS

LEMMA TailFacts ==
  ASSUME NEW S, NEW q \in Seq(S), q # <<>>
  PROVE  /\ Len(q) \in Nat /\ Len(q) >= 1 /\ Head(q) = q[1] /\ Head(q) \in S
         /\ Tail(q) \in Seq(S) /\ Len(Tail(q)) = Len(q) - 1
         /\ \A k \in 1 .. Len(q) - 1 : Tail(q)[k] = q[k + 1]
         /\ Tail(q) = <<>> <=> Len(q) = 1
         /\ Tail(q) # <<>> => Tail(q)[Len(Tail(q))] = q[Len(q)]
<1>1. /\ Len(q) \in Nat /\ Len(q) >= 1 /\ Head(q) = q[1] /\ Head(q) \in S
      /\ Tail(q) \in Seq(S) /\ Len(Tail(q)) = Len(q) - 1
      /\ \A k \in 1 .. Len(q) - 1 : Tail(q)[k] = q[k + 1]
  OBVIOUS
<1>2. Tail(q) = <<>> <=> Len(q) = 1
  <2>1. Tail(q) = <<>> <=> Len(Tail(q)) = 0
    BY <1>1, EmptyLen
  <2> QED
    BY <1>1, <2>1
<1>3. ASSUME Tail(q) # <<>> PROVE Tail(q)[Len(Tail(q))] = q[Len(q)]
  <2>1. Len(q) - 1 \in 1 .. Len(q) - 1
    BY <1>1, <1>2, <1>3
  <2> QED
    BY <1>1, <2>1
<1> QED
  BY <1>1, <1>2, <1>3

LEMMA AppendFacts ==
  ASSUME NEW S, NEW q \in Seq(S), NEW x \in S
  PROVE  /\ Append(q, x) \in Seq(S) /\ Append(q, x) # <<>>
         /\ Len(q) \in Nat /\ Len(Append(q, x)) = Len(q) + 1
         /\ Append(q, x)[Len(q) + 1] = x
         /\ \A k \in 1 .. Len(q) : Append(q, x)[k] = q[k]
         /\ q = <<>> <=> Len(q) = 0
  OBVIOUS

\* The drawings of a queue are finitely many.
LEMMA DrawsFinite ==
  ASSUME NEW q \in Seq(Items)
  PROVE  IsFiniteSet({k \in 1 .. Len(q) : q[k] = "draw"}) /\ Draws(q) \in Nat
<1>1. IsFiniteSet(1 .. Len(q))
  BY FS_Interval
<1>2. IsFiniteSet({k \in 1 .. Len(q) : q[k] = "draw"})
  BY <1>1, FS_Subset
<1> QED
  BY <1>2, FS_CardinalityType DEF Draws

LEMMA DrawsEmpty == Draws(<<>>) = 0
<1>1. {k \in 1 .. Len(<<>>) : <<>>[k] = "draw"} = {}
  OBVIOUS
<1> QED
  BY <1>1, FS_EmptySet DEF Draws

LEMMA DrawsAppend ==
  ASSUME NEW q \in Seq(Items), NEW x \in Items
  PROVE  Draws(Append(q, x)) = Draws(q) + IF x = "draw" THEN 1 ELSE 0
<1> DEFINE S == {k \in 1 .. Len(q) : q[k] = "draw"}
           T == {k \in 1 .. Len(Append(q, x)) : Append(q, x)[k] = "draw"}
<1>1. IsFiniteSet(S) /\ Cardinality(S) \in Nat /\ Draws(q) = Cardinality(S)
      /\ Draws(Append(q, x)) = Cardinality(T)
  BY DrawsFinite DEF Draws
<1>2. Len(q) + 1 \notin S
  OBVIOUS
<1>3. T = IF x = "draw" THEN S \cup {Len(q) + 1} ELSE S
  <2>1. \A k : k \in 1 .. Len(Append(q, x)) <=> k \in 1 .. Len(q) \/ k = Len(q) + 1
    BY AppendFacts
  <2> QED
    BY <2>1, AppendFacts
<1> HIDE DEF S, T
<1>4. CASE x = "draw"
  BY <1>1, <1>2, <1>3, <1>4, FS_AddElement
<1>5. CASE x # "draw"
  BY <1>1, <1>3, <1>5
<1> QED
  BY <1>4, <1>5

\* The places of the drawings in the tail are those in the queue, one further.
LEMMA DrawsTail ==
  ASSUME NEW q \in Seq(Items), q # <<>>
  PROVE  Draws(Tail(q)) = Draws(q) - IF Head(q) = "draw" THEN 1 ELSE 0
<1> DEFINE S == {k \in 1 .. Len(q) : q[k] = "draw"}
           R == S \ {1}
           T == {k \in 1 .. Len(Tail(q)) : Tail(q)[k] = "draw"}
           f == [k \in T |-> k + 1]
<1>1. IsFiniteSet(S) /\ Cardinality(S) \in Nat /\ Draws(q) = Cardinality(S)
      /\ Draws(Tail(q)) = Cardinality(T) /\ IsFiniteSet(T)
  BY TailFacts, DrawsFinite DEF Draws
<1>2. Cardinality(R) = Cardinality(S) - IF Head(q) = "draw" THEN 1 ELSE 0
  <2>1. 1 \in S <=> Head(q) = "draw"
    BY TailFacts
  <2> HIDE DEF S
  <2>2. CASE 1 \in S
    BY <1>1, <2>1, <2>2, FS_RemoveElement
  <2>3. CASE 1 \notin S
    <3>1. R = S
      BY <2>3
    <3> HIDE DEF R
    <3> QED
      BY <1>1, <2>1, <2>3, <3>1
  <2> QED
    BY <2>2, <2>3
<1>3. f \in Bijection(T, R)
  <2>1. \A k \in T : k + 1 \in R /\ k \in Nat
    BY TailFacts
  <2>2. \A k \in R : k - 1 \in T /\ f[k - 1] = k
    BY TailFacts
  <2>3. f \in [T -> R] /\ \A k \in T : f[k] = k + 1
    BY <2>1
  <2> HIDE DEF R, T, f
  <2>4. f \in Injection(T, R)
    BY <2>1, <2>3 DEF Injection, IsInjective
  <2>5. f \in Surjection(T, R)
    BY <2>2, <2>3 DEF Surjection
  <2> QED
    BY <2>4, <2>5 DEF Bijection
<1>4. Cardinality(T) = Cardinality(R)
  <2> HIDE DEF R, T, f
  <2> QED
    BY <1>1, <1>3, FS_Bijection DEF ExistsBijection
<1> QED
  BY <1>1, <1>2, <1>4

\* The steps of a call come in its order.
LEMMA RestsFacts ==
  ASSUME NEW t \in Rests, t # <<>>
  PROVE  /\ Tail(t) \in Rests
         /\ Tail(t) # <<>> =>
              /\ Head(Tail(t)) = "block" <=> Head(t) = "vram"
              /\ Head(Tail(t)) = "event" => Head(t) \in {"wait", "clear"}
              /\ Head(Tail(t)) = "present" => t = <<"wait", "present">>
              /\ Tail(t) = <<"wait", "present">> => Head(t) = "flush"
         /\ Head(t) = "vram" => Tail(t) # <<>>
         /\ Head(t) = "stop" => t = <<"stop">>
<1>1. PICK r : r = Tail(t)
  OBVIOUS
<1>2. \/ t = <<"draw">> /\ r = <<>>
      \/ t = <<"wake">> /\ r = <<>>
      \/ t = <<"draw", "wake">> /\ r = <<"wake">>
      \/ t = <<"block", "draw", "wake">> /\ r = <<"draw", "wake">>
      \/ t = <<"vram", "block", "draw", "wake">> /\ r = <<"block", "draw", "wake">>
      \/ t = <<"present">> /\ r = <<>>
      \/ t = <<"wait", "present">> /\ r = <<"present">>
      \/ t = <<"flush", "wait", "present">> /\ r = <<"wait", "present">>
      \/ t = <<"draw", "flush", "wait", "present">> /\ r = <<"flush", "wait", "present">>
      \/ t = <<"event">> /\ r = <<>>
      \/ t = <<"wait", "event">> /\ r = <<"event">>
      \/ t = <<"clear", "event">> /\ r = <<"event">>
      \/ t = <<"stop">> /\ r = <<>>
      \/ t = <<"event", "stop">> /\ r = <<"stop">>
      \/ t = <<"wait", "event", "stop">> /\ r = <<"event", "stop">>
      \/ t = <<"flush", "wait", "event", "stop">> /\ r = <<"wait", "event", "stop">>
  <2>1. /\ Tail(<<"draw">>) = <<>>
        /\ Tail(<<"wake">>) = <<>>
        /\ Tail(<<"draw", "wake">>) = <<"wake">>
        /\ Tail(<<"block", "draw", "wake">>) = <<"draw", "wake">>
        /\ Tail(<<"vram", "block", "draw", "wake">>) = <<"block", "draw", "wake">>
        /\ Tail(<<"present">>) = <<>>
        /\ Tail(<<"wait", "present">>) = <<"present">>
        /\ Tail(<<"flush", "wait", "present">>) = <<"wait", "present">>
        /\ Tail(<<"draw", "flush", "wait", "present">>) = <<"flush", "wait", "present">>
        /\ Tail(<<"event">>) = <<>>
        /\ Tail(<<"wait", "event">>) = <<"event">>
        /\ Tail(<<"clear", "event">>) = <<"event">>
        /\ Tail(<<"stop">>) = <<>>
        /\ Tail(<<"event", "stop">>) = <<"stop">>
        /\ Tail(<<"wait", "event", "stop">>) = <<"event", "stop">>
        /\ Tail(<<"flush", "wait", "event", "stop">>) = <<"wait", "event", "stop">>
    OBVIOUS
  <2>2. /\ t = <<"draw">> => r = <<>>
        /\ t = <<"wake">> => r = <<>>
        /\ t = <<"draw", "wake">> => r = <<"wake">>
        /\ t = <<"block", "draw", "wake">> => r = <<"draw", "wake">>
        /\ t = <<"vram", "block", "draw", "wake">> => r = <<"block", "draw", "wake">>
        /\ t = <<"present">> => r = <<>>
        /\ t = <<"wait", "present">> => r = <<"present">>
        /\ t = <<"flush", "wait", "present">> => r = <<"wait", "present">>
        /\ t = <<"draw", "flush", "wait", "present">> => r = <<"flush", "wait", "present">>
        /\ t = <<"event">> => r = <<>>
        /\ t = <<"wait", "event">> => r = <<"event">>
        /\ t = <<"clear", "event">> => r = <<"event">>
        /\ t = <<"stop">> => r = <<>>
        /\ t = <<"event", "stop">> => r = <<"stop">>
        /\ t = <<"wait", "event", "stop">> => r = <<"event", "stop">>
        /\ t = <<"flush", "wait", "event", "stop">> => r = <<"wait", "event", "stop">>
    BY <1>1, <2>1, Zenon
  <2> QED
    BY <2>2 DEF Rests
<1>3. r \in Rests
  BY <1>2 DEF Rests
<1>4. r = <<"wait", "present">> => Head(t) = "flush"
  BY <1>2
<1>5. Head(t) = "vram" => r # <<>>
  BY <1>2
<1>6. Head(t) = "stop" => t = <<"stop">>
  BY <1>2
<1>7. ASSUME r # <<>>
      PROVE  /\ Head(r) = "block" <=> Head(t) = "vram"
             /\ Head(r) = "event" => Head(t) \in {"wait", "clear"}
             /\ Head(r) = "present" => t = <<"wait", "present">>
  BY <1>2, <1>7
<1> QED
  BY <1>1, <1>3, <1>4, <1>5, <1>6, <1>7

-----------------------------------------------------------------------------
(* What the steps share.                                                   *)

\* To wake the proxy thread changes little, and nothing that it does.
Waked ==
    \/ proxy' = proxy
    \/ proxy = "asleep" /\ proxy' = "woken"
    \/ proxy = "starved" /\ proxy' = "body"

LEMMA WakedFacts ==
  ASSUME IInv, Waked
  PROVE  /\ proxy' \in {"start", "asleep", "woken", "run", "draw", "body", "starving",
                        "starved", "return", "exited"}
         /\ InBody' <=> InBody
         /\ Running' <=> Running
         /\ \A p \in {"draw", "return", "exited", "start"} : proxy' = p <=> proxy = p
         /\ proxy' \in {"start", "asleep", "woken"} <=> proxy \in {"start", "asleep", "woken"}
         /\ Stopped => proxy' = proxy
<1>1. Stopped => proxy \notin {"asleep", "starved"}
  BY DEF IInv, States
<1> QED
  BY <1>1 DEF Waked, IInv, ThreadsOK, InBody, Running

LEMMA WakeProxyWakes == ASSUME WakeProxy PROVE Waked
  BY DEF WakeProxy, Waked

\* What the emulation comes to after a step.
LEMMA AdvanceFacts ==
  ASSUME IInv, Advance, todo # <<>>
  PROVE  /\ cpu' = "run" /\ todo' \in Rests
         /\ todo' \in Seq(Items \cup {"wake", "wait", "present", "event", "clear", "stop"})
         /\ At("block")' <=> At("vram")
         /\ At("event")' => At("wait") \/ At("clear")
         /\ At("present")' => todo = <<"wait", "present">>
         /\ todo' = <<"wait", "present">> => At("flush")
<1>1. todo \in Rests /\ todo \in Seq(Items \cup {"wake", "wait", "present", "event", "clear", "stop"})
  BY DEF IInv, ThreadsOK
<1>2. todo' = Tail(todo) /\ cpu' = "run"
  BY DEF Advance
<1>3. Tail(todo) \in Seq(Items \cup {"wake", "wait", "present", "event", "clear", "stop"})
  BY <1>1, TailFacts
<1>4. PICK r : r = Tail(todo)
  OBVIOUS
<1>5. /\ r \in Rests
      /\ r # <<>> =>
           /\ Head(r) = "block" <=> Head(todo) = "vram"
           /\ Head(r) = "event" => Head(todo) \in {"wait", "clear"}
           /\ Head(r) = "present" => todo = <<"wait", "present">>
           /\ r = <<"wait", "present">> => Head(todo) = "flush"
      /\ Head(todo) = "vram" => r # <<>>
  BY <1>1, <1>4, RestsFacts, Zenon
<1>6. r = <<"wait", "present">> => r # <<>>
  OBVIOUS
<1> QED
  BY <1>2, <1>3, <1>4, <1>5, <1>6 DEF At

LEMMA StopIsLast == ASSUME IInv, At("stop") PROVE todo = <<"stop">>
  BY RestsFacts DEF IInv, At

\* A step of the emulation that is done without touching the queue: nothing is
\* lost but by a stopped thread, and no wait ends before the queue is empty.
LEMMA AdvancePreserves ==
  ASSUME IInv, Advance, todo # <<>>, cpu # "join", Waked,
         UNCHANGED <<queue, undrawn, threadState, event>>, ~event,
         At("vram") \/ At("block") \/ At("flush") => Stopped,
         At("wait") => queue = <<>> /\ cpu = "loop", ~At("clear")
  PROVE  IInv'
<1>1. /\ cpu' = "run" /\ todo' \in Rests
      /\ todo' \in Seq(Items \cup {"wake", "wait", "present", "event", "clear", "stop"})
      /\ At("block")' <=> At("vram")
      /\ At("event")' => At("wait") \/ At("clear")
      /\ At("present")' => todo = <<"wait", "present">>
      /\ todo' = <<"wait", "present">> => At("flush")
  BY AdvanceFacts
<1>2. /\ proxy' \in {"start", "asleep", "woken", "run", "draw", "body", "starving",
                     "starved", "return", "exited"}
      /\ InBody' <=> InBody
      /\ Running' <=> Running
      /\ \A p \in {"draw", "return", "exited", "start"} : proxy' = p <=> proxy = p
      /\ proxy' \in {"start", "asleep", "woken"} <=> proxy \in {"start", "asleep", "woken"}
      /\ Stopped => proxy' = proxy
  BY WakedFacts
<1>3. ThreadsOK'
  BY <1>1, <1>2 DEF IInv, ThreadsOK
<1>4. States'
  BY <1>1, <1>2 DEF IInv, States, Stopped
<1>5. Events'
  BY <1>1 DEF IInv, Events
<1>6. ~Stopped => (Pairs' /\ Counted')
  <2> SUFFICES ASSUME ~Stopped PROVE Pairs' /\ Counted'
    OBVIOUS
  <2>1. ~At("block") /\ ~At("block")'
    BY <1>1
  <2> QED
    BY <1>2, <2>1 DEF IInv, Pairs, Counted
<1>7. FrameFlushed'
  BY <1>1 DEF FrameFlushed, Stopped
<1>8. FrameDrawn'
  <2> SUFFICES ASSUME At("present")' PROVE undrawn = 0
    BY DEF FrameDrawn
  <2>1. todo = <<"wait", "present">> /\ At("wait")
    BY <1>1 DEF At
  <2> QED
    BY <2>1 DEF IInv, FrameFlushed
<1> QED
  BY <1>1, <1>3, <1>4, <1>5, <1>6, <1>7, <1>8 DEF IInv, Stopped

\* The emulation goes to sleep and wakes the proxy thread.
LEMMA SleepPreserves ==
  ASSUME IInv, Sleep, cpu \in {"run", "loop"}, UNCHANGED <<queue, undrawn, threadState>>,
         At("wait") => cpu = "loop", event' \in BOOLEAN, event' => At("event")
  PROVE  IInv'
<1>1. cpu' = "asleep" /\ UNCHANGED todo /\ Waked
  BY WakeProxyWakes DEF Sleep
<1>2. /\ proxy' \in {"start", "asleep", "woken", "run", "draw", "body", "starving",
                     "starved", "return", "exited"}
      /\ InBody' <=> InBody
      /\ Running' <=> Running
      /\ \A p \in {"draw", "return", "exited", "start"} : proxy' = p <=> proxy = p
      /\ proxy' \in {"start", "asleep", "woken"} <=> proxy \in {"start", "asleep", "woken"}
      /\ Stopped => proxy' = proxy
  BY <1>1, WakedFacts
<1>3. ThreadsOK'
  BY <1>1, <1>2 DEF IInv, ThreadsOK
<1>4. States'
  BY <1>1, <1>2 DEF IInv, States, Stopped
<1>5. Events'
  BY <1>1 DEF IInv, Events, At
<1>6. ~Stopped => (Pairs' /\ Counted')
  BY <1>1, <1>2 DEF IInv, Pairs, Counted, At
<1>7. FrameFlushed'
  BY <1>1 DEF IInv, FrameFlushed, Stopped, At
<1>8. FrameDrawn'
  BY <1>1 DEF IInv, FrameDrawn, At
<1> QED
  BY <1>1, <1>3, <1>4, <1>5, <1>6, <1>7, <1>8 DEF IInv, Stopped

\* With an empty queue everything starts anew.
LEMMA ClearPreserves ==
  ASSUME IInv, Clear, UNCHANGED event, ~event, cpu' = "run",
         todo' \in Rests,
         todo' \in Seq(Items \cup {"wake", "wait", "present", "event", "clear", "stop"}),
         ~At("block")', States',
         threadState' \in {"IDLE", "BUSY", "STOPPED"},
         proxy' \in {"start", "asleep", "woken", "return", "exited"}
  PROVE  IInv'
<1>1. queue' = <<>> /\ undrawn' = 0
  BY DEF Clear
<1>2. ThreadsOK'
  <2>1. <<>> \in Seq(Items) /\ Len(<<>>) = 0 /\ QueueLimit \in Nat
    BY QueueLimitAssumption
  <2> QED
    BY <1>1, <2>1 DEF ThreadsOK, IInv
<1>3. Events'
  BY <1>1 DEF Events
<1>4. Pairs'
  <2>1. ~InBody'
    BY DEF InBody
  <2>2. Len(queue') = 0
    BY <1>1
  <2> QED
    BY <1>1, <2>1, <2>2 DEF Pairs
<1>5. Counted'
  BY <1>1, DrawsEmpty DEF Counted
<1>6. FrameFlushed' /\ FrameDrawn'
  BY <1>1 DEF FrameFlushed, FrameDrawn
<1> QED
  BY <1>2, <1>3, <1>4, <1>5, <1>6 DEF IInv

-----------------------------------------------------------------------------
(* The emulation.                                                          *)

LEMMA CallsFacts ==
  Calls \subseteq Seq(Items \cup {"wake", "wait", "present", "event", "clear", "stop"})
<1> DEFINE S == Items \cup {"wake", "wait", "present", "event", "clear", "stop"}
<1>1. /\ "draw" \in S /\ "vram" \in S /\ "block" \in S /\ "flush" \in S /\ "wake" \in S
      /\ "wait" \in S /\ "present" \in S /\ "event" \in S /\ "clear" \in S /\ "stop" \in S
  BY DEF Items
<1> HIDE DEF S
<1>2. /\ <<"draw">> \in Seq(S) /\ <<"draw", "wake">> \in Seq(S)
      /\ <<"vram", "block", "draw", "wake">> \in Seq(S)
  BY <1>1
<1>3. /\ <<"draw", "flush", "wait", "present">> \in Seq(S) /\ <<"wait", "event">> \in Seq(S)
      /\ <<"clear", "event">> \in Seq(S) /\ <<"flush", "wait", "event", "stop">> \in Seq(S)
  BY <1>1
<1>4. Calls \subseteq Seq(S)
  <2>1. ASSUME NEW c \in Calls PROVE c \in Seq(S)
    BY <1>2, <1>3 DEF Calls, DrawScanline, FinishFrame, GetPixels, Reset, Deinit
  <2> QED
    BY <2>1
<1> QED
  BY <1>4 DEF S

LEMMA BeginCallPreserves ==
  ASSUME IInv, BeginCall PROVE IInv'
<1>1. cpu = "run" /\ todo = <<>> /\ todo' \in Calls /\ UNCHANGED <<shared, cpu, proxy>>
  BY DEF BeginCall
<1>2. UNCHANGED <<queue, threadState, event, undrawn, cpu, proxy>>
  BY <1>1 DEF shared
<1>3. todo' \in Rests /\ ~At("block")' /\ ~At("event")' /\ ~At("present")'
      /\ todo' # <<"wait", "present">>
  BY <1>1 DEF Calls, DrawScanline, FinishFrame, GetPixels, Reset, Deinit, Rests, At
<1>4. todo' \in Seq(Items \cup {"wake", "wait", "present", "event", "clear", "stop"})
  BY <1>1, CallsFacts
<1>5. ~At("block") /\ ~At("event")
  BY <1>1 DEF At
<1>6. ThreadsOK'
  BY <1>2, <1>4 DEF IInv, ThreadsOK
<1>7. States'
  BY <1>1, <1>2 DEF IInv, States, Running, InBody, Stopped
<1>8. Events'
  BY <1>2, <1>3, <1>5 DEF IInv, Events
<1>9. ~Stopped => (Pairs' /\ Counted')
  BY <1>2, <1>3, <1>5 DEF IInv, Pairs, Counted, InBody
<1>10. FrameFlushed' /\ FrameDrawn'
  BY <1>3 DEF FrameFlushed, FrameDrawn
<1> QED
  BY <1>2, <1>3, <1>6, <1>7, <1>8, <1>9, <1>10 DEF IInv, Stopped

\* An item is written.
LEMMA PutPreserves ==
  ASSUME IInv, todo # <<>>, Head(todo) \in Items, cpu = "run", Put,
         queue' = Append(queue, Head(todo)),
         undrawn' = undrawn + IF At("draw") THEN 1 ELSE 0,
         Advance, UNCHANGED <<threadState, event, proxy>>
  PROVE  IInv'
<1> DEFINE x == Head(todo)
<1>1. /\ cpu' = "run" /\ todo' \in Rests
      /\ todo' \in Seq(Items \cup {"wake", "wait", "present", "event", "clear", "stop"})
      /\ At("block")' <=> At("vram")
      /\ At("event")' => At("wait") \/ At("clear")
      /\ At("present")' => todo = <<"wait", "present">>
      /\ todo' = <<"wait", "present">> => At("flush")
  BY AdvanceFacts
<1>2. /\ queue \in Seq(Items) /\ x \in Items /\ undrawn \in Nat /\ QueueLimit \in Nat
      /\ \A step : At(step) <=> x = step
  BY QueueLimitAssumption DEF IInv, ThreadsOK, At
<1>3. /\ queue' \in Seq(Items) /\ queue' # <<>>
      /\ Len(queue) \in Nat /\ Len(queue') = Len(queue) + 1
      /\ queue'[Len(queue) + 1] = x
      /\ \A k \in 1 .. Len(queue) : queue'[k] = queue[k]
      /\ queue = <<>> <=> Len(queue) = 0
  BY <1>2, AppendFacts
<1>4. x # "wait" /\ x # "clear" /\ x # "event"
  BY <1>2 DEF Items
<1> HIDE DEF x
<1>5. ThreadsOK'
  BY <1>1, <1>2, <1>3 DEF IInv, ThreadsOK, Put
<1>6. States'
  BY <1>1 DEF IInv, States, Running, InBody, Stopped
<1>7. Events'
  BY <1>1, <1>2, <1>4 DEF IInv, Events
<1>8. ASSUME ~Stopped PROVE Pairs' /\ Counted'
  <2>1. Pairs /\ Counted
    BY <1>8 DEF IInv
  <2>2. x = "block" <=> IF queue = <<>> THEN InBody ELSE queue[Len(queue)] = "vram"
    BY <1>2, <2>1 DEF Pairs
  <2>3. InBody' <=> InBody
    BY DEF InBody
  <2>4. ASSUME NEW k \in 2 .. Len(queue')
        PROVE  queue'[k] = "block" <=> queue'[k - 1] = "vram"
    <3>1. CASE k \in 2 .. Len(queue)
      BY <1>3, <2>1, <3>1 DEF Pairs
    <3>2. CASE k = Len(queue) + 1
      BY <1>3, <2>2, <3>2
    <3> QED
      BY <1>3, <3>1, <3>2
  <2>5. queue'[1] = "block" <=> InBody
    <3>1. CASE queue = <<>>
      BY <1>3, <2>2, <3>1
    <3>2. CASE queue # <<>>
      BY <1>3, <2>1, <3>2 DEF Pairs
    <3> QED
      BY <3>1, <3>2
  <2>6. At("block")' <=> queue'[Len(queue')] = "vram"
    BY <1>1, <1>2, <1>3
  <2>7. Counted'
    <3>1. queue' = Append(queue, x) /\ undrawn' = undrawn + IF x = "draw" THEN 1 ELSE 0
      BY <1>2 DEF x
    <3>2. Draws(queue') = Draws(queue) + IF x = "draw" THEN 1 ELSE 0
      BY <1>2, <3>1, DrawsAppend
    <3>3. Draws(queue) \in Nat
      BY <1>2, DrawsFinite
    <3> QED
      BY <2>1, <3>1, <3>2, <3>3 DEF Counted
  <2> QED
    BY <1>3, <2>3, <2>4, <2>5, <2>6, <2>7 DEF Pairs
<1>9. FrameFlushed'
  BY <1>1, <1>2, <1>3 DEF FrameFlushed
<1>10. FrameDrawn'
  BY <1>1, <1>2, <1>4 DEF FrameDrawn, At, x
<1> QED
  BY <1>1, <1>5, <1>6, <1>7, <1>8, <1>9, <1>10 DEF IInv, Stopped

LEMMA WriteDataPreserves ==
  ASSUME IInv, WriteData PROVE IInv'
<1>1. todo # <<>> /\ Head(todo) \in Items /\ ~At("event") /\ ~At("wait") /\ ~At("clear")
  BY DEF WriteData, Items, At
<1>2. ~event
  BY <1>1 DEF IInv, Events
<1>3. CASE /\ cpu = "run" /\ Put
           /\ queue' = Append(queue, Head(todo))
           /\ undrawn' = undrawn + IF At("draw") THEN 1 ELSE 0
           /\ Advance
           /\ UNCHANGED <<threadState, event, proxy>>
  BY <1>1, <1>3, PutPreserves
<1>4. CASE /\ cpu = "run" /\ Refuse /\ cpu' = "loop" /\ UNCHANGED <<shared, todo, proxy>>
  <2>1. UNCHANGED <<queue, threadState, event, undrawn, todo, proxy>>
    BY <1>4 DEF shared
  <2>2. ThreadsOK'
    BY <1>4, <2>1 DEF IInv, ThreadsOK
  <2>3. States'
    BY <1>4, <2>1 DEF IInv, States, Running, InBody, Stopped
  <2>4. Events' /\ FrameFlushed' /\ FrameDrawn'
    BY <1>1, <1>2, <1>4, <2>1 DEF IInv, Events, FrameFlushed, FrameDrawn, At
  <2>5. ~Stopped => (Pairs' /\ Counted')
    BY <2>1 DEF IInv, Pairs, Counted, InBody, At
  <2> QED
    BY <2>1, <2>2, <2>3, <2>4, <2>5 DEF IInv, Stopped
<1>5. CASE /\ cpu = "loop"
           /\ IF threadState = "STOPPED" THEN Advance /\ UNCHANGED proxy ELSE Sleep
           /\ UNCHANGED <<queue, threadState, event, undrawn>>
  <2>1. UNCHANGED <<queue, threadState, event, undrawn>>
    BY <1>5
  <2>2. CASE Stopped
    <3>1. Advance /\ Waked
      BY <1>5, <2>2 DEF Stopped, Waked
    <3> QED
      BY <1>1, <1>2, <1>5, <2>1, <2>2, <3>1, AdvancePreserves
  <2>3. CASE ~Stopped
    <3>1. Sleep /\ event' \in BOOLEAN /\ ~event'
      BY <1>2, <1>5, <2>1, <2>3 DEF Stopped, IInv, ThreadsOK
    <3> QED
      BY <1>1, <1>5, <2>1, <3>1, SleepPreserves
  <2> QED
    BY <2>2, <2>3
<1> QED
  BY <1>3, <1>4, <1>5 DEF WriteData

\* A wake-up, or the use of a frame.
LEMMA PlainStepPreserves ==
  ASSUME IInv, Wake \/ Present PROVE IInv'
<1>1. /\ Advance /\ UNCHANGED <<queue, undrawn, threadState, event>>
      /\ At("wake") \/ At("present")
  BY DEF Wake, Present, shared
<1>2. Waked
  BY WakeProxyWakes DEF Wake, Present, Waked
<1>3. /\ todo # <<>> /\ ~At("vram") /\ ~At("block") /\ ~At("flush") /\ ~At("wait") /\ ~At("clear")
      /\ ~At("event") /\ ~At("stop")
  BY <1>1 DEF At
<1>4. todo = <<"stop">> => At("stop")
  BY DEF At
<1>5. ~event /\ cpu # "join"
  BY <1>3, <1>4 DEF IInv, Events, States
<1> QED
  BY <1>1, <1>2, <1>3, <1>5, AdvancePreserves

\* The thread that has stopped is replaced.
LEMMA RecoverPreserves ==
  ASSUME IInv, Recover, ~event, cpu' = "run", todo' \in Rests,
         todo' \in Seq(Items \cup {"wake", "wait", "present", "event", "clear", "stop"}),
         ~At("block")'
  PROVE  IInv'
<1>1. proxy' = "start" /\ threadState' = "IDLE" /\ Clear /\ UNCHANGED event
  BY DEF Recover
<1>2. States'
  BY <1>1 DEF States, Running, InBody, Stopped
<1> QED
  BY <1>1, <1>2, ClearPreserves

LEMMA WaitBeginPreserves ==
  ASSUME IInv, WaitBegin PROVE IInv'
<1>1. todo # <<>> /\ ~At("vram") /\ ~At("event") /\ ~event /\ At("wait") /\ cpu = "run"
  BY DEF WaitBegin, IInv, Events, At
<1>2. CASE Stopped
  <2>1. Recover /\ Advance
    BY <1>2 DEF WaitBegin, Stopped
  <2>2. /\ cpu' = "run" /\ todo' \in Rests
        /\ todo' \in Seq(Items \cup {"wake", "wait", "present", "event", "clear", "stop"})
        /\ At("block")' <=> At("vram")
    BY <1>1, <2>1, AdvanceFacts
  <2> QED
    BY <1>1, <2>1, <2>2, RecoverPreserves
<1>3. CASE ~Stopped
  <2>1. cpu' = "loop" /\ UNCHANGED <<queue, threadState, event, undrawn, todo, proxy>>
    BY <1>3 DEF WaitBegin, Stopped, shared
  <2>2. ThreadsOK'
    BY <2>1 DEF IInv, ThreadsOK
  <2>3. States'
    BY <1>3, <2>1 DEF IInv, States, Running, InBody, Stopped
  <2>4. Events' /\ FrameFlushed' /\ FrameDrawn'
    BY <1>1, <1>3, <2>1 DEF IInv, Events, FrameFlushed, FrameDrawn, At, Stopped
  <2>5. Pairs' /\ Counted'
    BY <1>3, <2>1 DEF IInv, Pairs, Counted, InBody, At
  <2> QED
    BY <2>1, <2>2, <2>3, <2>4, <2>5 DEF IInv, Stopped
<1> QED
  BY <1>2, <1>3

LEMMA WaitLoopPreserves ==
  ASSUME IInv, WaitLoop PROVE IInv'
<1>1. /\ todo # <<>> /\ At("wait") /\ cpu = "loop" /\ ~event
      /\ ~At("vram") /\ ~At("block") /\ ~At("flush") /\ ~At("clear")
      /\ UNCHANGED <<queue, undrawn, threadState, event>>
  BY DEF WaitLoop, IInv, Events, At, shared
<1>2. CASE queue = <<>>
  <2>1. Advance /\ Waked
    BY <1>2 DEF WaitLoop, Waked
  <2> QED
    BY <1>1, <1>2, <2>1, AdvancePreserves
<1>3. CASE queue # <<>>
  <2>1. Sleep /\ event' \in BOOLEAN /\ ~event'
    BY <1>1, <1>3 DEF WaitLoop, IInv, ThreadsOK
  <2> QED
    BY <1>1, <2>1, SleepPreserves
<1> QED
  BY <1>2, <1>3

LEMMA PostEventPreserves ==
  ASSUME IInv, PostEvent PROVE IInv'
<1>1. /\ todo # <<>> /\ At("event")
      /\ ~At("wait") /\ ~At("vram") /\ ~At("block") /\ ~At("flush") /\ ~At("clear")
      /\ UNCHANGED <<queue, undrawn, threadState>>
  BY DEF PostEvent, At
<1>2. CASE cpu \in {"run", "loop"} /\ Sleep /\ event' \in BOOLEAN
  BY <1>1, <1>2, SleepPreserves
<1>3. CASE cpu = "loop" /\ ~event /\ Advance /\ UNCHANGED <<proxy, event>>
  <2>1. Waked
    BY <1>3 DEF Waked
  <2> QED
    BY <1>1, <1>3, <2>1, AdvancePreserves
<1>4. event \in BOOLEAN
  BY DEF IInv, ThreadsOK
<1> QED
  BY <1>2, <1>3, <1>4 DEF PostEvent

LEMMA ClearQueuePreserves ==
  ASSUME IInv, ClearQueue PROVE IInv'
<1>1. /\ todo # <<>> /\ At("clear") /\ ~At("wait") /\ ~At("vram") /\ ~At("event") /\ ~event
      /\ cpu \in {"run", "loop"} /\ UNCHANGED <<threadState, event>>
  BY DEF ClearQueue, IInv, Events, At
<1>2. CASE threadState = "BUSY"
  <2>1. Sleep /\ UNCHANGED <<queue, undrawn, threadState>> /\ event' \in BOOLEAN /\ ~event'
    BY <1>1, <1>2 DEF ClearQueue, IInv, ThreadsOK
  <2> QED
    BY <1>1, <2>1, SleepPreserves
<1>3. CASE threadState # "BUSY"
  <2>1. Clear /\ Advance /\ UNCHANGED proxy
    BY <1>3 DEF ClearQueue
  <2>2. /\ cpu' = "run" /\ todo' \in Rests
        /\ todo' \in Seq(Items \cup {"wake", "wait", "present", "event", "clear", "stop"})
        /\ At("block")' <=> At("vram")
    BY <1>1, <2>1, AdvanceFacts
  <2>3. proxy \in {"start", "asleep", "woken", "return", "exited"}
        /\ threadState \in {"IDLE", "BUSY", "STOPPED"}
    BY <1>3 DEF IInv, States, Running, InBody, ThreadsOK
  <2>4. States'
    BY <1>1, <2>1, <2>2 DEF IInv, States, Running, InBody, Stopped
  <2> QED
    BY <1>1, <2>1, <2>2, <2>3, <2>4, ClearPreserves
<1> QED
  BY <1>2, <1>3

LEMMA StopPreserves ==
  ASSUME IInv, Stop \/ Join PROVE IInv'
<1>1. todo = <<"stop">> /\ UNCHANGED <<queue, undrawn, event>>
  BY StopIsLast DEF Stop, Join, IInv, States, shared
<1>2. ~At("event") /\ ~At("wait") /\ ~At("block") /\ ~At("present") /\ ~event
      /\ todo # <<"wait", "present">>
  BY <1>1 DEF IInv, Events, At
<1>3. CASE threadState = "BUSY" /\ Stop
  <2>1. Sleep /\ cpu \in {"run", "loop"} /\ UNCHANGED threadState /\ event' \in BOOLEAN /\ ~event'
    BY <1>1, <1>2, <1>3 DEF Stop, IInv, ThreadsOK
  <2> QED
    BY <1>1, <1>2, <2>1, SleepPreserves
<1>4. CASE ~(threadState = "BUSY" /\ Stop)
  <2>1. /\ UNCHANGED todo /\ cpu' \in {"join", "off"} /\ threadState' = "STOPPED"
        /\ proxy' \in {"start", "asleep", "woken", "run", "draw", "body", "starving",
                       "starved", "return", "exited"}
        /\ cpu' = "off" => proxy' \in {"return", "exited"}
        /\ proxy' \in {"start", "woken", "return", "exited"}
    <3>1. CASE Stop /\ threadState = "IDLE"
      <4>1. proxy \in {"start", "asleep", "woken"}
        BY <3>1 DEF IInv, States, Running, InBody, Stopped, ThreadsOK
      <4> QED
        BY <3>1, <4>1 DEF Stop, WakeProxy
    <3>2. CASE Stop /\ threadState = "STOPPED"
      <4>1. proxy \in {"return", "exited"}
        BY <3>2 DEF Stop, IInv, States, Stopped
      <4> QED
        BY <3>2, <4>1 DEF Stop
    <3>3. CASE Join
      BY <3>3 DEF Join, shared, IInv, States, Stopped
    <3>4. threadState \in {"IDLE", "BUSY", "STOPPED"}
      BY DEF IInv, ThreadsOK
    <3> QED
      BY <1>4, <3>1, <3>2, <3>3, <3>4
  <2>2. ThreadsOK'
    BY <1>1, <2>1 DEF IInv, ThreadsOK
  <2>3. States'
    BY <1>1, <2>1 DEF States, Running, InBody, Stopped
  <2>4. Events' /\ FrameFlushed' /\ FrameDrawn'
    BY <1>1, <1>2, <2>1 DEF IInv, Events, FrameFlushed, FrameDrawn, At
  <2> QED
    BY <2>1, <2>2, <2>3, <2>4 DEF IInv, Stopped
<1> QED
  BY <1>3, <1>4

LEMMA InitAgainPreserves ==
  ASSUME IInv, InitAgain PROVE IInv'
<1>1. Recover /\ cpu = "off" /\ todo' = Reset /\ cpu' = "run"
  BY DEF InitAgain
<1>2. ~event
  BY <1>1 DEF IInv, Events
<1>3. todo' \in Rests /\ ~At("block")'
  BY <1>1 DEF Reset, Rests, At
<1>4. todo' \in Seq(Items \cup {"wake", "wait", "present", "event", "clear", "stop"})
  BY <1>1, CallsFacts DEF Calls
<1> QED
  BY <1>1, <1>2, <1>3, <1>4, RecoverPreserves

-----------------------------------------------------------------------------
(* The proxy thread.                                                       *)

LEMMA WakeCpuFacts ==
  ASSUME IInv, WakeCpu
  PROVE  /\ cpu' \in {"run", "loop", "asleep", "join", "off"}
         /\ cpu' = cpu \/ (cpu = "asleep" /\ cpu' \in {"run", "loop"})
         /\ cpu = "asleep" /\ (At("event") \/ At("wait")) => cpu' = "loop"
  BY DEF WakeCpu, IInv, ThreadsOK, At, Items

LEMMA EndTurnPreserves ==
  ASSUME IInv, EndTurn, proxy \in {"start", "return"} \/ (proxy = "woken" /\ ~Stopped),
         UNCHANGED <<queue, undrawn, todo>>, event' \in BOOLEAN, event' => event
  PROVE  IInv'
<1>1. /\ cpu' \in {"run", "loop", "asleep", "join", "off"}
      /\ cpu' = cpu \/ (cpu = "asleep" /\ cpu' \in {"run", "loop"})
      /\ cpu = "asleep" /\ (At("event") \/ At("wait")) => cpu' = "loop"
  BY WakeCpuFacts DEF EndTurn
<1>2. \/ Stopped /\ threadState' = "STOPPED" /\ proxy' = "exited"
      \/ ~Stopped /\ threadState' = "IDLE" /\ proxy' = "asleep"
  BY DEF EndTurn, Stopped
<1>3. ThreadsOK'
  BY <1>1, <1>2 DEF IInv, ThreadsOK
<1>4. States'
  BY <1>1, <1>2 DEF IInv, States, Running, InBody, Stopped
<1>5. Events'
  BY <1>1 DEF IInv, Events, At
<1>6. ~Stopped' => (Pairs' /\ Counted')
  <2>1. ~InBody /\ ~InBody' /\ proxy # "draw" /\ proxy' # "draw"
    BY <1>2 DEF InBody
  <2> QED
    BY <1>2, <2>1 DEF IInv, Pairs, Counted, At, Stopped
<1>7. FrameFlushed'
  <2>1. todo = <<"wait", "present">> => At("wait")
    BY DEF At
  <2> QED
    BY <1>1, <1>2, <2>1 DEF IInv, FrameFlushed, Stopped
<1>8. FrameDrawn'
  BY DEF IInv, FrameDrawn, At
<1> QED
  BY <1>3, <1>4, <1>5, <1>6, <1>7, <1>8 DEF IInv

\* A step between two turns, or within one, that reads nothing.
LEMMA WokenPreserves ==
  ASSUME IInv, Woken PROVE IInv'
<1>1. proxy = "woken" /\ UNCHANGED <<queue, undrawn, todo>>
  BY DEF Woken
<1>2. CASE Stopped
  <2>1. proxy' = "exited" /\ UNCHANGED <<queue, undrawn, todo, threadState, event, cpu>>
    BY <1>1, <1>2 DEF Woken, Stopped
  <2>2. ThreadsOK'
    BY <2>1 DEF IInv, ThreadsOK
  <2>3. States'
    BY <1>2, <2>1 DEF IInv, States, Running, InBody, Stopped
  <2>4. Events' /\ FrameFlushed' /\ FrameDrawn'
    BY <2>1 DEF IInv, Events, FrameFlushed, FrameDrawn, At, Stopped
  <2> QED
    BY <1>2, <2>1, <2>2, <2>3, <2>4 DEF IInv, Stopped
<1>3. CASE ~Stopped /\ event
  <2>1. EndTurn /\ event' = FALSE
    BY <1>3 DEF Woken, Stopped
  <2> QED
    BY <1>1, <1>3, <2>1, EndTurnPreserves
<1>4. CASE ~Stopped /\ ~event
  <2>1. /\ proxy' = "run" /\ threadState' = "BUSY"
        /\ UNCHANGED <<queue, undrawn, todo, event, cpu>>
    BY <1>1, <1>4 DEF Woken, Stopped
  <2>2. ThreadsOK'
    BY <2>1 DEF IInv, ThreadsOK
  <2>3. States'
    BY <1>1, <1>4, <2>1 DEF IInv, States, Running, InBody, Stopped
  <2>4. Events' /\ FrameFlushed' /\ FrameDrawn'
    BY <1>4, <2>1 DEF IInv, Events, FrameFlushed, FrameDrawn, At, Stopped
  <2>5. Pairs' /\ Counted'
    BY <1>1, <1>4, <2>1 DEF IInv, Pairs, Counted, InBody, At
  <2> QED
    BY <2>1, <2>2, <2>3, <2>4, <2>5 DEF IInv
<1> QED
  BY <1>2, <1>3, <1>4

\* An item is taken out of the queue, by a thread that is busy.
LEMMA TakePreserves ==
  ASSUME IInv, queue # <<>>, queue' = Tail(queue), UNCHANGED <<event, todo, cpu, undrawn>>,
         ~Stopped, States',
         threadState' \in {"IDLE", "BUSY", "STOPPED"},
         proxy' \in {"run", "draw", "body", "return"}, proxy # "draw",
         IF Stopped' THEN proxy = "run"
         ELSE InBody' <=> Head(queue) = "vram",
         ~Stopped' => (proxy' = "draw" <=> Head(queue) = "draw")
  PROVE  IInv'
<1>1. queue \in Seq(Items) /\ Pairs /\ Counted /\ FrameFlushed /\ undrawn \in Nat
      /\ QueueLimit \in Nat /\ Len(queue) <= QueueLimit
  BY QueueLimitAssumption DEF IInv, ThreadsOK
<1>2. /\ Len(queue) \in Nat /\ Len(queue) >= 1 /\ Head(queue) = queue[1]
      /\ queue' \in Seq(Items) /\ Len(queue') = Len(queue) - 1
      /\ \A k \in 1 .. Len(queue) - 1 : queue'[k] = queue[k + 1]
      /\ queue' = <<>> <=> Len(queue) = 1
      /\ queue' # <<>> => queue'[Len(queue')] = queue[Len(queue)]
  BY <1>1, TailFacts
<1>3. Draws(queue') = Draws(queue) - (IF Head(queue) = "draw" THEN 1 ELSE 0)
      /\ Draws(queue) \in Nat /\ Draws(queue') \in Nat
  BY <1>1, <1>2, DrawsTail, DrawsFinite
<1>4. ThreadsOK'
  BY <1>1, <1>2 DEF IInv, ThreadsOK
<1>5. Events'
  BY DEF IInv, Events, At
<1>6. ASSUME ~Stopped' PROVE Pairs' /\ Counted'
  <2>1. ASSUME NEW k \in 2 .. Len(queue')
        PROVE  queue'[k] = "block" <=> queue'[k - 1] = "vram"
    <3>1. k + 1 \in 2 .. Len(queue) /\ queue'[k] = queue[k + 1] /\ queue'[k - 1] = queue[k]
          /\ (k + 1) - 1 = k
      BY <1>2
    <3> QED
      BY <1>1, <3>1 DEF Pairs
  <2>2. ASSUME queue' # <<>> PROVE queue'[1] = "block" <=> InBody'
    <3>1. 2 \in 2 .. Len(queue) /\ queue'[1] = queue[2] /\ 2 - 1 = 1
      BY <1>2, <2>2
    <3>2. queue[2] = "block" <=> queue[1] = "vram"
      BY <1>1, <3>1 DEF Pairs
    <3> QED
      BY <1>2, <1>6, <3>1, <3>2
  <2>3. At("block")' <=> IF queue' = <<>> THEN InBody' ELSE queue'[Len(queue')] = "vram"
    <3>1. At("block")' <=> queue[Len(queue)] = "vram"
      BY <1>1 DEF Pairs, At
    <3> QED
      BY <1>2, <1>6, <3>1
  <2>4. Counted'
    BY <1>1, <1>3, <1>6 DEF Counted
  <2> QED
    BY <2>1, <2>2, <2>3, <2>4 DEF Pairs
<1>7. FrameFlushed'
  <2> SUFFICES ASSUME todo' = <<"wait", "present">>, Stopped' => cpu' # "run"
               PROVE  IF queue' = <<>> THEN undrawn' = 0 ELSE queue'[Len(queue')] = "flush"
    BY DEF FrameFlushed
  <2>1. queue[Len(queue)] = "flush"
    BY <1>1 DEF FrameFlushed
  <2>2. CASE queue' = <<>>
    <3>1. Draws(queue') = 0 /\ Head(queue) # "draw"
      BY <1>2, <2>1, <2>2, DrawsEmpty
    <3>2. undrawn = Draws(queue)
      BY <1>1, <1>3 DEF Counted
    <3> QED
      BY <1>3, <2>2, <3>1, <3>2
  <2> QED
    BY <1>2, <2>1, <2>2
<1>8. FrameDrawn'
  BY DEF IInv, FrameDrawn, At
<1> QED
  BY <1>4, <1>5, <1>6, <1>7, <1>8 DEF IInv

LEMMA ReadItemPreserves ==
  ASSUME IInv, ReadItem PROVE IInv'
<1>1. /\ proxy = "run" /\ queue # <<>> /\ queue' = Tail(queue)
      /\ UNCHANGED <<threadState, event, undrawn, todo, cpu>>
      /\ proxy' = CASE Head(queue) = "vram" -> "body"
                    [] Head(queue) = "flush" -> "return"
                    [] OTHER -> "draw"
  BY DEF ReadItem
<1>2. threadState = "BUSY" /\ ~Stopped
  BY <1>1 DEF IInv, States, Running, Stopped
<1>3. Head(queue) \in Items /\ Head(queue) # "block"
  <2>1. queue \in Seq(Items) /\ ~InBody /\ queue[1] # "block"
    BY <1>1, <1>2 DEF IInv, ThreadsOK, Pairs, InBody
  <2> QED
    BY <1>1, <2>1, TailFacts
<1>4. /\ proxy' \in {"run", "draw", "body", "return"}
      /\ InBody' <=> Head(queue) = "vram"
      /\ proxy' = "draw" <=> Head(queue) = "draw"
  <2>1. \/ Head(queue) = "vram" /\ proxy' = "body"
        \/ Head(queue) = "flush" /\ proxy' = "return"
        \/ Head(queue) = "draw" /\ proxy' = "draw"
    BY <1>1, <1>3 DEF Items
  <2>2. CASE Head(queue) = "vram" /\ proxy' = "body"
    BY <2>2 DEF InBody
  <2>3. CASE Head(queue) = "flush" /\ proxy' = "return"
    BY <2>3 DEF InBody
  <2>4. CASE Head(queue) = "draw" /\ proxy' = "draw"
    BY <2>4 DEF InBody
  <2> QED
    BY <2>1, <2>2, <2>3, <2>4
<1>5. States'
  BY <1>1, <1>2, <1>4 DEF IInv, States, Running, InBody, Stopped
<1> QED
  BY <1>1, <1>2, <1>4, <1>5, TakePreserves DEF Stopped

LEMMA DrawPreserves ==
  ASSUME IInv, Draw PROVE IInv'
<1>1. /\ proxy = "draw" /\ proxy' = "run" /\ undrawn' = undrawn - 1
      /\ UNCHANGED <<queue, threadState, event, todo, cpu>>
  BY DEF Draw
<1>2. threadState = "BUSY" /\ ~Stopped
  BY <1>1 DEF IInv, States, Running, Stopped
<1>3. undrawn = Draws(queue) + 1 /\ Draws(queue) \in Nat
  BY <1>1, <1>2, DrawsFinite DEF IInv, ThreadsOK, Counted
<1>4. undrawn' = Draws(queue) /\ undrawn' \in Nat /\ undrawn # 0
  BY <1>1, <1>3
<1>5. ThreadsOK'
  BY <1>1, <1>4 DEF IInv, ThreadsOK
<1>6. States'
  BY <1>1, <1>2 DEF IInv, States, Running, InBody, Stopped
<1>7. Events'
  BY <1>1 DEF IInv, Events, At
<1>8. Pairs'
  BY <1>1, <1>2 DEF IInv, Pairs, InBody, At
<1>9. Counted'
  BY <1>1, <1>4 DEF Counted
<1>10. FrameFlushed' /\ FrameDrawn'
  BY <1>1, <1>2, <1>4 DEF IInv, FrameFlushed, FrameDrawn, At, Stopped
<1> QED
  BY <1>1, <1>5, <1>6, <1>7, <1>8, <1>9, <1>10 DEF IInv

LEMMA ReadBlockPreserves ==
  ASSUME IInv, ReadBlock PROVE IInv'
<1>1. /\ proxy \in {"body", "starving"} /\ InBody /\ threadState = "BUSY" /\ ~Stopped
      /\ UNCHANGED <<threadState, event, undrawn, todo>>
  BY DEF ReadBlock, IInv, States, Running, InBody, Stopped
<1>2. CASE queue' = Tail(queue) /\ queue # <<>> /\ proxy' = "run" /\ cpu' = cpu
  <2>1. Head(queue) = "block"
    <3>1. queue \in Seq(Items) /\ queue[1] = "block"
      BY <1>1, <1>2 DEF IInv, ThreadsOK, Pairs
    <3> QED
      BY <1>2, <3>1, TailFacts
  <2>2. States'
    BY <1>1, <1>2 DEF IInv, States, Running, InBody, Stopped
  <2>3. threadState' \in {"IDLE", "BUSY", "STOPPED"} /\ ~Stopped' /\ ~InBody' /\ proxy # "draw"
    BY <1>1, <1>2 DEF Stopped, InBody
  <2> QED
    BY <1>1, <1>2, <2>1, <2>2, <2>3, TakePreserves
<1>3. CASE /\ UNCHANGED queue /\ proxy' \in {"starving", "starved"}
           /\ cpu' = cpu \/ WakeCpu
  <2>1. /\ cpu' \in {"run", "loop", "asleep", "join", "off"}
        /\ cpu' = cpu \/ (cpu = "asleep" /\ cpu' \in {"run", "loop"})
        /\ cpu' # cpu /\ (At("event") \/ At("wait")) => cpu' = "loop"
    BY <1>3, WakeCpuFacts DEF IInv, ThreadsOK
  <2>2. ThreadsOK'
    BY <1>1, <1>3, <2>1 DEF IInv, ThreadsOK
  <2>3. States'
    BY <1>1, <1>3, <2>1 DEF IInv, States, Running, InBody, Stopped
  <2>4. Events'
    BY <1>1, <1>3, <2>1 DEF IInv, Events, At
  <2>5. FrameFlushed' /\ FrameDrawn'
    BY <1>1, <1>3 DEF IInv, FrameFlushed, FrameDrawn, At
  <2>6. Pairs' /\ Counted'
    BY <1>1, <1>3 DEF IInv, Pairs, Counted, InBody, At
  <2> QED
    BY <1>1, <2>2, <2>3, <2>4, <2>5, <2>6 DEF IInv
<1> QED
  BY <1>2, <1>3 DEF ReadBlock

LEMMA RunEndsPreserves ==
  ASSUME IInv, RunEnds PROVE IInv'
<1>1. /\ proxy = "run" /\ proxy' = "return" /\ threadState = "BUSY" /\ ~Stopped
      /\ UNCHANGED <<event, undrawn, todo, cpu>>
  BY DEF RunEnds, IInv, States, Running, Stopped
<1>2. CASE queue # <<>> /\ queue' = Tail(queue) /\ threadState' = "STOPPED"
  <2>1. States' /\ Stopped' /\ proxy # "draw"
    BY <1>1, <1>2 DEF IInv, States, Running, InBody, Stopped
  <2> QED
    BY <1>1, <1>2, <2>1, TakePreserves
<1>3. CASE UNCHANGED <<queue, threadState>>
  <2>1. ThreadsOK'
    BY <1>1, <1>3 DEF IInv, ThreadsOK
  <2>2. States'
    BY <1>1, <1>3 DEF IInv, States, Running, InBody, Stopped
  <2>3. Events' /\ FrameFlushed' /\ FrameDrawn'
    BY <1>1, <1>3 DEF IInv, Events, FrameFlushed, FrameDrawn, At, Stopped
  <2>4. Pairs' /\ Counted'
    BY <1>1, <1>3 DEF IInv, Pairs, Counted, InBody, At
  <2> QED
    BY <1>1, <2>1, <2>2, <2>3, <2>4 DEF IInv
<1> QED
  BY <1>2, <1>3 DEF RunEnds

-----------------------------------------------------------------------------
(* What holds in every state.                                              *)

LEMMA InitIInv == Init => IInv
<1> SUFFICES ASSUME Init PROVE IInv
  OBVIOUS
<1>1. /\ todo \in Rests /\ ~At("event") /\ ~At("block") /\ ~At("present")
      /\ todo # <<"wait", "present">>
  BY DEF Init, Reset, Rests, At
<1>2. ThreadsOK
  <2>1. todo \in Seq(Items \cup {"wake", "wait", "present", "event", "clear", "stop"})
    BY CallsFacts DEF Init, Calls
  <2>2. queue \in Seq(Items) /\ Len(queue) <= QueueLimit
    BY QueueLimitAssumption DEF Init
  <2> QED
    BY <2>1, <2>2 DEF Init, ThreadsOK
<1>3. States /\ Events
  BY <1>1 DEF Init, States, Events, Running, InBody, Stopped
<1>4. Pairs
  BY <1>1 DEF Init, Pairs, InBody
<1>5. Counted
  BY DrawsEmpty DEF Init, Counted
<1>6. FrameFlushed /\ FrameDrawn
  BY <1>1 DEF FrameFlushed, FrameDrawn
<1> QED
  BY <1>1, <1>2, <1>3, <1>4, <1>5, <1>6 DEF IInv

LEMMA NextIInv == IInv /\ [Next]_vars => IInv'
<1> SUFFICES ASSUME IInv, [Next]_vars PROVE IInv'
  OBVIOUS
<1>1. CASE BeginCall
  BY <1>1, BeginCallPreserves
<1>2. CASE WriteData
  BY <1>2, WriteDataPreserves
<1>3. CASE Wake \/ Present
  BY <1>3, PlainStepPreserves
<1>4. CASE WaitBegin
  BY <1>4, WaitBeginPreserves
<1>5. CASE WaitLoop
  BY <1>5, WaitLoopPreserves
<1>6. CASE PostEvent
  BY <1>6, PostEventPreserves
<1>7. CASE ClearQueue
  BY <1>7, ClearQueuePreserves
<1>8. CASE Stop \/ Join
  BY <1>8, StopPreserves
<1>9. CASE InitAgain
  BY <1>9, InitAgainPreserves
<1>10. CASE Start \/ Return
  <2>1. /\ EndTurn /\ proxy \in {"start", "return"}
        /\ UNCHANGED <<queue, undrawn, todo>> /\ event' \in BOOLEAN /\ (event' => event)
    BY <1>10 DEF Start, Return, IInv, ThreadsOK
  <2> QED
    BY <2>1, EndTurnPreserves, Zenon
<1>11. CASE Woken
  BY <1>11, WokenPreserves
<1>12. CASE ReadItem
  BY <1>12, ReadItemPreserves
<1>13. CASE Draw
  BY <1>13, DrawPreserves
<1>14. CASE ReadBlock
  BY <1>14, ReadBlockPreserves
<1>15. CASE RunEnds
  BY <1>15, RunEndsPreserves
<1>16. CASE UNCHANGED vars
  BY <1>16 DEF vars, shared, IInv, ThreadsOK, States, Events, Pairs, Counted, FrameFlushed,
               FrameDrawn, Running, InBody, Stopped, At
<1> QED
  BY <1>1, <1>2, <1>3, <1>4, <1>5, <1>6, <1>7, <1>8, <1>9, <1>10, <1>11, <1>12, <1>13,
     <1>14, <1>15, <1>16 DEF Next, CpuStep, ProxyStep

LEMMA Invariance == Spec => []IInv
  BY InitIInv, NextIInv, PTL DEF Spec

-----------------------------------------------------------------------------
(* What becomes of a frame when the thread has stopped.                    *)

\* What was given up is not forgotten until the thread was replaced, and it is
\* replaced before the wait at the end of the frame is over.
Mended ==
    /\ frame \in Frames
    /\ frame = "broken" => Stopped /\ ~At("present") /\ (At("wait") => cpu = "run")

LEMMA MendedPreserved ==
  ASSUME IInv, Mended, [Next]_vars PROVE Mended'
<1>1. ASSUME Advance, todo # <<>>
      PROVE  cpu' = "run" /\ (At("present")' => todo = <<"wait", "present">>)
  BY <1>1, AdvanceFacts
<1>2. todo = <<"wait", "present">> => At("wait")
  BY DEF At
<1>3. CASE BeginCall
  <2>1. cpu' = "run" /\ todo' \in Calls /\ UNCHANGED <<threadState, frame>>
    BY <1>3 DEF BeginCall, shared
  <2>2. ~At("present")'
    BY <2>1 DEF Calls, DrawScanline, FinishFrame, GetPixels, Reset, Deinit, At
  <2> QED
    BY <2>1, <2>2 DEF Mended, Stopped
<1>4. CASE WriteData
  <2>1. /\ todo # <<>> /\ ~At("wait") /\ ~At("present")
        /\ UNCHANGED threadState
        /\ frame' = frame \/ (frame' = "broken" /\ Stopped)
        /\ Advance \/ UNCHANGED todo
    BY <1>4 DEF WriteData, Items, At, shared, Sleep, Stopped
  <2>2. ~At("present")' /\ (At("wait")' => cpu' = "run")
    BY <1>1, <1>2, <2>1 DEF At
  <2> QED
    BY <2>1, <2>2 DEF Mended, Stopped, Frames
<1>5. CASE Wake \/ PostEvent \/ Stop \/ Join
  <2>1. /\ ~At("wait") /\ ~At("present") /\ UNCHANGED frame
        /\ (Advance /\ todo # <<>>) \/ UNCHANGED todo
    BY <1>5, StopIsLast DEF Wake, PostEvent, Stop, Join, IInv, States, At, shared, Sleep
  <2>2. ~At("present")' /\ (At("wait")' => cpu' = "run")
    BY <1>1, <1>2, <2>1 DEF At
  <2>3. Stopped => Stopped'
    BY <1>5 DEF Wake, PostEvent, Stop, Join, shared, Stopped
  <2> QED
    BY <2>1, <2>2, <2>3 DEF Mended
<1>6. CASE Present
  BY <1>6 DEF Present, Mended, Frames
<1>7. CASE InitAgain \/ (WaitBegin /\ Stopped)
  BY <1>7 DEF InitAgain, WaitBegin, Recover, Stopped, Mended, Frames
<1>8. CASE (WaitBegin /\ ~Stopped) \/ WaitLoop
  BY <1>8 DEF WaitBegin, WaitLoop, shared, Stopped, Mended, Frames
<1>9. CASE ClearQueue
  <2>1. CASE threadState = "BUSY"
    BY <1>9, <2>1 DEF ClearQueue, Sleep, Mended, Stopped
  <2>2. CASE threadState # "BUSY"
    BY <1>9, <2>2 DEF ClearQueue, Mended, Frames
  <2> QED
    BY <2>1, <2>2
<1>10. CASE ProxyStep
  <2>1. UNCHANGED <<frame, todo>> /\ (Stopped => Stopped') /\ (cpu' = cpu \/ WakeCpu)
    BY <1>10 DEF ProxyStep, Start, Woken, ReadItem, Draw, ReadBlock, RunEnds, Return,
                 EndTurn, Stopped
  <2>2. cpu = "run" => cpu' = "run"
    BY <2>1 DEF WakeCpu
  <2> QED
    BY <2>1, <2>2 DEF Mended, At
<1>11. CASE UNCHANGED vars
  BY <1>11 DEF vars, shared, Mended, Stopped, At
<1> QED
  BY <1>3, <1>4, <1>5, <1>6, <1>7, <1>8, <1>9, <1>10, <1>11 DEF Next, CpuStep

LEMMA MendedInvariance == Spec => []Mended
<1>1. Init => Mended
  BY DEF Init, Mended, Frames
<1>2. IInv /\ Mended /\ [Next]_vars => Mended'
  BY MendedPreserved
<1> QED
  BY <1>1, <1>2, Invariance, PTL DEF Spec

\* The queue never grows over its size, and no drawing is counted twice or done
\* twice (thread-proxy.c 103-135).
THEOREM TypeCorrect == Spec => []TypeOK
<1>1. IInv /\ Mended => TypeOK
  BY DEF IInv, Mended, TypeOK
<1> QED
  BY <1>1, Invariance, MendedInvariance, PTL

\* When FinishFrame returns and the frontend uses the frame, all of it has been
\* drawn, or dropped by a recovery within the frame: what was given up because
\* the thread had stopped is never used before the thread is replaced.
THEOREM FrameIsWhole == Spec => []PresentsWholeFrame
<1>1. IInv /\ Mended => PresentsWholeFrame
  BY DEF IInv, FrameDrawn, Mended, Frames, PresentsWholeFrame
<1> QED
  BY <1>1, Invariance, MendedInvariance, PTL

\* An event that was posted is handled when nothing before it is left to draw.
THEOREM EventIsLast == Spec => []EventComesLast
<1>1. IInv => EventComesLast
  <2> SUFFICES ASSUME IInv, proxy = "woken", event PROVE queue = <<>> /\ undrawn = 0
    BY DEF EventComesLast
  <2>1. queue = <<>> /\ cpu # "join"
    BY DEF IInv, Events
  <2>2. ~Stopped
    BY <2>1 DEF IInv, States
  <2> QED
    BY <2>1, <2>2, DrawsEmpty DEF IInv, Counted
<1> QED
  BY <1>1, Invariance, PTL

\* What is read as an item is an item, and what is read as its block is that block.
THEOREM ReaderIsInStep == Spec => []ReadsInStep
<1>1. IInv => ReadsInStep
  <2> SUFFICES ASSUME IInv PROVE ReadsInStep
    OBVIOUS
  <2>1. ASSUME queue # <<>>, Running
        PROVE  Head(queue) = "block" <=> InBody
    <3>1. queue \in Seq(Items) /\ Pairs
      BY <2>1 DEF IInv, ThreadsOK, States, Stopped
    <3> QED
      BY <2>1, <3>1, TailFacts DEF Pairs
  <2> QED
    BY <2>1 DEF ReadsInStep, Running, InBody
<1> QED
  BY <1>1, Invariance, PTL

-----------------------------------------------------------------------------
(* A renderer that knows every item.                                       *)

\* Only the emulation stops the thread, in the last step of Deinit.
StoppedByDeinit == Stopped => cpu \in {"join", "off"}

LEMMA StoppedByDeinitPreserved ==
  ASSUME ~Corrupts, IInv, StoppedByDeinit, [Next]_vars PROVE StoppedByDeinit'
<1>1. cpu \in {"join", "off"} => todo = <<"stop">>
  BY DEF IInv, States
<1>2. CASE BeginCall \/ WaitLoop \/ PostEvent \/ ClearQueue
  BY <1>2 DEF BeginCall, WaitLoop, PostEvent, ClearQueue, shared, StoppedByDeinit, Stopped
<1>3. CASE WriteData
  BY <1>1, <1>3 DEF WriteData, Items, shared, StoppedByDeinit, Stopped
<1>4. CASE Wake \/ Present
  BY <1>1, <1>4 DEF Wake, Present, At, shared, StoppedByDeinit, Stopped
<1>5. CASE WaitBegin \/ InitAgain
  BY <1>5 DEF WaitBegin, InitAgain, Recover, shared, StoppedByDeinit, Stopped
<1>6. CASE Stop
  BY <1>6 DEF Stop, StoppedByDeinit, Stopped
<1>7. CASE Join
  BY <1>7 DEF Join, StoppedByDeinit
<1>8. CASE Start \/ Woken \/ Return
  <2>1. cpu' = cpu \/ (cpu = "asleep" /\ WakeCpu)
    BY <1>8 DEF Start, Woken, Return, EndTurn, WakeCpu
  <2>2. Stopped' => Stopped
    BY <1>8 DEF Start, Woken, Return, EndTurn, Stopped
  <2> QED
    BY <2>1, <2>2 DEF StoppedByDeinit
<1>9. CASE ReadItem \/ Draw \/ RunEnds
  BY <1>9 DEF ReadItem, Draw, RunEnds, StoppedByDeinit, Stopped
<1>10. CASE ReadBlock
  <2>1. threadState' = threadState /\ (cpu' = cpu \/ cpu = "asleep")
    BY <1>10 DEF ReadBlock, WakeCpu
  <2> QED
    BY <2>1 DEF StoppedByDeinit, Stopped
<1>11. CASE UNCHANGED vars
  BY <1>11 DEF vars, shared, StoppedByDeinit, Stopped
<1> QED
  BY <1>2, <1>3, <1>4, <1>5, <1>6, <1>7, <1>8, <1>9, <1>10, <1>11
  DEF Next, CpuStep, ProxyStep

\* Nothing is given up but at the end, by the init that follows a Deinit.
NothingGivenUp == frame # "whole" => todo = Reset

LEMMA NothingGivenUpPreserved ==
  ASSUME IInv, Mended, StoppedByDeinit, NothingGivenUp, [Next]_vars PROVE NothingGivenUp'
<1>1. frame # "whole" => todo # <<>> /\ Head(todo) = "clear"
  BY DEF NothingGivenUp, Reset
<1>2. CASE BeginCall \/ Wake \/ WaitLoop \/ PostEvent \/ Stop \/ Join
  BY <1>1, <1>2 DEF BeginCall, Wake, WaitLoop, PostEvent, Stop, Join, IInv, States, At, shared,
                    NothingGivenUp, Sleep
<1>3. CASE WriteData
  BY <1>1, <1>3 DEF WriteData, Items, shared, NothingGivenUp, StoppedByDeinit, Stopped
<1>4. CASE Present
  BY <1>4 DEF Present, NothingGivenUp
<1>5. CASE WaitBegin
  BY <1>1, <1>5 DEF WaitBegin, At, shared, NothingGivenUp, StoppedByDeinit, Stopped
<1>6. CASE ClearQueue
  BY <1>6 DEF ClearQueue, Sleep, NothingGivenUp
<1>7. CASE InitAgain
  BY <1>7 DEF InitAgain, NothingGivenUp
<1>8. CASE ProxyStep
  BY <1>8 DEF ProxyStep, Start, Woken, ReadItem, Draw, ReadBlock, RunEnds, Return,
              NothingGivenUp
<1>9. CASE UNCHANGED vars
  BY <1>9 DEF vars, shared, NothingGivenUp
<1> QED
  BY <1>2, <1>3, <1>4, <1>5, <1>6, <1>7, <1>8, <1>9 DEF Next, CpuStep

\* Without an unknown item every frame that is used has been drawn in full:
\* nothing written since the one before was given up or dropped
\* (thread-proxy.c 103-119, 153-166, gb/extra/proxy.c 284-290).
THEOREM KnownItemsAreDrawn ==
  ASSUME ~Corrupts PROVE Spec => [](At("present") => frame = "whole" /\ undrawn = 0)
<1>1. Init => StoppedByDeinit /\ NothingGivenUp
  BY DEF Init, StoppedByDeinit, Stopped, NothingGivenUp
<1>2. IInv /\ Mended /\ StoppedByDeinit /\ NothingGivenUp /\ [Next]_vars
          => StoppedByDeinit' /\ NothingGivenUp'
  BY StoppedByDeinitPreserved, NothingGivenUpPreserved
<1>3. IInv /\ NothingGivenUp => (At("present") => frame = "whole" /\ undrawn = 0)
  BY DEF IInv, FrameDrawn, NothingGivenUp, Reset, At
<1> QED
  BY <1>1, <1>2, <1>3, Invariance, MendedInvariance, PTL DEF Spec

\* Without an unknown item no call is left waiting for a thread that has exited:
\* the stops of Deinit and the starts of init never meet a wait
\* (thread-proxy.c 67-101, 153-166).
THEOREM OnlyUnknownItemsStrand ==
  ASSUME ~Corrupts PROVE Spec => []~Stranded
<1>1. Init => StoppedByDeinit
  BY DEF Init, StoppedByDeinit, Stopped
<1>2. IInv /\ StoppedByDeinit /\ [Next]_vars => StoppedByDeinit'
  BY StoppedByDeinitPreserved
<1>3. IInv /\ StoppedByDeinit => ~Stranded
  BY DEF IInv, States, StoppedByDeinit, Stranded, At
<1> QED
  BY <1>1, <1>2, <1>3, Invariance, PTL DEF Spec
=============================================================================
