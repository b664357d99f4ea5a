----------------------------- MODULE ThreadProxy -----------------------------
(***************************************************************************)
(* The threaded renderer of mGBA: the thread that emulates writes what is  *)
(* to be drawn into a ring buffer, a proxy thread reads and draws it       *)
(* (mgba-master/src/feature/thread-proxy.c, the packets of video-logger.c, *)
(* the calls of gba/extra/proxy.c).                                        *)
(*                                                                         *)
(* The buffer is used without a lock; the mutex and two conditions only    *)
(* tell who sleeps.  It is a queue here, as RingFifo shows: it may refuse  *)
(* an item only while it has others, and its size is 0 only when empty.    *)
(*                                                                         *)
(* A call of the emulation is the list of the steps it takes: the items it *)
(* writes, and what else it does.  What a thread does under the mutex is   *)
(* one action, but each read and each write is one of its own.             *)
(***************************************************************************)
EXTENDS Naturals, Sequences

CONSTANTS
    QueueLimit,  \* bound: items that fit into the buffer
    Corrupts     \* may the proxy thread find an item that it does not know?

ASSUME QueueLimitAssumption == QueueLimit \in Nat \ {0}
ASSUME CorruptsAssumption == Corrupts \in BOOLEAN

VARIABLES
    queue,        \* dirtyQueue
    threadState, event,
    todo,         \* steps left of the call that the emulation is in
    cpu,          \* where it is in the first of them
    proxy,        \* where the proxy thread is
    undrawn,      \* history: drawings neither done nor dropped
    frame         \* history: what became of the items since the last frame

shared == <<queue, threadState, event, undrawn, frame>>
vars == <<shared, todo, cpu, proxy>>

Items == {"draw", "vram", "block", "flush"}

\* A line after the blocks of video memory that changed, and a wake-up every
\* sixteenth line; a register, a color or a sprite is a drawing by itself.
DrawScanline == {<<"draw">>, <<"draw", "wake">>, <<"vram", "block", "draw", "wake">>}

\* Mutant of FinishFrame: the wait is for an empty queue only.
FinishFrameUnflushed == <<"draw", "wait", "present">>

\* The frame is used when the call has returned.
FinishFrame == <<"draw", "flush", "wait", "present">>

\* Mutant of GetPixels: the event is posted at once.
GetPixelsAtOnce == <<"event">>

\* GetPixels, SaveState and LoadState
GetPixels == <<"wait", "event">>

Reset == <<"clear", "event">>
Deinit == <<"flush", "wait", "event", "stop">>

Calls == DrawScanline \cup {FinishFrame, GetPixels, Reset, Deinit}

\* "broken": an item was given up and the thread that stopped is still to be
\* replaced; "recovered": it was replaced, and what was in the queue is dropped.
Frames == {"whole", "broken", "recovered"}

ThreadsOK ==
    /\ queue \in Seq(Items) /\ Len(queue) <= QueueLimit
    /\ threadState \in {"IDLE", "BUSY", "STOPPED"}
    /\ event \in BOOLEAN
    /\ todo \in Seq(Items \cup {"wake", "wait", "present", "event", "clear", "stop"})
    /\ cpu \in {"run", "loop", "asleep", "join", "off"}
    /\ proxy \in {"start", "asleep", "woken", "run", "draw", "body", "starving",
                  "starved", "return", "exited"}
    /\ undrawn \in Nat

TypeOK == ThreadsOK /\ frame \in Frames

\* mVideoThreadProxyInit, then the renderer's own reset and event.
Init ==
    /\ queue = <<>>
    /\ threadState = "IDLE"
    /\ event = FALSE
    /\ todo = Reset
    /\ cpu = "run"
    /\ proxy = "start"
    /\ undrawn = 0
    /\ frame = "whole"

-----------------------------------------------------------------------------
(* The conditions and the queue.                                           *)

At(step) == todo # <<>> /\ Head(todo) = step

\* ConditionWake of toThreadCond and of fromThreadCond
WakeProxy == proxy' = CASE proxy = "asleep" -> "woken"
                        [] proxy = "starved" -> "body"
                        [] OTHER -> proxy
WakeCpu == cpu' = IF cpu # "asleep" THEN cpu
                  ELSE IF Head(todo) \in Items THEN "run" ELSE "loop"

Sleep == WakeProxy /\ cpu' = "asleep" /\ UNCHANGED todo

\* The step is done.
Advance == todo' = Tail(todo) /\ cpu' = "run"

Clear == queue' = <<>> /\ undrawn' = 0

-----------------------------------------------------------------------------
(* The emulation.                                                          *)

BeginCall ==
    /\ cpu = "run" /\ todo = <<>>
    /\ todo' \in Calls
    /\ UNCHANGED <<shared, cpu, proxy>>

\* RingFIFOWrite
Put == Len(queue) < QueueLimit
Refuse == queue # <<>>

\* _writeData, of an item that is lost when the thread has stopped
WriteData ==
    /\ todo # <<>> /\ Head(todo) \in Items
    /\ \/ /\ cpu = "run" /\ Put
          /\ queue' = Append(queue, Head(todo))
          /\ undrawn' = undrawn + IF At("draw") THEN 1 ELSE 0
          /\ Advance
          /\ UNCHANGED <<threadState, event, frame, proxy>>
       \/ /\ cpu = "run" /\ Refuse
          /\ cpu' = "loop"
          /\ UNCHANGED <<shared, todo, proxy>>
       \/ /\ cpu = "loop"
          /\ IF threadState = "STOPPED"
             THEN frame' = "broken" /\ Advance /\ UNCHANGED proxy
             ELSE Sleep /\ UNCHANGED frame
          /\ UNCHANGED <<queue, threadState, event, undrawn>>

\* _wake, which does not take the mutex
Wake ==
    /\ At("wake")
    /\ WakeProxy
    /\ Advance
    /\ UNCHANGED shared

\* The frontend uses the frame.
Present ==
    /\ At("present")
    /\ Advance
    /\ frame' = "whole"
    /\ UNCHANGED <<queue, threadState, event, undrawn, proxy>>

\* Mutant of Recover: the new thread goes on where the old one stopped.
RecoverKeeps ==
    /\ proxy = "exited"
    /\ proxy' = "start" /\ threadState' = "IDLE" /\ frame' = "recovered"
    /\ UNCHANGED <<queue, event, undrawn>>

\* _proxyThreadRecover joins the thread and starts a new one.
Recover ==
    /\ proxy = "exited"
    /\ proxy' = "start" /\ threadState' = "IDLE" /\ frame' = "recovered"
    /\ Clear
    /\ UNCHANGED event

\* _wait looks once, without the mutex, whether the thread has stopped.
WaitBegin ==
    /\ At("wait") /\ cpu = "run"
    /\ IF threadState = "STOPPED"
       THEN Recover /\ Advance
       ELSE cpu' = "loop" /\ UNCHANGED <<shared, todo, proxy>>

WaitLoop ==
    /\ At("wait") /\ cpu = "loop"
    /\ IF queue = <<>> THEN Advance /\ UNCHANGED proxy ELSE Sleep
    /\ UNCHANGED shared

\* _postEvent
PostEvent ==
    /\ At("event")
    /\ \/ /\ cpu = "run"
          /\ event' = TRUE
          /\ Sleep
       \/ /\ cpu = "loop"
          /\ IF event THEN Sleep ELSE Advance /\ UNCHANGED proxy
          /\ UNCHANGED event
    /\ UNCHANGED <<queue, threadState, undrawn, frame>>

\* mVideoThreadProxyReset, after which a new frame begins
ClearQueue ==
    /\ At("clear") /\ cpu \in {"run", "loop"}
    /\ IF threadState = "BUSY"
       THEN Sleep /\ UNCHANGED <<queue, undrawn, frame>>
       ELSE Clear /\ frame' = "whole" /\ Advance /\ UNCHANGED proxy
    /\ UNCHANGED <<threadState, event>>

\* mVideoThreadProxyDeinit, which joins a thread that it stopped, and later an
\* init
Stop ==
    /\ At("stop") /\ cpu \in {"run", "loop"}
    /\ CASE threadState = "BUSY" -> Sleep /\ UNCHANGED threadState
         [] threadState = "IDLE" -> /\ threadState' = "STOPPED"
                                    /\ WakeProxy
                                    /\ cpu' = "join"
                                    /\ UNCHANGED todo
         [] OTHER -> cpu' = "off" /\ UNCHANGED <<threadState, todo, proxy>>
    /\ UNCHANGED <<queue, event, undrawn, frame>>

Join ==
    /\ cpu = "join" /\ proxy = "exited"
    /\ cpu' = "off"
    /\ UNCHANGED <<shared, todo, proxy>>

InitAgain ==
    /\ cpu = "off"
    /\ Recover
    /\ todo' = Reset
    /\ cpu' = "run"

CpuStep == WriteData \/ Wake \/ Present \/ WaitBegin \/ WaitLoop \/ PostEvent
           \/ ClearQueue \/ Stop \/ Join

-----------------------------------------------------------------------------
(* The proxy thread: _proxyThread, mVideoLoggerRendererRun, _readData and  *)
(* the parsePacket of the renderer.                                        *)

\* Back to sleep, or out of the loop.
EndTurn ==
    /\ IF threadState = "STOPPED"
       THEN proxy' = "exited" /\ UNCHANGED threadState
       ELSE proxy' = "asleep" /\ threadState' = "IDLE"
    /\ WakeCpu

\* Mutant of Start: nobody is told that the thread is there.
StartSilently ==
    /\ proxy = "start"
    /\ proxy' = "asleep"
    /\ UNCHANGED <<shared, todo, cpu>>

Start ==
    /\ proxy = "start"
    /\ EndTurn
    /\ UNCHANGED <<queue, event, undrawn, frame, todo>>

\* An event comes before anything that is in the queue.
Woken ==
    /\ proxy = "woken"
    /\ CASE threadState = "STOPPED" -> /\ proxy' = "exited"
                                       /\ UNCHANGED <<threadState, event, cpu>>
         [] threadState # "STOPPED" /\ event -> event' = FALSE /\ EndTurn
         [] OTHER -> /\ threadState' = "BUSY"
                     /\ proxy' = "run"
                     /\ UNCHANGED <<event, cpu>>
    /\ UNCHANGED <<queue, undrawn, frame, todo>>

ReadItem ==
    /\ proxy = "run" /\ queue # <<>>
    /\ queue' = Tail(queue)
    /\ proxy' = CASE Head(queue) = "vram" -> "body"
                  [] Head(queue) = "flush" -> "return"
                  [] OTHER -> "draw"
    /\ UNCHANGED <<threadState, event, undrawn, frame, todo, cpu>>

Draw ==
    /\ proxy = "draw"
    /\ proxy' = "run"
    /\ undrawn' = undrawn - 1
    /\ UNCHANGED <<queue, threadState, event, frame, todo, cpu>>

\* The block that belongs to an item may not be there yet: the read wakes the
\* emulation and sleeps, in the middle of mVideoLoggerRendererRun.
ReadBlock ==
    /\ \/ /\ proxy = "body"
          /\ IF queue = <<>>
             THEN proxy' = "starving" /\ UNCHANGED queue
             ELSE proxy' = "run" /\ queue' = Tail(queue)
          /\ UNCHANGED cpu
       \/ /\ proxy = "starving"
          /\ proxy' = "starved"
          /\ WakeCpu
          /\ UNCHANGED queue
    /\ UNCHANGED <<threadState, event, undrawn, frame, todo>>

\* Nothing is left to read, or an item is not known; the state is then written
\* without the mutex.
RunEnds ==
    /\ proxy = "run"
    /\ \/ queue = <<>> /\ UNCHANGED <<queue, threadState>>
       \/ /\ Corrupts /\ queue # <<>>
          /\ queue' = Tail(queue)
          /\ threadState' = "STOPPED"
    /\ proxy' = "return"
    /\ UNCHANGED <<event, undrawn, frame, todo, cpu>>

Return ==
    /\ proxy = "return"
    /\ EndTurn
    /\ UNCHANGED <<queue, event, undrawn, frame, todo>>

ProxyStep == Start \/ Woken \/ ReadItem \/ Draw \/ ReadBlock \/ RunEnds \/ Return

Next == BeginCall \/ CpuStep \/ InitAgain \/ ProxyStep

\* Both threads are scheduled.
Spec == Init /\ [][Next]_vars /\ WF_vars(CpuStep) /\ WF_vars(ProxyStep)

-----------------------------------------------------------------------------
(* Properties.                                                             *)

\* When a frame is used, everything written before has been drawn: not only
\* read, which is all that the size of the buffer tells.  ("Insert an extra
\* item into the queue to make sure it gets flushed", gb/extra/proxy.c 296.)
\* Only a frame within which the thread stopped may lack drawings, given up as
\* they were written or dropped by the recovery; it is never used before the
\* wait of its end has replaced the thread (thread-proxy.c 90-101, 155-158).
PresentsWholeFrame ==
    At("present") => (frame = "whole" /\ undrawn = 0) \/ frame = "recovered"

\* Although an event passes the queue (thread-proxy.c 192), none is handled
\* while something written before it is not drawn.
EventComesLast == proxy = "woken" /\ event => queue = <<>> /\ undrawn = 0

\* The reader never takes a block for an item or an item for a block, also
\* when the queue is cleared or its thread is replaced.
ReadsInStep ==
    /\ proxy = "run" /\ queue # <<>> => Head(queue) # "block"
    /\ proxy = "body" /\ queue # <<>> => Head(queue) = "block"

\* Every call returns, and no wake-up is lost, with either thread asleep at any
\* place.  One is left waiting only by a thread that stopped while it waited, or
\* when it posts an event to one that has stopped.
Stranded == proxy = "exited" /\ (At("wait") \/ At("event"))
CallReturns == (cpu \in {"run", "loop", "asleep"} /\ todo # <<>>)
                   ~> (todo = <<>> \/ cpu = "off" \/ Stranded)
=============================================================================
