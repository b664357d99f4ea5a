------------------------------ MODULE RingFifo ------------------------------
(***************************************************************************)
(* The lock-free ring buffer between two threads (mgba-master/src/util/    *)
(* ring-fifo.c): one writes items, the other reads them, and the pointers  *)
(* are all they share.  Items have different lengths, which both threads   *)
(* know from the protocol they speak; an item is never split, so that a    *)
(* pointer jumps to the start of the buffer when the next item would not   *)
(* fit before its end.                                                     *)
(*                                                                         *)
(* Offsets stand for pointers.  A call is three steps: it loads the other  *)
(* pointer and decides, it copies, and it stores its own pointer.  A call  *)
(* that returns 0 changes nothing.                                         *)
(***************************************************************************)
EXTENDS Integers

CONSTANTS
    Capacity,   \* of the buffer, in bytes
    Lengths,    \* the lengths that an item may have
    MaxItems    \* bound: items written in a behavior

ASSUME CapacityAssumption == Capacity \in Nat \ {0}
\* The proxy renderer's items have 16 and 4096 bytes of 262144.
ASSUME LengthsAssumption == Lengths \subseteq {n \in Nat \ {0} : 2 * n < Capacity}
ASSUME MaxItemsAssumption == MaxItems \in Nat

Items == 1 .. MaxItems
Cells == 0 .. Capacity - 1

VARIABLES
    length,             \* of each item: fixed by the protocol
    readPtr, writePtr,
    data,               \* history: the item that each byte belongs to, or 0
    writer, reader,     \* where the two threads are in their calls
    written, consumed,  \* history: how many items went in, and came out
    start,              \* history: where an item was put
    copied,             \* history: whose bytes a read has copied
    last                \* history: whose bytes the last read returned

writerVars == <<writePtr, data, writer, written, start>>
readerVars == <<readPtr, reader, consumed, copied, last>>
vars == <<length, writerVars, readerVars>>

Steps == {"idle", "copy", "publish"}

TypeOK ==
    /\ length \in [Items -> Lengths]
    /\ readPtr \in Cells /\ writePtr \in Cells
    /\ data \in [Cells -> 0 .. MaxItems]
    /\ writer \in Steps /\ reader \in Steps
    /\ written \in 0 .. MaxItems /\ consumed \in 0 .. MaxItems
    /\ start \in [Items -> Cells]
    /\ copied \subseteq 0 .. MaxItems /\ last \subseteq 0 .. MaxItems

Init ==
    /\ length \in [Items -> Lengths]
    /\ readPtr = 0 /\ writePtr = 0
    /\ data = [c \in Cells |-> 0]
    /\ writer = "idle" /\ reader = "idle"
    /\ written = 0 /\ consumed = 0
    /\ start = [n \in Items |-> 0]
    /\ copied = {} /\ last = {}

-----------------------------------------------------------------------------
\* Where an item goes, and is found, with the pointer at ptr.
Dest(ptr, len) == IF ptr + len >= Capacity THEN 0 ELSE ptr

\* The bytes from an offset to what bounds a thread: the other's pointer, or
\* the end of the buffer.
Remaining(from, bounded, end) == (IF bounded THEN end ELSE Capacity) - from

\* A writer at or after the reader writes up to the end of the buffer, one
\* before it up to the reader, and never touches either.
Room(len) == LET to == Dest(writePtr, len) IN Remaining(to, to < readPtr, readPtr)

\* Mutants of CanWrite: a wrap may leave the pointers equal; a wrap does not
\* look where the reader is; only the rest of the buffer is used.
CanWriteTouching(len) ==
    /\ writePtr + len >= Capacity => readPtr <= writePtr
    /\ len < Room(len) \/ Dest(writePtr, len) + len = readPtr
CanWriteBlindly(len) == len < Room(len)
CanWriteTimidly(len) == writePtr + len < Capacity /\ len < Room(len)

\* RingFIFOWrite finds room: a wrap must not make the buffer appear empty, nor
\* may the item reach the reader's pointer.
CanWrite(len) ==
    /\ writePtr + len >= Capacity => readPtr # 0 /\ readPtr <= writePtr
    /\ len < Room(len)

\* A reader after the writer reads up to the end of the buffer, one before it up
\* to the writer.
Filled(len) == LET from == Dest(readPtr, len) IN Remaining(from, from <= writePtr, writePtr)

\* RingFIFORead finds an item: a wrap must not make the buffer appear full.
CanRead(len) ==
    /\ readPtr + len >= Capacity => writePtr < readPtr
    /\ len <= Filled(len)

\* The bytes of an item that lies at from.
Region(from, len) == from .. from + len - 1

\* RingFIFOSize: the bytes between the pointers, those skipped at the end of
\* the buffer included.
RingFIFOSize ==
    IF readPtr <= writePtr THEN writePtr - readPtr ELSE Capacity - readPtr + writePtr

-----------------------------------------------------------------------------
(* RingFIFOWrite of the next item.                                         *)

WriteBegin ==
    /\ writer = "idle"
    /\ written < MaxItems
    /\ CanWrite(length[written + 1])
    /\ writer' = "copy"
    /\ UNCHANGED <<length, readerVars, writePtr, data, written, start>>

WriteCopy ==
    /\ writer = "copy"
    /\ LET len == length[written + 1] IN
         data' = [c \in Cells |-> IF c \in Region(Dest(writePtr, len), len)
                                  THEN written + 1 ELSE data[c]]
    /\ writer' = "publish"
    /\ UNCHANGED <<length, readerVars, writePtr, written, start>>

WritePublish ==
    /\ writer = "publish"
    /\ LET len == length[written + 1]
           to == Dest(writePtr, len)
       IN /\ writePtr' = to + len
          /\ start' = [start EXCEPT ![written + 1] = to]
    /\ written' = written + 1
    /\ writer' = "idle"
    /\ UNCHANGED <<length, readerVars, data>>

(* RingFIFORead of the next item, written or not.                          *)

ReadBegin ==
    /\ reader = "idle"
    /\ consumed < MaxItems
    /\ CanRead(length[consumed + 1])
    /\ reader' = "copy"
    /\ UNCHANGED <<length, writerVars, readPtr, consumed, copied, last>>

ReadCopy ==
    /\ reader = "copy"
    /\ LET len == length[consumed + 1] IN
         copied' = {data[c] : c \in Region(Dest(readPtr, len), len)}
    /\ reader' = "publish"
    /\ UNCHANGED <<length, writerVars, readPtr, consumed, last>>

\* The read returns with the pointer at ptr.
ReturnAt(ptr) ==
    /\ reader = "publish"
    /\ readPtr' = ptr
    /\ consumed' = consumed + 1
    /\ last' = copied
    /\ reader' = "idle"
    /\ UNCHANGED <<length, writerVars, copied>>

\* Mutant of ReadPublish: the pointer forgets that the item was wrapped.
ReadOn == ReturnAt(readPtr + length[consumed + 1])

ReadPublish == LET len == length[consumed + 1] IN ReturnAt(Dest(readPtr, len) + len)

\* RingFIFOClear, which the writer calls while the reader is kept away: what is
\* unread is lost.
RingFIFOClear ==
    /\ writer = "idle" /\ reader = "idle"
    /\ readPtr' = 0 /\ writePtr' = 0
    /\ consumed' = written
    /\ UNCHANGED <<length, data, writer, reader, written, start, copied, last>>

WriteStep == WriteBegin \/ WriteCopy \/ WritePublish
ReadStep == ReadBegin \/ ReadCopy \/ ReadPublish

Next == WriteStep \/ ReadStep \/ RingFIFOClear

Spec == Init /\ [][Next]_vars

-----------------------------------------------------------------------------
(* Properties.                                                             *)

Unread == consumed + 1 .. written

\* While an item is copied in, its bytes belong to no item that is still to be
\* read, whatever the reader did since the writer looked at its pointer; so that
\* the copy need not be atomic (ring-fifo.c 45-68).
WritesFreeBytes ==
    writer # "idle" =>
        LET len == length[written + 1] IN
        \A n \in Unread :
            Region(Dest(writePtr, len), len) \cap Region(start[n], length[n]) = {}

\* A read returns the next item that was written, all of it and nothing else,
\* although it computes the place of an item from its own pointer and length.
ReadsNextItem ==
    reader = "publish" => consumed < written /\ copied = {consumed + 1}

\* A size of 0, by which the writer knows that its reader has caught up, means
\* that nothing is unread, and only that: neither a wrap nor a buffer filled to
\* the brim appears empty ("If we wrap now, it'll appear empty", line 50).
SizeZeroIsEmpty == RingFIFOSize = 0 <=> consumed = written

\* A writer that waits for room does not wait for ever: an empty buffer takes
\* any item, wherever the pointers are.
EmptyAccepts ==
    written < MaxItems /\ consumed = written => CanWrite(length[written + 1])

\* The buffer implements Pipe.
P == INSTANCE Pipe WITH
        next   <- written + 1,
        unread <- [i \in 1 .. written - consumed |-> consumed + i]

PipeSpec == P!Spec
=============================================================================
