--------------------------- MODULE RingFifoProofs ---------------------------
(***************************************************************************)
(* Proofs about RingFifo, for any capacity, any lengths below half of it    *)
(* and any number of items.                                                *)
(***************************************************************************)
EXTENDS RingFifo, TLAPS, SequenceTheorems

\* Where an item ends, and whether it lies before the reader's pointer: then
\* the writer had wrapped when it put it there.
End(n) == start[n] + length[n]
Wrapped(n) == start[n] < readPtr

\* The unread items follow one another from the reader's pointer to the
\* writer's, each where the reader will look for it.
Chained ==
    /\ consumed <= written
    /\ consumed < written =>
         /\ start[consumed + 1] = Dest(readPtr, length[consumed + 1])
         /\ writePtr = End(written)
    /\ \A n \in Unread \ {written} : start[n + 1] = Dest(End(n), length[n + 1])

\* The pointers are equal if and only if nothing is unread.
EmptyIsEqual == consumed = written <=> readPtr = writePtr

\* An unread item lies between the pointers: after the reader's, or, when the
\* writer has wrapped, before the writer's.
Placed(n) ==
    /\ End(n) < Capacity
    /\ readPtr <= writePtr \/ Wrapped(n) => End(n) <= writePtr
    /\ Wrapped(n) => writePtr < readPtr

\* Unread items lie in the order in which they were written.
InOrder(m, n) ==
    \/ ~Wrapped(m) /\ Wrapped(n)
    \/ End(m) <= start[n] /\ (Wrapped(m) <=> Wrapped(n))

Layout ==
    /\ \A n \in Unread : Placed(n)
    /\ \A m, n \in Unread : m < n => InOrder(m, n)

\* What the writer saw when it found room still holds, whatever was read since.
WriterInv ==
    writer # "idle" => written < MaxItems /\ CanWrite(length[written + 1])

ReaderInv == reader # "idle" => consumed < written

\* The bytes of an unread item, and of one just copied in, are its own.
Holds(n, at) == \A c \in Region(at, length[n]) : data[c] = n

DataInv ==
    /\ \A n \in Unread : Holds(n, start[n])
    /\ writer = "publish" => Holds(written + 1, Dest(writePtr, length[written + 1]))
    /\ reader = "publish" => copied = {consumed + 1}

IInv ==
    /\ TypeOK
    /\ Chained /\ EmptyIsEqual /\ Layout
    /\ WriterInv /\ ReaderInv /\ DataInv

-----------------------------------------------------------------------------
\* Items have lengths, and unread items have numbers and places.
LEMMA LengthFacts ==
  ASSUME TypeOK, NEW n \in Items
  PROVE  /\ length[n] \in Int /\ 0 < length[n] /\ 2 * length[n] < Capacity
         /\ Capacity \in Int
<1>1. length[n] \in Lengths /\ Capacity \in Nat
  BY CapacityAssumption DEF TypeOK
<1>2. \A l \in Lengths : l \in Nat /\ l # 0 /\ 2 * l < Capacity
  BY LengthsAssumption
<1> QED
  BY <1>1, <1>2

LEMMA UnreadFacts ==
  ASSUME TypeOK, NEW n \in Unread
  PROVE  /\ n \in Items /\ n \in Int
         /\ start[n] \in Int /\ 0 <= start[n] /\ start[n] < Capacity
         /\ length[n] \in Int /\ 0 < length[n] /\ 2 * length[n] < Capacity
<1>1. n \in Items /\ n \in Int
  BY MaxItemsAssumption DEF TypeOK, Unread, Items
<1>2. start[n] \in Cells /\ Capacity \in Int
  BY <1>1, CapacityAssumption DEF TypeOK
<1> QED
  BY <1>1, <1>2, LengthFacts DEF Cells

\* The initial state satisfies the invariant: nothing is unread.
LEMMA InitIInv == Init => IInv
<1> SUFFICES ASSUME Init PROVE IInv
  OBVIOUS
<1>1. TypeOK
  BY CapacityAssumption, MaxItemsAssumption DEF Init, TypeOK, Items, Cells, Steps
<1>2. Unread = {}
  BY DEF Init, Unread
<1>3. Chained /\ EmptyIsEqual /\ Layout
  BY <1>2 DEF Init, Chained, EmptyIsEqual, Layout
<1>4. WriterInv /\ ReaderInv /\ DataInv
  BY <1>2 DEF Init, WriterInv, ReaderInv, DataInv
<1> QED
  BY <1>1, <1>3, <1>4 DEF IInv

-----------------------------------------------------------------------------
(* The writer.                                                             *)

\* Where there is room, no unread item is in the way, and the end of the buffer
\* and the reader's pointer are not reached.
LEMMA RoomIsFree ==
  ASSUME TypeOK, Layout, written < MaxItems, CanWrite(length[written + 1])
  PROVE  LET len == length[written + 1]
             to == Dest(writePtr, len)
         IN /\ to + len < Capacity
            /\ to < readPtr => to + len < readPtr
            /\ \A n \in Unread : to + len <= start[n] \/ End(n) <= to
<1> DEFINE len == length[written + 1]
           to == Dest(writePtr, len)
<1>1. /\ writePtr \in Int /\ readPtr \in Int /\ Capacity \in Int
      /\ 0 <= writePtr /\ writePtr < Capacity /\ 0 <= readPtr /\ readPtr < Capacity
  BY CapacityAssumption DEF TypeOK, Cells
<1>2. written + 1 \in Items
  BY MaxItemsAssumption DEF TypeOK, Items
<1>3. len \in Int /\ 0 < len /\ 2 * len < Capacity
  BY <1>2, LengthFacts
<1> HIDE DEF len
<1>4. /\ writePtr + len >= Capacity => to = 0 /\ readPtr # 0 /\ readPtr <= writePtr
      /\ writePtr + len < Capacity => to = writePtr
      /\ to < readPtr => to + len < readPtr
      /\ readPtr <= to => to + len < Capacity
  BY <1>1, <1>3 DEF CanWrite, Room, Remaining, Dest, len
<1>5. \A n \in Unread : to + len <= start[n] \/ End(n) <= to
  <2> SUFFICES ASSUME NEW n \in Unread
               PROVE  to + len <= start[n] \/ End(n) <= to
    OBVIOUS
  <2>1. Placed(n) /\ start[n] \in Int /\ length[n] \in Int
    BY UnreadFacts DEF Layout
  <2> HIDE DEF to
  <2> QED
    BY <1>1, <1>3, <1>4, <2>1 DEF Placed, Wrapped, End
<1> HIDE DEF to
<1>6. to + len < Capacity /\ (to < readPtr => to + len < readPtr)
  BY <1>1, <1>3, <1>4
<1> QED
  BY <1>5, <1>6 DEF to, len

\* Items lie where they did while nothing is moved.
LEMMA PlacesKept ==
  ASSUME Chained, EmptyIsEqual, Layout,
         UNCHANGED <<length, readPtr, writePtr, written, consumed, start>>
  PROVE  Chained' /\ EmptyIsEqual' /\ Layout' /\ Unread' = Unread
BY DEF Chained, EmptyIsEqual, Layout, Placed, InOrder, Wrapped, End, Unread, Dest

\* A writer looks, and finds room.
LEMMA WriteBeginStep == IInv /\ WriteBegin => IInv'
<1> SUFFICES ASSUME IInv, WriteBegin PROVE IInv'
  OBVIOUS
<1>1. TypeOK'
  BY DEF IInv, TypeOK, WriteBegin, readerVars, Steps
<1>2. Chained' /\ EmptyIsEqual' /\ Layout' /\ Unread' = Unread
  BY PlacesKept DEF IInv, WriteBegin, readerVars
<1>3. WriterInv' /\ ReaderInv'
  BY DEF IInv, WriterInv, ReaderInv, WriteBegin, readerVars, CanWrite, Room, Remaining, Dest
<1>4. DataInv'
  BY <1>2 DEF IInv, DataInv, Holds, WriteBegin, readerVars
<1> QED
  BY <1>1, <1>2, <1>3, <1>4 DEF IInv

\* It copies the item in, beside all that is unread.
LEMMA WriteCopyStep == IInv /\ WriteCopy => IInv'
<1> SUFFICES ASSUME IInv, WriteCopy PROVE IInv'
  OBVIOUS
<1> DEFINE len == length[written + 1]
           to == Dest(writePtr, len)
<1>1. written < MaxItems /\ CanWrite(len) /\ TypeOK /\ Layout /\ DataInv /\ Chained
  BY DEF IInv, WriteCopy, WriterInv
<1>2. written \in Int /\ written + 1 \in 0 .. MaxItems
  BY <1>1, MaxItemsAssumption DEF TypeOK
<1>3. TypeOK'
  BY <1>1, <1>2 DEF TypeOK, WriteCopy, readerVars, Steps
<1>4. Chained' /\ EmptyIsEqual' /\ Layout' /\ Unread' = Unread
  BY PlacesKept DEF IInv, WriteCopy, readerVars
<1>5. WriterInv' /\ ReaderInv'
  BY DEF IInv, WriterInv, ReaderInv, WriteCopy, readerVars, CanWrite, Room, Remaining, Dest
<1>6. /\ len \in Int /\ 0 < len /\ 2 * len < Capacity /\ Capacity \in Int
      /\ writePtr \in Int /\ 0 <= writePtr
  <2>1. written + 1 \in Items
    BY <1>1, MaxItemsAssumption DEF TypeOK, Items
  <2> QED
    BY <1>1, <2>1, LengthFacts DEF TypeOK, Cells
<1>7. /\ to \in Int /\ 0 <= to /\ to + len < Capacity
      /\ \A n \in Unread : to + len <= start[n] \/ End(n) <= to
  <2>1. to \in Int /\ 0 <= to
    BY <1>6 DEF Dest
  <2> QED
    BY <1>1, <2>1, RoomIsFree
<1> HIDE DEF len, to
<1>8. \A c \in Cells : data'[c] = IF c \in Region(to, len) THEN written + 1 ELSE data[c]
  BY DEF WriteCopy, to, len
<1>9. \A n \in Unread : Holds(n, start[n])'
  <2> SUFFICES ASSUME NEW n \in Unread, NEW c \in Region(start[n], length[n])
               PROVE  data'[c] = n
    BY DEF WriteCopy, Holds, Region
  <2>1. Placed(n) /\ Holds(n, start[n])
    BY <1>1 DEF Layout, DataInv
  <2>2. start[n] \in Int /\ 0 <= start[n] /\ length[n] \in Int
    BY <1>1, UnreadFacts
  <2>3. c \in Cells /\ c \notin Region(to, len)
    BY <1>6, <1>7, <2>1, <2>2 DEF Placed, End, Region, Cells
  <2> QED
    BY <1>8, <2>1, <2>3 DEF Holds
<1>10. Holds(written + 1, Dest(writePtr, length[written + 1]))'
  <2>1. Region(to, len) \subseteq Cells
    BY <1>6, <1>7 DEF Region, Cells
  <2> QED
    BY <1>8, <2>1 DEF WriteCopy, Holds, Region, Dest, to, len
<1>11. DataInv'
  <2>1. (reader = "publish" => copied = {consumed + 1})'
    BY <1>1 DEF DataInv, WriteCopy, readerVars
  <2> QED
    BY <1>4, <1>9, <1>10, <2>1 DEF DataInv, WriteCopy
<1> QED
  BY <1>3, <1>4, <1>5, <1>11 DEF IInv

\* It publishes the item: it is the last of the unread.
LEMMA WritePublishStep == IInv /\ WritePublish => IInv'
<1> SUFFICES ASSUME IInv, WritePublish PROVE IInv'
  OBVIOUS
<1>0. PICK k \in Int : k = written + 1
  BY MaxItemsAssumption DEF IInv, TypeOK
<1> DEFINE len == length[k]
           to == Dest(writePtr, len)
<1>1. /\ written < MaxItems /\ CanWrite(len)
      /\ TypeOK /\ Layout /\ DataInv /\ Chained /\ EmptyIsEqual /\ ReaderInv
  BY <1>0 DEF IInv, WritePublish, WriterInv
<1>2. k \in Items /\ k \in Int /\ written \in Int /\ consumed \in Int /\ written' = k
  BY <1>0, <1>1, MaxItemsAssumption DEF TypeOK, Items, WritePublish
<1>3. /\ len \in Int /\ 0 < len /\ 2 * len < Capacity /\ Capacity \in Int
      /\ writePtr \in Int /\ 0 <= writePtr /\ writePtr < Capacity
      /\ readPtr \in Int /\ 0 <= readPtr /\ readPtr < Capacity
  <2>1. /\ len \in Int /\ 0 < len /\ 2 * len < Capacity /\ Capacity \in Int
    BY <1>1, <1>2, LengthFacts
  <2>2. readPtr \in Cells /\ writePtr \in Cells
    BY <1>1 DEF TypeOK
  <2> QED
    BY <2>1, <2>2 DEF Cells
<1>4. /\ to \in Int /\ 0 <= to /\ to + len < Capacity
      /\ to < readPtr => to + len < readPtr
      /\ \A n \in Unread : to + len <= start[n] \/ End(n) <= to
  <2>1. to \in Int /\ 0 <= to
    BY <1>3 DEF Dest
  <2> QED
    BY <1>0, <1>1, <2>1, RoomIsFree
<1>5. /\ writePtr + len >= Capacity => to = 0 /\ readPtr # 0 /\ readPtr <= writePtr
      /\ writePtr + len < Capacity => to = writePtr
  BY <1>1, <1>3 DEF CanWrite, Dest
<1>6. /\ writePtr' = to + len /\ readPtr' = readPtr /\ length' = length
      /\ consumed' = consumed
      /\ start'[k] = to
      /\ \A n \in Unread : start'[n] = start[n]
  BY <1>0, <1>1, <1>2, UnreadFacts DEF WritePublish, readerVars, TypeOK, Unread
<1>7. Unread' = Unread \cup {k} /\ k \notin Unread
  BY <1>0, <1>1, <1>2, <1>6 DEF Unread, Chained
<1>8. \A n \in Unread : /\ Placed(n) /\ n \in Int /\ n < k
                        /\ start[n] \in Int /\ length[n] \in Int /\ 0 < length[n]
  BY <1>0, <1>1, <1>2, UnreadFacts DEF Layout, Unread
<1> HIDE DEF len, to
<1>9. TypeOK'
  <2>1. to \in Cells /\ to + len \in Cells
    BY <1>3, <1>4 DEF Cells
  <2>2. k \in 0 .. MaxItems
    BY <1>2 DEF Items
  <2> QED
    BY <1>0, <1>1, <1>2, <1>6, <2>1, <2>2 DEF TypeOK, WritePublish, readerVars, Steps, len, to
<1>10. Chained'
  <2>1. (consumed <= written)'
    BY <1>0, <1>1, <1>2, <1>6 DEF Chained
  <2>2. writePtr' = End(written)'
    BY <1>0, <1>2, <1>6 DEF End, len
  <2>3. (start[consumed + 1] = Dest(readPtr, length[consumed + 1]))'
    <3>1. CASE consumed = written
      BY <1>0, <1>1, <1>6, <3>1 DEF EmptyIsEqual, Dest, len, to
    <3>2. CASE consumed < written
      <4>1. consumed + 1 \in Unread
        BY <1>2, <3>2 DEF Unread
      <4> QED
        BY <1>1, <1>6, <3>2, <4>1 DEF Chained, Dest
    <3> QED
      BY <1>1, <1>2, <3>1, <3>2 DEF Chained
  <2>4. \A n \in Unread' \ {written'} : (start[n + 1] = Dest(End(n), length[n + 1]))'
    <3> SUFFICES ASSUME NEW n \in Unread
                 PROVE  start'[n + 1] = Dest(start'[n] + length[n], length[n + 1])
      BY <1>2, <1>6, <1>7 DEF Dest, End
    <3>1. CASE n = written
      <4>1. writePtr = start[n] + length[n]
        BY <1>1, <1>2, <3>1 DEF Chained, Unread, End
      <4> QED
        BY <1>0, <1>6, <3>1, <4>1 DEF len, to
    <3>2. CASE n # written
      <4>1. n + 1 \in Unread
        BY <1>0, <1>2, <1>8, <3>2 DEF Unread
      <4> QED
        BY <1>1, <1>6, <3>2, <4>1 DEF Chained, End
    <3> QED
      BY <3>1, <3>2
  <2> QED
    BY <2>1, <2>2, <2>3, <2>4 DEF Chained
<1>11. \A n \in Unread' : Placed(n)'
  <2>1. Placed(k)'
    BY <1>3, <1>4, <1>5, <1>6 DEF Placed, End, Wrapped, len
  <2>2. ASSUME NEW n \in Unread PROVE Placed(n)'
    BY <1>3, <1>4, <1>5, <1>6, <1>8 DEF Placed, End, Wrapped
  <2> QED
    BY <1>7, <2>1, <2>2
<1>12. \A m, n \in Unread' : m < n => InOrder(m, n)'
  <2> SUFFICES ASSUME NEW m \in Unread', NEW n \in Unread', m < n
               PROVE  InOrder(m, n)'
    OBVIOUS
  <2>1. CASE n \in Unread
    <3>1. m \in Unread
      BY <1>2, <1>7, <1>8, <2>1
    <3> QED
      BY <1>1, <1>6, <2>1, <3>1 DEF Layout, InOrder, End, Wrapped
  <2>2. CASE n = k
    <3>1. m \in Unread
      BY <1>2, <1>7, <2>2
    <3> QED
      BY <1>3, <1>4, <1>5, <1>6, <1>8, <2>2, <3>1 DEF InOrder, Placed, End, Wrapped
  <2> QED
    BY <1>7, <2>1, <2>2
<1>13. EmptyIsEqual'
  BY <1>0, <1>1, <1>2, <1>3, <1>4, <1>6 DEF EmptyIsEqual, Chained
<1>14. WriterInv' /\ ReaderInv'
  BY <1>0, <1>1, <1>2, <1>6 DEF WriterInv, ReaderInv, WritePublish, readerVars
<1>15. DataInv'
  <2>1. \A n \in Unread : Holds(n, start[n])'
    BY <1>1, <1>6 DEF DataInv, WritePublish, readerVars, Holds, Region
  <2>2. Holds(k, to)
    BY <1>0, <1>1 DEF DataInv, WritePublish, len, to
  <2>3. Holds(k, start[k])'
    BY <1>6, <2>2 DEF WritePublish, Holds, Region
  <2>4. (reader = "publish" => copied = {consumed + 1})' /\ writer' = "idle"
    BY <1>1 DEF DataInv, WritePublish, readerVars
  <2> QED
    BY <1>7, <2>1, <2>3, <2>4 DEF DataInv
<1> QED
  BY <1>9, <1>10, <1>11, <1>12, <1>13, <1>14, <1>15 DEF IInv, Layout

-----------------------------------------------------------------------------
(* The reader.                                                             *)

\* A reader that finds an item finds one that was written.
LEMMA FilledIsUnread ==
  ASSUME TypeOK, Chained, EmptyIsEqual, consumed < MaxItems,
         CanRead(length[consumed + 1])
  PROVE  consumed < written
<1>1. consumed + 1 \in Items /\ consumed \in Int /\ written \in Int
  BY MaxItemsAssumption DEF TypeOK, Items
<1>2. readPtr \in Int /\ writePtr \in Int
  BY CapacityAssumption DEF TypeOK, Cells
<1>3. readPtr # writePtr
  BY <1>1, <1>2, LengthFacts DEF CanRead, Filled, Remaining, Dest
<1> QED
  BY <1>1, <1>3 DEF Chained, EmptyIsEqual

LEMMA ReadBeginStep == IInv /\ ReadBegin => IInv'
<1> SUFFICES ASSUME IInv, ReadBegin PROVE IInv'
  OBVIOUS
<1>1. TypeOK'
  BY DEF IInv, TypeOK, ReadBegin, writerVars, Steps
<1>2. Chained' /\ EmptyIsEqual' /\ Layout' /\ Unread' = Unread
  BY PlacesKept DEF IInv, ReadBegin, writerVars
<1>3. consumed < written
  BY FilledIsUnread DEF IInv, ReadBegin
<1>4. WriterInv' /\ ReaderInv'
  BY <1>3 DEF IInv, WriterInv, ReaderInv, ReadBegin, writerVars, CanWrite, Room, Remaining, Dest
<1>5. DataInv'
  BY <1>2 DEF IInv, DataInv, Holds, ReadBegin, writerVars
<1> QED
  BY <1>1, <1>2, <1>4, <1>5 DEF IInv

\* It copies the first of the unread items.
LEMMA ReadCopyStep == IInv /\ ReadCopy => IInv'
<1> SUFFICES ASSUME IInv, ReadCopy PROVE IInv'
  OBVIOUS
<1>0. PICK k \in Int : k = consumed + 1
  BY MaxItemsAssumption DEF IInv, TypeOK
<1>1. k \in Unread /\ Holds(k, start[k]) /\ start[k] = Dest(readPtr, length[k])
  BY <1>0, MaxItemsAssumption
  DEF IInv, TypeOK, ReadCopy, ReaderInv, Unread, DataInv, Chained
<1>2. copied' = {data[c] : c \in Region(start[k], length[k])}
  BY <1>0, <1>1 DEF ReadCopy
<1>3. start[k] \in Region(start[k], length[k])
  BY <1>1, UnreadFacts DEF IInv, Region
<1>4. copied' = {k}
  BY <1>1, <1>2, <1>3 DEF Holds
<1>5. TypeOK'
  <2>1. k \in 0 .. MaxItems
    BY <1>1, UnreadFacts, MaxItemsAssumption DEF IInv, Items
  <2> QED
    BY <1>4, <2>1 DEF IInv, TypeOK, ReadCopy, writerVars, Steps
<1>6. Chained' /\ EmptyIsEqual' /\ Layout' /\ Unread' = Unread
  BY PlacesKept DEF IInv, ReadCopy, writerVars
<1>7. WriterInv' /\ ReaderInv'
  BY DEF IInv, WriterInv, ReaderInv, ReadCopy, writerVars, CanWrite, Room, Remaining, Dest
<1>8. DataInv'
  BY <1>0, <1>4, <1>6 DEF IInv, DataInv, Holds, ReadCopy, writerVars
<1> QED
  BY <1>5, <1>6, <1>7, <1>8 DEF IInv

\* It moves its pointer past the item: what lay before the pointer now lies
\* after it if the reader has wrapped too.
LEMMA ReadPublishStep == IInv /\ ReadPublish => IInv'
<1> SUFFICES ASSUME IInv, ReadPublish PROVE IInv'
  OBVIOUS
<1>0. PICK k \in Int : k = consumed + 1
  BY MaxItemsAssumption DEF IInv, TypeOK
<1>1. TypeOK /\ Layout /\ DataInv /\ Chained /\ EmptyIsEqual /\ WriterInv
  BY DEF IInv
<1>2. /\ k \in Unread /\ start[k] = Dest(readPtr, length[k]) /\ writePtr = End(written)
      /\ copied = {k}
      /\ written \in Int /\ consumed \in Int /\ k <= written
  BY <1>0, MaxItemsAssumption
  DEF IInv, TypeOK, ReadPublish, ReturnAt, ReaderInv, Unread, DataInv, Chained
<1>3. /\ readPtr' = End(k) /\ consumed' = k /\ last' = {k} /\ reader' = "idle"
      /\ copied' = copied
      /\ UNCHANGED <<length, writePtr, data, writer, written, start>>
  BY <1>0, <1>2 DEF ReadPublish, ReturnAt, writerVars, End
<1>4. Unread' = Unread \ {k}
  BY <1>0, <1>2, <1>3 DEF Unread
<1>5. /\ writePtr \in Int /\ 0 <= writePtr /\ writePtr < Capacity
      /\ readPtr \in Int /\ 0 <= readPtr /\ readPtr < Capacity /\ Capacity \in Int
      /\ start[k] \in Int /\ 0 <= start[k] /\ length[k] \in Int /\ 0 < length[k]
  BY <1>1, <1>2, UnreadFacts, CapacityAssumption DEF TypeOK, Cells
<1>6. ASSUME NEW n \in Unread
      PROVE  /\ Placed(n) /\ n \in Int /\ k <= n /\ n <= written
             /\ k < n => InOrder(k, n)
             /\ start[n] \in Int /\ length[n] \in Int /\ 0 < length[n]
  BY <1>0, <1>1, <1>2, UnreadFacts DEF Layout, Unread
<1>7. Placed(k) /\ (~Wrapped(k) \/ start[k] = 0)
  BY <1>2, <1>5, <1>6 DEF Wrapped, Dest
<1>8. \A n \in Unread' : Placed(n)'
  <2> SUFFICES ASSUME NEW n \in Unread, k < n PROVE Placed(n)'
    BY <1>4, <1>6, <1>2
  <2> QED
    BY <1>3, <1>5, <1>6, <1>7 DEF Placed, InOrder, Wrapped, End
<1>9. \A m, n \in Unread' : m < n => InOrder(m, n)'
  <2> SUFFICES ASSUME NEW m \in Unread, NEW n \in Unread, k < m, m < n
               PROVE  InOrder(m, n)'
    BY <1>4, <1>6, <1>2
  <2>1. InOrder(m, n) /\ InOrder(k, m) /\ InOrder(k, n)
    BY <1>1, <1>2, <1>6 DEF Layout
  <2> QED
    BY <1>3, <1>5, <1>6, <1>7, <2>1 DEF Placed, InOrder, Wrapped, End
<1>10. Chained'
  <2>1. k # written => k + 1 \in Unread /\ start[k + 1] = Dest(End(k), length[k + 1])
    BY <1>0, <1>1, <1>2 DEF Chained, Unread
  <2>2. writePtr' = End(written)'
    BY <1>2, <1>3 DEF End
  <2>3. \A n \in Unread' \ {written'} : (start[n + 1] = Dest(End(n), length[n + 1]))'
    BY <1>1, <1>3, <1>4 DEF Chained, End, Dest
  <2> QED
    BY <1>2, <1>3, <2>1, <2>2, <2>3 DEF Chained, Dest
<1>11. EmptyIsEqual'
  <2>1. CASE k = written
    BY <1>2, <1>3, <2>1 DEF EmptyIsEqual
  <2>2. CASE k # written
    <3>1. written \in Unread /\ k < written
      BY <1>0, <1>2, <2>2 DEF Unread
    <3>2. readPtr' # writePtr
      BY <1>3, <1>5, <1>6, <1>7, <3>1 DEF Placed, InOrder, Wrapped, End
    <3> QED
      BY <1>3, <2>2, <3>2 DEF EmptyIsEqual
  <2> QED
    BY <2>1, <2>2
<1>12. TypeOK'
  <2>1. End(k) \in Cells
    BY <1>5, <1>7 DEF Placed, End, Cells
  <2>2. k \in 0 .. MaxItems
    BY <1>1, <1>2, UnreadFacts, MaxItemsAssumption DEF Items
  <2> QED
    BY <1>1, <1>2, <1>3, <2>1, <2>2 DEF TypeOK, Steps
<1>13. WriterInv'
  <2> SUFFICES ASSUME writer # "idle"
               PROVE  written < MaxItems /\ CanWrite(length[written + 1])'
    BY <1>3 DEF WriterInv
  <2>1. written < MaxItems /\ CanWrite(length[written + 1])
    BY <1>1 DEF WriterInv
  <2>2. written + 1 \in Items
    BY <1>1, <2>1, MaxItemsAssumption DEF TypeOK, Items
  <2>3. length[written + 1] \in Int /\ 0 < length[written + 1]
    BY <1>1, <2>2, LengthFacts
  <2> QED
    BY <1>3, <1>5, <1>7, <2>1, <2>3 DEF CanWrite, Room, Remaining, Dest, Placed, Wrapped, End
<1>14. DataInv'
  BY <1>1, <1>3, <1>4 DEF DataInv, Holds, Region, Dest
<1> QED
  BY <1>3, <1>8, <1>9, <1>10, <1>11, <1>12, <1>13, <1>14 DEF IInv, Layout, ReaderInv

\* Both pointers go back to the start, and nothing is unread.
LEMMA ClearStep == IInv /\ RingFIFOClear => IInv'
<1> SUFFICES ASSUME IInv, RingFIFOClear PROVE IInv'
  OBVIOUS
<1>1. TypeOK'
  BY CapacityAssumption DEF IInv, TypeOK, RingFIFOClear, Cells
<1>2. Unread' = {} /\ written \in Int
  BY MaxItemsAssumption DEF IInv, TypeOK, RingFIFOClear, Unread
<1>3. Chained' /\ EmptyIsEqual' /\ Layout'
  BY <1>2 DEF RingFIFOClear, Chained, EmptyIsEqual, Layout
<1>4. WriterInv' /\ ReaderInv' /\ DataInv'
  BY <1>2 DEF RingFIFOClear, WriterInv, ReaderInv, DataInv
<1> QED
  BY <1>1, <1>3, <1>4 DEF IInv

\* The invariant is inductive.
LEMMA NextIInv == IInv /\ [Next]_vars => IInv'
<1>1. IInv /\ UNCHANGED vars => IInv'
  <2> SUFFICES ASSUME IInv, UNCHANGED vars PROVE IInv'
    OBVIOUS
  <2>1. Chained' /\ EmptyIsEqual' /\ Layout' /\ Unread' = Unread
    BY PlacesKept DEF IInv, vars, writerVars, readerVars
  <2> QED
    BY <2>1 DEF IInv, TypeOK, WriterInv, ReaderInv, DataInv, Holds, vars, writerVars, readerVars,
                CanWrite, Room, Remaining, Dest
<1> QED
  BY <1>1, WriteBeginStep, WriteCopyStep, WritePublishStep, ReadBeginStep, ReadCopyStep,
     ReadPublishStep, ClearStep DEF Next, WriteStep, ReadStep

LEMMA AlwaysIInv == Spec => []IInv
BY InitIInv, NextIInv, PTL DEF Spec

-----------------------------------------------------------------------------
(* What the buffer promises.                                               *)

\* Every variable has its type (TypeOK).
THEOREM TypeCorrect == Spec => []TypeOK
BY AlwaysIInv, PTL DEF IInv

\* A write never touches a byte that is still to be read (WritesFreeBytes,
\* RingFIFOWrite).
THEOREM WritesOnlyFreeBytes == Spec => []WritesFreeBytes
<1>1. IInv => WritesFreeBytes
  <2> SUFFICES ASSUME IInv, writer # "idle", NEW n \in Unread
               PROVE  LET len == length[written + 1]
                      IN Region(Dest(writePtr, len), len) \cap Region(start[n], length[n]) = {}
    BY DEF WritesFreeBytes
  <2> DEFINE len == length[written + 1]
             to == Dest(writePtr, len)
  <2>1. to + len <= start[n] \/ start[n] + length[n] <= to
    BY RoomIsFree DEF IInv, WriterInv, End
  <2>2. written + 1 \in Items
    BY MaxItemsAssumption DEF IInv, WriterInv, TypeOK, Items
  <2>3. len \in Int /\ writePtr \in Int /\ start[n] \in Int /\ length[n] \in Int
    <3>1. len \in Int
      BY <2>2, LengthFacts DEF IInv
    <3>2. start[n] \in Int /\ length[n] \in Int
      BY UnreadFacts DEF IInv
    <3>3. writePtr \in Int
      BY CapacityAssumption DEF IInv, TypeOK, Cells
    <3> QED
      BY <3>1, <3>2, <3>3
  <2>4. to \in Int
    BY <2>3 DEF Dest
  <2> QED
    BY <2>1, <2>3, <2>4 DEF Region
<1> QED
  BY <1>1, AlwaysIInv, PTL

\* A read returns the next item, whole and alone (ReadsNextItem, RingFIFORead).
THEOREM ReadsInOrder == Spec => []ReadsNextItem
<1>1. IInv => ReadsNextItem
  BY DEF IInv, ReaderInv, DataInv, ReadsNextItem
<1> QED
  BY <1>1, AlwaysIInv, PTL

\* The size is 0 exactly when nothing is unread (SizeZeroIsEmpty, RingFIFOSize).
THEOREM SizeIsExactAtZero == Spec => []SizeZeroIsEmpty
<1>1. IInv => SizeZeroIsEmpty
  BY CapacityAssumption
  DEF IInv, TypeOK, Cells, EmptyIsEqual, SizeZeroIsEmpty, RingFIFOSize
<1> QED
  BY <1>1, AlwaysIInv, PTL

\* An empty buffer takes any item (EmptyAccepts): this is what an item's length
\* being below half of the capacity is for.
THEOREM EmptyTakesAny == Spec => []EmptyAccepts
<1>1. IInv => EmptyAccepts
  <2> SUFFICES ASSUME IInv, written < MaxItems, readPtr = writePtr
               PROVE  CanWrite(length[written + 1])
    BY DEF IInv, EmptyIsEqual, EmptyAccepts
  <2>1. written + 1 \in Items
    BY MaxItemsAssumption DEF IInv, TypeOK, Items
  <2> QED
    BY <2>1, LengthFacts DEF IInv, TypeOK, Cells, CanWrite, Room, Remaining, Dest
<1> QED
  BY <1>1, AlwaysIInv, PTL

-----------------------------------------------------------------------------
(* The refinement.                                                         *)

\* The items c + 1 to w: one more at the end, one less at the front.
LEMMA Between ==
  ASSUME NEW c \in Nat, NEW w \in Nat, c <= w
  PROVE  LET S(a, b) == [i \in 1 .. b - a |-> a + i] IN
         /\ S(c, w) \in Seq(Nat) /\ Len(S(c, w)) = w - c
         /\ S(c, w + 1) = Append(S(c, w), w + 1)
         /\ c < w => /\ S(c, w) # <<>> /\ Head(S(c, w)) = c + 1
                     /\ S(c + 1, w) = Tail(S(c, w))
         /\ S(w, w) = <<>>
<1> DEFINE S(a, b) == [i \in 1 .. b - a |-> a + i]
<1>1. \A a \in Nat, b \in Nat : a <= b => S(a, b) \in Seq(Nat) /\ Len(S(a, b)) = b - a
  OBVIOUS
<1>2. S(c, w + 1) = Append(S(c, w), w + 1)
  OBVIOUS
<1>3. S(w, w) = <<>>
  OBVIOUS
<1>4. \A a \in Nat, b \in Nat : \A i \in 1 .. b - a : S(a, b)[i] = a + i
  OBVIOUS
<1> HIDE DEF S
<1>5. c < w => S(c, w) # <<>> /\ Head(S(c, w)) = c + 1 /\ S(c + 1, w) = Tail(S(c, w))
  <2> SUFFICES ASSUME c < w
               PROVE  S(c, w) # <<>> /\ Head(S(c, w)) = c + 1 /\ S(c + 1, w) = Tail(S(c, w))
    OBVIOUS
  <2> DEFINE s == S(c, w)
             t == S(c + 1, w)
  <2>1. s \in Seq(Nat) /\ Len(s) = w - c /\ t \in Seq(Nat) /\ Len(t) = w - c - 1
    <3>1. c + 1 \in Nat /\ c + 1 <= w /\ w - (c + 1) = w - c - 1
      OBVIOUS
    <3>2. s \in Seq(Nat) /\ Len(s) = w - c
      BY <1>1
    <3>3. t \in Seq(Nat) /\ Len(t) = w - (c + 1)
      BY <1>1, <3>1
    <3> QED
      BY <3>1, <3>2, <3>3
  <2>2. s[1] = c + 1 /\ \A i \in 1 .. w - c - 1 : t[i] = s[i + 1]
    <3>1. c + 1 \in Nat /\ 1 \in 1 .. w - c
      OBVIOUS
    <3>2. \A i \in 1 .. w - c - 1 : i + 1 \in 1 .. w - c /\ i \in 1 .. w - (c + 1)
      OBVIOUS
    <3> QED
      BY <1>4, <3>1, <3>2
  <2> HIDE DEF s, t
  <2>3. s # <<>>
    BY <2>1
  <2>4. Head(s) = s[1] /\ Tail(s) \in Seq(Nat) /\ Len(Tail(s)) = w - c - 1
        /\ \A i \in 1 .. w - c - 1 : Tail(s)[i] = s[i + 1]
    BY <2>1, <2>3, HeadTailProperties
  <2>5. t = Tail(s)
    BY <2>1, <2>2, <2>4, SeqEqual
  <2> QED
    BY <2>2, <2>3, <2>4, <2>5 DEF s, t
<1> QED
  BY <1>1, <1>2, <1>3, <1>5 DEF S

\* The buffer implements Pipe: every step is a step of Pipe or changes nothing
\* that Pipe speaks of.
THEOREM ImplementsPipe == Spec => PipeSpec
<1>1. Init => P!Init
  BY DEF Init, P!Init
<1>2. IInv /\ [Next]_vars => [P!Next]_P!vars
  <2> SUFFICES ASSUME IInv, [Next]_vars PROVE [P!Next]_P!vars
    OBVIOUS
  <2>1. consumed \in Nat /\ written \in Nat /\ consumed <= written
    BY MaxItemsAssumption DEF IInv, TypeOK, Chained
  <2> DEFINE S(c, w) == [i \in 1 .. w - c |-> c + i]
  <2>2. CASE WritePublish
    <3>1. written' = written + 1 /\ consumed' = consumed /\ last' = last
      BY <2>2 DEF WritePublish, readerVars
    <3>2. S(consumed, written + 1) = Append(S(consumed, written), written + 1)
      BY <2>1, Between
    <3> QED
      BY <3>1, <3>2 DEF P!Next, P!Put
  <2>3. CASE ReadPublish
    <3>1. consumed < written /\ copied = {consumed + 1}
      BY <2>3 DEF IInv, ReaderInv, DataInv, ReadPublish, ReturnAt
    <3>2. written' = written /\ consumed' = consumed + 1 /\ last' = {consumed + 1}
      BY <2>3, <3>1 DEF ReadPublish, ReturnAt, writerVars
    <3>3. /\ S(consumed, written) # <<>>
          /\ Head(S(consumed, written)) = consumed + 1
          /\ S(consumed + 1, written) = Tail(S(consumed, written))
      BY <2>1, <3>1, Between
    <3> QED
      BY <3>2, <3>3 DEF P!Next, P!Take
  <2>4. CASE RingFIFOClear
    BY <2>1, <2>4, Between DEF RingFIFOClear, P!Next, P!Drop
  <2>5. CASE UNCHANGED <<written, consumed, last>>
    BY <2>5 DEF P!vars
  <2> QED
    BY <2>2, <2>3, <2>4, <2>5 DEF Next, WriteStep, ReadStep, WriteBegin, WriteCopy, ReadBegin,
       ReadCopy, vars, writerVars, readerVars
<1> QED
  BY <1>1, <1>2, AlwaysIInv, PTL DEF Spec, PipeSpec, P!Spec
=============================================================================
