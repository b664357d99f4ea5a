---------------------------- MODULE TimingProofs ----------------------------
(***************************************************************************)
(* Proofs about Timing, for any events and priorities, any delays and      *)
(* instructions that are short against the counters, and counters of any   *)
(* width.                                                                  *)
(***************************************************************************)
EXTENDS Timing, SequenceTheorems, FiniteSetTheorems, TLAPS

-----------------------------------------------------------------------------
(* The invariant.                                                          *)

Half == Wrap \div 2

\* An event may come before another one.
Before(e, f, times) ==
    times[e] < times[f] \/ (times[e] = times[f] /\ Priority[e] <= Priority[f])

\* A list that has every event of a set of times once and in order.
Lists(list, times) ==
    /\ list \in Seq(Events)
    /\ {list[i] : i \in 1 .. Len(list)} = DOMAIN times
    /\ \A i, j \in 1 .. Len(list) :
         i < j => list[i] # list[j] /\ Before(list[i], list[j], times)

\* Wherever the list is, there is only one.
OneList == root = <<>> \/ reroot = <<>>

\* The wrapping times are the true ones, which are near.
Exact ==
    /\ due \in [Scheduled -> Int] /\ when \in [Scheduled -> Int]
    /\ \A e \in Scheduled : when[e] = (due[e] + masterCycles) % Wrap

\* How far the processor may run, and how late an event may be, which is no more
\* than an instruction.
Near ==
    /\ masterCycles \in 0 .. Wrap - 1 /\ relativeCycles \in Nat /\ nextEvent \in Int
    /\ late \in Nat
    /\ mode \in {"run", "tick", "callback"}
    /\ mode = "run" =>
         /\ nextEvent \in 0 .. MaxDelay
         /\ relativeCycles < nextEvent + MaxCycles
         /\ \A e \in Scheduled :
              /\ nextEvent <= due[e]
              /\ due[e] <= MaxDelay + relativeCycles /\ due[e] < 2 * MaxDelay
    /\ mode # "run" =>
         /\ relativeCycles = 0
         /\ nextEvent \in -MaxCycles .. Far
         /\ \A e \in Scheduled : -MaxCycles < due[e] /\ due[e] <= MaxDelay
    /\ mode = "callback" => late < MaxCycles
    /\ mode # "callback" => late = 0
    /\ ops \in 0 .. MaxOps

IInv == Lists(Restored, due) /\ OneList /\ Exact /\ Near

-----------------------------------------------------------------------------
(* Times that wrap.                                                        *)

LEMMA ConstantFacts ==
  /\ Wrap \in Nat /\ Half \in Nat /\ Wrap = 2 * Half /\ Far = Half - 1
  /\ MaxDelay \in Nat /\ MaxDelay >= 1 /\ MaxCycles \in Nat /\ MaxCycles >= 1
  /\ 2 * MaxDelay <= Half /\ MaxDelay + MaxCycles <= Half
  /\ MaxOps \in Nat /\ MaxOps >= 1
  /\ Priority \in [Events -> Nat] /\ Video \in Events /\ Delays \subseteq 0 .. MaxDelay
<1>1. Wrap = 2 * (Wrap \div 2) /\ Wrap \div 2 \in Nat
  BY WrapAssumption
<1> QED
  BY <1>1, WrapAssumption, DelaysAssumption, MaxCyclesAssumption, MaxOpsAssumption,
     PriorityAssumption, VideoAssumption DEF Half, Far

LEMMA ModFacts ==
  ASSUME NEW w \in Nat, w > 0, NEW a \in Int
  PROVE  /\ a % w \in 0 .. w - 1
         /\ 0 <= a /\ a < w => a % w = a
         /\ -w <= a /\ a < 0 => a % w = a + w
         /\ w <= a /\ a < 2 * w => a % w = a - w
<1>1. a % w \in 0 .. w - 1
  OBVIOUS
<1>2. ASSUME 0 <= a, a < w PROVE a % w = a
  BY <1>2
<1>3. ASSUME -w <= a, a < 0 PROVE a % w = a + w
  BY <1>3
<1>4. ASSUME w <= a, a < 2 * w PROVE a % w = a - w
  BY <1>4
<1> QED
  BY <1>1, <1>2, <1>3, <1>4

\* The sign of a difference tells which of two times is the earlier one.
LEMMA SignedDifference ==
  ASSUME NEW m \in 0 .. Wrap - 1, NEW x \in Int, -Half <= x, x <= Far
  PROVE  Signed(((x + m) % Wrap) - m) = x
<1> DEFINE y == ((x + m) % Wrap) - m
<1>1. Wrap \in Nat /\ Wrap > 0 /\ Half \in Nat /\ Wrap = 2 * Half /\ Far = Half - 1
  BY ConstantFacts
<1>2. x + m \in Int /\ y \in Int /\ (y = x \/ (y = x + Wrap /\ x < 0) \/ (y = x - Wrap /\ x > 0))
  <2>1. x + m \in Int /\ -Wrap <= x + m /\ x + m < 2 * Wrap
    BY <1>1
  <2>2. CASE x + m < 0
    BY <1>1, <2>1, <2>2, ModFacts
  <2>3. CASE 0 <= x + m /\ x + m < Wrap
    BY <1>1, <2>1, <2>3, ModFacts
  <2>4. CASE Wrap <= x + m
    BY <1>1, <2>1, <2>4, ModFacts
  <2> QED
    BY <1>1, <2>1, <2>2, <2>3, <2>4
<1> HIDE DEF y
<1>3. y % Wrap = IF x >= 0 THEN x ELSE x + Wrap
  <2>1. CASE y = x
    BY <1>1, <1>2, <2>1, ModFacts
  <2>2. CASE y = x + Wrap /\ x < 0
    BY <1>1, <1>2, <2>2, ModFacts
  <2>3. CASE y = x - Wrap /\ x > 0
    BY <1>1, <1>2, <2>3, ModFacts
  <2> QED
    BY <1>2, <2>1, <2>2, <2>3
<1>4. Signed(y) = x
  BY <1>1, <1>3 DEF Signed
<1> QED
  BY <1>4 DEF y

\* When the clock is advanced the times stay where they are.
LEMMA WrapAgain ==
  ASSUME NEW m \in 0 .. Wrap - 1, NEW c \in Nat, NEW x \in Int,
         -Half <= x, x + c <= Far, c <= Far
  PROVE  (x + ((m + c) % Wrap)) % Wrap = ((x + c) + m) % Wrap
<1>1. Wrap \in Nat /\ Wrap > 0 /\ Half \in Nat /\ Wrap = 2 * Half /\ Far = Half - 1
  BY ConstantFacts
<1>2. m + c \in Int /\ 0 <= m + c /\ m + c < 2 * Wrap
  BY <1>1
<1>3. CASE m + c < Wrap
  <2>1. (m + c) % Wrap = m + c
    BY <1>1, <1>2, <1>3, ModFacts
  <2>2. x + (m + c) = (x + c) + m
    BY <1>1
  <2> QED
    BY <2>1, <2>2
<1>4. CASE Wrap <= m + c
  <2>1. (m + c) % Wrap = m + c - Wrap
    BY <1>1, <1>2, <1>4, ModFacts
  <2> DEFINE z == (x + c) + m
  <2>2. z \in Int /\ 0 <= z /\ z < 2 * Wrap /\ x + (m + c - Wrap) = z - Wrap /\ z - Wrap \in Int
    BY <1>1, <1>2, <1>4
  <2> HIDE DEF z
  <2>3. (z - Wrap) % Wrap = z % Wrap
    <3>1. CASE z < Wrap
      <4>1. (z - Wrap) % Wrap = (z - Wrap) + Wrap
        BY <1>1, <2>2, <3>1, ModFacts
      <4> QED
        BY <1>1, <2>2, <3>1, <4>1, ModFacts
    <3>2. CASE Wrap <= z
      <4>1. (z - Wrap) % Wrap = z - Wrap
        BY <1>1, <2>2, <3>2, ModFacts
      <4> QED
        BY <1>1, <2>2, <3>2, <4>1, ModFacts
    <3> QED
      BY <1>1, <2>2, <3>1, <3>2
  <2>4. x + ((m + c) % Wrap) = z - Wrap
    BY <2>1, <2>2
  <2>5. z = (x + c) + m
    BY DEF z
  <2> QED
    BY <2>3, <2>4, <2>5
<1> QED
  BY <1>1, <1>2, <1>3, <1>4

\* So the code sees the true times.
LEMMA UntilIsDue ==
  ASSUME Exact, Near, NEW e \in Scheduled
  PROVE  Until(e) = due[e] /\ due[e] \in Int /\ -Half <= due[e] /\ due[e] <= Far
<1>1. due[e] \in Int /\ -Half <= due[e] /\ due[e] <= Far /\ masterCycles \in 0 .. Wrap - 1
  BY ConstantFacts DEF Exact, Near
<1>2. when[e] = (due[e] + masterCycles) % Wrap
  BY DEF Exact
<1> QED
  BY <1>1, <1>2, SignedDifference DEF Until

-----------------------------------------------------------------------------
(* Lists.                                                                  *)

\* A nonempty set of numbers has a least one: of the sets 0 .. x, where x is in it,
\* there is one with no other inside.
LEMMA LeastNat ==
  ASSUME NEW S \in SUBSET Nat, S # {}
  PROVE  Min(S) \in S /\ \A y \in S : Min(S) <= y
<1> DEFINE T == {0 .. x : x \in S}
<1>1. T \subseteq FiniteSubsetsOf(Nat) /\ T # {}
  <2>1. ASSUME NEW x \in S PROVE IsFiniteSet(0 .. x) /\ 0 .. x \in SUBSET Nat
    BY FS_Interval
  <2> QED
    BY <2>1 DEF FiniteSubsetsOf
<1>2. \E t \in T : \A u \in T : ~(<<u, t>> \in StrictSubsetOrdering(Nat))
  <2> HIDE DEF T
  <2> QED
    BY <1>1, FS_StrictSubsetOrderingWellFounded, WFMin, Zenon
<1>3. PICK x \in S : \A y \in S : ~(<<0 .. y, 0 .. x>> \in StrictSubsetOrdering(Nat))
  BY <1>2
<1>4. ASSUME NEW y \in S PROVE x <= y
  <2> SUFFICES ASSUME y < x PROVE FALSE
    OBVIOUS
  <2>1. 0 .. y \subseteq 0 .. x /\ x \in 0 .. x /\ x \notin 0 .. y
        /\ 0 .. y \in SUBSET Nat /\ 0 .. x \in SUBSET Nat
    OBVIOUS
  <2> QED
    BY <1>3, <2>1 DEF StrictSubsetOrdering
<1> QED
  BY <1>4 DEF Min

\* The event goes to the p-th place: all before it are earlier, the next is later.
Place(p, e, n, list) ==
    /\ \A k \in 1 .. Len(list) :
         k < p => \/ due[list[k]] < n
                  \/ due[list[k]] = n /\ Priority[list[k]] <= Priority[e]
    /\ p <= Len(list) => \/ due[list[p]] > n
                         \/ due[list[p]] = n /\ Priority[list[p]] > Priority[e]
    /\ Insert(e, n, list) \in Seq(Events) /\ Len(Insert(e, n, list)) = Len(list) + 1
    /\ \A j \in 1 .. Len(list) + 1 :
         Insert(e, n, list)[j] = IF j < p THEN list[j] ELSE IF j = p THEN e ELSE list[j - 1]

\* The loop over the list stops at the first event that is to come later.
LEMMA InsertPlace ==
  ASSUME Exact, Near, NEW list \in Seq(Events), \A i \in 1 .. Len(list) : list[i] \in Scheduled,
         NEW e \in Events, NEW n \in Int
  PROVE  \E p \in 1 .. Len(list) + 1 : Place(p, e, n, list)
<1> DEFINE Later(f) == Until(f) > n \/ (Until(f) = n /\ Priority[f] > Priority[e])
           I == {i \in 1 .. Len(list) : Later(list[i])}
<1>1. Len(list) \in Nat /\ Priority \in [Events -> Nat]
  BY ConstantFacts
<1>2. \A i \in 1 .. Len(list) : list[i] \in Events /\ due[list[i]] \in Int
        /\ (i \in I <=> \/ due[list[i]] > n
                        \/ due[list[i]] = n /\ Priority[list[i]] > Priority[e])
  BY UntilIsDue
<1>3. Insert(e, n, list) = IF I = {} THEN Append(list, e) ELSE InsertAt(list, Min(I), e)
  <2>1. SelectInSeq(list, Later) = IF I # {} THEN Min(I) ELSE 0
    BY DEF SelectInSeq
  <2>2. I # {} => Min(I) # 0
    <3>1. I \in SUBSET Nat /\ 0 \notin I
      OBVIOUS
    <3> HIDE DEF I
    <3> QED
      BY <3>1, LeastNat
  <2> QED
    BY <2>1, <2>2 DEF Insert
<1>4. CASE I = {}
  <2>1. Insert(e, n, list) = Append(list, e) /\ Len(list) + 1 \in 1 .. Len(list) + 1
    BY <1>1, <1>3, <1>4
  <2>2. \A k \in 1 .. Len(list) : \/ due[list[k]] < n
                                  \/ due[list[k]] = n /\ Priority[list[k]] <= Priority[e]
    BY <1>1, <1>2, <1>4
  <2> HIDE DEF I
  <2>3. /\ Append(list, e) \in Seq(Events) /\ Len(Append(list, e)) = Len(list) + 1
        /\ \A j \in 1 .. Len(list) + 1 :
             Append(list, e)[j] = IF j < Len(list) + 1 THEN list[j] ELSE e
    BY <1>1, AppendProperties
  <2> WITNESS Len(list) + 1 \in 1 .. Len(list) + 1
  <2> QED
    BY <1>1, <2>1, <2>2, <2>3 DEF Place
<1>5. CASE I # {}
  <2>1. PICK p : p = Min(I)
    OBVIOUS
  <2>2. p \in I /\ \A y \in I : p <= y
    <3>1. I \in SUBSET Nat
      OBVIOUS
    <3> HIDE DEF I
    <3> QED
      BY <1>5, <2>1, <3>1, LeastNat
  <2>3. p \in 1 .. Len(list) /\ p \in 1 .. Len(list) + 1
    BY <1>1, <2>2
  <2>4. ASSUME NEW k \in 1 .. Len(list), k < p
        PROVE  \/ due[list[k]] < n
               \/ due[list[k]] = n /\ Priority[list[k]] <= Priority[e]
    <3>1. k \notin I
      BY <2>2, <2>3, <2>4
    <3> QED
      BY <1>1, <1>2, <3>1
  <2>5. due[list[p]] > n \/ (due[list[p]] = n /\ Priority[list[p]] > Priority[e])
    BY <1>2, <2>2, <2>3
  <2>6. Insert(e, n, list) = InsertAt(list, p, e)
    BY <1>3, <1>5, <2>1
  <2> HIDE DEF I
  <2>7. /\ InsertAt(list, p, e) \in Seq(Events) /\ Len(InsertAt(list, p, e)) = Len(list) + 1
        /\ \A j \in 1 .. Len(list) + 1 :
             InsertAt(list, p, e)[j] = IF j < p THEN list[j] ELSE IF j = p THEN e ELSE list[j - 1]
    <3> DEFINE a == SubSeq(list, 1, p - 1)
               b == SubSeq(list, p, Len(list))
    <3>1. /\ a \in Seq(Events) /\ Len(a) = p - 1
          /\ \A i \in 1 .. p - 1 : a[i] = list[i]
      BY <1>1, <2>3
    <3>2. /\ b \in Seq(Events) /\ Len(b) = Len(list) - p + 1
          /\ \A i \in 1 .. Len(list) - p + 1 : b[i] = list[p + i - 1]
      <4>1. \A i \in p .. Len(list) : list[i] \in Events
        BY <1>1, <1>2, <2>3
      <4>2. p \in Int /\ Len(list) \in Int /\ Len(list) + 1 >= p /\ Len(list) - p + 1 \in Nat
        BY <1>1, <2>3
      <4>3. /\ b \in Seq(Events) /\ Len(b) = Len(list) - p + 1
            /\ \A i \in 1 .. Len(list) - p + 1 : b[i] = list[p + i - 1]
        BY <2>3, <4>1, <4>2, SubSeqProperties
      <4> QED
        BY <4>3
    <3>3. <<e>> \in Seq(Events) /\ Len(<<e>>) = 1 /\ <<e>>[1] = e
      OBVIOUS
    <3>4. InsertAt(list, p, e) = (a \o <<e>>) \o b
      BY DEF InsertAt
    <3> HIDE DEF a, b
    <3>5. /\ a \o <<e>> \in Seq(Events) /\ Len(a \o <<e>>) = p
          /\ \A i \in 1 .. p : (a \o <<e>>)[i] = IF i < p THEN list[i] ELSE e
      BY <2>3, <3>1, <3>3, ConcatProperties
    <3> DEFINE c == a \o <<e>>
    <3> HIDE DEF c
    <3>6. /\ c \o b \in Seq(Events) /\ Len(c \o b) = Len(list) + 1
          /\ \A j \in 1 .. Len(list) + 1 :
               (c \o b)[j] = IF j < p THEN list[j] ELSE IF j = p THEN e ELSE list[j - 1]
      <4>1. c \in Seq(Events) /\ Len(c) = p /\ \A i \in 1 .. p : c[i] = IF i < p THEN list[i] ELSE e
        BY <3>5 DEF c
      <4>2. /\ c \o b \in Seq(Events) /\ Len(c \o b) = p + (Len(list) - p + 1)
            /\ \A j \in 1 .. p + (Len(list) - p + 1) :
                 (c \o b)[j] = IF j <= p THEN c[j] ELSE b[j - p]
        <5>1. /\ c \o b \in Seq(Events) /\ Len(c \o b) = Len(c) + Len(b)
              /\ \A j \in 1 .. Len(c) + Len(b) :
                   (c \o b)[j] = IF j <= Len(c) THEN c[j] ELSE b[j - Len(c)]
          BY <3>2, <4>1, ConcatProperties
        <5>2. Len(c) = p /\ Len(b) = Len(list) - p + 1
          BY <3>2, <4>1
        <5> QED
          BY <5>1, <5>2, Zenon
      <4>3. Len(c \o b) = Len(list) + 1 /\ p + (Len(list) - p + 1) = Len(list) + 1
        BY <1>1, <2>3, <4>2
      <4>4. ASSUME NEW j \in 1 .. Len(list) + 1
            PROVE  (c \o b)[j] = IF j < p THEN list[j] ELSE IF j = p THEN e ELSE list[j - 1]
        <5>1. (c \o b)[j] = IF j <= p THEN c[j] ELSE b[j - p]
          BY <4>2, <4>3
        <5>2. CASE j <= p
          BY <2>3, <4>1, <5>1, <5>2
        <5>3. CASE j > p
          <6>1. j - p \in 1 .. Len(list) - p + 1 /\ p + (j - p) - 1 = j - 1
            BY <1>1, <2>3, <5>3
          <6>2. b[j - p] = list[p + (j - p) - 1]
            BY <3>2, <6>1
          <6> QED
            BY <2>3, <5>1, <5>3, <6>1, <6>2
        <5>4. j <= p \/ j > p
          BY <1>1, <2>3
        <5> QED
          BY <5>2, <5>3, <5>4
      <4> QED
        BY <4>2, <4>3, <4>4
    <3>7. InsertAt(list, p, e) = c \o b
      BY <3>4 DEF c
    <3> QED
      BY <3>6, <3>7
  <2> QED
    BY <2>3, <2>4, <2>5, <2>6, <2>7 DEF Place
<1> QED
  BY <1>4, <1>5

\* With an event more the list is still one of all events, in order.
LEMMA InsertKeepsOrder ==
  ASSUME Exact, Near, NEW list, Lists(list, due),
         NEW e \in Events, e \notin Scheduled, NEW n \in Int
  PROVE  Lists(Insert(e, n, list),
               [f \in Scheduled \cup {e} |-> IF f = e THEN n ELSE due[f]])
<1> DEFINE new == Insert(e, n, list)
           times == [f \in Scheduled \cup {e} |-> IF f = e THEN n ELSE due[f]]
<1>1. /\ list \in Seq(Events) /\ Len(list) \in Nat
      /\ {list[i] : i \in 1 .. Len(list)} = Scheduled
      /\ \A i, j \in 1 .. Len(list) : i < j => list[i] # list[j] /\ Before(list[i], list[j], due)
  BY DEF Lists, Scheduled
<1>2. \A i \in 1 .. Len(list) :
        list[i] \in Scheduled /\ list[i] \in Events /\ list[i] # e /\ due[list[i]] \in Int
        /\ Priority[list[i]] \in Nat
  <2>1. \A i \in 1 .. Len(list) : list[i] \in Scheduled /\ list[i] \in Events
    BY <1>1
  <2> QED
    BY <2>1, ConstantFacts DEF Exact
<1>3. Priority[e] \in Nat
  BY ConstantFacts
<1>place. PICK p \in 1 .. Len(list) + 1 : Place(p, e, n, list)
  BY <1>1, <1>2, InsertPlace
<1>4. /\ p \in 1 .. Len(list) + 1
      /\ \A k \in 1 .. Len(list) :
           k < p => \/ due[list[k]] < n
                    \/ due[list[k]] = n /\ Priority[list[k]] <= Priority[e]
      /\ p <= Len(list) => \/ due[list[p]] > n
                           \/ due[list[p]] = n /\ Priority[list[p]] > Priority[e]
      /\ new \in Seq(Events) /\ Len(new) = Len(list) + 1
      /\ \A j \in 1 .. Len(list) + 1 :
           new[j] = IF j < p THEN list[j] ELSE IF j = p THEN e ELSE list[j - 1]
  BY <1>place DEF Place
<1>5. times[e] = n /\ DOMAIN times = Scheduled \cup {e} /\ \A f \in Scheduled : times[f] = due[f]
  BY DEF Scheduled
<1> HIDE DEF new, times
\* From there on all come later.
<1>6. \A k \in 1 .. Len(list) :
        k >= p => \/ due[list[k]] > n
                  \/ due[list[k]] = n /\ Priority[list[k]] > Priority[e]
  <2> TAKE k \in 1 .. Len(list)
  <2> HAVE k >= p
  <2>1. CASE k = p
    BY <1>1, <1>4, <2>1
  <2>2. CASE p < k
    <3>1. p \in 1 .. Len(list) /\ p <= Len(list)
      BY <1>1, <2>2
    <3>2. Before(list[p], list[k], due)
      BY <1>1, <2>2, <3>1
    <3>3. /\ due[list[p]] \in Int /\ due[list[k]] \in Int
          /\ Priority[list[p]] \in Nat /\ Priority[list[k]] \in Nat
          /\ \/ due[list[p]] > n
             \/ due[list[p]] = n /\ Priority[list[p]] > Priority[e]
      BY <1>2, <1>4, <3>1
    <3>4. \/ due[list[p]] < due[list[k]]
          \/ due[list[p]] = due[list[k]] /\ Priority[list[p]] <= Priority[list[k]]
      BY <3>2 DEF Before
    <3>5. CASE due[list[p]] > n
      BY <3>3, <3>4, <3>5
    <3>6. CASE due[list[p]] = n /\ Priority[list[p]] > Priority[e]
      BY <1>3, <3>3, <3>4, <3>6
    <3> QED
      BY <3>3, <3>5, <3>6
  <2> QED
    BY <1>1, <2>1, <2>2
<1>7. {new[j] : j \in 1 .. Len(new)} = DOMAIN times
  <2>1. ASSUME NEW j \in 1 .. Len(new) PROVE new[j] \in Scheduled \cup {e}
    <3>1. CASE j < p
      BY <1>1, <1>2, <1>4, <3>1
    <3>2. CASE j = p
      BY <1>1, <1>4, <3>2
    <3>3. CASE j > p
      <4>1. new[j] = list[j - 1] /\ j - 1 \in 1 .. Len(list)
        BY <1>1, <1>4, <3>3
      <4> QED
        BY <1>2, <4>1
    <3> QED
      BY <1>1, <1>4, <3>1, <3>2, <3>3
  <2>2. ASSUME NEW f \in Scheduled PROVE \E j \in 1 .. Len(new) : new[j] = f
    <3>1. PICK i \in 1 .. Len(list) : list[i] = f
      BY <1>1
    <3>2. CASE i < p
      BY <1>1, <1>4, <3>1, <3>2
    <3>3. CASE i >= p
      <4>1. i + 1 \in 1 .. Len(new) /\ new[i + 1] = list[(i + 1) - 1] /\ (i + 1) - 1 = i
        BY <1>1, <1>4, <3>3
      <4> QED
        BY <3>1, <4>1
    <3> QED
      BY <1>1, <3>2, <3>3
  <2>3. p \in 1 .. Len(new) /\ new[p] = e
    BY <1>1, <1>4
  <2> QED
    BY <1>5, <2>1, <2>2, <2>3
<1>8. ASSUME NEW i \in 1 .. Len(new), NEW j \in 1 .. Len(new), i < j
      PROVE  new[i] # new[j] /\ Before(new[i], new[j], times)
  <2>1. i \in Int /\ j \in Int /\ p \in Int /\ Len(new) = Len(list) + 1
    BY <1>1, <1>4
  <2>2. CASE j < p
    <3>1. i \in 1 .. Len(list) /\ j \in 1 .. Len(list) /\ new[i] = list[i] /\ new[j] = list[j]
      BY <1>1, <1>4, <1>8, <2>1, <2>2
    <3>2. list[i] # list[j] /\ Before(list[i], list[j], due)
      BY <1>1, <1>8, <3>1
    <3>3. times[list[i]] = due[list[i]] /\ times[list[j]] = due[list[j]]
      BY <1>2, <1>5, <3>1
    <3> QED
      BY <3>1, <3>2, <3>3 DEF Before
  <2>3. CASE j = p
    <3>1. i \in 1 .. Len(list) /\ new[i] = list[i] /\ new[j] = e /\ i < p
      BY <1>1, <1>4, <1>8, <2>1, <2>3
    <3>2. /\ list[i] # e /\ times[list[i]] = due[list[i]] /\ times[e] = n
          /\ due[list[i]] < n \/ (due[list[i]] = n /\ Priority[list[i]] <= Priority[e])
      BY <1>2, <1>4, <1>5, <3>1
    <3> QED
      BY <3>1, <3>2 DEF Before
  <2>4. CASE j > p /\ i = p
    <3>1. j - 1 \in 1 .. Len(list) /\ j - 1 >= p /\ new[i] = e /\ new[j] = list[j - 1]
      BY <1>1, <1>4, <2>1, <2>4
    <3>2. PICK f : f = list[j - 1]
      OBVIOUS
    <3>3. /\ f # e /\ times[f] = due[f] /\ times[e] = n /\ due[f] \in Int
          /\ Priority[f] \in Nat
          /\ due[f] > n \/ (due[f] = n /\ Priority[f] > Priority[e])
      BY <1>2, <1>5, <1>6, <3>1, <3>2
    <3> QED
      BY <1>3, <3>1, <3>2, <3>3 DEF Before
  <2>5. CASE j > p /\ i < p
    <3>1. /\ i \in 1 .. Len(list) /\ j - 1 \in 1 .. Len(list) /\ i < j - 1
          /\ new[i] = list[i] /\ new[j] = list[j - 1]
      BY <1>1, <1>4, <2>1, <2>5
    <3>2. list[i] # list[j - 1] /\ Before(list[i], list[j - 1], due)
      BY <1>1, <3>1
    <3>3. times[list[i]] = due[list[i]] /\ times[list[j - 1]] = due[list[j - 1]]
      BY <1>2, <1>5, <3>1
    <3> QED
      BY <3>1, <3>2, <3>3 DEF Before
  <2>6. CASE i > p
    <3>1. /\ i - 1 \in 1 .. Len(list) /\ j - 1 \in 1 .. Len(list) /\ i - 1 < j - 1
          /\ new[i] = list[i - 1] /\ new[j] = list[j - 1]
      BY <1>1, <1>4, <1>8, <2>1, <2>6
    <3>2. list[i - 1] # list[j - 1] /\ Before(list[i - 1], list[j - 1], due)
      BY <1>1, <3>1
    <3>3. times[list[i - 1]] = due[list[i - 1]] /\ times[list[j - 1]] = due[list[j - 1]]
      BY <1>2, <1>5, <3>1
    <3> QED
      BY <3>1, <3>2, <3>3 DEF Before
  <2> QED
    BY <1>8, <2>1, <2>2, <2>3, <2>4, <2>5, <2>6
<1>9. Lists(new, times)
  BY <1>4, <1>7, <1>8 DEF Lists
<1> QED
  BY <1>9 DEF new, times

\* And with one less.
LEMMA RemovalKeepsOrder ==
  ASSUME NEW list, NEW times, Lists(list, times), NEW p \in 1 .. Len(list),
         NEW new \in Seq(Events), Len(new) = Len(list) - 1,
         \A j \in 1 .. Len(new) : new[j] = list[IF j < p THEN j ELSE j + 1]
  PROVE  Lists(new, [f \in DOMAIN times \ {list[p]} |-> times[f]])
<1> DEFINE left == [f \in DOMAIN times \ {list[p]} |-> times[f]]
           Old(j) == IF j < p THEN j ELSE j + 1
<1>1. /\ list \in Seq(Events) /\ Len(list) \in Nat
      /\ {list[i] : i \in 1 .. Len(list)} = DOMAIN times
      /\ \A i, j \in 1 .. Len(list) : i < j => list[i] # list[j] /\ Before(list[i], list[j], times)
  BY DEF Lists
<1>2. \A i, j \in 1 .. Len(list) : i # j => list[i] # list[j]
  BY <1>1
<1>3. \A j \in 1 .. Len(new) : Old(j) \in 1 .. Len(list) /\ Old(j) # p /\ new[j] = list[Old(j)]
  BY <1>1
<1>4. DOMAIN left = DOMAIN times \ {list[p]} /\ \A f \in DOMAIN left : left[f] = times[f]
  OBVIOUS
<1>5. \A i, j \in 1 .. Len(new) : i < j => Old(i) < Old(j)
  BY <1>1
<1>6. \A i \in 1 .. Len(list) : i # p => \E j \in 1 .. Len(new) : Old(j) = i
  <2> TAKE i \in 1 .. Len(list)
  <2> HAVE i # p
  <2>1. CASE i < p
    <3>1. i \in 1 .. Len(new) /\ Old(i) = i
      BY <1>1, <2>1
    <3> QED
      BY <3>1
  <2>2. CASE i > p
    <3>1. i - 1 \in 1 .. Len(new) /\ Old(i - 1) = i
      BY <1>1, <2>2
    <3> QED
      BY <3>1
  <2> QED
    BY <1>1, <2>1, <2>2
<1> HIDE DEF left, Old
<1>7. {new[j] : j \in 1 .. Len(new)} = DOMAIN left
  <2>1. ASSUME NEW j \in 1 .. Len(new) PROVE new[j] \in DOMAIN left
    BY <1>1, <1>2, <1>3, <1>4
  <2>2. ASSUME NEW f \in DOMAIN left PROVE \E j \in 1 .. Len(new) : new[j] = f
    <3>1. PICK i \in 1 .. Len(list) : list[i] = f /\ i # p
      BY <1>1, <1>4
    <3>2. PICK j \in 1 .. Len(new) : Old(j) = i
      BY <1>6, <3>1
    <3> QED
      BY <1>3, <3>1, <3>2
  <2> QED
    BY <2>1, <2>2
<1>8. ASSUME NEW i \in 1 .. Len(new), NEW j \in 1 .. Len(new), i < j
      PROVE  new[i] # new[j] /\ Before(new[i], new[j], left)
  <2>1. new[i] # new[j] /\ Before(new[i], new[j], times)
    <3>1. /\ Old(i) \in 1 .. Len(list) /\ Old(j) \in 1 .. Len(list) /\ Old(i) < Old(j)
          /\ new[i] = list[Old(i)] /\ new[j] = list[Old(j)]
      BY <1>3, <1>5, <1>8
    <3> QED
      BY <1>1, <3>1
  <2>2. new[i] \in DOMAIN left /\ new[j] \in DOMAIN left
    BY <1>7
  <2> QED
    BY <1>4, <2>1, <2>2 DEF Before
<1>9. Lists(new, left)
  BY <1>7, <1>8 DEF Lists
<1> QED
  BY <1>9 DEF left

LEMMA RemoveFirstKeepsOrder ==
  ASSUME NEW list, Lists(list, due), NEW e \in Events
  PROVE  Lists(RemoveFirst(list, e), [f \in Scheduled \ {e} |-> due[f]])
<1> DEFINE new == RemoveFirst(list, e)
           I == {i \in 1 .. Len(list) : list[i] = e}
<1>1. /\ list \in Seq(Events) /\ Len(list) \in Nat
      /\ {list[i] : i \in 1 .. Len(list)} = Scheduled
      /\ \A i \in 1 .. Len(list) : list[i] \in Events
  BY DEF Lists, Scheduled
<1>2. CASE I = {}
  <2>1. new = list
    BY <1>2 DEF RemoveFirst
  <2>2. e \notin Scheduled
    BY <1>1, <1>2
  <2>3. \A f \in Scheduled : [g \in Scheduled \ {e} |-> due[g]][f] = due[f]
    BY <2>2
  <2>4. DOMAIN [g \in Scheduled \ {e} |-> due[g]] = Scheduled
    BY <2>2
  <2>5. \A i \in 1 .. Len(list) : list[i] \in Scheduled
    BY <1>1
  <2> QED
    BY <2>1, <2>3, <2>4, <2>5 DEF Lists, Before, Scheduled
<1>3. CASE I # {}
  <2>1. PICK p : p = Min(I)
    OBVIOUS
  <2>2. p \in I
    <3>1. I \in SUBSET Nat
      OBVIOUS
    <3> HIDE DEF I
    <3> QED
      BY <1>3, <2>1, <3>1, LeastNat
  <2>3. p \in 1 .. Len(list) /\ list[p] = e
    BY <2>2
  <2>4. new = SubSeq(list, 1, p - 1) \o SubSeq(list, p + 1, Len(list))
    BY <1>3, <2>1 DEF RemoveFirst, RemoveAt, SelectInSeq
  <2> HIDE DEF I, new
  <2> DEFINE a == SubSeq(list, 1, p - 1)
             b == SubSeq(list, p + 1, Len(list))
  <2>5. /\ a \in Seq(Events) /\ Len(a) = p - 1
        /\ \A i \in 1 .. p - 1 : a[i] = list[i]
    BY <1>1, <2>3
  <2>6. /\ b \in Seq(Events) /\ Len(b) = Len(list) - p
        /\ \A i \in 1 .. Len(list) - p : b[i] = list[p + i]
    <3>1. /\ \A i \in p + 1 .. Len(list) : list[i] \in Events
          /\ p \in Int /\ p + 1 \in Int /\ Len(list) \in Int /\ p <= Len(list)
      BY <1>1, <2>3
    <3>2. /\ b \in Seq(Events)
          /\ Len(b) = IF p + 1 <= Len(list) THEN Len(list) - (p + 1) + 1 ELSE 0
          /\ \A i \in 1 .. Len(list) - (p + 1) + 1 : b[i] = list[(p + 1) + i - 1]
      BY <3>1, SubSeqProperties
    <3> HIDE DEF b
    <3>3. (IF p + 1 <= Len(list) THEN Len(list) - (p + 1) + 1 ELSE 0) = Len(list) - p
      <4>1. CASE p + 1 <= Len(list)
        BY <3>1, <4>1
      <4>2. CASE p = Len(list)
        BY <3>1, <4>2
      <4>3. p + 1 <= Len(list) \/ p = Len(list)
        BY <3>1
      <4> QED
        BY <4>1, <4>2, <4>3
    <3>4. Len(list) - (p + 1) + 1 = Len(list) - p
          /\ \A i \in 1 .. Len(list) - p : (p + 1) + i - 1 = p + i
      BY <3>1
    <3> QED
      BY <3>2, <3>3, <3>4
  <2> HIDE DEF a, b
  <2>7. /\ a \o b \in Seq(Events) /\ Len(a \o b) = (p - 1) + (Len(list) - p)
        /\ \A j \in 1 .. (p - 1) + (Len(list) - p) :
             (a \o b)[j] = IF j <= p - 1 THEN a[j] ELSE b[j - (p - 1)]
    <3>1. /\ a \o b \in Seq(Events) /\ Len(a \o b) = Len(a) + Len(b)
          /\ \A j \in 1 .. Len(a) + Len(b) :
               (a \o b)[j] = IF j <= Len(a) THEN a[j] ELSE b[j - Len(a)]
      BY <2>5, <2>6, ConcatProperties
    <3>2. Len(a) = p - 1 /\ Len(b) = Len(list) - p
      BY <2>5, <2>6
    <3> QED
      BY <3>1, <3>2, Zenon
  <2>8. (p - 1) + (Len(list) - p) = Len(list) - 1
    BY <1>1, <2>3
  <2>9. ASSUME NEW j \in 1 .. Len(list) - 1
        PROVE  (a \o b)[j] = list[IF j < p THEN j ELSE j + 1]
    <3>1. CASE j < p
      BY <1>1, <2>3, <2>5, <2>7, <2>8, <3>1
    <3>2. CASE j >= p
      <4>1. j - (p - 1) \in 1 .. Len(list) - p /\ p + (j - (p - 1)) = j + 1 /\ ~(j <= p - 1)
        BY <1>1, <2>3, <3>2
      <4>2. (a \o b)[j] = b[j - (p - 1)]
        BY <2>7, <2>8, <4>1
      <4>3. b[j - (p - 1)] = list[p + (j - (p - 1))]
        BY <2>6, <4>1
      <4> QED
        BY <2>3, <3>2, <4>1, <4>2, <4>3
    <3>3. j < p \/ j >= p
      BY <2>3
    <3> QED
      BY <3>1, <3>2, <3>3
  <2>10. new \in Seq(Events) /\ Len(new) = Len(list) - 1
         /\ \A j \in 1 .. Len(new) : new[j] = list[IF j < p THEN j ELSE j + 1]
    BY <2>4, <2>7, <2>8, <2>9 DEF a, b
  <2>11. Lists(new, [f \in DOMAIN due \ {list[p]} |-> due[f]])
    BY <2>3, <2>10, RemovalKeepsOrder
  <2> QED
    BY <2>3, <2>11 DEF new, Scheduled
<1> QED
  BY <1>2, <1>3

LEMMA TailKeepsOrder ==
  ASSUME NEW list, Lists(list, due), list # <<>>
  PROVE  /\ Head(list) \in Scheduled /\ Head(list) \in Events
         /\ \A f \in Scheduled : f = Head(list) \/ Before(Head(list), f, due)
         /\ Lists(Tail(list), [f \in Scheduled \ {Head(list)} |-> due[f]])
<1>1. list \in Seq(Events) /\ Len(list) \in Nat /\ Len(list) >= 1
  BY DEF Lists
<1>2. /\ 1 \in 1 .. Len(list) /\ Head(list) = list[1]
      /\ Tail(list) \in Seq(Events) /\ Len(Tail(list)) = Len(list) - 1
      /\ \A j \in 1 .. Len(Tail(list)) : Tail(list)[j] = list[IF j < 1 THEN j ELSE j + 1]
  BY <1>1, HeadTailProperties
<1>3. Lists(Tail(list), [f \in DOMAIN due \ {list[1]} |-> due[f]])
  BY <1>2, RemovalKeepsOrder
<1>4. Head(list) \in Scheduled /\ Head(list) \in Events
  BY <1>1, <1>2 DEF Lists, Scheduled
<1>5. \A f \in Scheduled : f = Head(list) \/ Before(Head(list), f, due)
  <2> TAKE f \in Scheduled
  <2>1. PICK i \in 1 .. Len(list) : list[i] = f
    BY DEF Lists, Scheduled
  <2>2. CASE i = 1
    BY <1>2, <2>1, <2>2
  <2>3. CASE 1 < i
    BY <1>2, <2>1, <2>3 DEF Lists
  <2> QED
    BY <2>2, <2>3
<1> QED
  BY <1>2, <1>3, <1>4, <1>5 DEF Scheduled

-----------------------------------------------------------------------------
(* The steps.                                                              *)

\* An interrupt only moves the list.
LEMMA WhereTheListIs ==
  ASSUME OneList
  PROVE  /\ root # <<>> => Restored = root /\ reroot = <<>>
         /\ reroot # <<>> => Restored = reroot /\ root = <<>>
BY DEF OneList, Restored

LEMMA Initial ==
  ASSUME Init
  PROVE  IInv
<1>1. /\ Wrap \in Nat /\ 1 < Wrap /\ Far \in Nat /\ MaxDelay >= 1 /\ MaxDelay \in Nat
      /\ MaxCycles >= 1 /\ MaxCycles \in Nat /\ Video \in Events /\ MaxOps \in Nat
  BY ConstantFacts
<1>2. Restored = <<Video>> /\ OneList
  BY DEF Init, Restored, OneList
<1>3. Scheduled = {Video} /\ due[Video] = 1 /\ when[Video] = 1
      /\ due \in [Scheduled -> Int] /\ when \in [Scheduled -> Int]
  BY DEF Init, Scheduled
<1>4. Lists(Restored, due)
  <2>1. <<Video>> \in Seq(Events) /\ Len(<<Video>>) = 1 /\ <<Video>>[1] = Video
    BY <1>1
  <2>2. {<<Video>>[i] : i \in 1 .. 1} = {Video}
    BY <2>1
  <2> QED
    BY <1>2, <1>3, <2>1, <2>2 DEF Lists, Scheduled
<1>5. Exact
  <2>1. (1 + 0) % Wrap = 1
    BY <1>1
  <2> QED
    BY <1>3, <2>1 DEF Init, Exact
<1>6. Near
  BY <1>1, <1>3 DEF Init, Near
<1> QED
  BY <1>2, <1>4, <1>5, <1>6 DEF IInv

LEMMA SchedulePreserves ==
  ASSUME IInv, NEW e \in Events, NEW delay \in Int, Schedule(e, delay),
         mode = "run" \/ mode = "callback", mode = "run" => relativeCycles < nextEvent,
         delay <= MaxDelay, delay + late >= 0,
         ops' \in 0 .. MaxOps, UNCHANGED <<masterCycles, relativeCycles, mode, late>>
  PROVE  IInv'
<1> DEFINE n == delay + relativeCycles
<1>1. Lists(Restored, due) /\ OneList /\ Exact /\ Near
  BY DEF IInv
<1>2. n \in Int /\ e \notin Scheduled /\ Enters(e, n) /\ Lower(n)
      /\ root' = Insert(e, n, Restored) /\ reroot' = <<>>
  BY <1>1 DEF Schedule, Near
<1>3. /\ Wrap \in Nat /\ Wrap > 0 /\ MaxDelay \in Nat /\ Far \in Nat
      /\ MaxCycles \in Nat /\ MaxCycles >= 1
      /\ MaxDelay <= Far /\ Wrap = 2 * Half /\ Far = Half - 1 /\ Half \in Nat
  BY ConstantFacts
<1>4. /\ Scheduled' = Scheduled \cup {e} /\ due'[e] = n /\ when'[e] = (n + masterCycles) % Wrap
      /\ \A f \in Scheduled : due'[f] = due[f] /\ when'[f] = when[f]
      /\ due' \in [Scheduled' -> Int] /\ when' \in [Scheduled' -> Int]
  <2>1. (n + masterCycles) % Wrap \in Int
    BY <1>1, <1>2, <1>3 DEF Near
  <2> HIDE DEF n
  <2> QED
    BY <1>1, <1>2, <2>1 DEF Enters, Exact, Scheduled
<1> HIDE DEF n
<1>5. Lists(Restored, due)' /\ OneList'
  <2>1. Lists(root', due')
    BY <1>1, <1>2, InsertKeepsOrder DEF Enters
  <2>2. Restored' = root'
    BY <1>2 DEF Restored
  <2> QED
    BY <1>2, <2>1, <2>2 DEF OneList, Lists, Before
<1>6. Exact'
  BY <1>1, <1>4 DEF Exact
<1>7. Near'
  <2>1. CASE mode = "run"
    <3>1. late = 0 /\ n >= 0 /\ n <= MaxDelay + relativeCycles /\ n < 2 * MaxDelay
          /\ relativeCycles < n + MaxCycles
      BY <1>1, <1>3, <2>1 DEF Near, n
    <3>2. nextEvent \in 0 .. MaxDelay /\ relativeCycles \in Nat /\ relativeCycles < nextEvent
          /\ \A f \in Scheduled : /\ nextEvent <= due[f] /\ due[f] <= MaxDelay + relativeCycles
                                  /\ due[f] < 2 * MaxDelay /\ due[f] \in Int
      BY <1>1, <2>1 DEF Near, Exact
    <3>3. nextEvent' \in 0 .. MaxDelay /\ nextEvent' <= nextEvent /\ nextEvent' <= n
          /\ relativeCycles < nextEvent' + MaxCycles
      BY <1>2, <1>3, <3>1, <3>2 DEF Lower
    <3>4. \A f \in Scheduled' : /\ nextEvent' <= due'[f] /\ due'[f] <= MaxDelay + relativeCycles
                                /\ due'[f] < 2 * MaxDelay
      <4>1. ASSUME NEW f \in Scheduled
            PROVE  nextEvent' <= due[f] /\ due[f] <= MaxDelay + relativeCycles
                   /\ due[f] < 2 * MaxDelay /\ due'[f] = due[f]
        BY <1>4, <3>2, <3>3
      <4>2. due'[e] = n
        BY <1>4
      <4> QED
        BY <1>4, <3>1, <3>3, <4>1, <4>2, Zenon
    <3> QED
      BY <1>1, <2>1, <3>3, <3>4 DEF Near
  <2>2. CASE mode = "callback"
    <3>1. n = delay /\ -MaxCycles < n /\ n <= MaxDelay
      BY <1>1, <1>3, <2>2 DEF Near, n
    <3>2. nextEvent' \in -MaxCycles .. Far
      BY <1>1, <1>2, <1>3, <2>2, <3>1 DEF Near, Lower
    <3>3. \A f \in Scheduled' : -MaxCycles < due'[f] /\ due'[f] <= MaxDelay
      BY <1>1, <1>4, <2>2, <3>1 DEF Near
    <3>4. mode' # "run" /\ relativeCycles' = 0 /\ late' < MaxCycles /\ mode' = "callback"
      BY <1>1, <2>2 DEF Near
    <3> QED
      BY <1>1, <3>2, <3>3, <3>4 DEF Near
  <2> QED
    BY <2>1, <2>2
<1> QED
  BY <1>5, <1>6, <1>7 DEF IInv

\* Taking an event away leaves the others where they are in time.
LEMMA LeavesPreserves ==
  ASSUME Exact, NEW e \in Events, Leaves(e), UNCHANGED masterCycles
  PROVE  /\ Exact' /\ Scheduled' = Scheduled \ {e}
         /\ \A f \in Scheduled' : f \in Scheduled /\ due'[f] = due[f]
         /\ due' = [f \in Scheduled \ {e} |-> due[f]]
<1>1. Scheduled' = Scheduled \ {e} /\ due' = [f \in Scheduled \ {e} |-> due[f]]
      /\ when' = [f \in Scheduled \ {e} |-> when[f]]
  BY DEF Leaves, Scheduled
<1>2. due' \in [Scheduled' -> Int] /\ when' \in [Scheduled' -> Int]
      /\ \A f \in Scheduled' : f \in Scheduled /\ due'[f] = due[f] /\ when'[f] = when[f]
  BY <1>1 DEF Exact
<1> QED
  BY <1>1, <1>2 DEF Exact

LEMMA DeschedulePreserves ==
  ASSUME IInv, NEW e \in Events, Deschedule(e), ops' \in 0 .. MaxOps,
         UNCHANGED <<masterCycles, relativeCycles, mode, late>>
  PROVE  IInv'
<1>1. Lists(Restored, due) /\ Exact /\ Near
  BY DEF IInv
<1>2. /\ Exact' /\ \A f \in Scheduled' : f \in Scheduled /\ due'[f] = due[f]
      /\ due' = [f \in Scheduled \ {e} |-> due[f]]
  BY <1>1, LeavesPreserves DEF Deschedule
<1>3. Restored' = RemoveFirst(Restored, e) /\ OneList'
  BY DEF Deschedule, Restored, OneList
<1>4. Lists(RemoveFirst(Restored, e), due')
  BY <1>1, <1>2, RemoveFirstKeepsOrder
<1>5. Lists(Restored, due)'
  BY <1>3, <1>4 DEF Lists, Before
<1>6. Near'
  BY <1>1, <1>2 DEF Near, Deschedule
<1> QED
  BY <1>2, <1>3, <1>5, <1>6 DEF IInv

LEMMA InterruptPreserves ==
  ASSUME IInv, Interrupt, ops' \in 0 .. MaxOps,
         UNCHANGED <<masterCycles, relativeCycles, mode, late>>
  PROVE  IInv'
<1>1. Restored' = Restored /\ OneList' /\ Scheduled' = Scheduled
  BY WhereTheListIs DEF IInv, Interrupt, OneList, Restored, Scheduled
<1>2. Lists(Restored, due)' /\ Exact' /\ Near'
  BY <1>1 DEF IInv, Interrupt, Lists, Before, Exact, Near
<1> QED
  BY <1>1, <1>2 DEF IInv

LEMMA OperatePreserves ==
  ASSUME IInv, Operate
  PROVE  IInv'
<1>1. /\ mode = "run" \/ mode = "callback"
      /\ mode = "run" => relativeCycles < nextEvent
      /\ ops' \in 0 .. MaxOps
      /\ UNCHANGED <<masterCycles, relativeCycles, mode, late>>
      /\ late \in Nat
  BY ConstantFacts DEF Operate, IInv, Near
<1>2. ASSUME NEW e \in Events, NEW d \in Delays, Schedule(e, d) PROVE IInv'
  <2>1. d \in Int /\ d <= MaxDelay /\ d + late >= 0
    BY <1>1, ConstantFacts
  <2> QED
    BY <1>1, <1>2, <2>1, SchedulePreserves
<1>3. ASSUME NEW e \in Events, NEW d \in Delays, Schedule(e, d - late) PROVE IInv'
  <2>1. d - late \in Int /\ d - late <= MaxDelay /\ (d - late) + late >= 0
    BY <1>1, ConstantFacts
  <2> QED
    BY <1>1, <1>3, <2>1, SchedulePreserves
<1>4. ASSUME NEW e \in Events, Deschedule(e) PROVE IInv'
  BY <1>1, <1>4, DeschedulePreserves
<1>5. CASE Interrupt
  BY <1>1, <1>5, InterruptPreserves
<1> QED
  BY <1>2, <1>3, <1>4, <1>5 DEF Operate

LEMMA InstructionPreserves ==
  ASSUME IInv, Instruction
  PROVE  IInv'
<1>1. PICK c \in 1 .. MaxCycles : relativeCycles' = relativeCycles + c
  BY DEF Instruction
<1>2. UNCHANGED <<root, reroot, when, due, masterCycles, nextEvent, mode, late>>
      /\ mode = "run" /\ relativeCycles < nextEvent /\ ops' = MaxOps
  BY DEF Instruction, lists
<1>3. Lists(Restored, due)' /\ OneList' /\ Exact'
  BY <1>2 DEF IInv, Lists, Before, Restored, OneList, Exact, Scheduled
<1>4. Near'
  <2>1. MaxCycles \in Nat /\ MaxDelay \in Nat /\ MaxOps \in 0 .. MaxOps
    BY ConstantFacts
  <2>2. Near /\ nextEvent \in 0 .. MaxDelay /\ Exact
    BY <1>2 DEF IInv, Near
  <2>3. relativeCycles' \in Nat /\ relativeCycles < relativeCycles'
        /\ relativeCycles' < nextEvent' + MaxCycles
    BY <1>1, <1>2, <2>1, <2>2 DEF Near
  <2>4. \A e \in Scheduled' :
          /\ nextEvent' <= due'[e]
          /\ due'[e] <= MaxDelay + relativeCycles' /\ due'[e] < 2 * MaxDelay
    BY <1>2, <2>1, <2>2, <2>3 DEF Near, Exact, Scheduled
  <2> QED
    BY <1>2, <2>1, <2>2, <2>3, <2>4 DEF Near
<1> QED
  BY <1>3, <1>4 DEF IInv

\* Time passes, and all are as much nearer; the counter may wrap.
LEMMA PassPreserves ==
  ASSUME Lists(Restored, due), Exact, masterCycles \in 0 .. Wrap - 1,
         NEW c \in Nat, c <= Far, Pass(c), UNCHANGED <<root, reroot, when>>,
         \A e \in Scheduled : -Half <= due[e] - c /\ due[e] <= Far
  PROVE  /\ Lists(Restored, due)' /\ Exact' /\ masterCycles' \in 0 .. Wrap - 1
         /\ Scheduled' = Scheduled /\ \A e \in Scheduled : due'[e] = due[e] - c
<1>1. /\ Wrap \in Nat /\ Wrap > 0 /\ Half \in Nat /\ Wrap = 2 * Half /\ Half >= 1
      /\ Priority \in [Events -> Nat]
  BY ConstantFacts
<1>2. due \in [Scheduled -> Int] /\ when \in [Scheduled -> Int]
      /\ \A e \in Scheduled : when[e] = (due[e] + masterCycles) % Wrap
  BY DEF Exact
<1>3. masterCycles' = (masterCycles + c) % Wrap /\ masterCycles' \in 0 .. Wrap - 1
  BY <1>1 DEF Pass
<1>4. Scheduled' = Scheduled /\ due' \in [Scheduled -> Int]
      /\ \A e \in Scheduled : due'[e] = due[e] - c
  <2>1. \A e \in Scheduled : due[e] \in Int /\ due[e] > c - Wrap /\ due[e] - c \in Int
    BY <1>1, <1>2
  <2>2. due' = [e \in Scheduled |-> due[e] - c]
    BY <2>1 DEF Pass
  <2> QED
    BY <2>1, <2>2 DEF Scheduled
<1>5. Exact'
  <2>1. ASSUME NEW e \in Scheduled PROVE when'[e] = (due'[e] + masterCycles') % Wrap
    <3> DEFINE x == due[e] - c
    <3>1. x \in Int /\ -Half <= x /\ x + c <= Far /\ x + c = due[e]
      BY <1>2
    <3> HIDE DEF x
    <3>2. (x + ((masterCycles + c) % Wrap)) % Wrap = ((x + c) + masterCycles) % Wrap
      BY <3>1, WrapAgain
    <3>3. due'[e] = x
      BY <1>4 DEF x
    <3> QED
      BY <1>2, <1>3, <3>1, <3>2, <3>3
  <2> QED
    BY <1>2, <1>4, <2>1 DEF Exact
<1>6. Lists(Restored, due)'
  <2>1. Restored' = Restored
    BY DEF Restored
  <2>2. ASSUME NEW e \in Scheduled, NEW f \in Scheduled, Before(e, f, due)
        PROVE  Before(e, f, due')
    BY <1>2, <1>4, <2>2 DEF Before
  <2>3. \A i \in 1 .. Len(Restored) : Restored[i] \in Scheduled
    BY DEF Lists, Scheduled
  <2>4. DOMAIN due' = DOMAIN due
    BY <1>4 DEF Scheduled
  <2>5. \A i, j \in 1 .. Len(Restored) : i < j =>
          Restored[i] # Restored[j] /\ Before(Restored[i], Restored[j], due')
    BY <2>2, <2>3 DEF Lists
  <2>6. Lists(Restored, due')
    BY <2>4, <2>5 DEF Lists
  <2> QED
    BY <2>1, <2>6 DEF Lists, Before
<1> QED
  BY <1>3, <1>4, <1>5, <1>6

LEMMA ProcessEventsPreserves ==
  ASSUME IInv, ProcessEvents
  PROVE  IInv'
<1>1. /\ mode = "run" /\ Pass(relativeCycles) /\ mode' = "tick"
      /\ relativeCycles' = 0 /\ nextEvent' = Far /\ ops' = MaxOps
      /\ UNCHANGED <<root, reroot, when, late>>
  BY DEF ProcessEvents, Pass
<1>2. /\ Wrap \in Nat /\ MaxDelay \in Nat /\ MaxCycles \in Nat /\ Half \in Nat /\ MaxCycles >= 1
      /\ Wrap = 2 * Half /\ Far = Half - 1 /\ 2 * MaxDelay <= Half /\ MaxDelay + MaxCycles <= Half
      /\ MaxOps \in Nat
  BY ConstantFacts
<1>3. /\ masterCycles \in 0 .. Wrap - 1 /\ relativeCycles \in Nat /\ late = 0
      /\ nextEvent \in 0 .. MaxDelay /\ relativeCycles < nextEvent + MaxCycles
      /\ \A e \in Scheduled :
           nextEvent <= due[e] /\ due[e] <= MaxDelay + relativeCycles /\ due[e] < 2 * MaxDelay
  BY <1>1 DEF IInv, Near
<1>4. \A e \in Scheduled : due[e] \in Int
  BY DEF IInv, Exact
<1>5. relativeCycles <= Far
      /\ \A e \in Scheduled : /\ -Half <= due[e] - relativeCycles /\ due[e] <= Far
                              /\ -MaxCycles < due[e] - relativeCycles
                              /\ due[e] - relativeCycles <= MaxDelay
  BY <1>2, <1>3, <1>4
<1>6. /\ Lists(Restored, due)' /\ Exact' /\ masterCycles' \in 0 .. Wrap - 1
      /\ Scheduled' = Scheduled /\ \A e \in Scheduled : due'[e] = due[e] - relativeCycles
  BY <1>1, <1>3, <1>5, PassPreserves DEF IInv
<1>7. Near'
  <2>1. Far \in Nat /\ -MaxCycles <= Far /\ MaxOps \in 0 .. MaxOps
    BY <1>2
  <2> QED
    BY <1>1, <1>2, <1>3, <1>5, <1>6, <2>1 DEF Near
<1>8. OneList'
  BY <1>1 DEF IInv, OneList
<1> QED
  BY <1>6, <1>7, <1>8 DEF IInv

\* The first event of the list is the first in time.
LEMMA FirstIsFirst ==
  ASSUME IInv, root # <<>>
  PROVE  /\ Restored = root /\ reroot = <<>>
         /\ Head(root) \in Scheduled /\ Head(root) \in Events
         /\ Until(Head(root)) = due[Head(root)] /\ due[Head(root)] \in Int
         /\ \A f \in Scheduled :
              /\ due[f] \in Int /\ due[f] >= due[Head(root)]
              /\ due[f] = due[Head(root)] => Priority[f] >= Priority[Head(root)]
         /\ Lists(Tail(root), [f \in Scheduled \ {Head(root)} |-> due[f]])
<1>1. Restored = root /\ reroot = <<>> /\ Lists(root, due)
  BY WhereTheListIs DEF IInv
<1>2. /\ Head(root) \in Scheduled /\ Head(root) \in Events
      /\ \A f \in Scheduled : f = Head(root) \/ Before(Head(root), f, due)
      /\ Lists(Tail(root), [f \in Scheduled \ {Head(root)} |-> due[f]])
  BY <1>1, TailKeepsOrder
<1>3. \A f \in Scheduled : due[f] \in Int /\ f \in Events
  BY <1>1 DEF IInv, Exact, Lists, Scheduled
<1>4. Until(Head(root)) = due[Head(root)]
  BY <1>2, UntilIsDue DEF IInv
<1>5. \A f \in Scheduled : /\ due[f] >= due[Head(root)]
                           /\ due[f] = due[Head(root)] => Priority[f] >= Priority[Head(root)]
  BY <1>2, <1>3, ConstantFacts DEF Before
<1> QED
  BY <1>1, <1>2, <1>3, <1>4, <1>5

LEMMA FirePreserves ==
  ASSUME IInv, Fire
  PROVE  IInv'
<1> DEFINE h == Head(root)
<1>1. /\ mode = "tick" /\ root # <<>> /\ Until(h) <= 0 /\ root' = Tail(root) /\ late' = -Until(h)
      /\ Leaves(h) /\ mode' = "callback"
      /\ UNCHANGED <<reroot, masterCycles, relativeCycles, nextEvent, ops>>
  BY DEF Fire, clock
<1>2. /\ reroot = <<>> /\ h \in Scheduled /\ h \in Events
      /\ Until(h) = due[h] /\ due[h] \in Int
      /\ Lists(Tail(root), [f \in Scheduled \ {h} |-> due[f]])
  BY <1>1, FirstIsFirst
<1> HIDE DEF h
<1>3. /\ Exact' /\ \A f \in Scheduled' : f \in Scheduled /\ due'[f] = due[f]
      /\ due' = [f \in Scheduled \ {h} |-> due[f]]
  BY <1>1, <1>2, LeavesPreserves DEF IInv
<1>4. OneList' /\ Restored' = root'
  BY <1>1, <1>2 DEF OneList, Restored
<1>5. Lists(root', due')
  BY <1>1, <1>2, <1>3
<1>6. Lists(Restored, due)'
  BY <1>4, <1>5 DEF Lists, Before
<1>7. Near'
  <2>1. MaxCycles \in Nat
    BY ConstantFacts
  <2>2. late' \in Nat /\ late' < MaxCycles
    BY <1>1, <1>2, <2>1 DEF IInv, Near
  <2> QED
    BY <1>1, <1>3, <2>2 DEF IInv, Near
<1> QED
  BY <1>3, <1>4, <1>6, <1>7 DEF IInv

LEMMA CallbackReturnsPreserves ==
  ASSUME IInv, CallbackReturns
  PROVE  IInv'
<1>1. /\ UNCHANGED <<root, reroot, when, due, masterCycles, relativeCycles, nextEvent>>
      /\ mode = "callback" /\ mode' = "tick" /\ late' = 0 /\ ops' = MaxOps
  BY DEF CallbackReturns, lists, clock
<1>2. Lists(Restored, due)' /\ OneList' /\ Exact'
  BY <1>1 DEF IInv, Lists, Before, Restored, OneList, Exact, Scheduled
<1>3. Near'
  BY <1>1, ConstantFacts DEF IInv, Near, Scheduled
<1> QED
  BY <1>2, <1>3 DEF IInv

LEMMA ResumePreserves ==
  ASSUME IInv, Resume
  PROVE  IInv'
<1> DEFINE h == Head(reroot)
<1>1. /\ mode = "tick" /\ root = <<>> /\ reroot # <<>> /\ root' = reroot /\ reroot' = <<>>
      /\ nextEvent' = Until(h)
      /\ UNCHANGED <<when, due, masterCycles, relativeCycles, late, ops, mode>>
  BY DEF Resume, TakeBack
<1>2. Restored = reroot /\ Restored' = Restored /\ OneList'
  BY <1>1 DEF Restored, OneList
<1>3. h \in Scheduled
  BY <1>1, <1>2, TailKeepsOrder DEF IInv
<1>4. Until(h) = due[h] /\ due[h] \in Int
  BY <1>3, UntilIsDue DEF IInv
<1> HIDE DEF h
<1>5. Lists(Restored, due)' /\ Exact'
  BY <1>1, <1>2 DEF IInv, Lists, Before, Exact, Scheduled
<1>6. Near'
  <2>1. MaxCycles \in Nat /\ Far \in Nat /\ MaxDelay <= Far /\ MaxDelay \in Nat
    BY ConstantFacts
  <2>2. nextEvent' \in -MaxCycles .. Far
    BY <1>1, <1>3, <1>4, <2>1 DEF IInv, Near
  <2> QED
    BY <1>1, <2>2 DEF IInv, Near, Scheduled
<1> QED
  BY <1>2, <1>5, <1>6 DEF IInv

LEMMA TickReturnsPreserves ==
  ASSUME IInv, TickReturns
  PROVE  IInv'
<1> DEFINE n == Until(Head(root))
<1>1. /\ mode = "tick" /\ root # <<>> /\ n > 0 /\ UNCHANGED <<root, reroot, when, late, ops>>
      /\ \/ /\ nextEvent' = n /\ mode' = "run" /\ relativeCycles' \in {0, n}
            /\ UNCHANGED <<masterCycles, due>>
         \/ Pass(n) /\ UNCHANGED <<relativeCycles, nextEvent>>
  BY DEF TickReturns
<1>2. /\ n \in Int /\ \E e \in Scheduled : n = due[e]
      /\ \A e \in Scheduled : due[e] \in Int /\ n <= due[e]
  BY <1>1, FirstIsFirst
<1> HIDE DEF n
<1>3. /\ MaxDelay \in Nat /\ MaxCycles \in Nat /\ MaxDelay >= 1 /\ MaxCycles >= 1
      /\ Half \in Nat /\ Far = Half - 1 /\ MaxDelay <= Far
  BY ConstantFacts
<1>4. /\ n \in 1 .. MaxDelay /\ late = 0 /\ relativeCycles = 0 /\ masterCycles \in 0 .. Wrap - 1
      /\ nextEvent \in -MaxCycles .. Far /\ ops \in 0 .. MaxOps
      /\ \A e \in Scheduled : due[e] <= MaxDelay
  BY <1>1, <1>2, <1>3 DEF IInv, Near
<1>5. OneList'
  BY <1>1 DEF IInv, OneList
<1>6. CASE mode' = "run" /\ nextEvent' = n /\ relativeCycles' \in {0, n}
           /\ UNCHANGED <<masterCycles, due>>
  <2>1. Lists(Restored, due)' /\ Exact'
    BY <1>1, <1>6 DEF IInv, Lists, Before, Restored, Exact, Scheduled
  <2>2. Near'
    <3>1. relativeCycles' \in Nat /\ relativeCycles' < nextEvent' + MaxCycles
          /\ nextEvent' \in 0 .. MaxDelay
      BY <1>3, <1>4, <1>6
    <3>2. \A e \in Scheduled' :
            /\ nextEvent' <= due'[e]
            /\ due'[e] <= MaxDelay + relativeCycles' /\ due'[e] < 2 * MaxDelay
      BY <1>2, <1>3, <1>4, <1>6, <3>1 DEF Scheduled
    <3> QED
      BY <1>1, <1>4, <1>6, <3>1, <3>2 DEF Near
  <2> QED
    BY <1>5, <2>1, <2>2 DEF IInv
<1>7. CASE Pass(n) /\ UNCHANGED <<relativeCycles, nextEvent>>
  <2>1. n \in Nat /\ n <= Far
        /\ \A e \in Scheduled : -Half <= due[e] - n /\ due[e] <= Far
    BY <1>2, <1>3, <1>4
  <2>2. /\ Lists(Restored, due)' /\ Exact' /\ masterCycles' \in 0 .. Wrap - 1
        /\ Scheduled' = Scheduled /\ \A e \in Scheduled : due'[e] = due[e] - n
    BY <1>1, <1>4, <1>7, <2>1, PassPreserves DEF IInv
  <2>3. mode' = "tick"
    BY <1>7 DEF Pass
  <2>4. \A e \in Scheduled' : -MaxCycles < due'[e] /\ due'[e] <= MaxDelay
    BY <1>2, <1>3, <1>4, <2>2
  <2>5. Near'
    BY <1>1, <1>4, <1>7, <2>2, <2>3, <2>4 DEF Near
  <2> QED
    BY <1>5, <2>2, <2>5 DEF IInv
<1> QED
  BY <1>1, <1>6, <1>7

LEMMA StutterPreserves ==
  ASSUME IInv, UNCHANGED vars
  PROVE  IInv'
BY DEF vars, lists, clock, IInv, Lists, Before, Restored, OneList, Exact, Near, Scheduled

-----------------------------------------------------------------------------
(* What follows.                                                           *)

\* The invariant holds of every state that is reached.
THEOREM Inductive == Spec => []IInv
<1>1. Init => IInv
  BY Initial
<1>2. IInv /\ [Next]_vars => IInv'
  <2> SUFFICES ASSUME IInv, [Next]_vars PROVE IInv'
    OBVIOUS
  <2>1. CASE Operate
    BY <2>1, OperatePreserves
  <2>2. CASE Instruction
    BY <2>2, InstructionPreserves
  <2>3. CASE ProcessEvents
    BY <2>3, ProcessEventsPreserves
  <2>4. CASE Fire
    BY <2>4, FirePreserves
  <2>5. CASE CallbackReturns
    BY <2>5, CallbackReturnsPreserves
  <2>6. CASE Resume
    BY <2>6, ResumePreserves
  <2>7. CASE TickReturns
    BY <2>7, TickReturnsPreserves
  <2>8. CASE UNCHANGED vars
    BY <2>8, StutterPreserves
  <2> QED
    BY <2>1, <2>2, <2>3, <2>4, <2>5, <2>6, <2>7, <2>8 DEF Next, Loop
<1> QED
  BY <1>1, <1>2, PTL DEF Spec

\* Every variable of Timing keeps its type, and no counter reaches its end but the
\* one that wraps.
THEOREM TypeCorrect == Spec => []TypeOK
<1>1. IInv => TypeOK
  <2> SUFFICES ASSUME IInv PROVE TypeOK
    OBVIOUS
  <2>1. /\ Wrap \in Nat /\ Wrap > 0 /\ MaxDelay \in Nat /\ MaxDelay >= 1
        /\ MaxCycles \in Nat /\ MaxCycles >= 1
        /\ Half \in Nat /\ Far = Half - 1 /\ MaxDelay + MaxCycles <= Half /\ Wrap = 2 * Half
    BY ConstantFacts
  <2>2. root \in Seq(Events) /\ reroot \in Seq(Events)
    <3>1. <<>> \in Seq(Events) /\ Restored \in Seq(Events)
      BY DEF IInv, Lists
    <3> QED
      BY <3>1 DEF IInv, OneList, Restored
  <2>3. Scheduled \subseteq Events
    BY DEF IInv, Lists, Scheduled
  <2>4. when \in [Scheduled -> Times]
    <3>1. ASSUME NEW e \in Scheduled PROVE when[e] \in Times
      <4>1. due[e] + masterCycles \in Int
        BY DEF IInv, Exact, Near
      <4> QED
        BY <2>1, <4>1, ModFacts DEF IInv, Exact, Times
    <3> QED
      BY <3>1 DEF IInv, Exact
  <2>5. relativeCycles \in 0 .. Far /\ nextEvent \in -Far .. Far /\ late \in 0 .. Far
    <3>1. CASE mode = "run"
      <4>1. /\ relativeCycles \in Nat /\ nextEvent \in 0 .. MaxDelay /\ late = 0
            /\ relativeCycles < nextEvent + MaxCycles
        BY <3>1 DEF IInv, Near
      <4> QED
        BY <2>1, <4>1
    <3>2. CASE mode # "run"
      BY <2>1, <3>2 DEF IInv, Near
    <3> QED
      BY <3>1, <3>2
  <2> QED
    BY <2>2, <2>3, <2>4, <2>5 DEF TypeOK, IInv, Near, Times
<1> QED
  BY <1>1, Inductive, PTL

\* No event is lost or listed twice, whatever is scheduled, taken out and fired
\* while an interrupt hides the list (timing.c 28-34, 41-44, 65-68, 114-121).
THEOREM NoEventIsLost == Spec => []NoneLost
<1>1. IInv => NoneLost
  <2> SUFFICES ASSUME IInv PROVE NoneLost
    OBVIOUS
  <2>1. Lists(Restored, due) /\ (root = <<>> \/ reroot = <<>>)
    BY DEF IInv, OneList
  <2>2. root \o reroot = Restored
    <3>1. Restored \in Seq(Events)
      BY <2>1 DEF Lists
    <3>2. CASE reroot = <<>>
      BY <3>1, <3>2, ConcatEmptySeq DEF Restored
    <3>3. CASE root = <<>> /\ reroot # <<>>
      BY <3>1, <3>3, ConcatEmptySeq DEF Restored
    <3> QED
      BY <2>1, <3>2, <3>3
  <2>3. ToSet(Restored) = Scheduled
    <3>1. DOMAIN Restored = 1 .. Len(Restored)
      BY <2>1 DEF Lists
    <3> QED
      BY <2>1, <3>1 DEF Lists, Scheduled, ToSet
  <2>4. IsInjective(Restored)
    <3>1. DOMAIN Restored = 1 .. Len(Restored) /\ Len(Restored) \in Nat
      BY <2>1 DEF Lists
    <3>2. \A i, j \in 1 .. Len(Restored) : Restored[i] = Restored[j] => i = j
      BY <2>1, <3>1 DEF Lists
    <3> QED
      BY <3>1, <3>2 DEF IsInjective
  <2> QED
    BY <2>1, <2>2, <2>3, <2>4 DEF NoneLost
<1> QED
  BY <1>1, Inductive, PTL

\* The processor is never told to stop after the first event (timing.c 38-40).
THEOREM ProcessorStopsInTime == Spec => []StopsInTime
<1>1. IInv => StopsInTime
  BY DEF IInv, Near, StopsInTime
<1> QED
  BY <1>1, Inductive, PTL

\* Events fire when they are due, in the order of time and priority, and are told
\* their true lateness, however often the counters wrap.
THEOREM EventsFireInOrder == Spec => FiresInOrder
<1> DEFINE InOrder ==
      mode = "tick" /\ mode' = "callback" =>
        \E e \in Scheduled :
            /\ Scheduled' = Scheduled \ {e}
            /\ late' = -due[e]
            /\ \A f \in Scheduled :
                 due[f] > due[e] \/ (due[f] = due[e] /\ Priority[f] >= Priority[e])
<1>1. IInv /\ [Next]_vars => [InOrder]_vars
  <2> SUFFICES ASSUME IInv, Next, mode = "tick", mode' = "callback" PROVE InOrder
    OBVIOUS
  <2>1. Fire
    BY DEF Next, Operate, Loop, Instruction, ProcessEvents, Pass, CallbackReturns,
           Resume, TickReturns
  <2>2. /\ root # <<>> /\ late' = -Until(Head(root)) /\ Leaves(Head(root))
    BY <2>1 DEF Fire
  <2>3. /\ Head(root) \in Scheduled /\ Until(Head(root)) = due[Head(root)]
        /\ due[Head(root)] \in Int
        /\ \A f \in Scheduled :
             /\ due[f] \in Int /\ due[f] >= due[Head(root)]
             /\ due[f] = due[Head(root)] => Priority[f] >= Priority[Head(root)]
    BY <2>2, FirstIsFirst
  <2>4. Scheduled' = Scheduled \ {Head(root)}
    BY <2>2 DEF Leaves, Scheduled
  <2> QED
    BY <2>2, <2>3, <2>4
<1>2. Spec => [][InOrder]_vars
  BY <1>1, Inductive, PTL DEF Spec
<1> QED
  BY <1>2 DEF FiresInOrder

\* When the processor runs again, everything that was due has fired.
THEOREM NothingIsDue == Spec => NothingDue
<1>1. IInv /\ [Next]_vars =>
        [mode = "tick" /\ mode' = "run" => \A e \in Scheduled : due[e] > 0]_vars
  <2> SUFFICES ASSUME IInv, Next, mode = "tick", mode' = "run"
               PROVE  \A e \in Scheduled : due[e] > 0
    OBVIOUS
  <2>1. TickReturns
    BY DEF Next, Operate, Loop, Instruction, ProcessEvents, Pass, Fire, CallbackReturns, Resume
  <2>2. root # <<>> /\ Until(Head(root)) > 0
    BY <2>1 DEF TickReturns
  <2> QED
    BY <2>2, FirstIsFirst
<1> QED
  BY <1>1, Inductive, PTL DEF Spec, NothingDue
=============================================================================
