---------------------------- MODULE ReplyProofs -----------------------------
(***************************************************************************)
(* What a reply tells the caller.  The replies of a counter add up, for    *)
(* every width: the text form is lossless and no step wraps around         *)
(* (Counter).  On a connection with any number of calls in flight, a reply *)
(* settles the call it answers, and an operation that is reported done was *)
(* carried out with the rights the caller had earned (Session).            *)
(***************************************************************************)
EXTENDS Counter, Session, TLAPS

(* Every int64 has one text form, and reading it back gives the number,    *)
(* the least one included (formatCounter, parseCounter).                   *)
THEOREM RoundTrip ==
    \A v \in Int64 : /\ FormatCounter(v) \in Cells
                     /\ ParseCounter(FormatCounter(v)) = [ok |-> TRUE, val |-> v]
<1> SUFFICES ASSUME NEW v \in Int64
             PROVE  /\ FormatCounter(v) \in Cells
                    /\ ParseCounter(FormatCounter(v)) = [ok |-> TRUE, val |-> v]
  OBVIOUS
<1> USE WidthAssumption DEF Int64, MinInt
<1>1. CASE v < 0
  <2> DEFINE m == -(v + 1) + 1
  <2>1. m \in 1 .. MaxInt + 1 /\ m \in 0 .. MaxMag /\ -(m - 1) - 1 = v
    BY <1>1
  <2>2. FormatCounter(v) = [sign |-> "minus", mag |-> m]
    BY <1>1 DEF FormatCounter
  <2> HIDE DEF m
  <2>3. [sign |-> "minus", mag |-> m] \in Cells
    BY <2>1 DEF Cells
  <2>4. ParseCounter([sign |-> "minus", mag |-> m]) = [ok |-> TRUE, val |-> v]
    <3>1. ParseCounter([sign |-> "minus", mag |-> m])
            = [ok |-> TRUE, val |-> -(m - 1) - 1]
      <4>1. m <= MaxInt + 1
        BY <2>1
      <4> QED BY <4>1 DEF ParseCounter
    <3> QED BY Zenon, <2>1, <3>1
  <2> QED BY <2>2, <2>3, <2>4
<1>2. CASE ~(v < 0)
  <2>1. FormatCounter(v) = [sign |-> "plus", mag |-> v] /\ v \in 0 .. MaxMag /\ v <= MaxInt
    BY <1>2 DEF FormatCounter
  <2>2. [sign |-> "plus", mag |-> v] \in Cells
    BY <2>1 DEF Cells
  <2>3. ParseCounter([sign |-> "plus", mag |-> v]) = [ok |-> TRUE, val |-> v]
    BY <2>1 DEF ParseCounter
  <2> QED BY <2>1, <2>2, <2>3
<1> QED BY <1>1, <1>2

LEMMA ParseInRange ==
    ASSUME NEW c \in Cells \cup {NoCell, PlainCell}
    PROVE  ParseCounter(c).val \in Int64
BY WidthAssumption DEF ParseCounter, Cells, NoCell, PlainCell, NotCounter, Int64, MinInt

LEMMA CurrentInRange ==
    ASSUME TypeOK
    PROVE  Current \in Int64
BY ParseInRange, WidthAssumption DEF TypeOK, Current, Int64, MinInt

(* What the three steps return, on unbounded numbers.                      *)
LEMMA IncrExact ==
    ASSUME NEW cur \in Int64, NEW delta \in Int64
    PROVE  IncrStep(cur, delta) =
             IF cur + delta \in Int64 THEN Applied(cur + delta, delta) ELSE Declined
<1> USE WidthAssumption DEF Int64, MinInt
<1>1. CASE cur + delta \in Int64
  <2>1. Wrap(cur + delta) = cur + delta
    BY <1>1 DEF Wrap
  <2>2. ~(delta > 0 /\ cur > Wrap(MaxInt - delta))
    BY <1>1 DEF Wrap
  <2>3. ~(delta < 0 /\ cur < Wrap(MinInt - delta))
    BY <1>1 DEF Wrap
  <2> QED BY <1>1, <2>1, <2>2, <2>3 DEF IncrStep
<1>2. CASE cur + delta \notin Int64
  <2>1. \/ delta > 0 /\ cur > Wrap(MaxInt - delta)
        \/ delta < 0 /\ cur < Wrap(MinInt - delta)
    BY <1>2 DEF Wrap
  <2> QED BY <1>2, <2>1 DEF IncrStep
<1> QED BY <1>1, <1>2

LEMMA TopupExact ==
    ASSUME NEW cur \in Int64, NEW amount \in 0 .. MaxInt, NEW max \in Int64
    PROVE  LET room == IF cur >= max THEN 0 ELSE max - cur
               fits == IF amount <= room THEN amount ELSE room
           IN  TopupStep(cur, amount, max) =
                 IF fits = 0 THEN Declined ELSE Applied(cur + fits, fits)
<1> DEFINE room == IF cur >= max THEN 0 ELSE max - cur
           fits == IF amount <= room THEN amount ELSE room
<1> USE WidthAssumption DEF Int64, MinInt
<1>1. TopupApplied(cur, amount, max) = fits
  BY DEF TopupApplied, Wrap
<1>2. fits \in 0 .. amount /\ cur + fits \in Int64
  OBVIOUS
<1>3. Wrap(amount - fits) = amount - fits /\ Wrap(cur + fits) = cur + fits
  BY <1>2 DEF Wrap
<1> HIDE DEF fits, room
<1>4. amount - (amount - fits) = fits
  BY <1>2
<1>5. TopupStep(cur, amount, max) = IF fits = 0 THEN Declined ELSE Applied(cur + fits, fits)
  BY <1>1, <1>3, <1>4 DEF TopupStep
<1> QED BY <1>5 DEF fits, room

LEMMA TakeExact ==
    ASSUME NEW cur \in Int64, NEW amount \in 0 .. MaxInt, NEW left \in Int64
    PROVE  TakeStep(cur, amount, left) =
             IF cur - amount >= left THEN Applied(cur - amount, -amount) ELSE Declined
<1> USE WidthAssumption DEF Int64, MinInt
<1>1. Wrap(MinInt + amount) = MinInt + amount
  BY DEF Wrap
<1>2. CASE cur < MinInt + amount
  <2>1. ~(cur - amount >= left)
    BY <1>2
  <2>2. TakeStep(cur, amount, left) = Declined
    BY <1>1, <1>2 DEF TakeStep
  <2> QED BY <2>1, <2>2
<1>3. CASE ~(cur < MinInt + amount)
  <2>1. Wrap(cur - amount) = cur - amount
    BY <1>3 DEF Wrap
  <2>2. (cur - amount < left) <=> ~(cur - amount >= left)
    OBVIOUS
  <2> QED BY <1>1, <1>3, <2>1, <2>2 DEF TakeStep
<1> QED BY <1>2, <1>3

-----------------------------------------------------------------------------
(* The outcome of a step that stays within int64 and moves what it says.   *)
Good(s, cur) ==
    /\ s.apply \in BOOLEAN /\ s.moved \in Int
    /\ s.apply => s.next \in Int64 /\ s.next = cur + s.moved
    /\ ~s.apply => s.moved = 0

LEMMA StepsGood ==
    ASSUME NEW cur \in Int64
    PROVE  /\ \A delta \in Int64 : Good(IncrStep(cur, delta), cur)
           /\ \A amount \in 0 .. MaxInt, b \in Int64 :
                Good(TopupStep(cur, amount, b), cur) /\ Good(TakeStep(cur, amount, b), cur)
<1> USE WidthAssumption DEF Int64, MinInt, Good, Applied, Declined
<1>1. ASSUME NEW delta \in Int64 PROVE Good(IncrStep(cur, delta), cur)
  <2>1. CASE cur + delta \in Int64
    <3>1. IncrStep(cur, delta) = Applied(cur + delta, delta)
      BY <2>1, IncrExact
    <3> QED BY <2>1, <3>1
  <2>2. CASE cur + delta \notin Int64
    <3>1. IncrStep(cur, delta) = Declined
      BY <2>2, IncrExact
    <3> QED BY <3>1
  <2> QED BY <2>1, <2>2
<1>2. ASSUME NEW amount \in 0 .. MaxInt, NEW b \in Int64
      PROVE  Good(TopupStep(cur, amount, b), cur)
  <2> DEFINE room == IF cur >= b THEN 0 ELSE b - cur
             fits == IF amount <= room THEN amount ELSE room
  <2>1. fits \in Int /\ cur + fits \in Int64
    OBVIOUS
  <2>2. TopupStep(cur, amount, b) = IF fits = 0 THEN Declined ELSE Applied(cur + fits, fits)
    BY TopupExact
  <2> HIDE DEF fits, room
  <2> QED BY <2>1, <2>2
<1>3. ASSUME NEW amount \in 0 .. MaxInt, NEW b \in Int64
      PROVE  Good(TakeStep(cur, amount, b), cur)
  <2>1. CASE cur - amount >= b
    <3>1. TakeStep(cur, amount, b) = Applied(cur - amount, -amount)
      BY <2>1, TakeExact
    <3>2. cur - amount \in Int64 /\ cur - amount = cur + (-amount)
      BY <2>1
    <3> QED BY <3>1, <3>2
  <2>2. CASE ~(cur - amount >= b)
    <3>1. TakeStep(cur, amount, b) = Declined
      BY <2>2, TakeExact
    <3> QED BY <3>1
  <2> QED BY <2>1, <2>2
<1> HIDE DEF Good
<1> QED BY <1>1, <1>2, <1>3

IInv == TypeOK /\ RepliesAddUp

LEMMA DeadlineType ==
    ASSUME TypeOK, NEW ttl \in TTLs, ResolveTTL(ttl)
    PROVE  Deadline(ttl) \in Nat
<1>1. CASE ttl = 0
  BY <1>1 DEF Deadline
<1>2. CASE ttl # 0
  <2> DEFINE d == Duration(ttl)
  <2>1. d \in Int /\ d > 0
    <3>1. ttl * Milli \in Int
      BY WindowAssumption
    <3>2. (ttl * Milli + MaxInt + 1) % (2 * (MaxInt + 1)) \in Int
      BY <3>1, WidthAssumption
    <3> QED BY <1>2, <3>2, WidthAssumption DEF ResolveTTL, Duration, MinInt
  <2> HIDE DEF d
  <2>2. d \div Milli \in Nat
    BY <2>1, WindowAssumption
  <2> QED BY <1>2, <2>2 DEF Deadline, TypeOK, d
<1> QED BY <1>1, <1>2

(* A counter operation whose step is good keeps the invariant.             *)
LEMMA UpdateStep ==
    ASSUME IInv, NEW ttl \in TTLs, ResolveTTL(ttl),
           NEW s, Good(s, Current), CounterUpdate(s, ttl)
    PROVE  IInv'
<1>0. TypeOK /\ RepliesAddUp
  BY DEF IInv
<1>1. credit' \in Int /\ exp' \in Nat /\ now' \in Nat /\ damaged' \in BOOLEAN
  BY <1>0, DeadlineType DEF CounterUpdate, Good, TypeOK
<1>2. CASE s.apply
  <2>1. cell' = FormatCounter(s.next) /\ s.next \in Int64 /\ s.next = Current + s.moved
    BY <1>2 DEF CounterUpdate, Good
  <2>2. cell' \in Cells /\ ParseCounter(cell') = [ok |-> TRUE, val |-> s.next]
    BY Zenon, <2>1, RoundTrip
  <2>3. ~damaged' => s.next = credit'
    <3>1. CASE Live
      <4>1. ~damaged' => ~damaged
        BY <3>1, Zenon DEF CounterUpdate
      <4>2. ~damaged => Current = credit
        BY <1>0, <3>1 DEF RepliesAddUp, Current, Live
      <4>3. credit' = credit + s.moved
        BY <3>1 DEF CounterUpdate
      <4> QED BY <2>1, <4>1, <4>2, <4>3
    <3>2. CASE ~Live
      BY <2>1, <3>2 DEF CounterUpdate, Current
    <3> QED BY <3>1, <3>2
  <2>4. cell' # NoCell
    BY <2>2 DEF Cells, NoCell
  <2> QED BY <1>1, <2>2, <2>3, <2>4, Zenon DEF IInv, TypeOK, RepliesAddUp
<1>3. CASE ~s.apply
  <2>1. cell' = (IF Live THEN cell ELSE NoCell) /\ s.moved = 0
    BY <1>3 DEF CounterUpdate, Good
  <2>2. credit' = IF Live THEN credit ELSE 0
    BY <1>0, <2>1 DEF CounterUpdate, TypeOK
  <2>3. CASE Live
    <3>1. cell' = cell /\ credit' = credit /\ (damaged' = damaged)
      BY <1>0, <2>1, <2>2, <2>3 DEF CounterUpdate, TypeOK
    <3> QED BY <1>0, <1>1, <3>1 DEF IInv, TypeOK, RepliesAddUp
  <2>4. CASE ~Live
    BY <1>1, <2>1, <2>2, <2>4 DEF IInv, TypeOK, RepliesAddUp
  <2> QED BY <2>3, <2>4
<1> QED BY <1>2, <1>3 DEF Good

LEMMA NextStep ==
    ASSUME IInv, [Next]_vars
    PROVE  IInv'
<1>0. TypeOK /\ RepliesAddUp /\ Current \in Int64
  BY CurrentInRange DEF IInv
<1>1. ASSUME NEW delta \in Int64, NEW ttl \in TTLs, Incr(delta, ttl) PROVE IInv'
  BY <1>0, <1>1, StepsGood, UpdateStep DEF Incr
<1>2. ASSUME NEW amount \in 0 .. MaxInt, NEW b \in Int64, NEW ttl \in TTLs,
             Topup(amount, b, ttl) \/ Take(amount, b, ttl)
      PROVE  IInv'
  BY <1>0, <1>2, StepsGood, UpdateStep DEF Topup, Take
<1>3. ASSUME NEW next \in Int64, TornPatch(next) PROVE IInv'
  <2>1. cell' \in Cells /\ credit' = 0 /\ damaged' = TRUE /\ UNCHANGED <<exp, now>>
    BY <1>3 DEF TornPatch
  <2>2. cell' # NoCell
    BY <2>1 DEF Cells, NoCell
  <2> QED BY <1>0, <2>1, <2>2 DEF IInv, TypeOK, RepliesAddUp
<1>4. ASSUME NEW ttl \in TTLs, Put(ttl) PROVE IInv'
  BY <1>0, <1>4, DeadlineType DEF Put, IInv, TypeOK, RepliesAddUp, PlainCell, NoCell
<1>5. CASE Delete
  <2>1. TypeOK'
    <3>1. cell' \in Cells \cup {NoCell, PlainCell}
      BY <1>5 DEF Delete
    <3>2. exp' \in Nat /\ now' \in Nat
      BY <1>0, <1>5 DEF Delete, TypeOK
    <3>3. credit' \in Int
      BY <1>5 DEF Delete
    <3>4. damaged' \in BOOLEAN
      BY <1>5, Zenon DEF Delete
    <3> QED BY <3>1, <3>2, <3>3, <3>4 DEF TypeOK
  <2>2. RepliesAddUp'
    BY <1>5 DEF Delete, RepliesAddUp
  <2> QED BY <2>1, <2>2 DEF IInv
<1>6. CASE Tick
  BY <1>0, <1>6 DEF Tick, IInv, TypeOK, RepliesAddUp
<1>7. CASE UNCHANGED vars
  BY <1>0, <1>7 DEF vars, IInv, TypeOK, RepliesAddUp
<1> QED BY <1>1, <1>2, <1>3, <1>4, <1>5, <1>6, <1>7 DEF Next, Bucket

-----------------------------------------------------------------------------
LEMMA InitCounter == Init => IInv
<1> SUFFICES ASSUME Init PROVE IInv
  OBVIOUS
<1>1. cell \in Cells \cup {NoCell, PlainCell}
  BY DEF Init
<1>2. exp \in Nat /\ now \in Nat /\ credit \in Int
  BY DEF Init
<1>3. damaged \in BOOLEAN
  BY Zenon DEF Init
<1>4. RepliesAddUp
  BY DEF Init, RepliesAddUp
<1> QED BY <1>1, <1>2, <1>3, <1>4 DEF IInv, TypeOK

LEMMA CounterInvariant == Spec => []IInv
<1>1. Init => IInv
  BY InitCounter
<1>2. IInv /\ [Next]_vars => IInv'
  BY NextStep
<1> QED BY <1>1, <1>2, PTL DEF Spec

(* The stored value is the sum of what Incr, Topup and Take told their     *)
(* callers, for every width of the integers (counterUpdate).               *)
THEOREM RepliesCorrect == Spec => []RepliesAddUp
<1>1. IInv => RepliesAddUp
  BY DEF IInv
<1> QED BY <1>1, CounterInvariant, PTL

(* The stored text stays one the engine reads or never wrote, and deadline *)
(* and clock stay times (putAtomic, formatCounter).                        *)
THEOREM CounterTypes == Spec => []TypeOK
<1>1. IInv => TypeOK
  BY DEF IInv
<1> QED BY <1>1, CounterInvariant, PTL

(* At every value a counter can reach, Incr, Topup and Take do what they   *)
(* promise on unbounded numbers, for every argument: the overflow checks   *)
(* refuse exactly the cases that do not fit (incr, Topup, Take).           *)
THEOREM StepsCorrect == Spec => []StepsExact
<1>1. IInv => StepsExact
  <2> SUFFICES ASSUME IInv PROVE StepsExact
    OBVIOUS
  <2> DEFINE cur == Current
  <2>0. cur \in Int64
    BY CurrentInRange DEF IInv
  <2> HIDE DEF cur
  <2>1. ASSUME NEW delta \in Int64
        PROVE  LET s == IncrStep(cur, delta)
               IN  IF cur + delta \in Int64 THEN s.apply /\ s.next = cur + delta ELSE ~s.apply
    BY <2>0, IncrExact DEF Applied, Declined
  <2>2. ASSUME NEW amount \in 0 .. MaxInt, NEW max \in Int64
        PROVE  LET s == TopupStep(cur, amount, max)
                   room == IF cur >= max THEN 0 ELSE max - cur
                   fits == IF amount <= room THEN amount ELSE room
               IN  IF fits = 0 THEN ~s.apply ELSE s.apply /\ s.next = cur + fits /\ s.moved = fits
    BY <2>0, TopupExact DEF Applied, Declined
  <2>3. ASSUME NEW amount \in 0 .. MaxInt, NEW left \in Int64
        PROVE  LET s == TakeStep(cur, amount, left)
               IN  IF cur - amount >= left THEN s.apply /\ s.next = cur - amount ELSE ~s.apply
    BY <2>0, TakeExact DEF Applied, Declined
  <2> QED BY <2>1, <2>2, <2>3 DEF StepsExact, cur
<1> QED BY <1>1, CounterInvariant, PTL

(* An update of a live counter, in place or appended, keeps its expiry     *)
(* (counterUpdate: createExp arms an expiry only on the create path).      *)
THEOREM WindowCorrect == Spec => WindowFixed
<1> DEFINE Fixed == Live /\ cell' # NoCell /\ cell' # PlainCell => exp' = exp
<1>1. ASSUME [Next]_vars PROVE [Fixed]_vars
  <2>1. ASSUME NEW s, NEW ttl, CounterUpdate(s, ttl) PROVE Fixed
    BY <2>1 DEF CounterUpdate
  <2>2. CASE Bucket \/ \E delta \in Int64, ttl \in TTLs : Incr(delta, ttl)
    BY <2>1, <2>2 DEF Bucket, Incr, Topup, Take
  <2>3. CASE \E next \in Int64 : TornPatch(next)
    BY <2>3 DEF TornPatch
  <2>4. CASE \E ttl \in TTLs : Put(ttl)
    BY <2>4 DEF Put
  <2>5. CASE Delete
    BY <2>5 DEF Delete
  <2>6. CASE Tick
    BY <2>6 DEF Tick
  <2>7. CASE UNCHANGED vars
    BY <2>7 DEF vars
  <2> QED BY <1>1, <2>2, <2>3, <2>4, <2>5, <2>6, <2>7 DEF Next
<1> QED BY <1>1, PTL DEF Spec, WindowFixed

(* Division of a duration by the nanoseconds of a millisecond.             *)
LEMMA DivBelow ==
    ASSUME NEW d \in Nat, NEW m \in Nat \ {0}, NEW t \in Nat, d < t * m
    PROVE  d \div m < t
<1> DEFINE q == d \div m
<1>1. q \in Nat /\ q * m <= d
  BY SMT
<1> HIDE DEF q
<1>2. ASSUME q >= t PROVE FALSE
  <2>1. t * m <= q * m
    BY <1>1, <1>2
  <2>2. t * m \in Nat /\ q * m \in Nat
    BY <1>1
  <2> QED BY <1>1, <2>1, <2>2
<1> QED BY <1>1, <1>2 DEF q

LEMMA DivExact ==
    ASSUME NEW m \in Nat \ {0}, NEW t \in Nat
    PROVE  (t * m) \div m = t
BY SMT

(* A TTL is honoured to the millisecond or cut short, never extended, for  *)
(* every width of the integers and every TTL (parseTTLMillis, resolveTTL). *)
THEOREM TTLCorrect == Spec => []TTLHonoured
<1>1. TypeOK => TTLHonoured
  <2> SUFFICES ASSUME TypeOK, NEW ttl \in TTLs \ {0}
               PROVE  IF ttl * Milli <= MaxInt THEN ResolveTTL(ttl) /\ Deadline(ttl) = now + ttl
                      ELSE ResolveTTL(ttl) => Deadline(ttl) < now + ttl
    BY DEF TTLHonoured
  <2> DEFINE x == ttl * Milli
             d == Duration(ttl)
  <2>0. ttl \in Nat \ {0} /\ Milli \in Nat \ {0} /\ MaxInt \in Nat \ {0} /\ now \in Nat
    BY WindowAssumption, WidthAssumption DEF TypeOK
  <2>1. x \in Nat /\ x > 0
    BY <2>0
  <2>2. d = ((x + MaxInt + 1) % (2 * (MaxInt + 1))) - MaxInt - 1
    BY <2>0, <2>1 DEF Duration, MinInt
  <2>3. d \in Int /\ d <= MaxInt
    <3> HIDE DEF x, d
    <3> QED BY <2>0, <2>1, <2>2
  <2>4. CASE x <= MaxInt
    <3>1. d = x
      <4> HIDE DEF x, d
      <4> QED BY <2>0, <2>1, <2>2, <2>4
    <3>2. x \div Milli = ttl
      BY <2>0, DivExact
    <3> QED BY <2>0, <2>1, <2>4, <3>1, <3>2 DEF ResolveTTL, Deadline
  <2>5. CASE ~(x <= MaxInt)
    <3> SUFFICES ASSUME d > 0 PROVE Deadline(ttl) < now + ttl
      BY <2>0, <2>5 DEF ResolveTTL
    <3>1. d \in Nat /\ d < x
      BY <2>0, <2>1, <2>3, <2>5
    <3>2. d \div Milli < ttl
      BY <2>0, <3>1, DivBelow
    <3>3. d \div Milli \in Int
      BY <2>0, <3>1
    <3>4. Deadline(ttl) = now + (d \div Milli)
      BY <2>0 DEF Deadline
    <3> HIDE DEF d
    <3> QED BY <2>0, <3>2, <3>3, <3>4
  <2> QED BY <2>4, <2>5
<1>2. IInv => TypeOK
  BY DEF IInv
<1> QED BY <1>1, <1>2, CounterInvariant, PTL

-----------------------------------------------------------------------------
(* A token bucket.  The level alone is not inductive: the cell must hold a *)
(* counter for the next step to read the level from it.                    *)
BucketInv == IInv /\ LevelBounded

LEMMA LevelAfter ==
    ASSUME IInv, NEW ttl \in TTLs, NEW s, Good(s, Current), CounterUpdate(s, ttl),
           LevelBounded, s.apply => s.next \in Floor .. Cap
    PROVE  LevelBounded'
<1> USE DEF LevelBounded
<1>0. 0 \in Floor .. Cap
  BY BucketAssumption, WidthAssumption DEF Floor
<1>1. CASE ~Live'
  BY <1>0, <1>1 DEF Current
<1>2. CASE Live' /\ s.apply
  <2>1. ParseCounter(cell').val = s.next
    BY <1>2, RoundTrip DEF CounterUpdate, Good
  <2> QED BY <1>2, <2>1 DEF Current
<1>3. CASE Live' /\ ~s.apply
  <2>1. Live /\ cell' = cell
    BY <1>3 DEF CounterUpdate, Live
  <2> QED BY <1>3, <2>1 DEF Current
<1> QED BY <1>1, <1>2, <1>3 DEF Good

(* Under Topup and Take alone the level of a bucket stays within the bounds*)
(* its callers pass, for every width and every pair of bounds.             *)
THEOREM BucketCorrect == BucketSpec => []LevelBounded
<1>1. Init => BucketInv
  <2>1. Init => IInv
    BY InitCounter
  <2>2. Init => LevelBounded
    BY BucketAssumption, WidthAssumption DEF Init, LevelBounded, Current, Live, Floor
  <2> QED BY <2>1, <2>2 DEF BucketInv
<1>2. ASSUME BucketInv, [BucketNext]_vars PROVE BucketInv'
  <2>0. IInv /\ TypeOK /\ LevelBounded /\ Current \in Int64 /\ Current \in Floor .. Cap
    BY <1>2, CurrentInRange DEF BucketInv, IInv, LevelBounded
  <2> USE BucketAssumption, WidthAssumption DEF Floor, Int64, MinInt
  <2>1. ASSUME NEW amount \in 0 .. MaxInt, NEW max \in MinInt .. Cap, NEW ttl \in TTLs,
               Topup(amount, max, ttl)
        PROVE  BucketInv'
    <3> DEFINE s == TopupStep(Current, amount, max)
               room == IF Current >= max THEN 0 ELSE max - Current
               fits == IF amount <= room THEN amount ELSE room
    <3>1. max \in Int64
      OBVIOUS
    <3>2. s = IF fits = 0 THEN Declined ELSE Applied(Current + fits, fits)
      BY <2>0, <3>1, TopupExact
    <3>3. fits # 0 => Current + fits \in Floor .. Cap
      BY <2>0
    <3>4. Good(s, Current)
      BY <2>0, <3>1, StepsGood
    <3> HIDE DEF fits, room
    <3>5. s.apply => s.next \in Floor .. Cap
      BY <3>2, <3>3 DEF Applied, Declined
    <3> QED BY <2>0, <2>1, <3>4, <3>5, UpdateStep, LevelAfter DEF Topup, BucketInv
  <2>2. ASSUME NEW amount \in 0 .. MaxInt, NEW left \in Floor .. MaxInt, NEW ttl \in TTLs,
               Take(amount, left, ttl)
        PROVE  BucketInv'
    <3> DEFINE s == TakeStep(Current, amount, left)
    <3>1. left \in Int64
      OBVIOUS
    <3>2. s = IF Current - amount >= left THEN Applied(Current - amount, -amount) ELSE Declined
      BY <2>0, <3>1, TakeExact
    <3>3. Current - amount >= left => Current - amount \in Floor .. Cap
      BY <2>0
    <3>4. Good(s, Current)
      BY <2>0, <3>1, StepsGood
    <3>5. s.apply => s.next \in Floor .. Cap
      BY <3>2, <3>3 DEF Applied, Declined
    <3> QED BY <2>0, <2>2, <3>4, <3>5, UpdateStep, LevelAfter DEF Take, BucketInv
  <2>3. CASE Tick \/ UNCHANGED vars
    <3>1. IInv'
      BY <2>0, <2>3, NextStep DEF Next
    <3>2. cell' = cell
      BY <2>3 DEF Tick, vars
    <3>3. Current' \in {0, Current}
      <4>1. CASE Live' /\ Live
        BY <3>2, <4>1 DEF Current
      <4>2. CASE ~Live'
        BY <4>2 DEF Current
      <4>3. CASE Live' /\ ~Live
        BY <2>0, <2>3, <4>3 DEF Live, Expired, Tick, vars, TypeOK
      <4> QED BY <4>1, <4>2, <4>3
    <3> QED BY <2>0, <3>1, <3>3 DEF BucketInv, LevelBounded
  <2> QED BY <1>2, <2>1, <2>2, <2>3 DEF BucketNext
<1>3. BucketInv => LevelBounded
  BY DEF BucketInv
<1> QED BY <1>1, <1>2, <1>3, PTL DEF BucketSpec

-----------------------------------------------------------------------------
(* One connection.                                                         *)

(* The calls are settled in the order they were made: the first Settled of *)
(* them, and the others wait.                                              *)
Settled == Len(sent) - Len(pending)

QueueInv ==
    /\ \A i \in DOMAIN pending : pending[i] = Settled + i
    /\ Len(pending) <= Len(sent)
    /\ \A c \in Calls : result[c] = "none" <=> c > Settled
    /\ socket = "closed" => pending = <<>>

(* A put whose data blocks dispatch may leave unread, sent ahead of a      *)
(* valid auth or with a key the server splits, and whether one of the      *)
(* first k calls is such a put.                                            *)
Untimely(d) ==
    sent[d] \in Framed /\ (sent[d] \in Split \/ (AuthRequired /\ GrantedBefore(d) = {}))
Slipped(k) == \E d \in 1 .. Len(sent) : d <= k /\ Untimely(d)

(* The k-th answer on the connection is that of the k-th call, or one of   *)
(* the calls up to it was an untimely put.                                 *)
Due(k, id) == (id = k /\ k <= Len(sent)) \/ Slipped(k)

(* The frames in the stream to the server are those of consecutive calls,  *)
(* up to the last one made.                                                *)
EndOf(i) == i + Blocks(sent[c2s[i].id])
StreamInv ==
    /\ \A i \in DOMAIN c2s : c2s[i].id <= Len(sent)
    /\ \A i \in DOMAIN c2s :
         ~c2s[i].block =>
             /\ EndOf(i) <= Len(c2s)
             /\ \A j \in i + 1 .. EndOf(i) : c2s[j].block
             /\ EndOf(i) < Len(c2s) => c2s[EndOf(i) + 1] = Line(c2s[i].id + 1)
             /\ EndOf(i) = Len(c2s) /\ socket = "open" => c2s[i].id = Len(sent)

(* How many answers have been given, and what is next in the stream.       *)
Answers == Settled + Len(s2c) + Len(out)
ReplyInv ==
    /\ Len(out) <= 1
    /\ ~conn => out = <<>> /\ c2s = <<>>
    /\ socket = "open" =>
         /\ \A i \in DOMAIN s2c : Due(Settled + i, s2c[i].id)
         /\ out # <<>> => Due(Answers, out[1].id)
         /\ conn /\ ~last =>
              \/ Slipped(Answers)
              \/ c2s = <<>> /\ Answers = Len(sent)
              \/ c2s # <<>> /\ c2s[1] = Line(Answers + 1)

(* The role is the one earned by the last valid auth before call c.        *)
RoleAt(c) ==
    /\ role = "none" => GrantedBefore(c) = {}
    /\ role # "none" => \E a \in GrantedBefore(c) :
                          /\ \A b \in GrantedBefore(c) : b <= a
                          /\ role = "admin" => sent[a] = "authAdmin"

FirstLine(i) == ~c2s[i].block /\ \A j \in 1 .. i - 1 : c2s[j].block
RoleInv ==
    IF AuthRequired
    THEN /\ \A i \in DOMAIN c2s : FirstLine(i) => RoleAt(c2s[i].id)
         /\ conn /\ socket = "open" /\ (\A i \in DOMAIN c2s : c2s[i].block) => RoleAt(Len(sent) + 1)
    ELSE role = "admin"

(* A positive answer to an operation is given after it was called.         *)
Operations == {"data", "admin", "put", "putx"}
Honest(r) ==
    /\ r.id <= Len(sent)
    /\ r.id # 0 /\ r.ok /\ sent[r.id] \in Operations => \E x \in Roles : <<r.id, x>> \in ran
RanInv ==
    /\ \A i \in DOMAIN s2c : Honest(s2c[i])
    /\ out # <<>> => Honest(out[1])
    /\ \A p \in ran : p[1] <= Len(sent)

SessionInv ==
    /\ SessionTypeOK /\ QueueInv /\ StreamInv /\ ReplyInv /\ RoleInv /\ RanInv
    /\ RepliesMatch /\ RanAsGranted

-----------------------------------------------------------------------------
Items == [id: Calls, block: BOOLEAN]

(* What the provers are told of sequences.                                 *)
LEMMA SeqFacts ==
    ASSUME NEW S, NEW s \in Seq(S)
    PROVE  /\ Len(s) \in Nat /\ DOMAIN s = 1 .. Len(s) /\ \A i \in 1 .. Len(s) : s[i] \in S
           /\ s = <<>> <=> Len(s) = 0
OBVIOUS

(* A sequence without its first m elements.                                *)
LEMMA Suffix ==
    ASSUME NEW S, NEW s \in Seq(S), NEW m \in 0 .. Len(s)
    PROVE  /\ SubSeq(s, m + 1, Len(s)) \in Seq(S) /\ Len(SubSeq(s, m + 1, Len(s))) = Len(s) - m
           /\ \A i \in 1 .. Len(s) - m :
                SubSeq(s, m + 1, Len(s))[i] = s[i + m] /\ i + m \in 1 .. Len(s)
OBVIOUS

(* Head and Tail.                                                          *)
LEMMA TailFacts ==
    ASSUME NEW S, NEW s \in Seq(S), s # <<>>
    PROVE  /\ Tail(s) = SubSeq(s, 1 + 1, Len(s)) /\ 1 \in 0 .. Len(s) /\ Len(s) # 0
           /\ Head(s) = s[1] /\ s[1] \in S
OBVIOUS

(* A sequence without its first element.                                   *)
LEMMA TailRest ==
    ASSUME NEW S, NEW s \in Seq(S), s # <<>>
    PROVE  /\ Tail(s) \in Seq(S) /\ Len(Tail(s)) = Len(s) - 1
           /\ DOMAIN Tail(s) = 1 .. Len(Tail(s)) /\ 1 \in 1 .. Len(s)
           /\ \A i \in 1 .. Len(Tail(s)) : Tail(s)[i] = s[i + 1] /\ i + 1 \in 1 .. Len(s)
OBVIOUS

(* Two sequences, one behind the other.                                    *)
LEMMA ConcatFacts ==
    ASSUME NEW S, NEW s \in Seq(S), NEW t \in Seq(S)
    PROVE  /\ s \o t \in Seq(S) /\ Len(s \o t) = Len(s) + Len(t)
           /\ \A i \in 1 .. Len(s) : (s \o t)[i] = s[i]
           /\ \A i \in 1 .. Len(t) : (s \o t)[Len(s) + i] = t[i]
OBVIOUS

(* One more element.                                                       *)
LEMMA AppendFacts ==
    ASSUME NEW S, NEW s \in Seq(S), NEW e \in S
    PROVE  /\ Append(s, e) \in Seq(S) /\ Len(Append(s, e)) = Len(s) + 1
           /\ \A i \in 1 .. Len(s) : Append(s, e)[i] = s[i]
           /\ Append(s, e)[Len(s) + 1] = e
OBVIOUS

(* The number of data blocks of a command.                                 *)
LEMMA BlocksType == \A k : Blocks(k) \in Nat
BY DEF Blocks

(* A frame is a line and the blocks behind it.                             *)
LEMMA FrameFacts ==
    ASSUME NEW id \in Calls, NEW k
    PROVE  /\ Frame(id, k) \in Seq(Items) /\ Len(Frame(id, k)) = 1 + Blocks(k)
           /\ Frame(id, k)[1] = Line(id)
           /\ \A i \in 2 .. 1 + Blocks(k) : Frame(id, k)[i] = Block(id)
<1> DEFINE b == [i \in 1 .. Blocks(k) |-> Block(id)]
<1>1. Line(id) \in Items /\ Block(id) \in Items
  BY DEF Line, Block, Items
<1>2. b \in Seq(Items) /\ Len(b) = Blocks(k) /\ \A i \in 1 .. Blocks(k) : b[i] = Block(id)
  BY <1>1, BlocksType
<1>3. <<Line(id)>> \in Seq(Items) /\ Len(<<Line(id)>>) = 1 /\ <<Line(id)>>[1] = Line(id)
  BY <1>1
<1>4. Frame(id, k) = <<Line(id)>> \o b
  BY DEF Frame
<1> HIDE DEF b
<1>5. /\ Frame(id, k) \in Seq(Items) /\ Len(Frame(id, k)) = 1 + Blocks(k)
      /\ Frame(id, k)[1] = Line(id) /\ \A i \in 1 .. Blocks(k) : Frame(id, k)[1 + i] = b[i]
  BY <1>2, <1>3, <1>4, ConcatFacts
<1>6. ASSUME NEW i \in 2 .. 1 + Blocks(k) PROVE Frame(id, k)[i] = Block(id)
  <2>1. i - 1 \in 1 .. Blocks(k) /\ 1 + (i - 1) = i
    BY BlocksType
  <2>2. Frame(id, k)[1 + (i - 1)] = b[i - 1] /\ b[i - 1] = Block(id)
    BY <1>2, <1>5, <2>1, Zenon
  <2> QED BY <2>1, <2>2
<1> QED BY <1>5, <1>6, Zenon

(* Lengths, domains and elements of the queues and streams.                *)
LEMMA Types ==
    ASSUME SessionTypeOK
    PROVE  /\ Len(sent) \in Nat /\ DOMAIN sent = 1 .. Len(sent) /\ 1 .. Len(sent) \subseteq Calls
           /\ \A c \in 1 .. Len(sent) : sent[c] \in Commands
           /\ Len(pending) \in Nat /\ DOMAIN pending = 1 .. Len(pending)
           /\ c2s \in Seq(Items) /\ Len(c2s) \in Nat /\ DOMAIN c2s = 1 .. Len(c2s)
           /\ \A i \in 1 .. Len(c2s) : c2s[i] \in Items
           /\ Len(s2c) \in Nat /\ DOMAIN s2c = 1 .. Len(s2c)
           /\ \A i \in 1 .. Len(s2c) : s2c[i] \in Replies
           /\ Len(out) \in Nat /\ DOMAIN out = 1 .. Len(out)
           /\ \A i \in 1 .. Len(out) : out[i] \in Replies
<1>1. sent \in Seq(Commands) /\ Len(sent) <= MaxCalls /\ pending \in Seq(Calls)
      /\ c2s \in Seq(Items) /\ s2c \in Seq(Replies) /\ out \in Seq(Replies)
  BY Zenon DEF SessionTypeOK, Items
<1>2. 1 .. Len(sent) \subseteq Calls
  BY <1>1, SessionAssumption DEF Calls
<1> QED BY <1>1, <1>2, SeqFacts, Zenon

-----------------------------------------------------------------------------
(* The calls made so far stay as they are, and so does what was granted    *)
(* before them, when another one is made.                                  *)
LEMMA SentGrows ==
    ASSUME SessionTypeOK, NEW k \in Commands, sent' = Append(sent, k)
    PROVE  /\ Len(sent') = Len(sent) + 1 /\ sent' \in Seq(Commands)
           /\ \A c \in 1 .. Len(sent) : sent'[c] = sent[c]
           /\ sent'[Len(sent) + 1] = k
           /\ \A c \in 1 .. Len(sent) + 1 : GrantedBefore(c)' = GrantedBefore(c)
           /\ \A d \in 1 .. Len(sent) : Untimely(d)' = Untimely(d)
           /\ \A c \in 1 .. Len(sent) : InStep(c)' = InStep(c)
<1>1. sent \in Seq(Commands) /\ Len(sent) \in Nat /\ DOMAIN sent = 1 .. Len(sent)
  BY Types, Zenon DEF SessionTypeOK
<1>2. /\ Len(sent') = Len(sent) + 1 /\ sent' \in Seq(Commands)
      /\ \A c \in 1 .. Len(sent) : sent'[c] = sent[c]
      /\ sent'[Len(sent) + 1] = k /\ DOMAIN sent' = 1 .. Len(sent) + 1
  BY <1>1
<1>3. ASSUME NEW c \in 1 .. Len(sent) + 1 PROVE GrantedBefore(c)' = GrantedBefore(c)
  <2>1. GrantedBefore(c)' = {a \in DOMAIN sent' : a < c /\ sent'[a] \in {"authAdmin", "authUser"}}
    BY DEF GrantedBefore
  <2>2. \A a \in DOMAIN sent' : a < c => a \in 1 .. Len(sent)
    BY <1>1, <1>2
  <2>3. \A a \in 1 .. Len(sent) : a \in DOMAIN sent' /\ a \in DOMAIN sent /\ sent'[a] = sent[a]
    BY <1>1, <1>2
  <2> QED BY <1>1, <2>1, <2>2, <2>3, Zenon DEF GrantedBefore
<1>4. \A d \in 1 .. Len(sent) : d \in 1 .. Len(sent) + 1 /\ 1 .. d \subseteq 1 .. Len(sent)
  BY <1>1
<1>5. ASSUME NEW d \in 1 .. Len(sent) PROVE Untimely(d)' = Untimely(d)
  BY <1>2, <1>3, <1>4, Zenon DEF Untimely
<1>6. ASSUME NEW c \in 1 .. Len(sent) PROVE InStep(c)' = InStep(c)
  <2>1. \A d \in 1 .. c : sent'[d] = sent[d] /\ GrantedBefore(d)' = GrantedBefore(d)
    BY <1>2, <1>3, <1>4, Zenon
  <2> QED BY <2>1, Zenon DEF InStep
<1> QED BY <1>2, <1>3, <1>5, <1>6, Zenon

(* A call is in step when no put up to it was untimely.                    *)
LEMMA InStepSlipped ==
    ASSUME SessionTypeOK, NEW c \in 1 .. Len(sent)
    PROVE  InStep(c) <=> ~Slipped(c)
<1>1. \A d : d \in 1 .. c <=> d \in 1 .. Len(sent) /\ d <= c
  BY Types
<1> QED BY <1>1, Zenon DEF InStep, Slipped, Untimely

(* What has slipped has slipped for good.                                  *)
LEMMA SlippedLater ==
    ASSUME NEW k \in Nat, Slipped(k) PROVE Slipped(k + 1)
<1>1. PICK d \in 1 .. Len(sent) : d <= k /\ Untimely(d)
  BY Zenon DEF Slipped
<1>2. d <= k + 1
  BY <1>1
<1> QED BY <1>1, <1>2, Zenon DEF Slipped

(* What was due stays due when another call is made.                       *)
LEMMA DueStays ==
    ASSUME SessionTypeOK, NEW k \in Commands, sent' = Append(sent, k), NEW n
    PROVE  /\ Slipped(n) => Slipped(n)'
           /\ n \in Nat => \A id : Due(n, id) => Due(n, id)'
<1>1. Len(sent) \in Nat
  BY Types, Zenon
<1>2. Len(sent') = Len(sent) + 1 /\ \A d \in 1 .. Len(sent) : Untimely(d)' = Untimely(d)
  BY SentGrows, Zenon
<1>3. \A d \in 1 .. Len(sent) : d \in 1 .. Len(sent')
  BY <1>1, <1>2
<1>4. Slipped(n) => Slipped(n)'
  BY <1>2, <1>3, Zenon DEF Slipped
<1>5. n \in Nat /\ n <= Len(sent) => n <= Len(sent')
  BY <1>1, <1>2
<1> QED BY <1>4, <1>5, Zenon DEF Due

(* What depends on the calls made only, and the promises as they were.     *)
LEMMA SentStays ==
    ASSUME sent' = sent
    PROVE  /\ \A c : GrantedBefore(c)' = GrantedBefore(c) /\ InStep(c)' = InStep(c)
           /\ \A k : Slipped(k)' = Slipped(k)
           /\ \A k, id : Due(k, id)' = Due(k, id)
<1>1. \A c : GrantedBefore(c)' = GrantedBefore(c)
  BY Zenon DEF GrantedBefore
<1>2. \A c : InStep(c)' = InStep(c)
  BY <1>1, Zenon DEF InStep
<1>3. \A k : Slipped(k)' = Slipped(k)
  BY <1>1, Zenon DEF Slipped, Untimely
<1>4. \A k, id : Due(k, id)' = Due(k, id)
  BY <1>3, Zenon DEF Due
<1> QED BY <1>1, <1>2, <1>3, <1>4, Zenon

(* A step that settles no promise and calls no operation.                  *)
LEMMA HistoryStays ==
    ASSUME RepliesMatch, RanAsGranted, UNCHANGED <<sent, result, got, ran>>
    PROVE  RepliesMatch' /\ RanAsGranted'
<1>1. \A c : GrantedBefore(c)' = GrantedBefore(c) /\ InStep(c)' = InStep(c)
  BY SentStays, Zenon
<1>2. RepliesMatch'
  BY <1>1, Zenon DEF RepliesMatch
<1>3. RanAsGranted'
  BY <1>1, Zenon DEF RanAsGranted
<1> QED BY <1>2, <1>3, Zenon

-----------------------------------------------------------------------------
(* The stream to the server: an item of it is of a call that was made.     *)
LEMMA StreamFacts ==
    ASSUME SessionTypeOK, StreamInv, NEW i \in 1 .. Len(c2s)
    PROVE  /\ c2s[i].id \in Nat /\ c2s[i].id <= Len(sent) /\ c2s[i].id \in 1 .. Len(sent)
           /\ EndOf(i) \in Nat /\ EndOf(i) >= i /\ c2s[i].block \in BOOLEAN
<1>1. c2s[i] \in Items /\ DOMAIN c2s = 1 .. Len(c2s) /\ Len(c2s) \in Nat /\ Len(sent) \in Nat
  BY Types, Zenon
<1>2. c2s[i].id \in Calls /\ c2s[i].block \in BOOLEAN /\ c2s[i].id <= Len(sent)
  BY <1>1, Zenon DEF Items, StreamInv
<1>3. c2s[i].id \in 1 .. Len(sent) /\ c2s[i].id \in Nat
  BY <1>1, <1>2, SessionAssumption DEF Calls
<1>4. EndOf(i) \in Nat /\ EndOf(i) >= i
  BY <1>1, BlocksType DEF EndOf
<1> QED BY <1>2, <1>3, <1>4

(* The first m items are read.                                             *)
Drops(m) ==
    /\ c2s' \in Seq(Items) /\ Len(c2s') = Len(c2s) - m
    /\ \A i \in 1 .. Len(c2s) - m : c2s'[i] = c2s[i + m] /\ i + m \in 1 .. Len(c2s)

(* What Answer and StrayLine do to the stream.                             *)
LEMMA SubSeqDrops ==
    ASSUME SessionTypeOK, NEW m \in 0 .. Len(c2s), c2s' = SubSeq(c2s, m + 1, Len(c2s))
    PROVE  Drops(m)
<1>1. c2s \in Seq(Items)
  BY Types, Zenon
<1> QED BY <1>1, Suffix, Zenon DEF Drops

(* The invariant of the stream when a prefix of it is read.                *)
LEMMA StreamSuffix ==
    ASSUME SessionTypeOK, StreamInv, NEW m \in 0 .. Len(c2s), Drops(m), sent' = sent,
           socket' = "open" => socket = "open"
    PROVE  StreamInv' /\ c2s' \in Seq(Items)
<1>1. c2s \in Seq(Items) /\ Len(c2s) \in Nat /\ Len(sent) \in Nat /\ DOMAIN c2s = 1 .. Len(c2s)
  BY Types, Zenon
<1>2. /\ c2s' \in Seq(Items) /\ Len(c2s') = Len(c2s) - m
      /\ \A i \in 1 .. Len(c2s') : c2s'[i] = c2s[i + m] /\ i + m \in 1 .. Len(c2s)
  BY <1>1, Zenon DEF Drops
<1>3. DOMAIN c2s' = 1 .. Len(c2s')
  BY <1>2
<1>4. ASSUME NEW i \in DOMAIN c2s' PROVE c2s'[i].id <= Len(sent')
  BY <1>2, <1>3, StreamFacts, Zenon
<1>5. ASSUME NEW i \in DOMAIN c2s', ~c2s'[i].block
      PROVE  /\ EndOf(i)' <= Len(c2s')
             /\ \A j \in i + 1 .. EndOf(i)' : c2s'[j].block
             /\ EndOf(i)' < Len(c2s') => c2s'[EndOf(i)' + 1] = Line(c2s'[i].id + 1)
             /\ EndOf(i)' = Len(c2s') /\ socket' = "open" => c2s'[i].id = Len(sent')
  <2>1. i \in 1 .. Len(c2s') /\ c2s'[i] = c2s[i + m] /\ i + m \in 1 .. Len(c2s)
    BY <1>2, <1>3, Zenon
  <2>2. EndOf(i + m) \in Nat /\ EndOf(i)' = i + Blocks(sent[c2s[i + m].id])
    BY <2>1, StreamFacts, Zenon DEF EndOf
  <2>3. EndOf(i)' + m = EndOf(i + m) /\ EndOf(i)' \in Nat
    BY <2>1, <2>2, BlocksType DEF EndOf
  <2>4. /\ EndOf(i + m) <= Len(c2s)
        /\ \A j \in i + m + 1 .. EndOf(i + m) : c2s[j].block
        /\ EndOf(i + m) < Len(c2s) => c2s[EndOf(i + m) + 1] = Line(c2s[i + m].id + 1)
        /\ EndOf(i + m) = Len(c2s) /\ socket = "open" => c2s[i + m].id = Len(sent)
    BY <1>1, <1>5, <2>1, Zenon DEF StreamInv
  <2>5. EndOf(i)' <= Len(c2s') /\ (EndOf(i)' = Len(c2s') => EndOf(i + m) = Len(c2s))
    BY <1>1, <1>2, <2>3, <2>4
  <2>6. ASSUME NEW j \in i + 1 .. EndOf(i)' PROVE c2s'[j].block
    <3>1. /\ EndOf(i)' <= Len(c2s') /\ EndOf(i)' + m = EndOf(i + m) /\ EndOf(i)' \in Nat
          /\ i \in 1 .. Len(c2s')
      BY <2>1, <2>3, <2>5, Zenon
    <3>2. Len(c2s') \in Nat /\ i \in Nat /\ i >= 1
      BY <1>2, <3>1
    <3>3. \A a, b, c, d \in Nat : \A x \in a + 1 .. b :
             a >= 1 /\ b <= c => x \in 1 .. c /\ x + d \in a + d + 1 .. b + d
      OBVIOUS
    <3>4. m \in Nat
      OBVIOUS
    <3>5. j \in 1 .. Len(c2s') /\ j + m \in i + m + 1 .. EndOf(i)' + m
      BY <3>1, <3>2, <3>3, <3>4, Zenon
    <3>6. j \in 1 .. Len(c2s') /\ j + m \in i + m + 1 .. EndOf(i + m)
      BY <3>1, <3>5, Zenon
    <3> QED BY <1>2, <2>4, <3>6, Zenon
  <2>7. ASSUME EndOf(i)' < Len(c2s') PROVE c2s'[EndOf(i)' + 1] = Line(c2s'[i].id + 1)
    <3>1. EndOf(i)' + 1 \in 1 .. Len(c2s') /\ EndOf(i + m) < Len(c2s)
          /\ EndOf(i)' + 1 + m = EndOf(i + m) + 1
      BY <1>1, <1>2, <2>3, <2>7
    <3> QED BY <1>2, <2>1, <2>4, <3>1, Zenon
  <2> QED BY <2>1, <2>4, <2>5, <2>6, <2>7, Zenon
<1> QED BY <1>2, <1>4, <1>5, Zenon DEF StreamInv

(* After a line, the next one is that of the next call, whether the blocks *)
(* of its frame are read with it or left in the stream.                    *)
LEMMA NextLine ==
    ASSUME SessionTypeOK, StreamInv, c2s # <<>>, ~c2s[1].block, NEW m \in 1 .. EndOf(1), Drops(m)
    PROVE  /\ m \in 0 .. Len(c2s)
           /\ \A i \in DOMAIN c2s' : FirstLine(i)' => c2s'[i].id = c2s[1].id + 1
           /\ (\A i \in DOMAIN c2s' : c2s'[i].block) /\ socket = "open" => c2s[1].id = Len(sent)
           /\ m = EndOf(1) =>
                \/ c2s' = <<>> /\ (socket = "open" => c2s[1].id = Len(sent))
                \/ c2s' # <<>> /\ c2s'[1] = Line(c2s[1].id + 1)
<1>1. c2s \in Seq(Items) /\ Len(c2s) \in Nat /\ DOMAIN c2s = 1 .. Len(c2s) /\ Len(c2s) # 0
  BY Types, SeqFacts, Zenon
<1>2. 1 \in DOMAIN c2s /\ 1 \in 1 .. Len(c2s)
  BY <1>1
<1>3. /\ EndOf(1) <= Len(c2s)
      /\ \A j \in 1 + 1 .. EndOf(1) : c2s[j].block
      /\ EndOf(1) < Len(c2s) => c2s[EndOf(1) + 1] = Line(c2s[1].id + 1)
      /\ EndOf(1) = Len(c2s) /\ socket = "open" => c2s[1].id = Len(sent)
  BY <1>2, Zenon DEF StreamInv
<1>4. EndOf(1) \in Nat /\ c2s[1].id \in Nat
  BY <1>2, StreamFacts, Zenon
<1>5. m \in 0 .. Len(c2s) /\ m \in Nat /\ m <= EndOf(1) /\ m >= 1
  BY <1>1, <1>3, <1>4
<1>6. /\ c2s' \in Seq(Items) /\ Len(c2s') = Len(c2s) - m
      /\ \A i \in 1 .. Len(c2s') : c2s'[i] = c2s[i + m] /\ i + m \in 1 .. Len(c2s)
  BY <1>1, <1>5, Zenon DEF Drops
<1>7. DOMAIN c2s' = 1 .. Len(c2s') /\ (c2s' = <<>> <=> Len(c2s') = 0)
  BY <1>6
<1> DEFINE e == EndOf(1) + 1 - m
<1>8. /\ e \in Nat /\ e >= 1 /\ e + m = EndOf(1) + 1
      /\ EndOf(1) < Len(c2s) => e \in 1 .. Len(c2s')
      /\ EndOf(1) = Len(c2s) => e = Len(c2s') + 1
      /\ m = EndOf(1) => e = 1
  <2>1. Len(c2s') = Len(c2s) - m /\ EndOf(1) <= Len(c2s)
    BY <1>3, <1>6, Zenon
  <2> QED BY <1>1, <1>4, <1>5, <2>1
<1> HIDE DEF e
<1>9. EndOf(1) < Len(c2s) => c2s'[e] = Line(c2s[1].id + 1) /\ ~c2s'[e].block
  <2>1. EndOf(1) < Len(c2s) => c2s'[e] = c2s[e + m]
    BY <1>6, <1>8, Zenon
  <2> QED BY <1>3, <1>8, <2>1 DEF Line
<1>10. EndOf(1) < Len(c2s) \/ EndOf(1) = Len(c2s)
  BY <1>1, <1>3, <1>4
<1>11. ASSUME NEW i \in DOMAIN c2s', FirstLine(i)' PROVE c2s'[i].id = c2s[1].id + 1
  <2>0. i \in 1 .. Len(c2s') /\ i \in Nat
    BY <1>7
  <2>1. ~c2s'[i].block /\ \A j \in 1 .. i - 1 : c2s'[j].block
    BY <1>11, Zenon DEF FirstLine
  <2>2. i >= e
    <3>1. c2s'[i] = c2s[i + m] /\ i + m \in 1 .. Len(c2s)
      BY <1>6, <2>0, Zenon
    <3>2. i + m \notin 1 + 1 .. EndOf(1)
      BY <1>3, <2>1, <3>1, Zenon
    <3> QED BY <1>4, <1>5, <1>8, <2>0, <3>2
  <2>3. EndOf(1) < Len(c2s)
    BY <1>8, <1>10, <2>0, <2>2, <1>6
  <2>4. e \notin 1 .. i - 1
    BY <1>9, <2>1, <2>3, Zenon
  <2>5. i = e
    BY <1>8, <2>0, <2>2, <2>4
  <2> QED BY <1>9, <2>3, <2>5 DEF Line
<1>12. ASSUME \A i \in DOMAIN c2s' : c2s'[i].block, socket = "open" PROVE c2s[1].id = Len(sent)
  BY <1>3, <1>7, <1>8, <1>9, <1>10, <1>12, Zenon
<1>13. ASSUME m = EndOf(1)
       PROVE  \/ c2s' = <<>> /\ (socket = "open" => c2s[1].id = Len(sent))
              \/ c2s' # <<>> /\ c2s'[1] = Line(c2s[1].id + 1)
  <2>1. CASE EndOf(1) < Len(c2s)
    <3>1. e = 1 /\ Len(c2s') # 0
      BY <1>6, <1>8, <1>13, <2>1
    <3> QED BY <1>7, <1>9, <2>1, <3>1, Zenon
  <2>2. CASE EndOf(1) = Len(c2s)
    <3>1. Len(c2s') = 0
      BY <1>1, <1>6, <1>13, <2>2
    <3> QED BY <1>3, <1>7, <2>2, <3>1, Zenon
  <2> QED BY <1>10, <2>1, <2>2, Zenon
<1> QED BY <1>5, <1>11, <1>12, <1>13, Zenon

-----------------------------------------------------------------------------
(* The line at the head of the stream, and the role it is handled with.    *)
LEMMA AtLineFacts ==
    ASSUME SessionTypeOK, StreamInv, RoleInv, AtLine
    PROVE  /\ c2s # <<>> /\ conn /\ out = <<>> /\ ~last /\ ~c2s[1].block
           /\ Cmd = c2s[1].id /\ Cmd \in 1 .. Len(sent) /\ Kind = sent[Cmd]
           /\ AuthRequired => RoleAt(Cmd)
           /\ 1 + Blocks(Kind) = EndOf(1) /\ 1 \in 1 .. Len(c2s)
<1>1. c2s \in Seq(Items) /\ Len(c2s) \in Nat /\ DOMAIN c2s = 1 .. Len(c2s) /\ c2s # <<>>
  BY Types, Zenon DEF AtLine, Idle
<1>2. 1 \in 1 .. Len(c2s) /\ Head(c2s) = c2s[1]
  BY <1>1
<1>3. ~c2s[1].block /\ Cmd = c2s[1].id /\ Kind = sent[Cmd] /\ EndOf(1) = 1 + Blocks(Kind)
  BY <1>2, Zenon DEF AtLine, Cmd, Kind, EndOf
<1>4. Cmd \in 1 .. Len(sent)
  BY <1>2, <1>3, StreamFacts, Zenon
<1>5. AuthRequired => RoleAt(Cmd)
  <2>1. 1 .. 1 - 1 = {}
    OBVIOUS
  <2>2. FirstLine(1)
    BY <1>3, <2>1, Zenon DEF FirstLine
  <2> QED BY <1>1, <1>2, <1>3, <2>2, Zenon DEF RoleInv
<1> QED BY <1>1, <1>2, <1>3, <1>4, <1>5, Zenon DEF AtLine, Idle

(* One call on, what was granted grows by that call at most.               *)
LEMMA GrantedNext ==
    ASSUME SessionTypeOK, NEW c \in 1 .. Len(sent)
    PROVE  GrantedBefore(c + 1) =
             IF sent[c] \in {"authAdmin", "authUser"} THEN GrantedBefore(c) \cup {c} ELSE GrantedBefore(c)
<1>1. DOMAIN sent = 1 .. Len(sent) /\ Len(sent) \in Nat
  BY Types, Zenon
<1>2. \A a \in DOMAIN sent : a < c + 1 <=> a < c \/ a = c
  BY <1>1
<1>3. c \in DOMAIN sent
  BY <1>1, Zenon
<1> QED BY <1>2, <1>3, Zenon DEF GrantedBefore

(* A command other than auth leaves the role right for the next call.      *)
LEMMA RoleStays ==
    ASSUME SessionTypeOK, NEW c \in 1 .. Len(sent), RoleAt(c), UNCHANGED <<sent, role>>,
           sent[c] \notin {"authAdmin", "authUser"}
    PROVE  RoleAt(c + 1)'
<1>1. GrantedBefore(c + 1)' = GrantedBefore(c + 1)
  BY DEF GrantedBefore
<1>2. GrantedBefore(c + 1) = GrantedBefore(c)
  BY GrantedNext, Zenon
<1> QED BY <1>1, <1>2, Zenon DEF RoleAt

(* An auth that is accepted sets it.                                       *)
LEMMA RoleSet ==
    ASSUME SessionTypeOK, NEW c \in 1 .. Len(sent), sent' = sent,
           \/ sent[c] = "authAdmin" /\ role' = "admin"
           \/ sent[c] = "authUser" /\ role' = "user"
    PROVE  RoleAt(c + 1)'
<1>1. GrantedBefore(c + 1)' = GrantedBefore(c + 1)
  BY DEF GrantedBefore
<1>2. GrantedBefore(c + 1) = GrantedBefore(c) \cup {c}
  BY GrantedNext, Zenon
<1>3. \A b \in GrantedBefore(c) \cup {c} : b <= c
  BY Types DEF GrantedBefore
<1>4. role' # "none" /\ (role' = "admin" => sent'[c] = "authAdmin")
  BY Zenon
<1> QED BY <1>1, <1>2, <1>3, <1>4, Zenon DEF RoleAt

(* An answer to the line at the head of the stream keeps the invariant: it *)
(* reads the frame as a whole, or ends the connection, or the frame is that *)
(* of an untimely put; it calls the operation if it reports success, and   *)
(* only with the rights; and it leaves the role right for the next call.   *)
LEMMA AnswerKeeps ==
    ASSUME SessionInv, AtLine, NEW c, c = Cmd,
           NEW ok \in BOOLEAN, NEW skip \in {0, Blocks(Kind)}, NEW quit \in BOOLEAN,
           NEW calls \in SUBSET {<<c, role>>}, Answer(ok, skip, quit, calls),
           skip = Blocks(Kind) \/ quit \/ Untimely(c),
           ok /\ Kind \in Operations => <<c, role>> \in calls,
           calls # {} => role # "none" /\ (Kind = "admin" => role = "admin"),
           role' \in Roles, IF AuthRequired THEN RoleAt(c + 1)' ELSE role' = "admin"
    PROVE  SessionInv'
<1>0. SessionTypeOK /\ QueueInv /\ StreamInv /\ ReplyInv /\ RoleInv /\ RanInv /\ RepliesMatch /\ RanAsGranted
  BY Zenon DEF SessionInv
<1>1. /\ c2s # <<>> /\ conn /\ out = <<>> /\ ~last /\ ~c2s[1].block
      /\ c = c2s[1].id /\ c \in 1 .. Len(sent) /\ Kind = sent[c]
      /\ AuthRequired => RoleAt(c)
      /\ 1 + Blocks(Kind) = EndOf(1) /\ 1 \in 1 .. Len(c2s)
  BY <1>0, AtLineFacts, Zenon
<1>2. /\ out' = <<Reply(c, ok)>> /\ last' = quit /\ ran' = ran \cup calls
      /\ c2s' = SubSeq(c2s, 2 + skip, Len(c2s))
      /\ UNCHANGED <<conn, s2c, sent, pending, result, got, socket>>
  BY Zenon DEF Answer, client
<1>3. /\ Len(sent) \in Nat /\ Len(pending) \in Nat /\ Len(c2s) \in Nat /\ Len(s2c) \in Nat
      /\ DOMAIN sent = 1 .. Len(sent) /\ 1 .. Len(sent) \subseteq Calls /\ DOMAIN s2c = 1 .. Len(s2c)
  BY <1>0, Types, Zenon
<1> DEFINE m == 1 + skip
<1>4. /\ m \in Nat /\ m \in 1 .. EndOf(1) /\ m \in 0 .. Len(c2s) /\ 2 + skip = m + 1
      /\ skip = Blocks(Kind) => m = EndOf(1)
  <2>1. EndOf(1) <= Len(c2s) /\ EndOf(1) \in Nat
    BY <1>0, <1>1, StreamFacts, Types, Zenon DEF StreamInv
  <2> QED BY <1>1, <1>3, <2>1, BlocksType
<1> HIDE DEF m
<1>5. Drops(m)
  BY <1>0, <1>2, <1>4, SubSeqDrops, Zenon
<1>6. StreamInv' /\ c2s' \in Seq(Items)
  BY <1>0, <1>2, <1>4, <1>5, StreamSuffix, Zenon
<1>7. /\ \A i \in DOMAIN c2s' : FirstLine(i)' => c2s'[i].id = c + 1
      /\ (\A i \in DOMAIN c2s' : c2s'[i].block) /\ socket = "open" => c = Len(sent)
      /\ m = EndOf(1) =>
           \/ c2s' = <<>> /\ (socket = "open" => c = Len(sent))
           \/ c2s' # <<>> /\ c2s'[1] = Line(c + 1)
  BY <1>0, <1>1, <1>4, <1>5, NextLine, Zenon
<1>8. out' \in Seq(Replies) /\ Len(out') = 1 /\ out'[1] = Reply(c, ok) /\ out' # <<>>
  <2>1. Reply(c, ok) \in Replies
    BY <1>1, <1>3 DEF Reply, Replies
  <2> QED BY <1>2, <2>1
<1>9. SessionTypeOK'
  <2>1. calls \subseteq Calls \X Roles
    <3>1. role \in Roles /\ c \in Calls
      BY <1>0, <1>1, <1>3, Zenon DEF SessionTypeOK
    <3> QED BY <3>1
  <2> QED BY <1>0, <1>2, <1>6, <1>8, <2>1, Zenon DEF SessionTypeOK, Items
<1>10. QueueInv'
  BY <1>0, <1>2, Zenon DEF QueueInv, Settled
<1>11. ReplyInv'
  <2> SUFFICES ASSUME socket = "open"
               PROVE  /\ \A i \in DOMAIN s2c : Due(Settled + i, s2c[i].id)'
                      /\ Due(Answers, out[1].id)'
                      /\ ~quit => \/ Slipped(Answers)'
                                  \/ c2s' = <<>> /\ Answers' = Len(sent')
                                  \/ c2s' # <<>> /\ c2s'[1] = Line(Answers' + 1)
    BY <1>1, <1>2, <1>8 DEF ReplyInv
  <2>0. UNCHANGED Settled /\ \A k : Slipped(k)' = Slipped(k) /\ \A id : Due(k, id)' = Due(k, id)
    BY <1>2, Zenon DEF Settled, Due, Slipped, Untimely, GrantedBefore
  <2>1. Answers \in Nat /\ Answers' = Answers + 1
    BY <1>0, <1>1, <1>2, <1>3, <1>8, <2>0 DEF Answers, Settled, QueueInv
  <2>2. \/ Slipped(Answers)
        \/ c = Answers + 1
    <3>1. Slipped(Answers) \/ c2s[1] = Line(Answers + 1)
      BY <1>0, <1>1, Zenon DEF ReplyInv
    <3>2. Line(Answers + 1).id = Answers + 1
      BY DEF Line
    <3> QED BY <1>1, <3>1, <3>2, Zenon
  <2>3. \A i \in DOMAIN s2c : Due(Settled + i, s2c[i].id)'
    BY <1>0, <1>2, <2>0, Zenon DEF ReplyInv
  <2>4. out'[1].id = c
    BY <1>8 DEF Reply
  <2>5. c <= Len(sent) /\ c \in Nat
    BY <1>1, <1>3
  <2>6. Due(Answers, out[1].id)'
    <3>1. Due(Answers + 1, c)
      BY <2>1, <2>2, <2>5, SlippedLater, Zenon DEF Due
    <3> QED BY <1>2, <2>1, <2>4, <3>1, Zenon DEF Due, Slipped, Untimely, GrantedBefore
  <2>7. ASSUME ~quit, ~Slipped(Answers + 1)
        PROVE  \/ c2s' = <<>> /\ Answers' = Len(sent')
               \/ c2s' # <<>> /\ c2s'[1] = Line(Answers' + 1)
    <3>1. c = Answers + 1
      BY <2>1, <2>2, <2>7, SlippedLater, Zenon
    <3>2. c <= Answers + 1
      BY <2>1, <3>1
    <3>3. ~Untimely(c)
      BY <1>1, <2>7, <3>2, Zenon DEF Slipped
    <3> QED BY <1>2, <1>4, <1>7, <2>1, <2>7, <3>1, <3>3, Zenon
  <2>8. Slipped(Answers + 1) => Slipped(Answers)'
    BY <1>2, <2>1, Zenon DEF Slipped, Untimely, GrantedBefore
  <2> QED BY <2>3, <2>6, <2>7, <2>8, Zenon
<1>12. RoleInv'
  BY <1>2, <1>7, Zenon DEF RoleInv
<1>13. RanInv'
  <2>1. \A r : Honest(r) => Honest(r)'
    BY <1>2, Zenon DEF Honest
  <2>2. c <= Len(sent) /\ c # 0
    BY <1>1, <1>3
  <2>3. Honest(out[1])'
    <3>1. out'[1].id = c /\ out'[1].ok = ok
      BY <1>8 DEF Reply
    <3>2. role \in Roles
      BY <1>0, Zenon DEF SessionTypeOK
    <3> QED BY <1>1, <1>2, <2>2, <3>1, <3>2, Zenon DEF Honest
  <2>4. \A p \in calls : p[1] = c
    OBVIOUS
  <2>5. \A p \in ran' : p[1] <= Len(sent')
    BY <1>0, <1>2, <2>2, <2>4, Zenon DEF RanInv
  <2> QED BY <1>0, <1>2, <2>1, <2>3, <2>5, Zenon DEF RanInv
<1>14. RepliesMatch'
  <2>1. \A d : InStep(d)' = InStep(d)
    BY <1>2, SentStays, Zenon
  <2> QED BY <1>0, <1>2, <2>1, Zenon DEF RepliesMatch
<1>15. RanAsGranted'
  <2>1. \A d \in DOMAIN sent' :
          InStep(d)' /\ result'[d] = "resolved" /\ sent'[d] \in {"data", "admin", "put", "putx"} =>
              \E r \in Roles : <<d, r>> \in ran'
    <3>1. \A d : InStep(d)' = InStep(d)
      BY <1>2, SentStays, Zenon
    <3> QED BY <1>0, <1>2, <3>1, Zenon DEF RanAsGranted
  <2>2. ASSUME AuthRequired, NEW p \in ran'
        PROVE  /\ GrantedBefore(p[1]) # {}
               /\ sent[p[1]] = "admin" =>
                    \E a \in GrantedBefore(p[1]) :
                        sent[a] = "authAdmin" /\ \A b \in GrantedBefore(p[1]) : b <= a
    <3>1. CASE p \in ran
      BY <1>0, <2>2, <3>1, Zenon DEF RanAsGranted
    <3>2. CASE p \in calls
      <4>1. p[1] = c /\ calls # {}
        BY <3>2
      <4>2. RoleAt(c) /\ role # "none" /\ (sent[c] = "admin" => role = "admin")
        BY <1>1, <2>2, <4>1, Zenon
      <4> QED BY <4>1, <4>2, Zenon DEF RoleAt
    <3> QED BY <1>2, <2>2, <3>1, <3>2, Zenon
  <2> QED BY <1>2, <2>1, <2>2, Zenon DEF RanAsGranted, GrantedBefore
<1> QED BY <1>6, <1>9, <1>10, <1>11, <1>12, <1>13, <1>14, <1>15, Zenon DEF SessionInv

(* The handlers of dispatch, each of which gives one answer.               *)
LEMMA DispatchKeeps ==
    ASSUME SessionInv,
           \/ SessionCommand \/ AuthCommand \/ Refused \/ DataCommand
           \/ PutCommand \/ SplitPut \/ FatalCommand \/ AdminCommand
    PROVE  SessionInv'
<1>0. SessionTypeOK /\ StreamInv /\ RoleInv /\ AtLine
  BY Zenon DEF SessionInv, SessionCommand, AuthCommand, Refused, DataCommand, PutCommand,
               SplitPut, FatalCommand, AdminCommand
<1>1. PICK c \in 1 .. Len(sent) : c = Cmd /\ Kind = sent[c] /\ (AuthRequired => RoleAt(c))
  BY <1>0, AtLineFacts, Zenon
<1>2. Kind \notin Framed => Blocks(Kind) = 0
  BY DEF Split, Framed, Blocks
<1>3. role \in Roles /\ (~AuthRequired => role = "admin")
  BY <1>0, Zenon DEF SessionTypeOK, RoleInv
<1> DEFINE RoleNext == role' \in Roles /\ IF AuthRequired THEN RoleAt(c + 1)' ELSE role' = "admin"
<1>4. ASSUME sent' = sent, role' = role, Kind \notin {"authAdmin", "authUser"} PROVE RoleNext
  BY <1>0, <1>1, <1>3, <1>4, RoleStays, Zenon
<1>5. ASSUME NEW ok \in BOOLEAN, NEW skip, NEW quit \in BOOLEAN, NEW calls, Answer(ok, skip, quit, calls)
      PROVE  sent' = sent
  BY <1>5, Zenon DEF Answer, client
<1>6. ASSUME NEW ok \in BOOLEAN, NEW skip \in {0, Blocks(Kind)}, NEW quit \in BOOLEAN,
             Answer(ok, skip, quit, {}), skip = Blocks(Kind) \/ quit \/ Untimely(c),
             ok => Kind \notin Operations, RoleNext
      PROVE  SessionInv'
  <2> DEFINE calls == {}
  <2>1. calls \in SUBSET {<<c, role>>} /\ ~(calls # {})
    BY Zenon
  <2>2. Answer(ok, skip, quit, calls)
    BY <1>6
  <2> HIDE DEF calls
  <2>3. /\ ok /\ Kind \in Operations => <<c, role>> \in calls
        /\ calls # {} => role # "none" /\ (Kind = "admin" => role = "admin")
    BY <1>6, <2>1, Zenon
  <2>4. role' \in Roles /\ IF AuthRequired THEN RoleAt(c + 1)' ELSE role' = "admin"
    BY <1>6, Zenon
  <2>5. c = Cmd
    BY <1>1, Zenon
  <2> HIDE DEF RoleNext
  <2> QED BY <1>0, <1>6, <2>1, <2>2, <2>3, <2>4, <2>5, AnswerKeeps
<1>7. CASE SessionCommand
  <2>1. PICK quit \in BOOLEAN : Answer(TRUE, 0, quit, {}) /\ role' = role /\ Kind \in {"hello", "quit"}
    BY <1>7, Zenon DEF SessionCommand
  <2>2. Kind \notin Framed /\ Kind \notin Operations /\ Kind \notin {"authAdmin", "authUser"}
    BY <2>1, Zenon DEF Split, Framed, Operations
  <2> QED BY <1>2, <1>4, <1>5, <1>6, <2>1, <2>2, Zenon
<1>8. CASE AuthCommand
  <2>1. CASE Kind = "authBad" /\ AuthRequired /\ Answer(FALSE, 0, FALSE, {}) /\ UNCHANGED role
    <3>1. Kind \notin Framed /\ Kind \notin {"authAdmin", "authUser"}
      BY <2>1, Zenon DEF Split, Framed
    <3> QED BY <1>2, <1>4, <1>5, <1>6, <2>1, <3>1, Zenon
  <2>2. CASE /\ Kind \in {"authAdmin", "authUser", "authBad"} /\ (Kind = "authBad" => ~AuthRequired)
             /\ Answer(TRUE, 0, FALSE, {})
             /\ role' = IF Kind = "authUser" /\ AuthRequired THEN "user" ELSE "admin"
    <3>1. Kind \notin Framed /\ Kind \notin Operations
      BY <2>2, Zenon DEF Split, Framed, Operations
    <3>2. sent' = sent
      BY <1>5, <2>2, Zenon
    <3>3. role' \in Roles /\ (~AuthRequired => role' = "admin")
      BY <2>2, Zenon DEF Roles
    <3>4. AuthRequired => \/ sent[c] = "authAdmin" /\ role' = "admin"
                          \/ sent[c] = "authUser" /\ role' = "user"
      BY <1>1, <2>2, Zenon
    <3>5. RoleNext
      BY <1>0, <3>2, <3>3, <3>4, RoleSet, Zenon
    <3> QED BY <1>2, <1>6, <2>2, <3>1, <3>5, Zenon
  <2> QED BY <1>8, <2>1, <2>2, Zenon DEF AuthCommand
<1>9. CASE Refused
  <2>1. /\ Answer(FALSE, 0, FALSE, {}) /\ role' = role /\ role = "none"
        /\ Kind \notin {"authAdmin", "authUser"}
    BY <1>9, Zenon DEF Refused, Framed, Split
  <2>2. AuthRequired /\ GrantedBefore(c) = {}
    BY <1>1, <1>3, <2>1, Zenon DEF RoleAt
  <2>3. 0 = Blocks(Kind) \/ Untimely(c)
    BY <1>1, <1>2, <2>2, Zenon DEF Untimely
  <2>4. RoleNext
    BY <1>4, <1>5, <2>1, Zenon
  <2> QED BY <1>6, <2>1, <2>3, <2>4, Zenon
<1>10. CASE DataCommand
  <2>1. /\ role # "none" /\ Kind = "data" /\ role' = role
        /\ Answer(TRUE, 0, FALSE, {<<Cmd, role>>}) \/ Answer(FALSE, 0, FALSE, {})
    BY <1>10, Zenon DEF DataCommand
  <2>2. Kind \notin Framed /\ Kind \notin {"authAdmin", "authUser"} /\ Kind # "admin"
    BY <2>1, Zenon DEF Split, Framed
  <2>3. RoleNext
    BY <1>4, <1>5, <2>1, <2>2, Zenon
  <2>4. CASE Answer(TRUE, 0, FALSE, {<<Cmd, role>>})
    BY <1>0, <1>1, <1>2, <2>1, <2>2, <2>3, <2>4, AnswerKeeps, Zenon
  <2> QED BY <1>2, <1>6, <2>1, <2>2, <2>3, <2>4, Zenon
<1>11. CASE PutCommand
  <2>1. /\ role # "none" /\ Kind \in {"put", "putx"} /\ role' = role
        /\ Answer(TRUE, Blocks(Kind), FALSE, {<<Cmd, role>>}) \/ Answer(FALSE, Blocks(Kind), FALSE, {})
    BY <1>11, Zenon DEF PutCommand
  <2>2. Kind \notin {"authAdmin", "authUser"} /\ Kind # "admin"
    BY <2>1, Zenon
  <2>3. RoleNext
    BY <1>4, <1>5, <2>1, <2>2, Zenon
  <2>4. CASE Answer(TRUE, Blocks(Kind), FALSE, {<<Cmd, role>>})
    BY <1>0, <1>1, <2>1, <2>2, <2>3, <2>4, AnswerKeeps, Zenon
  <2>5. CASE Answer(FALSE, Blocks(Kind), FALSE, {})
    BY <1>6, <2>3, <2>5, Zenon
  <2> QED BY <2>1, <2>4, <2>5, Zenon
<1>12. CASE FatalCommand
  <2>1. Answer(FALSE, 0, TRUE, {}) /\ role' = role /\ Kind \notin {"authAdmin", "authUser"}
    BY <1>12, Zenon DEF FatalCommand
  <2>2. RoleNext
    BY <1>4, <1>5, <2>1, Zenon
  <2> QED BY <1>6, <2>1, <2>2, Zenon
<1>13. CASE AdminCommand
  <2>1. /\ role # "none" /\ Kind = "admin" /\ role' = role
        /\ \/ role = "admin" /\ Answer(TRUE, 0, FALSE, {<<Cmd, role>>})
           \/ Answer(FALSE, 0, FALSE, {})
    BY <1>13, Zenon DEF AdminCommand
  <2>2. Kind \notin Framed /\ Kind \notin {"authAdmin", "authUser"}
    BY <2>1, Zenon DEF Split, Framed
  <2>3. RoleNext
    BY <1>4, <1>5, <2>1, <2>2, Zenon
  <2>4. CASE role = "admin" /\ Answer(TRUE, 0, FALSE, {<<Cmd, role>>})
    BY <1>0, <1>1, <1>2, <2>1, <2>2, <2>3, <2>4, AnswerKeeps, Zenon
  <2> QED BY <1>2, <1>6, <2>1, <2>2, <2>3, <2>4, Zenon
<1>14. CASE SplitPut
  <2>1. /\ role # "none" /\ Kind \in Split /\ role' = role
        /\ \/ Kind = "split" /\ Answer(TRUE, 0, FALSE, {<<Cmd, role>>})
           \/ Answer(FALSE, 0, FALSE, {})
           \/ Answer(FALSE, 0, TRUE, {})
    BY <1>14, Zenon DEF SplitPut
  <2>2. Kind \notin {"authAdmin", "authUser"} /\ Kind # "admin" /\ Kind \notin Operations /\ Untimely(c)
    BY <1>1, <2>1, Zenon DEF Split, Framed, Operations, Untimely
  <2>3. RoleNext
    BY <1>4, <1>5, <2>1, <2>2, Zenon
  <2>4. CASE Answer(TRUE, 0, FALSE, {<<Cmd, role>>})
    BY <1>0, <1>1, <2>1, <2>2, <2>3, <2>4, AnswerKeeps, Zenon
  <2> QED BY <1>6, <2>1, <2>2, <2>3, <2>4, Zenon
<1> QED BY <1>7, <1>8, <1>9, <1>10, <1>11, <1>12, <1>13, <1>14, Zenon

(* What the client's side leaves alone.                                    *)
LEMMA ClientStays ==
    ASSUME SessionInv, UNCHANGED <<client, ran>>
    PROVE  /\ QueueInv' /\ RepliesMatch' /\ RanAsGranted' /\ Settled' = Settled
           /\ \A k : Slipped(k)' = Slipped(k)
           /\ \A k, id : Due(k, id)' = Due(k, id)
           /\ \A r : Honest(r)' = Honest(r)
<1>1. UNCHANGED <<sent, pending, result, got, socket, ran>>
  BY Zenon DEF client
<1>2. QueueInv /\ RepliesMatch /\ RanAsGranted
  BY Zenon DEF SessionInv
<1>3. QueueInv' /\ Settled' = Settled
  BY <1>1, <1>2, Zenon DEF QueueInv, Settled
<1>4. RepliesMatch' /\ RanAsGranted'
  BY <1>1, <1>2, HistoryStays, Zenon
<1>5. \A k : Slipped(k)' = Slipped(k)
  BY <1>1, SentStays, Zenon
<1>6. \A k, id : Due(k, id)' = Due(k, id)
  BY <1>1, SentStays, Zenon
<1>7. \A r : Honest(r)' = Honest(r)
  BY <1>1, Zenon DEF Honest
<1> QED BY <1>3, <1>4, <1>5, <1>6, <1>7, Zenon

(* A block read as a line: an untimely put is behind, so nothing is due.   *)
LEMMA StrayKeeps == ASSUME SessionInv, StrayLine PROVE SessionInv'
<1>0. SessionTypeOK /\ QueueInv /\ StreamInv /\ ReplyInv /\ RoleInv /\ RanInv
  BY Zenon DEF SessionInv
<1>1. /\ conn /\ out = <<>> /\ ~last /\ c2s # <<>> /\ c2s' = Tail(c2s)
      /\ UNCHANGED <<sent, pending, result, got, socket, conn, role, ran, s2c>>
      /\ out' = <<>> \/ out' = <<Reply(0, FALSE)>>
      /\ last' \in BOOLEAN
  BY <1>0, Zenon DEF StrayLine, Idle, client, SessionTypeOK
<1>2. /\ c2s \in Seq(Items) /\ Len(c2s) \in Nat /\ DOMAIN c2s = 1 .. Len(c2s)
      /\ Len(s2c) \in Nat /\ Len(sent) \in Nat /\ Len(pending) \in Nat
  BY <1>0, Types, Zenon
<1>3. 1 \in 0 .. Len(c2s) /\ Tail(c2s) = SubSeq(c2s, 1 + 1, Len(c2s)) /\ Head(c2s) = c2s[1]
  BY <1>1, <1>2, TailFacts, Zenon
<1>4. Drops(1) /\ c2s[1].block
  BY <1>0, <1>1, <1>3, SubSeqDrops, Zenon DEF StrayLine
<1>5. StreamInv' /\ c2s' \in Seq(Items)
  BY <1>0, <1>1, <1>3, <1>4, StreamSuffix, Zenon
<1>6. /\ out' \in Seq(Replies) /\ Len(out') \in Nat /\ Len(out') <= 1
      /\ out' # <<>> => out'[1].id = 0 /\ out'[1].ok = FALSE
  <2>1. Reply(0, FALSE) \in Replies
    BY DEF Reply, Replies
  <2>2. CASE out' = <<>>
    BY <2>2
  <2>3. CASE out' = <<Reply(0, FALSE)>>
    BY <2>1, <2>3 DEF Reply
  <2> QED BY <1>1, <2>2, <2>3, Zenon
<1>7. SessionTypeOK'
  BY <1>0, <1>1, <1>5, <1>6, Zenon DEF SessionTypeOK, Items
<1>8. UNCHANGED <<client, ran>>
  BY <1>1, Zenon DEF client
<1>9. ReplyInv'
  <2> SUFFICES ASSUME socket = "open"
               PROVE  /\ \A i \in DOMAIN s2c' : Due(Settled + i, s2c[i].id)'
                      /\ Slipped(Answers)'
    BY <1>1, <1>6, Zenon DEF ReplyInv, Due
  <2>1. Slipped(Answers)
    <3>1. Slipped(Answers) \/ c2s[1] = Line(Answers + 1)
      BY <1>0, <1>1, Zenon DEF ReplyInv
    <3>2. Line(Answers + 1).block = FALSE
      BY DEF Line
    <3> QED BY <1>4, <3>1, <3>2, Zenon
  <2>2. Answers \in Nat /\ (Answers' = Answers \/ Answers' = Answers + 1)
    <3>1. Settled \in Nat
      BY <1>0, <1>2 DEF Settled, QueueInv
    <3>2. Settled' = Settled /\ s2c' = s2c /\ Len(out) = 0
      BY <1>1 DEF Settled
    <3>3. Answers = Settled + Len(s2c) + Len(out) /\ Answers' = Settled' + Len(s2c') + Len(out')
      BY Zenon DEF Answers
    <3>4. Answers = Settled + Len(s2c) + 0 /\ Answers' = Settled + Len(s2c) + Len(out')
      BY <3>2, <3>3, Zenon
    <3>5. Len(out') \in Nat /\ Len(out') <= 1
      BY <1>6, Zenon
    <3> QED BY <1>2, <3>1, <3>4, <3>5
  <2>3. \A k : Slipped(k)' = Slipped(k)
    BY <1>8, ClientStays, Zenon
  <2>4. Slipped(Answers)'
    <3>1. Slipped(Answers + 1)
      BY <2>1, <2>2, SlippedLater, Zenon
    <3> QED BY <1>1, <2>1, <2>2, <3>1, Zenon DEF Slipped, Untimely, GrantedBefore
  <2>5. ASSUME NEW i \in DOMAIN s2c' PROVE Due(Settled + i, s2c[i].id)'
    <3>1. Due(Settled + i, s2c[i].id)
      BY <1>0, <1>1, <2>5, Zenon DEF ReplyInv
    <3> QED BY <1>1, <3>1, Zenon DEF Due, Settled, Slipped, Untimely, GrantedBefore
  <2> QED BY <2>4, <2>5, Zenon
<1>10. RoleInv'
  <2>1. /\ DOMAIN c2s' = 1 .. Len(c2s') /\ Len(c2s') \in Nat /\ Len(c2s') = Len(c2s) - 1
        /\ \A i \in 1 .. Len(c2s') : c2s'[i] = c2s[i + 1] /\ i + 1 \in 1 .. Len(c2s)
    BY <1>2, <1>4 DEF Drops
  <2>2. ASSUME NEW i \in DOMAIN c2s', FirstLine(i)' PROVE FirstLine(i + 1) /\ i + 1 \in DOMAIN c2s
    <3>1. i \in 1 .. Len(c2s') /\ ~c2s'[i].block /\ \A j \in 1 .. i - 1 : c2s'[j].block
      BY <2>1, <2>2, Zenon DEF FirstLine
    <3>2. c2s'[i] = c2s[i + 1] /\ i + 1 \in 1 .. Len(c2s)
      BY <2>1, <3>1, Zenon
    <3>3. ASSUME NEW j \in 1 .. (i + 1) - 1 PROVE c2s[j].block
      <4>1. CASE j = 1
        BY <1>4, <4>1, Zenon
      <4>2. CASE j # 1
        <5>1. j - 1 \in 1 .. i - 1 /\ j - 1 \in 1 .. Len(c2s') /\ (j - 1) + 1 = j
          BY <2>1, <3>1, <4>2
        <5>2. c2s'[j - 1].block /\ c2s'[j - 1] = c2s[(j - 1) + 1]
          BY <2>1, <3>1, <5>1, Zenon
        <5> QED BY <5>1, <5>2
      <4> QED BY <4>1, <4>2, Zenon
    <3> QED BY <1>2, <3>1, <3>2, <3>3, Zenon DEF FirstLine
  <2>3. ASSUME \A i \in DOMAIN c2s' : c2s'[i].block, NEW j \in DOMAIN c2s PROVE c2s[j].block
    <3>1. CASE j = 1
      BY <1>4, <3>1, Zenon
    <3>2. CASE j # 1
      <4>1. j - 1 \in 1 .. Len(c2s') /\ (j - 1) + 1 = j
        BY <1>2, <2>1, <3>2
      <4>2. c2s'[j - 1].block /\ c2s'[j - 1] = c2s[(j - 1) + 1]
        BY <2>1, <2>3, <4>1, Zenon
      <4> QED BY <4>1, <4>2
    <3> QED BY <3>1, <3>2, Zenon
  <2>4. ASSUME AuthRequired, NEW i \in DOMAIN c2s', FirstLine(i)' PROVE RoleAt(c2s[i].id)'
    <3>1. RoleAt(c2s[i + 1].id) /\ c2s'[i] = c2s[i + 1]
      BY <1>0, <2>1, <2>2, <2>4, Zenon DEF RoleInv
    <3> QED BY <1>1, <3>1, Zenon DEF RoleAt, GrantedBefore
  <2>5. ASSUME AuthRequired, conn', socket' = "open", \A i \in DOMAIN c2s' : c2s'[i].block
        PROVE  RoleAt(Len(sent) + 1)'
    <3>1. RoleAt(Len(sent) + 1)
      BY <1>0, <1>1, <2>3, <2>5, Zenon DEF RoleInv
    <3> QED BY <1>1, <3>1, Zenon DEF RoleAt, GrantedBefore
  <2>6. ~AuthRequired => role' = "admin"
    BY <1>0, <1>1, Zenon DEF RoleInv
  <2> QED BY <2>4, <2>5, <2>6, Zenon DEF RoleInv
<1>11. RanInv'
  <2>1. out' # <<>> => Honest(out[1])'
    BY <1>1, <1>2, <1>6 DEF Honest
  <2>2. \A r : Honest(r)' = Honest(r)
    BY <1>8, ClientStays, Zenon
  <2>3. \A i \in DOMAIN s2c' : Honest(s2c[i])'
    BY <1>0, <1>1, Zenon DEF RanInv, Honest
  <2> QED BY <1>0, <1>1, <2>1, <2>3, Zenon DEF RanInv
<1> QED BY <1>5, <1>7, <1>8, <1>9, <1>10, <1>11, ClientStays, Zenon DEF SessionInv

(* The stream to the server is left as it is, or is gone with the          *)
(* connection.                                                             *)
LEMMA StreamStays ==
    ASSUME SessionInv, UNCHANGED <<sent, role>>, socket' = "open" => socket = "open",
           (c2s' = c2s /\ (conn' => conn)) \/ (c2s' = <<>> /\ ~conn')
    PROVE  StreamInv' /\ RoleInv' /\ c2s' \in Seq(Items)
<1>0. SessionTypeOK /\ StreamInv /\ RoleInv
  BY Zenon DEF SessionInv
<1>1. sent' = sent /\ role' = role
  BY Zenon
<1>2. CASE c2s' = c2s /\ (conn' => conn)
  <2>1. c2s \in Seq(Items)
    BY <1>0, Types, Zenon
  <2>2. StreamInv'
    BY <1>0, <1>1, <1>2, Zenon DEF StreamInv, EndOf
  <2>3. RoleInv'
    BY <1>0, <1>1, <1>2, Zenon DEF RoleInv, RoleAt, FirstLine, GrantedBefore
  <2> QED BY <1>2, <2>1, <2>2, <2>3, Zenon
<1>3. CASE c2s' = <<>> /\ ~conn'
  <2>1. DOMAIN c2s' = {} /\ c2s' \in Seq(Items)
    BY <1>3
  <2>2. StreamInv'
    BY <2>1, Zenon DEF StreamInv
  <2>3. RoleInv'
    BY <1>0, <1>1, <1>3, <2>1, Zenon DEF RoleInv
  <2> QED BY <2>1, <2>2, <2>3, Zenon
<1> QED BY <1>2, <1>3, Zenon

(* The answer joins those on their way.                                    *)
LEMMA FlushKeeps == ASSUME SessionInv, Flush PROVE SessionInv'
<1>0. SessionTypeOK /\ QueueInv /\ StreamInv /\ ReplyInv /\ RoleInv /\ RanInv
  BY Zenon DEF SessionInv
<1>1. /\ conn /\ out # <<>> /\ out' = <<>> /\ conn' = ~last
      /\ s2c' = IF socket = "open" THEN s2c \o out ELSE s2c
      /\ c2s' = IF last THEN <<>> ELSE c2s
      /\ UNCHANGED <<sent, pending, result, got, socket, last, role, ran>>
  BY Zenon DEF Flush, client
<1>2. /\ s2c \in Seq(Replies) /\ Len(s2c) \in Nat /\ DOMAIN s2c = 1 .. Len(s2c)
      /\ out \in Seq(Replies) /\ Len(out) \in Nat /\ Len(sent) \in Nat /\ Len(pending) \in Nat
      /\ (out = <<>> <=> Len(out) = 0)
  BY <1>0, Types, SeqFacts, Zenon DEF SessionTypeOK
<1>3. UNCHANGED <<client, ran>>
  BY <1>1, Zenon DEF client
<1>4. StreamInv' /\ RoleInv' /\ c2s' \in Seq(Items)
  <2>1. (c2s' = c2s /\ (conn' => conn)) \/ (c2s' = <<>> /\ ~conn')
    <3>1. conn /\ conn' = ~last /\ c2s' = IF last THEN <<>> ELSE c2s
      BY <1>1, Zenon
    <3> QED BY <3>1, Zenon
  <2> QED BY <1>1, <2>1, StreamStays, Zenon
<1>5. Len(out) = 1 /\ 1 \in 1 .. Len(out)
  <2>1. \A n \in Nat : n <= 1 /\ n # 0 => n = 1 /\ 1 \in 1 .. n
    OBVIOUS
  <2> QED BY <1>0, <1>1, <1>2, <2>1, Zenon DEF ReplyInv
<1>6. /\ s2c' \in Seq(Replies) /\ Len(s2c') \in Nat /\ DOMAIN s2c' = 1 .. Len(s2c')
      /\ socket = "open" => Len(s2c') = Len(s2c) + 1 /\ s2c'[Len(s2c) + 1] = out[1]
      /\ socket = "open" => \A i \in 1 .. Len(s2c) : s2c'[i] = s2c[i]
      /\ socket # "open" => s2c' = s2c
  <2>1. CASE socket = "open"
    <3>1. /\ s2c \o out \in Seq(Replies) /\ Len(s2c \o out) = Len(s2c) + 1
          /\ \A i \in 1 .. Len(s2c) : (s2c \o out)[i] = s2c[i]
          /\ (s2c \o out)[Len(s2c) + 1] = out[1]
      <4>1. /\ s2c \o out \in Seq(Replies) /\ Len(s2c \o out) = Len(s2c) + Len(out)
            /\ \A i \in 1 .. Len(s2c) : (s2c \o out)[i] = s2c[i]
            /\ \A i \in 1 .. Len(out) : (s2c \o out)[Len(s2c) + i] = out[i]
        <5>1. s2c \in Seq(Replies) /\ out \in Seq(Replies)
          BY <1>2, Zenon
        <5> QED BY <5>1, ConcatFacts
      <4> QED BY <1>5, <4>1, Zenon
    <3>2. Len(s2c \o out) \in Nat /\ DOMAIN (s2c \o out) = 1 .. Len(s2c \o out)
      BY <3>1, SeqFacts, Zenon
    <3>3. s2c' = s2c \o out
      BY <1>1, <2>1, Zenon
    <3> QED BY <2>1, <3>1, <3>2, <3>3, Zenon
  <2>2. CASE socket # "open"
    BY <1>1, <1>2, <2>2, Zenon
  <2> QED BY <2>1, <2>2, Zenon
<1>7. SessionTypeOK'
  <2>1. out' \in Seq(Replies)
    BY <1>1
  <2> QED BY <1>0, <1>1, <1>4, <1>6, <2>1, Zenon DEF SessionTypeOK, Items
<1>8. \A i \in 1 .. Len(s2c) + 1 : i \in 1 .. Len(s2c) \/ i = Len(s2c) + 1
  BY <1>2
<1>9. Settled' = Settled /\ Settled \in Nat
  BY <1>0, <1>1, <1>2 DEF Settled, QueueInv
<1>10. Len(out') = 0
  BY <1>1
<1>11. ASSUME socket = "open"
       PROVE  Answers' = Answers /\ Answers = Settled + (Len(s2c) + 1) /\ Answers \in Nat
  <2>1. Len(s2c') = Len(s2c) + 1
    BY <1>6, <1>11, Zenon
  <2> QED BY <1>2, <1>5, <1>9, <1>10, <2>1 DEF Answers
<1>12. ReplyInv'
  <2>1. Len(out') <= 1
    BY <1>10
  <2>2. ~conn' => c2s' = <<>>
    BY <1>1, Zenon
  <2>3. ASSUME socket = "open", NEW i \in DOMAIN s2c' PROVE Due(Settled + i, s2c[i].id)'
    <3>1. Due(Settled + i, s2c'[i].id)
      <4>1. CASE i \in 1 .. Len(s2c)
        BY <1>0, <1>2, <1>6, <2>3, <4>1, Zenon DEF ReplyInv
      <4>2. CASE i = Len(s2c) + 1
        BY <1>0, <1>1, <1>6, <1>11, <2>3, <4>2, Zenon DEF ReplyInv
      <4> QED BY <1>6, <1>8, <2>3, <4>1, <4>2, Zenon
    <3> QED BY <1>1, <1>9, <3>1, Zenon DEF Due, Slipped, Untimely, GrantedBefore
  <2>4. ASSUME socket = "open", conn', ~last'
        PROVE  \/ Slipped(Answers)'
               \/ c2s' = <<>> /\ Answers' = Len(sent')
               \/ c2s' # <<>> /\ c2s'[1] = Line(Answers' + 1)
    <3>1. \/ Slipped(Answers)
          \/ c2s = <<>> /\ Answers = Len(sent)
          \/ c2s # <<>> /\ c2s[1] = Line(Answers + 1)
      BY <1>0, <1>1, <2>4, Zenon DEF ReplyInv
    <3> QED BY <1>1, <1>11, <2>4, <3>1, Zenon DEF Slipped, Untimely, GrantedBefore
  <2> QED BY <1>1, <2>1, <2>2, <2>3, <2>4, Zenon DEF ReplyInv
<1>13. RanInv'
  <2>1. ASSUME NEW i \in DOMAIN s2c' PROVE Honest(s2c[i])'
    <3>1. Honest(s2c'[i])
      <4>1. CASE socket = "open"
        BY <1>0, <1>1, <1>2, <1>6, <1>8, <2>1, <4>1, Zenon DEF RanInv
      <4>2. CASE socket # "open"
        BY <1>0, <1>6, <2>1, <4>2, Zenon DEF RanInv
      <4> QED BY <4>1, <4>2, Zenon
    <3> QED BY <1>1, <3>1, Zenon DEF Honest
  <2> QED BY <1>0, <1>1, <2>1, Zenon DEF RanInv
<1> QED BY <1>3, <1>4, <1>7, <1>12, <1>13, ClientStays, Zenon DEF SessionInv

(* What is on its way may be cut short.                                    *)
LEMMA DisconnectKeeps == ASSUME SessionInv, Disconnect PROVE SessionInv'
<1>0. SessionTypeOK /\ QueueInv /\ StreamInv /\ ReplyInv /\ RoleInv /\ RanInv
  BY Zenon DEF SessionInv
<1>1. /\ conn' = FALSE /\ out' = <<>> /\ c2s' = <<>>
      /\ UNCHANGED <<sent, pending, result, got, socket, last, role, ran>>
  BY Zenon DEF Disconnect, client
<1>2. PICK n \in 0 .. Len(s2c) : s2c' = SubSeq(s2c, 1, n)
  BY Zenon DEF Disconnect
<1>3. s2c \in Seq(Replies) /\ Len(s2c) \in Nat /\ DOMAIN s2c = 1 .. Len(s2c)
  BY <1>0, Types, Zenon DEF SessionTypeOK
<1>4. s2c' \in Seq(Replies) /\ \A i \in DOMAIN s2c' : i \in DOMAIN s2c /\ s2c'[i] = s2c[i]
  BY <1>2, <1>3
<1>5. UNCHANGED <<client, ran>>
  BY <1>1, Zenon DEF client
<1>6. StreamInv' /\ RoleInv' /\ c2s' \in Seq(Items)
  BY <1>1, StreamStays, Zenon
<1>7. out' \in Seq(Replies) /\ Len(out') <= 1
  BY <1>1
<1>8. SessionTypeOK'
  BY <1>0, <1>1, <1>4, <1>6, <1>7, Zenon DEF SessionTypeOK, Items
<1>9. ReplyInv'
  BY <1>0, <1>1, <1>4, <1>7, Zenon DEF ReplyInv, Due, Settled, Slipped, Untimely, GrantedBefore
<1>10. RanInv'
  BY <1>0, <1>1, <1>4, Zenon DEF RanInv, Honest
<1> QED BY <1>5, <1>6, <1>8, <1>9, <1>10, ClientStays, Zenon DEF SessionInv

-----------------------------------------------------------------------------
(* The client.  The calls that wait, as a sequence and as a range.         *)
LEMMA Waiting ==
    ASSUME NEW n \in Nat, NEW p \in Seq(Calls), Len(p) <= n,
           \A i \in DOMAIN p : p[i] = (n - Len(p)) + i, NEW c \in Calls
    PROVE  c > n - Len(p) /\ c <= n <=> \E i \in DOMAIN p : p[i] = c
<1>1. Len(p) \in Nat /\ DOMAIN p = 1 .. Len(p)
  BY SeqFacts, Zenon
<1>2. c \in Nat
  BY SessionAssumption DEF Calls
<1> DEFINE m == Len(p)
<1>3. m \in Nat /\ m <= n /\ \A i \in 1 .. m : p[i] = (n - m) + i
  BY <1>1, Zenon
<1> HIDE DEF m
<1>4. \A i \in 1 .. m : (n - m) + i > n - m /\ (n - m) + i <= n
  BY <1>3
<1>5. c > n - m /\ c <= n => c - (n - m) \in 1 .. m /\ (n - m) + (c - (n - m)) = c
  BY <1>2, <1>3
<1>6. c > n - m /\ c <= n => \E i \in 1 .. m : p[i] = c
  BY <1>3, <1>5
<1>7. (\E i \in 1 .. m : p[i] = c) => c > n - m /\ c <= n
  BY <1>3, <1>4, Zenon
<1> QED BY <1>1, <1>6, <1>7, Zenon DEF m

(* When nothing but the client's own state moves.                          *)
LEMMA QuitKeeps == ASSUME SessionInv, QuitTimeout PROVE SessionInv'
<1>0. /\ SessionTypeOK /\ QueueInv /\ StreamInv /\ ReplyInv /\ RoleInv /\ RanInv
      /\ RepliesMatch /\ RanAsGranted
  BY Zenon DEF SessionInv
<1>1. socket' = "destroyed" /\ UNCHANGED <<sent, pending, result, got, c2s, s2c, conn, out, last, role, ran>>
  BY Zenon DEF QuitTimeout, server
<1>2. SessionTypeOK'
  BY <1>0, <1>1, Zenon DEF SessionTypeOK
<1>3. QueueInv' /\ RanInv'
  BY <1>0, <1>1, Zenon DEF QueueInv, Settled, RanInv, Honest
<1>4. StreamInv' /\ RoleInv'
  BY <1>1, StreamStays, Zenon
<1>5. ReplyInv'
  BY <1>0, <1>1, Zenon DEF ReplyInv
<1>6. RepliesMatch' /\ RanAsGranted'
  BY <1>0, <1>1, HistoryStays, Zenon
<1> QED BY <1>2, <1>3, <1>4, <1>5, <1>6, Zenon DEF SessionInv

(* The close event: what waits is lost.                                    *)
LEMMA OnCloseKeeps == ASSUME SessionInv, OnClose PROVE SessionInv'
<1>0. /\ SessionTypeOK /\ QueueInv /\ StreamInv /\ ReplyInv /\ RoleInv /\ RanInv
      /\ RepliesMatch /\ RanAsGranted
  BY Zenon DEF SessionInv
<1>1. /\ socket' = "closed" /\ pending' = <<>> /\ s2c' = <<>>
      /\ result' = [c \in Calls |-> IF \E i \in DOMAIN pending : pending[i] = c
                                    THEN "lost" ELSE result[c]]
      /\ UNCHANGED <<sent, got, c2s, conn, out, last, role, ran>>
  BY Zenon DEF OnClose, server
<1>2. /\ Len(sent) \in Nat /\ Len(pending) \in Nat /\ Calls \subseteq Nat
      /\ result \in [Calls -> {"none", "resolved", "rejected", "lost"}] /\ pending \in Seq(Calls)
  BY <1>0, Types DEF SessionTypeOK, Calls
<1>3. /\ pending' \in Seq(Calls) /\ DOMAIN pending' = {} /\ Len(pending') = 0
      /\ s2c' \in Seq(Replies) /\ DOMAIN s2c' = {}
  BY <1>1
<1>4. result' \in [Calls -> {"none", "resolved", "rejected", "lost"}]
  BY <1>1, <1>2, Zenon
<1>5. Settled' = Len(sent)
  BY <1>1, <1>2, <1>3 DEF Settled
<1>6. ASSUME NEW c \in Calls PROVE result'[c] = "none" <=> c > Len(sent)
  <2>1. c > Settled /\ c <= Len(sent) <=> \E i \in DOMAIN pending : pending[i] = c
    <3>1. /\ Len(pending) <= Len(sent)
          /\ \A i \in DOMAIN pending : pending[i] = (Len(sent) - Len(pending)) + i
      BY <1>0, Zenon DEF QueueInv, Settled
    <3>2. c > Len(sent) - Len(pending) /\ c <= Len(sent) <=> \E i \in DOMAIN pending : pending[i] = c
      <4>1. Len(sent) \in Nat /\ pending \in Seq(Calls)
        BY <1>2, Zenon
      <4> QED BY <3>1, <4>1, Waiting, Zenon
    <3> QED BY <3>2, Zenon DEF Settled
  <2>2. result[c] = "none" <=> c > Settled
    BY <1>0, Zenon DEF QueueInv
  <2>3. c > Len(sent) <=> c > Settled /\ ~(c > Settled /\ c <= Len(sent))
    BY <1>2 DEF Settled
  <2>4. result'[c] = IF c > Settled /\ c <= Len(sent) THEN "lost" ELSE result[c]
    BY <1>1, <2>1, Zenon
  <2> QED BY <2>2, <2>3, <2>4, Zenon
<1>7. QueueInv'
  <2>1. Len(pending') <= Len(sent')
    BY <1>1, <1>2, <1>3
  <2> QED BY <1>1, <1>3, <1>5, <1>6, <2>1, Zenon DEF QueueInv
<1>8. SessionTypeOK'
  <2>1. \A c \in Calls : ~(c > Len(sent) /\ c <= Len(sent))
    BY <1>2
  <2> QED BY <1>0, <1>1, <1>3, <1>4, <1>6, <2>1, Zenon DEF SessionTypeOK
<1>9. StreamInv' /\ RoleInv'
  BY <1>1, StreamStays, Zenon
<1>10. ReplyInv' /\ RanInv'
  BY <1>0, <1>1, <1>3, Zenon DEF ReplyInv, RanInv, Honest
<1>11. \A c \in DOMAIN sent' : result'[c] \in {"resolved", "rejected"} => result'[c] = result[c]
  <2>1. DOMAIN sent \subseteq Calls
    BY <1>0, Types, Zenon
  <2> QED BY <1>1, <2>1, Zenon
<1>12. RepliesMatch'
  <2>1. ASSUME NEW c \in DOMAIN sent', InStep(c)', result'[c] \in {"resolved", "rejected"}
        PROVE  got'[c] = c
    <3>1. c \in DOMAIN sent /\ InStep(c) /\ result[c] \in {"resolved", "rejected"}
      BY <1>1, <1>11, <2>1, Zenon DEF InStep, GrantedBefore
    <3> QED BY <1>0, <1>1, <3>1, Zenon DEF RepliesMatch
  <2> QED BY <2>1, Zenon DEF RepliesMatch
<1>13. RanAsGranted'
  <2>1. \A c : GrantedBefore(c)' = GrantedBefore(c) /\ InStep(c)' = InStep(c)
    BY <1>1, SentStays, Zenon
  <2>2. \A c \in DOMAIN sent' : result'[c] = "resolved" => result[c] = "resolved"
    BY <1>11, Zenon
  <2> QED BY <1>0, <1>1, <2>1, <2>2, Zenon DEF RanAsGranted
<1> QED BY <1>7, <1>8, <1>9, <1>10, <1>12, <1>13, Zenon DEF SessionInv

(* An answer: that of the first call that waits, when the call is in step. *)
LEMMA OnDataKeeps == ASSUME SessionInv, OnData PROVE SessionInv'
<1>0. /\ SessionTypeOK /\ QueueInv /\ StreamInv /\ ReplyInv /\ RoleInv /\ RanInv
      /\ RepliesMatch /\ RanAsGranted
  BY Zenon DEF SessionInv
<1>1. /\ socket = "open" /\ s2c # <<>> /\ s2c' = Tail(s2c)
      /\ UNCHANGED <<sent, c2s, conn, out, last, role, ran>>
  BY Zenon DEF OnData, server
<1>2. /\ Len(sent) \in Nat /\ Len(pending) \in Nat /\ pending \in Seq(Calls)
      /\ s2c \in Seq(Replies) /\ Len(s2c) \in Nat /\ DOMAIN s2c = 1 .. Len(s2c) /\ Len(out) \in Nat
      /\ DOMAIN sent = 1 .. Len(sent) /\ DOMAIN pending = 1 .. Len(pending)
  BY <1>0, Types, Zenon DEF SessionTypeOK
<1>3. /\ s2c' \in Seq(Replies) /\ Len(s2c') = Len(s2c) - 1 /\ DOMAIN s2c' = 1 .. Len(s2c')
      /\ \A i \in 1 .. Len(s2c') : s2c'[i] = s2c[i + 1] /\ i + 1 \in 1 .. Len(s2c)
      /\ Head(s2c) = s2c[1] /\ s2c[1] \in Replies /\ 1 \in 1 .. Len(s2c)
  <2>1. Head(s2c) = s2c[1] /\ s2c[1] \in Replies
    BY <1>1, <1>2, TailFacts, Zenon
  <2>2. /\ Tail(s2c) \in Seq(Replies) /\ Len(Tail(s2c)) = Len(s2c) - 1
        /\ DOMAIN Tail(s2c) = 1 .. Len(Tail(s2c)) /\ 1 \in 1 .. Len(s2c)
        /\ \A i \in 1 .. Len(Tail(s2c)) : Tail(s2c)[i] = s2c[i + 1] /\ i + 1 \in 1 .. Len(s2c)
    BY <1>1, <1>2, TailRest, Zenon
  <2> QED BY <1>1, <2>1, <2>2, Zenon
<1>4. RanInv'
  BY <1>0, <1>1, <1>2, <1>3, Zenon DEF RanInv, Honest
<1>5. StreamInv' /\ RoleInv'
  <2>1. socket = "open"
    BY <1>1, Zenon
  <2> QED BY <1>1, <2>1, StreamStays, Zenon
<1>6. CASE pending = <<>>
  <2>1. socket' = "destroyed" /\ UNCHANGED <<pending, result, got>>
    BY <1>6, Zenon DEF OnData
  <2>2. SessionTypeOK'
    BY <1>0, <1>1, <1>3, <2>1, Zenon DEF SessionTypeOK
  <2>3. QueueInv'
    BY <1>0, <1>1, <2>1, Zenon DEF QueueInv, Settled
  <2>4. ReplyInv'
    BY <1>0, <1>1, <2>1, Zenon DEF ReplyInv
  <2>5. RepliesMatch' /\ RanAsGranted'
    BY <1>0, <1>1, <2>1, HistoryStays, Zenon
  <2> QED BY <1>4, <1>5, <2>2, <2>3, <2>4, <2>5, Zenon DEF SessionInv
<1>7. CASE pending # <<>>
  <2> DEFINE r == s2c[1]
  <2>1. PICK c : c = Head(pending)
    OBVIOUS
  <2>2. /\ pending' = Tail(pending) /\ socket' = socket
        /\ result' = [result EXCEPT ![c] = IF r.ok THEN "resolved" ELSE "rejected"]
        /\ got' = [got EXCEPT ![c] = r.id]
    BY <1>3, <1>7, <2>1, Zenon DEF OnData
  <2>3. /\ pending' \in Seq(Calls) /\ Len(pending') = Len(pending) - 1 /\ Len(pending) # 0
        /\ DOMAIN pending' = 1 .. Len(pending') /\ c = pending[1] /\ c \in Calls
        /\ \A i \in 1 .. Len(pending') : pending'[i] = pending[i + 1] /\ i + 1 \in 1 .. Len(pending)
    <3>1. Len(pending) # 0 /\ Head(pending) = pending[1] /\ pending[1] \in Calls
      BY <1>2, <1>7, TailFacts, Zenon
    <3>2. /\ Tail(pending) \in Seq(Calls) /\ Len(Tail(pending)) = Len(pending) - 1
          /\ DOMAIN Tail(pending) = 1 .. Len(Tail(pending))
          /\ \A i \in 1 .. Len(Tail(pending)) :
               Tail(pending)[i] = pending[i + 1] /\ i + 1 \in 1 .. Len(pending)
      BY <1>2, <1>7, TailRest, Zenon
    <3> QED BY <2>1, <2>2, <3>1, <3>2, Zenon
  <2>4. /\ Settled' = Settled + 1 /\ Settled \in Nat /\ c = Settled + 1
        /\ c \in 1 .. Len(sent) /\ c \in Nat /\ 1 \in 1 .. Len(pending)
    <3>1. Len(pending) <= Len(sent) /\ \A i \in DOMAIN pending : pending[i] = Settled + i
      BY <1>0, Zenon DEF QueueInv
    <3>2. \A n, m \in Nat : m <= n /\ m # 0 =>
             /\ 1 \in 1 .. m /\ n - (m - 1) = (n - m) + 1 /\ n - m \in Nat
             /\ (n - m) + 1 \in 1 .. n /\ (n - m) + 1 \in Nat
      OBVIOUS
    <3>3. Settled = Len(sent) - Len(pending) /\ Settled' = Len(sent) - (Len(pending) - 1)
      BY <1>1, <2>3, Zenon DEF Settled
    <3>4. Len(sent) \in Nat /\ Len(pending) \in Nat /\ Len(pending) # 0 /\ Len(pending) <= Len(sent)
      BY <1>2, <2>3, <3>1, Zenon
    <3>5. /\ 1 \in 1 .. Len(pending)
          /\ Len(sent) - (Len(pending) - 1) = (Len(sent) - Len(pending)) + 1
          /\ Len(sent) - Len(pending) \in Nat
          /\ (Len(sent) - Len(pending)) + 1 \in 1 .. Len(sent)
          /\ (Len(sent) - Len(pending)) + 1 \in Nat
      BY <3>2, <3>4, Zenon
    <3>6. c = Settled + 1
      BY <1>2, <2>3, <3>1, <3>5, Zenon
    <3> QED BY <3>3, <3>5, <3>6, Zenon
  <2> HIDE DEF r
  <2>5. r \in Replies /\ Honest(r) /\ Due(c, r.id)
    BY <1>0, <1>1, <1>2, <1>3, <2>4, Zenon DEF r, RanInv, ReplyInv
  <2>6. r.id \in Calls \cup {0} /\ r.ok \in BOOLEAN
    BY <2>5 DEF Replies
  <2>7. /\ result \in [Calls -> {"none", "resolved", "rejected", "lost"}]
        /\ got \in [Calls -> Calls \cup {0}]
    BY <1>0, Zenon DEF SessionTypeOK
  <2>8. /\ result' \in [Calls -> {"none", "resolved", "rejected", "lost"}]
        /\ got' \in [Calls -> Calls \cup {0}]
        /\ result'[c] \in {"resolved", "rejected"} /\ (result'[c] = "resolved" => r.ok)
        /\ got'[c] = r.id /\ \A d \in Calls : d # c => result'[d] = result[d] /\ got'[d] = got[d]
    BY <2>2, <2>3, <2>6, <2>7
  <2>9. QueueInv'
    <3>1. Len(pending') <= Len(sent')
      <4>1. Len(pending) <= Len(sent)
        BY <1>0, Zenon DEF QueueInv
      <4>2. \A n, m \in Nat : m <= n => m - 1 <= n
        OBVIOUS
      <4> QED BY <1>1, <1>2, <2>3, <4>1, <4>2, Zenon
    <3>2. ASSUME NEW i \in DOMAIN pending' PROVE pending'[i] = Settled' + i
      <4>1. i \in Nat /\ i \in 1 .. Len(pending')
        BY <2>3
      <4>2. pending[i + 1] = Settled + (i + 1)
        BY <1>0, <1>2, <2>3, <4>1, Zenon DEF QueueInv
      <4>3. Settled + (i + 1) = (Settled + 1) + i
        BY <2>4, <4>1
      <4> QED BY <2>3, <2>4, <4>1, <4>2, <4>3, Zenon
    <3>3. ASSUME NEW d \in Calls PROVE result'[d] = "none" <=> d > Settled'
      <4>1. d \in Nat
        BY SessionAssumption DEF Calls
      <4>2. d # c => (d > Settled' <=> d > Settled)
        BY <2>4, <4>1
      <4>3. ~(c > Settled')
        BY <2>4
      <4>4. result[d] = "none" <=> d > Settled
        BY <1>0, Zenon DEF QueueInv
      <4> QED BY <2>8, <4>2, <4>3, <4>4, Zenon
    <3>4. socket' # "closed"
      BY <1>1, <2>2, Zenon
    <3> QED BY <3>1, <3>2, <3>3, <3>4, Zenon DEF QueueInv
  <2>10. SessionTypeOK'
    <3>1. ASSUME NEW d \in Calls
          PROVE  result'[d] = "none" /\ d <= Len(sent') <=> \E i \in DOMAIN pending' : pending'[i] = d
      BY <1>1, <1>2, <2>3, <2>9, Waiting, Zenon DEF QueueInv, Settled
    <3> QED BY <1>0, <1>1, <1>3, <2>2, <2>3, <2>8, <3>1, Zenon DEF SessionTypeOK
  <2>11. ReplyInv'
    <3>1. Answers' = Answers
      <4>1. \A n, a, b \in Nat : (n + 1) + (a - 1) + b = n + a + b
        OBVIOUS
      <4>2. Answers' = (Settled + 1) + (Len(s2c) - 1) + Len(out)
        <5>1. Settled' = Settled + 1 /\ Len(s2c') = Len(s2c) - 1 /\ out' = out
          BY <1>1, <1>3, <2>4, Zenon
        <5>2. Answers' = Settled' + Len(s2c') + Len(out')
          BY Zenon DEF Answers
        <5> QED BY <5>1, <5>2, Zenon
      <4>3. (Settled + 1) + (Len(s2c) - 1) + Len(out) = Settled + Len(s2c) + Len(out)
        <5>1. Settled \in Nat /\ Len(s2c) \in Nat /\ Len(out) \in Nat
          BY <1>2, <2>4, Zenon
        <5> QED BY <4>1, <5>1, Zenon
      <4> QED BY <4>2, <4>3, Zenon DEF Answers
    <3>2. ASSUME NEW i \in DOMAIN s2c' PROVE Due(Settled + i, s2c[i].id)'
      <4>1. i \in Nat /\ i \in 1 .. Len(s2c')
        BY <1>3
      <4>2. Due(Settled + (i + 1), s2c[i + 1].id)
        BY <1>0, <1>1, <1>2, <1>3, <4>1, Zenon DEF ReplyInv
      <4>3. Settled + (i + 1) = Settled' + i
        BY <2>4, <4>1
      <4>4. s2c'[i] = s2c[i + 1]
        BY <1>3, <4>1, Zenon
      <4> QED BY <1>1, <4>2, <4>3, <4>4, Zenon DEF Due, Slipped, Untimely, GrantedBefore
    <3>3. out # <<>> => Due(Answers, out[1].id)'
      <4>1. out # <<>> => Due(Answers, out[1].id)
        BY <1>0, <1>1, Zenon DEF ReplyInv
      <4> QED BY <1>1, <3>1, <4>1, Zenon DEF Due, Slipped, Untimely, GrantedBefore
    <3>4. Slipped(Answers) => Slipped(Answers)'
      BY <1>1, <3>1, Zenon DEF Slipped, Untimely, GrantedBefore
    <3> QED BY <1>0, <1>1, <2>2, <3>1, <3>2, <3>3, <3>4, Zenon DEF ReplyInv
  <2>12. InStep(c) => r.id = c
    BY <1>0, <2>4, <2>5, InStepSlipped, Zenon DEF Due
  <2>13. \A d \in DOMAIN sent : d \in Calls
    BY <1>0, Types, Zenon
  <2>14. RepliesMatch'
    <3>1. ASSUME NEW d \in DOMAIN sent, InStep(d), result'[d] \in {"resolved", "rejected"}
          PROVE  got'[d] = d
      <4>1. CASE d = c
        BY <2>8, <2>12, <3>1, <4>1, Zenon
      <4>2. CASE d # c
        BY <1>0, <2>8, <2>13, <3>1, <4>2, Zenon DEF RepliesMatch
      <4> QED BY <4>1, <4>2, Zenon
    <3> QED BY <1>1, <3>1, Zenon DEF RepliesMatch, InStep, GrantedBefore
  <2>15. RanAsGranted'
    <3>1. ASSUME NEW d \in DOMAIN sent, InStep(d), result'[d] = "resolved",
                 sent[d] \in {"data", "admin", "put", "putx"}
          PROVE  \E x \in Roles : <<d, x>> \in ran
      <4>1. CASE d = c
        <5>1. r.id = c /\ r.ok /\ sent[r.id] \in Operations
          BY <2>8, <2>12, <3>1, <4>1, Zenon DEF Operations
        <5>2. r.id # 0
          BY <2>4, <5>1
        <5> QED BY <2>5, <4>1, <5>1, <5>2, Zenon DEF Honest
      <4>2. CASE d # c
        BY <1>0, <2>8, <2>13, <3>1, <4>2, Zenon DEF RanAsGranted
      <4> QED BY <4>1, <4>2, Zenon
    <3> QED BY <1>0, <1>1, <3>1, Zenon DEF RanAsGranted, InStep, GrantedBefore
  <2> QED BY <1>4, <1>5, <2>9, <2>10, <2>11, <2>14, <2>15, Zenon DEF SessionInv
<1> QED BY <1>6, <1>7, Zenon

-----------------------------------------------------------------------------
(* A frame written behind what is in the stream.                           *)
LEMMA StreamAppend ==
    ASSUME SessionInv, NEW k \in Commands, sent' = Append(sent, k), Len(sent) + 1 \in Calls,
           socket = "open", conn, UNCHANGED <<role, conn, socket>>,
           c2s' = c2s \o Frame(Len(sent) + 1, k)
    PROVE  /\ c2s' \in Seq(Items) /\ StreamInv' /\ RoleInv' /\ c2s' # <<>>
           /\ c2s = <<>> => c2s'[1] = Line(Len(sent) + 1)
           /\ c2s # <<>> => c2s'[1] = c2s[1]
<1>0. SessionTypeOK /\ StreamInv /\ RoleInv
  BY Zenon DEF SessionInv
<1> DEFINE id == Len(sent) + 1
           f == Frame(id, k)
<1>1. PICK n \in Nat : /\ c2s \in Seq(Items) /\ n = Len(c2s) /\ DOMAIN c2s = 1 .. n
                      /\ Len(sent) \in Nat /\ (c2s = <<>> <=> n = 0)
  BY <1>0, Types, SeqFacts, Zenon
<1>2. /\ f \in Seq(Items) /\ Len(f) = 1 + Blocks(k) /\ f[1] = Line(id)
      /\ \A i \in 2 .. 1 + Blocks(k) : f[i] = Block(id)
  BY FrameFacts, Zenon
<1>3. /\ Line(id).id = id /\ ~Line(id).block /\ Block(id).id = id /\ Block(id).block
  BY DEF Line, Block
<1>4. /\ c2s \o f \in Seq(Items) /\ Len(c2s \o f) = n + Len(f)
      /\ \A i \in 1 .. n : (c2s \o f)[i] = c2s[i]
      /\ \A i \in 1 .. Len(f) : (c2s \o f)[n + i] = f[i]
  <2>1. c2s \in Seq(Items) /\ f \in Seq(Items)
    BY <1>1, <1>2, Zenon
  <2>2. /\ c2s \o f \in Seq(Items) /\ Len(c2s \o f) = Len(c2s) + Len(f)
        /\ \A i \in 1 .. Len(c2s) : (c2s \o f)[i] = c2s[i]
        /\ \A i \in 1 .. Len(f) : (c2s \o f)[Len(c2s) + i] = f[i]
    BY <2>1, ConcatFacts
  <2> QED BY <1>1, <2>2, Zenon
<1>5. c2s' = c2s \o f
  BY Zenon
<1>6. /\ Len(sent') = id /\ (\A c \in 1 .. Len(sent) : sent'[c] = sent[c]) /\ sent'[id] = k
      /\ \A c \in 1 .. Len(sent) + 1 : GrantedBefore(c)' = GrantedBefore(c)
  BY <1>0, SentGrows, Zenon
<1> HIDE DEF f
<1>7. c2s' \in Seq(Items) /\ Len(c2s') = n + (1 + Blocks(k)) /\ DOMAIN c2s' = 1 .. Len(c2s')
  <2>1. c2s' \in Seq(Items) /\ Len(c2s') = n + (1 + Blocks(k))
    BY <1>2, <1>4, <1>5, Zenon
  <2> QED BY <2>1, SeqFacts, Zenon
<1>8. (\A i \in 1 .. n : c2s'[i] = c2s[i]) /\ \A i \in 1 .. 1 + Blocks(k) : c2s'[n + i] = f[i]
  BY <1>2, <1>4, <1>5, Zenon
<1> HIDE DEF id
<1>9. Blocks(k) \in Nat /\ id \in Nat /\ id = Len(sent) + 1 /\ id \in Calls
  BY <1>1, BlocksType DEF id
<1>10. /\ c2s'[n + 1] = Line(id)
       /\ \A i \in n + 2 .. n + 1 + Blocks(k) : c2s'[i] = Block(id)
  <2>1. c2s'[n + 1] = Line(id)
    <3>1. 1 \in 1 .. 1 + Blocks(k)
      BY <1>9
    <3> QED BY <1>2, <1>8, <3>1, Zenon
  <2>2. ASSUME NEW i \in n + 2 .. n + 1 + Blocks(k) PROVE c2s'[i] = Block(id)
    <3>1. i - n \in 1 .. 1 + Blocks(k) /\ i - n \in 2 .. 1 + Blocks(k) /\ n + (i - n) = i
      BY <1>1, <1>9
    <3>2. c2s'[n + (i - n)] = Block(id)
      BY <1>2, <1>8, <3>1, Zenon
    <3> QED BY <3>1, <3>2, Zenon
  <2> QED BY <2>1, <2>2, Zenon
<1>11. ASSUME NEW i \in DOMAIN c2s'
       PROVE  i \in 1 .. n \/ i = n + 1 \/ i \in n + 2 .. n + 1 + Blocks(k)
  <2>1. i \in 1 .. n + (1 + Blocks(k))
    BY <1>7, Zenon
  <2> QED BY <1>1, <1>9, <2>1
<1>12. \A i \in 1 .. n : EndOf(i)' = EndOf(i) /\ c2s[i].id \in 1 .. Len(sent) /\ EndOf(i) \in Nat
  <2>1. ASSUME NEW i \in 1 .. n PROVE c2s[i].id \in 1 .. Len(sent) /\ EndOf(i) \in Nat
    BY <1>0, <1>1, StreamFacts, Zenon
  <2> QED BY <1>6, <1>8, <2>1, Zenon DEF EndOf
<1>13. EndOf(n + 1)' = n + 1 + Blocks(k)
  <2>1. c2s'[n + 1].id = id
    BY <1>3, <1>10, Zenon
  <2> QED BY <1>6, <2>1, Zenon DEF EndOf
<1>14. ASSUME NEW i \in DOMAIN c2s' PROVE c2s'[i].id <= Len(sent')
  <2>1. CASE i \in 1 .. n
    <3>1. c2s'[i] = c2s[i] /\ c2s[i].id \in 1 .. Len(sent)
      BY <1>8, <1>12, <2>1, Zenon
    <3>2. c2s[i].id <= id
      BY <1>1, <1>9, <3>1
    <3> QED BY <1>6, <3>1, <3>2, Zenon
  <2>2. CASE i \notin 1 .. n
    <3>1. c2s'[i].id = id
      BY <1>3, <1>10, <1>11, <2>2, Zenon
    <3>2. id <= id
      BY <1>9
    <3> QED BY <1>6, <3>1, <3>2, Zenon
  <2> QED BY <2>1, <2>2, Zenon
<1>15. ASSUME NEW i \in DOMAIN c2s', ~c2s'[i].block
       PROVE  /\ EndOf(i)' <= Len(c2s')
              /\ \A j \in i + 1 .. EndOf(i)' : c2s'[j].block
              /\ EndOf(i)' < Len(c2s') => c2s'[EndOf(i)' + 1] = Line(c2s'[i].id + 1)
              /\ EndOf(i)' = Len(c2s') /\ socket' = "open" => c2s'[i].id = Len(sent')
  <2>1. CASE i \in 1 .. n
    <3>1. c2s'[i] = c2s[i] /\ EndOf(i)' = EndOf(i) /\ EndOf(i) \in Nat /\ c2s[i].id \in 1 .. Len(sent)
      BY <1>8, <1>12, <2>1, Zenon
    <3>2. /\ EndOf(i) <= n
          /\ \A j \in i + 1 .. EndOf(i) : c2s[j].block
          /\ EndOf(i) < n => c2s[EndOf(i) + 1] = Line(c2s[i].id + 1)
          /\ EndOf(i) = n => c2s[i].id = Len(sent)
      BY <1>0, <1>1, <1>15, <2>1, <3>1, Zenon DEF StreamInv
    <3>3. ASSUME NEW j \in i + 1 .. EndOf(i) PROVE c2s'[j].block
      <4>1. j \in 1 .. n
        BY <1>1, <2>1, <3>1, <3>2
      <4> QED BY <1>8, <3>2, <4>1, Zenon
    <3>4. c2s'[EndOf(i) + 1] = Line(c2s[i].id + 1)
      <4>1. CASE EndOf(i) < n
        <5>1. EndOf(i) + 1 \in 1 .. n
          BY <1>1, <3>1, <4>1
        <5> QED BY <1>8, <3>2, <4>1, <5>1, Zenon
      <4>2. CASE EndOf(i) = n
        BY <1>9, <1>10, <3>2, <4>2, Zenon
      <4>3. EndOf(i) < n \/ EndOf(i) = n
        BY <1>1, <3>1, <3>2
      <4> QED BY <4>1, <4>2, <4>3, Zenon
    <3>5. EndOf(i) < n + (1 + Blocks(k)) /\ EndOf(i) <= n + (1 + Blocks(k)) /\ EndOf(i) # n + (1 + Blocks(k))
      <4>1. EndOf(i) \in Nat /\ EndOf(i) <= n /\ Blocks(k) \in Nat
        BY <1>9, <3>1, <3>2, Zenon
      <4>2. \A a, b, c \in Nat : a <= b => a < b + (1 + c) /\ a <= b + (1 + c) /\ a # b + (1 + c)
        OBVIOUS
      <4> QED BY <4>1, <4>2, Zenon
    <3> QED BY <1>7, <3>1, <3>3, <3>4, <3>5, Zenon
  <2>2. CASE i = n + 1
    <3>1. /\ EndOf(i)' = Len(c2s') /\ EndOf(i)' <= Len(c2s') /\ ~(EndOf(i)' < Len(c2s'))
          /\ i + 1 = n + 2
      <4>1. n + 1 + Blocks(k) = n + (1 + Blocks(k)) /\ n + 1 + Blocks(k) \in Nat
        BY BlocksType
      <4>2. \A a \in Nat : a <= a /\ ~(a < a)
        OBVIOUS
      <4>3. (n + 1) + 1 = n + 2
        OBVIOUS
      <4> QED BY <1>7, <1>13, <2>2, <4>1, <4>2, <4>3, Zenon
    <3>2. \A j \in i + 1 .. EndOf(i)' : c2s'[j].block
      BY <1>3, <1>10, <1>13, <2>2, <3>1, Zenon
    <3>3. c2s'[i].id = Len(sent')
      BY <1>3, <1>6, <1>10, <2>2, Zenon
    <3> QED BY <3>1, <3>2, <3>3, Zenon
  <2>3. CASE i \in n + 2 .. n + 1 + Blocks(k)
    BY <1>3, <1>10, <1>15, <2>3, Zenon
  <2> QED BY <1>11, <2>1, <2>2, <2>3, Zenon
<1>16. StreamInv'
  BY <1>14, <1>15, Zenon DEF StreamInv
<1>17. n + 1 \in DOMAIN c2s' /\ ~c2s'[n + 1].block
  <2>1. n + 1 \in 1 .. n + (1 + Blocks(k))
    BY <1>1, <1>9
  <2> QED BY <1>3, <1>7, <1>10, <2>1, Zenon
<1>18. ASSUME NEW c \in 1 .. Len(sent) + 1, RoleAt(c) PROVE RoleAt(c)'
  <2>1. GrantedBefore(c)' = GrantedBefore(c) /\ \A a \in GrantedBefore(c) : sent'[a] = sent[a]
    <3>1. \A a \in GrantedBefore(c) : a \in 1 .. Len(sent)
      BY <1>0, Types, Zenon DEF GrantedBefore
    <3> QED BY <1>6, <3>1, Zenon
  <2> QED BY <1>18, <2>1, Zenon DEF RoleAt
<1>19. RoleInv'
  <2>1. CASE ~AuthRequired
    BY <1>0, <2>1, Zenon DEF RoleInv
  <2>2. CASE AuthRequired
    <3>1. ASSUME NEW i \in DOMAIN c2s', FirstLine(i)' PROVE RoleAt(c2s[i].id)'
      <4>1. CASE i \in 1 .. n
        <5>1. \A j \in 1 .. i - 1 : j \in 1 .. n
          BY <1>1, <4>1
        <5>2. FirstLine(i)
          BY <1>8, <3>1, <4>1, <5>1, Zenon DEF FirstLine
        <5>3. RoleAt(c2s[i].id)
          BY <1>0, <1>1, <2>2, <4>1, <5>2, Zenon DEF RoleInv
        <5>4. c2s[i].id \in 1 .. Len(sent) + 1
          <6>1. c2s[i].id \in 1 .. Len(sent)
            BY <1>12, <4>1, Zenon
          <6> QED BY <1>1, <6>1
        <5>5. c2s'[i] = c2s[i]
          BY <1>8, <4>1, Zenon
        <5>6. PICK c \in 1 .. Len(sent) + 1 : c = c2s[i].id
          BY <5>4, Zenon
        <5>7. RoleAt(c)' /\ c2s'[i].id = c
          BY <1>18, <5>3, <5>5, <5>6, Zenon
        <5> QED BY <5>7, Zenon DEF RoleAt, GrantedBefore
      <4>2. CASE i = n + 1
        <5>1. (n + 1) - 1 = n
          BY <1>1
        <5>2. \A j \in 1 .. n : c2s[j].block
          BY <1>8, <3>1, <4>2, <5>1, Zenon DEF FirstLine
        <5>3. RoleAt(Len(sent) + 1)
          BY <1>0, <1>1, <2>2, <5>2, Zenon DEF RoleInv
        <5>4. PICK c \in 1 .. Len(sent) + 1 : c = Len(sent) + 1
          BY <1>1
        <5>5. RoleAt(c)'
          BY <1>18, <5>3, <5>4, Zenon
        <5>6. c2s'[i].id = c
          BY <1>3, <1>9, <1>10, <4>2, <5>4, Zenon
        <5> QED BY <5>5, <5>6, Zenon DEF RoleAt, GrantedBefore
      <4>3. CASE i \in n + 2 .. n + 1 + Blocks(k)
        BY <1>3, <1>10, <3>1, <4>3, Zenon DEF FirstLine
      <4> QED BY <1>11, <4>1, <4>2, <4>3, Zenon
    <3> QED BY <1>17, <2>2, <3>1, Zenon DEF RoleInv
  <2> QED BY <2>1, <2>2, Zenon
<1>20. c2s' # <<>>
  BY <1>7, <1>17
<1>21. c2s = <<>> => c2s'[1] = Line(Len(sent) + 1)
  <2>1. n = 0 => n + 1 = 1
    OBVIOUS
  <2> QED BY <1>1, <1>9, <1>10, <2>1, Zenon
<1>22. c2s # <<>> => c2s'[1] = c2s[1]
  <2>1. n # 0 => 1 \in 1 .. n
    BY <1>1
  <2> QED BY <1>1, <1>8, <2>1, Zenon
<1> QED BY <1>7, <1>16, <1>19, <1>20, <1>21, <1>22, Zenon

(* A call that writes nothing: the client or the connection is gone.       *)
LEMMA StreamKept ==
    ASSUME SessionInv, NEW k \in Commands, sent' = Append(sent, k), ~(socket = "open" /\ conn),
           UNCHANGED <<role, conn, socket, c2s>>
    PROVE  StreamInv' /\ RoleInv' /\ c2s' \in Seq(Items)
<1>0. SessionTypeOK /\ StreamInv /\ RoleInv /\ ReplyInv
  BY Zenon DEF SessionInv
<1>1. /\ c2s \in Seq(Items) /\ DOMAIN c2s = 1 .. Len(c2s) /\ Len(sent) \in Nat
      /\ DOMAIN sent = 1 .. Len(sent)
  BY <1>0, Types, Zenon
<1>2. /\ Len(sent') = Len(sent) + 1 /\ \A c \in 1 .. Len(sent) : sent'[c] = sent[c]
      /\ \A c \in 1 .. Len(sent) + 1 : GrantedBefore(c)' = GrantedBefore(c)
  BY <1>0, SentGrows, Zenon
<1>3. ASSUME NEW i \in DOMAIN c2s
      PROVE  /\ c2s[i].id \in 1 .. Len(sent) /\ c2s[i].id <= Len(sent')
             /\ c2s[i].id \in 1 .. Len(sent) + 1 /\ EndOf(i)' = EndOf(i)
  <2>1. c2s[i].id \in 1 .. Len(sent)
    BY <1>0, <1>1, <1>3, StreamFacts, Zenon
  <2>2. \A a \in Nat : \A b \in 1 .. a : b <= a + 1 /\ b \in 1 .. a + 1
    OBVIOUS
  <2> QED BY <1>1, <1>2, <2>1, <2>2, Zenon DEF EndOf
<1>4. socket' = "open" => DOMAIN c2s = {}
  <2>1. socket' = "open" => c2s = <<>>
    BY <1>0, Zenon DEF ReplyInv
  <2>2. c2s = <<>> => DOMAIN c2s = {}
    OBVIOUS
  <2> QED BY <2>1, <2>2, Zenon
<1>5. StreamInv'
  BY <1>0, <1>3, <1>4, Zenon DEF StreamInv
<1>6. ASSUME AuthRequired, NEW i \in DOMAIN c2s', FirstLine(i)' PROVE RoleAt(c2s[i].id)'
  <2>1. PICK c \in 1 .. Len(sent) + 1 : c = c2s[i].id
    BY <1>3, <1>6, Zenon
  <2>2. RoleAt(c)
    BY <1>0, <1>6, <2>1, Zenon DEF RoleInv, FirstLine
  <2>3. \A a \in GrantedBefore(c) : sent'[a] = sent[a]
    BY <1>1, <1>2, Zenon DEF GrantedBefore
  <2>4. GrantedBefore(c)' = GrantedBefore(c)
    BY <1>2, Zenon
  <2>5. RoleAt(c)'
    BY <2>2, <2>3, <2>4, Zenon DEF RoleAt
  <2> QED BY <2>1, <2>5, Zenon DEF RoleAt, GrantedBefore
<1>7. RoleInv'
  BY <1>0, <1>6, Zenon DEF RoleInv
<1> QED BY <1>1, <1>5, <1>7, Zenon

(* A call of the client, on a connection that is open, going or gone.      *)
LEMMA SendKeeps == ASSUME SessionInv, NEW k \in Commands, Send(k) PROVE SessionInv'
<1>0. /\ SessionTypeOK /\ QueueInv /\ StreamInv /\ ReplyInv /\ RoleInv /\ RanInv
      /\ RepliesMatch /\ RanAsGranted
  BY Zenon DEF SessionInv
<1>1. PICK id : id = Len(sent) + 1
  OBVIOUS
<1>2. /\ id <= MaxCalls /\ sent' = Append(sent, k)
      /\ socket = "closed" => result' = [result EXCEPT ![id] = "lost"] /\ UNCHANGED <<pending, c2s>>
      /\ socket # "closed" => /\ pending' = Append(pending, id)
                              /\ c2s' = IF socket = "open" /\ conn THEN c2s \o Frame(id, k) ELSE c2s
                              /\ UNCHANGED result
      /\ UNCHANGED <<got, socket, s2c, conn, out, last, role, ran>>
  BY <1>1, Zenon DEF Send, server
<1>3. /\ Len(sent) \in Nat /\ DOMAIN sent = 1 .. Len(sent) /\ 1 .. Len(sent) \subseteq Calls
      /\ Len(pending) \in Nat /\ pending \in Seq(Calls) /\ DOMAIN pending = 1 .. Len(pending)
      /\ result \in [Calls -> {"none", "resolved", "rejected", "lost"}]
      /\ Len(s2c) \in Nat /\ Len(out) \in Nat /\ DOMAIN s2c = 1 .. Len(s2c)
  BY <1>0, Types, Zenon DEF SessionTypeOK
<1>4. id \in Calls /\ id \in Nat
  <2>1. Len(sent) \in Nat
    BY <1>3, Zenon
  <2>2. \A a, b \in Nat : a + 1 <= b => a + 1 \in 1 .. b /\ a + 1 \in Nat
    OBVIOUS
  <2> QED BY <1>1, <1>2, <2>1, <2>2, SessionAssumption, Zenon DEF Calls
<1>5. /\ Len(sent') = id /\ sent' \in Seq(Commands)
      /\ \A c \in 1 .. Len(sent) : sent'[c] = sent[c]
      /\ \A c \in 1 .. Len(sent) + 1 : GrantedBefore(c)' = GrantedBefore(c)
      /\ \A c \in 1 .. Len(sent) : InStep(c)' = InStep(c)
  BY <1>0, <1>1, <1>2, SentGrows, Zenon
<1>6. DOMAIN sent' = 1 .. id /\ \A c \in 1 .. id : c \in 1 .. Len(sent) \/ c = id
  <2>1. DOMAIN sent' = 1 .. id
    BY <1>5, SeqFacts, Zenon
  <2>2. \A a \in Nat : \A c \in 1 .. a + 1 : c \in 1 .. a \/ c = a + 1
    OBVIOUS
  <2> QED BY <1>1, <1>3, <2>1, <2>2, Zenon
<1>7. Len(pending) <= Len(sent) /\ Settled = Len(sent) - Len(pending) /\ Settled \in Nat
  <2>1. Len(pending) <= Len(sent)
    BY <1>0, Zenon DEF QueueInv
  <2>2. \A a, b \in Nat : b <= a => a - b \in Nat
    OBVIOUS
  <2> QED BY <1>3, <2>1, <2>2, Zenon DEF Settled
<1>8. /\ c2s' \in Seq(Items) /\ StreamInv' /\ RoleInv'
      /\ socket = "open" /\ conn => /\ c2s' # <<>> /\ (c2s = <<>> => c2s'[1] = Line(id))
                                    /\ c2s # <<>> => c2s'[1] = c2s[1]
  <2>1. CASE socket = "open" /\ conn
    <3>1. c2s' = c2s \o Frame(Len(sent) + 1, k)
      BY <1>1, <1>2, <2>1, Zenon
    <3> QED BY <1>1, <1>2, <1>4, <2>1, <3>1, StreamAppend, Zenon
  <2>2. CASE ~(socket = "open" /\ conn)
    <3>1. c2s' = c2s
      BY <1>2, <2>2, Zenon
    <3> QED BY <1>2, <2>2, <3>1, StreamKept, Zenon
  <2> QED BY <2>1, <2>2, Zenon
<1>9. /\ pending' \in Seq(Calls) /\ DOMAIN pending' = 1 .. Len(pending') /\ Len(pending') \in Nat
      /\ Len(pending') <= id /\ (socket' = "closed" => pending' = <<>>)
      /\ socket # "closed" => Settled' = Settled
      /\ \A i \in DOMAIN pending' : pending'[i] = Settled' + i
  <2>0. Settled' = id - Len(pending')
    BY <1>5, Zenon DEF Settled
  <2>1. CASE socket = "closed"
    <3>1. pending' = pending /\ pending = <<>>
      BY <1>0, <1>2, <2>1, Zenon DEF QueueInv
    <3>2. DOMAIN pending' = {} /\ Len(pending') = 0
      BY <3>1
    <3>3. Len(pending') <= id
      BY <1>4, <3>2
    <3> QED BY <1>2, <1>3, <2>1, <3>1, <3>2, <3>3, Zenon
  <2>2. CASE socket # "closed"
    <3>1. /\ Append(pending, id) \in Seq(Calls) /\ Len(Append(pending, id)) = Len(pending) + 1
          /\ \A i \in 1 .. Len(pending) : Append(pending, id)[i] = pending[i]
          /\ Append(pending, id)[Len(pending) + 1] = id
      <4>1. pending \in Seq(Calls) /\ id \in Calls
        BY <1>3, <1>4, Zenon
      <4> QED BY <4>1, AppendFacts
    <3>2. pending' = Append(pending, id)
      BY <1>2, <2>2, Zenon
    <3>3. DOMAIN pending' = 1 .. Len(pending') /\ Len(pending') \in Nat
      BY <3>1, <3>2, SeqFacts, Zenon
    <3>4. \A a, b \in Nat : b <= a => /\ (a + 1) - (b + 1) = a - b /\ b + 1 <= a + 1
                                      /\ (a - b) + (b + 1) = a + 1
      OBVIOUS
    <3>5. Settled' = Settled /\ Len(pending') <= id /\ Settled + (Len(pending) + 1) = id
      <4>1. Len(sent) \in Nat /\ Len(pending) \in Nat /\ Len(pending) <= Len(sent)
        BY <1>3, <1>7, Zenon
      <4>2. /\ (Len(sent) + 1) - (Len(pending) + 1) = Len(sent) - Len(pending)
            /\ Len(pending) + 1 <= Len(sent) + 1
            /\ (Len(sent) - Len(pending)) + (Len(pending) + 1) = Len(sent) + 1
        BY <3>4, <4>1, Zenon
      <4>3. Len(pending') = Len(pending) + 1
        BY <3>1, <3>2, Zenon
      <4> QED BY <1>1, <1>7, <2>0, <4>2, <4>3, Zenon
    <3>6. \A b \in Nat : \A i \in 1 .. b + 1 : i \in 1 .. b \/ i = b + 1
      OBVIOUS
    <3>7. ASSUME NEW i \in DOMAIN pending' PROVE pending'[i] = Settled + i
      <4>1. i \in 1 .. Len(pending) \/ i = Len(pending) + 1
        BY <1>3, <3>1, <3>2, <3>3, <3>6, <3>7, Zenon
      <4>2. \A j \in 1 .. Len(pending) : pending[j] = Settled + j
        BY <1>0, <1>3, Zenon DEF QueueInv
      <4> QED BY <3>1, <3>2, <3>5, <4>1, <4>2, Zenon
    <3> QED BY <1>2, <2>2, <3>1, <3>2, <3>3, <3>5, <3>7, Zenon
  <2> QED BY <2>1, <2>2, Zenon
<1>10. /\ result' \in [Calls -> {"none", "resolved", "rejected", "lost"}]
       /\ result'[id] \in {"none", "lost"}
       /\ \A c \in Calls : c # id => result'[c] = result[c]
       /\ \A c \in Calls : result'[c] = "none" <=> c > Settled'
  <2>1. \A c \in Calls : result[c] = "none" <=> c > Settled
    BY <1>0, Zenon DEF QueueInv
  <2>2. id > Settled
    <3>1. \A a, b \in Nat : b <= a => a + 1 > a - b
      OBVIOUS
    <3> QED BY <1>1, <1>3, <1>7, <3>1, Zenon
  <2>3. CASE socket = "closed"
    <3>1. result' = [result EXCEPT ![id] = "lost"] /\ pending' = <<>> /\ pending = <<>>
      BY <1>0, <1>2, <1>9, <2>3, Zenon DEF QueueInv
    <3>2. /\ result' \in [Calls -> {"none", "resolved", "rejected", "lost"}] /\ result'[id] = "lost"
          /\ \A c \in Calls : c # id => result'[c] = result[c]
      BY <1>3, <1>4, <3>1, Zenon
    <3>3. Len(pending) = 0 /\ Len(pending') = 0
      BY <3>1
    <3>4. Settled' = id - 0 /\ Settled = Len(sent) - 0
      BY <1>5, <3>3, Zenon DEF Settled
    <3>5. \A a, c \in Nat : ~(a > a - 0) /\ (c # a + 1 => (c > (a + 1) - 0 <=> c > a - 0))
      OBVIOUS
    <3>6. Calls \subseteq Nat
      BY DEF Calls
    <3>7. ~(id > Settled') /\ \A c \in Calls : c # id => (c > Settled' <=> c > Settled)
      BY <1>1, <1>3, <1>4, <3>4, <3>5, <3>6, Zenon
    <3> QED BY <2>1, <3>2, <3>7, Zenon
  <2>4. CASE socket # "closed"
    BY <1>2, <1>3, <1>4, <1>9, <2>1, <2>2, <2>4, Zenon
  <2> QED BY <2>3, <2>4, Zenon
<1>11. QueueInv'
  BY <1>5, <1>9, <1>10, Zenon DEF QueueInv
<1>12. SessionTypeOK'
  <2>1. ASSUME NEW c \in Calls
        PROVE  result'[c] = "none" /\ c <= Len(sent') <=> \E i \in DOMAIN pending' : pending'[i] = c
    BY <1>4, <1>5, <1>9, <1>10, Waiting, Zenon DEF Settled
  <2> QED BY <1>0, <1>2, <1>5, <1>8, <1>9, <1>10, <2>1, Zenon DEF SessionTypeOK, Items
<1>13. ReplyInv'
  <2>1. ~conn' => c2s' = <<>>
    <3>1. ~conn => c2s = <<>>
      BY <1>0, Zenon DEF ReplyInv
    <3> QED BY <1>2, <3>1, Zenon
  <2>2. ASSUME socket' = "open"
        PROVE  /\ \A i \in DOMAIN s2c' : Due(Settled + i, s2c[i].id)'
               /\ out' # <<>> => Due(Answers, out[1].id)'
               /\ conn' /\ ~last' => \/ Slipped(Answers)'
                                     \/ c2s' # <<>> /\ c2s'[1] = Line(Answers' + 1)
    <3>1. socket = "open" /\ socket # "closed" /\ Settled' = Settled
      BY <1>2, <1>9, <2>2, Zenon
    <3>2. PICK a \in Nat : a = Answers /\ a = Answers'
      <4>1. Settled \in Nat /\ Len(s2c) \in Nat /\ Len(out) \in Nat
        BY <1>3, <1>7, Zenon
      <4>2. \A n, b, c \in Nat : n + b + c \in Nat
        OBVIOUS
      <4>3. Answers \in Nat
        BY <4>1, <4>2, Zenon DEF Answers
      <4>4. Answers' = Answers
        BY <1>2, <3>1, Zenon DEF Answers
      <4> QED BY <4>3, <4>4, Zenon
    <3>3. ASSUME NEW i \in DOMAIN s2c' PROVE Due(Settled + i, s2c[i].id)'
      <4>1. Due(Settled + i, s2c[i].id) /\ i \in 1 .. Len(s2c)
        BY <1>0, <1>2, <1>3, <3>1, <3>3, Zenon DEF ReplyInv
      <4>2. \A n, m \in Nat : \A j \in 1 .. m : n + j \in Nat
        OBVIOUS
      <4>3. PICK m \in Nat : m = Settled + i
        BY <1>3, <1>7, <4>1, <4>2, Zenon
      <4>4. PICK d : d = s2c[i].id
        OBVIOUS
      <4>5. Due(m, d)'
        BY <1>0, <1>2, <4>1, <4>3, <4>4, DueStays, Zenon
      <4>6. Settled' + i = m /\ s2c'[i].id = d
        BY <1>2, <3>1, <4>3, <4>4, Zenon
      <4> QED BY <4>5, <4>6, Zenon DEF Due, Slipped, Untimely, GrantedBefore
    <3>4. ASSUME out' # <<>> PROVE Due(Answers, out[1].id)'
      <4>1. PICK d : d = out[1].id
        OBVIOUS
      <4>2. Due(a, d)'
        BY <1>0, <1>2, <3>1, <3>2, <3>4, <4>1, DueStays, Zenon DEF ReplyInv
      <4> QED BY <1>2, <3>2, <4>1, <4>2, Zenon DEF Due, Slipped, Untimely, GrantedBefore
    <3>5. ASSUME conn', ~last', ~Slipped(Answers)' PROVE c2s' # <<>> /\ c2s'[1] = Line(Answers' + 1)
      <4>1. ~Slipped(a)'
        BY <3>2, <3>5, Zenon DEF Slipped, Untimely, GrantedBefore
      <4>2. ~Slipped(a)
        BY <1>0, <1>2, <4>1, DueStays, Zenon
      <4>3. \/ c2s = <<>> /\ Answers = Len(sent)
            \/ c2s # <<>> /\ c2s[1] = Line(Answers + 1)
        BY <1>0, <1>2, <3>1, <3>2, <3>5, <4>2, Zenon DEF ReplyInv
      <4> QED BY <1>1, <1>2, <1>8, <3>1, <3>2, <3>5, <4>3, Zenon
    <3> QED BY <3>3, <3>4, <3>5, Zenon
  <2> QED BY <1>0, <1>2, <2>1, <2>2, Zenon DEF ReplyInv
<1>14. RanInv' /\ \A p \in ran : p[1] \in 1 .. Len(sent)
  <2>1. \A a \in Nat : (\A b \in Calls \cup {0} : b <= a => b <= a + 1 /\ (b # 0 => b \in 1 .. a))
    BY SessionAssumption DEF Calls
  <2>2. ASSUME NEW r \in Replies, Honest(r) PROVE Honest(r)'
    <3>1. r.id \in Calls \cup {0}
      BY DEF Replies
    <3>2. r.id <= id /\ (r.id # 0 => r.id \in 1 .. Len(sent))
      BY <1>1, <1>3, <2>1, <2>2, <3>1, Zenon DEF Honest
    <3> QED BY <1>2, <1>5, <2>2, <3>2, Zenon DEF Honest
  <2>3. /\ \A i \in DOMAIN s2c : s2c[i] \in Replies
        /\ out # <<>> => out[1] \in Replies
    <3>1. /\ \A i \in 1 .. Len(s2c) : s2c[i] \in Replies
          /\ \A i \in 1 .. Len(out) : out[i] \in Replies
          /\ out \in Seq(Replies)
      BY <1>0, Types, Zenon DEF SessionTypeOK
    <3>2. out # <<>> => 1 \in 1 .. Len(out)
      BY <3>1, TailRest, Zenon
    <3> QED BY <1>3, <3>1, <3>2, Zenon
  <2>4. (\A i \in DOMAIN s2c' : Honest(s2c[i])') /\ (out' # <<>> => Honest(out[1])')
    <3>1. ASSUME NEW i \in DOMAIN s2c PROVE Honest(s2c[i])'
      <4>1. PICK r \in Replies : r = s2c[i]
        BY <2>3, <3>1, Zenon
      <4>2. Honest(r)'
        BY <1>0, <2>2, <3>1, <4>1, Zenon DEF RanInv
      <4> QED BY <1>2, <4>1, <4>2, Zenon DEF Honest
    <3>2. ASSUME out # <<>> PROVE Honest(out[1])'
      <4>1. PICK r \in Replies : r = out[1]
        BY <2>3, <3>2, Zenon
      <4>2. Honest(r)'
        BY <1>0, <2>2, <3>2, <4>1, Zenon DEF RanInv
      <4> QED BY <1>2, <4>1, <4>2, Zenon DEF Honest
    <3> QED BY <1>2, <3>1, <3>2, Zenon
  <2>5. ASSUME NEW p \in ran PROVE p[1] <= id /\ p[1] \in 1 .. Len(sent)
    <3>1. p[1] <= Len(sent) /\ ran \subseteq Calls \X Roles
      BY <1>0, <2>5, Zenon DEF RanInv, SessionTypeOK
    <3>2. p[1] \in Calls
      BY <2>5, <3>1
    <3>3. \A b \in Calls : b # 0 /\ b \in Calls \cup {0}
      BY DEF Calls
    <3> QED BY <1>1, <1>3, <2>1, <3>1, <3>2, <3>3, Zenon
  <2> QED BY <1>2, <1>5, <2>4, <2>5, Zenon DEF RanInv
<1>15. RepliesMatch'
  <2>1. ASSUME NEW c \in DOMAIN sent', InStep(c)', result'[c] \in {"resolved", "rejected"}
        PROVE  got'[c] = c
    <3>1. CASE c = id
      BY <1>10, <2>1, <3>1, Zenon
    <3>2. CASE c # id
      <4>1. c \in 1 .. Len(sent) /\ c \in Calls
        BY <1>3, <1>6, <2>1, <3>2, Zenon
      <4>2. InStep(c) /\ result[c] \in {"resolved", "rejected"} /\ c \in DOMAIN sent
        BY <1>3, <1>5, <1>10, <2>1, <3>2, <4>1, Zenon
      <4> QED BY <1>0, <1>2, <4>2, Zenon DEF RepliesMatch
    <3> QED BY <3>1, <3>2, Zenon
  <2> QED BY <2>1, Zenon DEF RepliesMatch
<1>16. RanAsGranted'
  <2>1. ASSUME NEW c \in DOMAIN sent', InStep(c)', result'[c] = "resolved",
               sent'[c] \in {"data", "admin", "put", "putx"}
        PROVE  \E r \in Roles : <<c, r>> \in ran'
    <3>1. CASE c = id
      BY <1>10, <2>1, <3>1, Zenon
    <3>2. CASE c # id
      <4>1. c \in 1 .. Len(sent) /\ c \in Calls
        BY <1>3, <1>6, <2>1, <3>2, Zenon
      <4>2. /\ InStep(c) /\ result[c] = "resolved" /\ c \in DOMAIN sent
            /\ sent[c] \in {"data", "admin", "put", "putx"}
        BY <1>3, <1>5, <1>10, <2>1, <3>2, <4>1, Zenon
      <4> QED BY <1>0, <1>2, <4>2, Zenon DEF RanAsGranted
    <3> QED BY <3>1, <3>2, Zenon
  <2>2. ASSUME AuthRequired, NEW p \in ran'
        PROVE  /\ GrantedBefore(p[1])' # {}
               /\ sent'[p[1]] = "admin" =>
                    \E a \in GrantedBefore(p[1])' :
                        sent'[a] = "authAdmin" /\ \A b \in GrantedBefore(p[1])' : b <= a
    <3>1. PICK c \in 1 .. Len(sent) : c = p[1]
      BY <1>2, <1>14, <2>2, Zenon
    <3>2. /\ GrantedBefore(c) # {}
          /\ sent[c] = "admin" =>
               \E a \in GrantedBefore(c) : sent[a] = "authAdmin" /\ \A b \in GrantedBefore(c) : b <= a
      BY <1>0, <1>2, <2>2, <3>1, Zenon DEF RanAsGranted
    <3>3. c \in 1 .. Len(sent) + 1
      <4>1. \A a \in Nat : \A b \in 1 .. a : b \in 1 .. a + 1
        OBVIOUS
      <4> QED BY <1>3, <3>1, <4>1, Zenon
    <3>4. /\ GrantedBefore(c)' = GrantedBefore(c) /\ sent'[c] = sent[c]
          /\ \A a \in GrantedBefore(c) : sent'[a] = sent[a]
      BY <1>3, <1>5, <3>1, <3>3, Zenon DEF GrantedBefore
    <3>5. GrantedBefore(p[1])' = GrantedBefore(c)'
      BY <3>1, Zenon DEF GrantedBefore
    <3> QED BY <3>1, <3>2, <3>4, <3>5, Zenon
  <2> QED BY <2>1, <2>2, Zenon DEF RanAsGranted
<1> QED BY <1>8, <1>11, <1>12, <1>13, <1>14, <1>15, <1>16, Zenon DEF SessionInv

-----------------------------------------------------------------------------
(* The invariant holds when the connection is made.                        *)
LEMMA InitSession == SessionInit => SessionInv
<1> SUFFICES ASSUME SessionInit PROVE SessionInv
  OBVIOUS
<1>1. /\ sent = <<>> /\ pending = <<>> /\ c2s = <<>> /\ s2c = <<>> /\ out = <<>> /\ ran = {}
      /\ socket = "open" /\ conn = TRUE /\ last = FALSE /\ got = [c \in Calls |-> 0]
      /\ result = [c \in Calls |-> "none"] /\ role = IF AuthRequired THEN "none" ELSE "admin"
  BY Zenon DEF SessionInit
<1>2. /\ sent \in Seq(Commands) /\ Len(sent) = 0 /\ DOMAIN sent = {} /\ pending \in Seq(Calls)
      /\ Len(pending) = 0 /\ DOMAIN pending = {} /\ c2s \in Seq(Items) /\ DOMAIN c2s = {}
      /\ s2c \in Seq(Replies) /\ Len(s2c) = 0 /\ DOMAIN s2c = {}
      /\ out \in Seq(Replies) /\ Len(out) = 0
  BY <1>1
<1>3. Len(sent) <= MaxCalls /\ \A c \in Calls : c \in Nat /\ ~(c <= Len(sent)) /\ c > 0
  BY <1>2, SessionAssumption DEF Calls
<1>4. SessionTypeOK
  <2>1. role \in Roles /\ socket \in {"open", "destroyed", "closed"} /\ conn \in BOOLEAN /\ last \in BOOLEAN
    BY <1>1, Zenon DEF Roles
  <2>2. /\ result \in [Calls -> {"none", "resolved", "rejected", "lost"}]
        /\ got \in [Calls -> Calls \cup {0}] /\ ran \subseteq Calls \X Roles
    BY <1>1, Zenon
  <2> QED BY <1>2, <1>3, <2>1, <2>2, Zenon DEF SessionTypeOK, Items
<1>5. Settled = 0 /\ Answers = 0
  BY <1>2 DEF Settled, Answers
<1>6. QueueInv
  <2>1. Len(pending) <= Len(sent)
    BY <1>2
  <2> QED BY <1>1, <1>2, <1>3, <1>5, <2>1, Zenon DEF QueueInv
<1>7. StreamInv
  BY <1>2, Zenon DEF StreamInv
<1>8. ReplyInv
  <2>1. Len(out) <= 1
    BY <1>2
  <2> QED BY <1>1, <1>2, <1>5, <2>1, Zenon DEF ReplyInv
<1>9. RoleInv
  BY <1>1, <1>2, Zenon DEF RoleInv, RoleAt, GrantedBefore
<1>10. RanInv /\ RepliesMatch /\ RanAsGranted
  BY <1>1, <1>2, Zenon DEF RanInv, RepliesMatch, RanAsGranted
<1> QED BY <1>4, <1>6, <1>7, <1>8, <1>9, <1>10, Zenon DEF SessionInv

(* Every step of either side keeps it.                                     *)
LEMMA SessionStep == SessionInv /\ [SessionNext]_svars => SessionInv'
<1> SUFFICES ASSUME SessionInv, [SessionNext]_svars PROVE SessionInv'
  OBVIOUS
<1>1. ASSUME NEW k \in Commands, Send(k) PROVE SessionInv'
  BY <1>1, SendKeeps, Zenon
<1>2. CASE OnData
  BY <1>2, OnDataKeeps, Zenon
<1>3. CASE QuitTimeout
  BY <1>3, QuitKeeps, Zenon
<1>4. CASE OnClose
  BY <1>4, OnCloseKeeps, Zenon
<1>5. CASE Handler
  BY <1>5, DispatchKeeps, StrayKeeps, Zenon DEF Handler
<1>6. CASE Flush
  BY <1>6, FlushKeeps, Zenon
<1>7. CASE Disconnect
  BY <1>7, DisconnectKeeps, Zenon
<1>8. CASE UNCHANGED svars
  <2>1. UNCHANGED <<sent, pending, result, got, socket, c2s, s2c, conn, out, last, role, ran>>
    BY <1>8, Zenon DEF svars, client, server
  <2>2. UNCHANGED <<client, ran>>
    BY <2>1, Zenon DEF client
  <2>3. SessionTypeOK /\ ReplyInv /\ RanInv
    BY Zenon DEF SessionInv
  <2>4. SessionTypeOK' /\ RanInv'
    BY <2>1, <2>3, Zenon DEF SessionTypeOK, RanInv, Honest
  <2>5. ReplyInv'
    BY <2>1, <2>3, Zenon DEF ReplyInv, Due, Settled, Answers, Slipped, Untimely, GrantedBefore
  <2>6. StreamInv' /\ RoleInv'
    BY <2>1, StreamStays, Zenon
  <2> QED BY <2>2, <2>4, <2>5, <2>6, ClientStays, Zenon DEF SessionInv
<1> QED BY <1>1, <1>2, <1>3, <1>4, <1>5, <1>6, <1>7, <1>8, Zenon DEF SessionNext

(* The inductive invariant of a connection.                                *)
LEMMA SessionAlways == SessionSpec => []SessionInv
BY InitSession, SessionStep, PTL DEF SessionSpec

(* Types, for any number of calls, and that a call of the client is in     *)
(* #pending exactly as long as its promise has not settled.                *)
THEOREM SessionTypeCorrect == SessionSpec => []SessionTypeOK
<1>1. SessionInv => SessionTypeOK
  BY Zenon DEF SessionInv
<1> QED BY <1>1, SessionAlways, PTL

(* For any number of pipelined calls of any kinds, any flushes, losses and *)
(* closes: an answer settles the promise of the command it answers, as     *)
(* long as no put was sent ahead of a valid auth (#onData, handleConn,     *)
(* dispatch).                                                              *)
THEOREM RepliesMatchCorrect == SessionSpec => []RepliesMatch
<1>1. SessionInv => RepliesMatch
  BY Zenon DEF SessionInv
<1> QED BY <1>1, SessionAlways, PTL

(* A promise that resolves means that the operation was called, and every  *)
(* operation called had the rights of the last valid auth sent before it   *)
(* (requireAuth, requireAdmin).                                            *)
THEOREM RanAsGrantedCorrect == SessionSpec => []RanAsGranted
<1>1. SessionInv => RanAsGranted
  BY Zenon DEF SessionInv
<1> QED BY <1>1, SessionAlways, PTL

=============================================================================
