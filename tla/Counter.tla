------------------------------ MODULE Counter -------------------------------
(***************************************************************************)
(* One counter key (counter.go): the arithmetic of Incr, Topup and Take on *)
(* fixed-width integers, the fixed-width text form a counter has on disk,  *)
(* the in-place patch of that form, and the expiry window.                 *)
(*                                                                         *)
(* int64 is MinInt..MaxInt for any MaxInt.  The text of a counter is a sign*)
(* and Digits decimal digits; the code has 19 of them, which is enough for *)
(* every magnitude of an int64 and not too many for a uint64.              *)
(***************************************************************************)
EXTENDS Integers

CONSTANTS MaxInt,    \* math.MaxInt64
          Digits,    \* counterWidth - 1
          Milli,     \* nanoseconds in a millisecond
          TTLs,      \* time-to-live arguments, in milliseconds; 0 is a call without one
          MaxTime    \* bound: the clock

MinInt == -MaxInt - 1
Int64 == MinInt .. MaxInt
MaxMag == 10 ^ Digits - 1

ASSUME WidthAssumption ==
    /\ MaxInt \in Nat \ {0}
    /\ Digits \in Nat
    /\ MaxMag \in Nat
    /\ MaxInt + 1 <= MaxMag
ASSUME WindowAssumption == TTLs \subseteq Nat /\ MaxTime \in Nat /\ Milli \in Nat \ {0}

VARIABLES cell,      \* the value bytes of the key's record
          exp,       \* its expiry, 0 for none
          now,       \* nowMillis
          credit,    \* what the replies so far add up to
          damaged    \* the cell has been torn, or was never a counter

vars == <<cell, exp, now, credit, damaged>>

Cells == [sign: {"plus", "minus"}, mag: 0 .. MaxMag]
NoCell == [sign |-> "none", mag |-> 0]         \* no entry in the index
PlainCell == [sign |-> "plain", mag |-> 0]     \* a value without the counter flag

TypeOK ==
    /\ cell \in Cells \cup {NoCell, PlainCell}
    /\ exp \in Nat /\ now \in Nat
    /\ credit \in Int
    /\ damaged \in BOOLEAN

-----------------------------------------------------------------------------
(* Addition and subtraction of two int64 wrap around.                      *)
Wrap(x) ==
    IF x > MaxInt THEN x - 2 * (MaxInt + 1)
    ELSE IF x < MinInt THEN x + 2 * (MaxInt + 1)
    ELSE x

(* Mutant: the magnitude of a negative value is that of its successor.     *)
FormatCounterOffByOne(v) ==
    IF v < 0 THEN [sign |-> "minus", mag |-> -(v + 1)]
    ELSE [sign |-> "plus", mag |-> v]

FormatCounter(v) ==
    IF v < 0 THEN [sign |-> "minus", mag |-> -(v + 1) + 1]
    ELSE [sign |-> "plus", mag |-> v]

NotCounter == [ok |-> FALSE, val |-> 0]

(* A sign and digits are a counter when they are within int64.             *)
ParseCounter(c) ==
    IF c.sign = "plus" /\ c.mag <= MaxInt THEN [ok |-> TRUE, val |-> c.mag]
    ELSE IF c.sign = "minus" /\ c.mag <= MaxInt + 1 THEN [ok |-> TRUE, val |-> -(c.mag - 1) - 1]
    ELSE NotCounter

-----------------------------------------------------------------------------
(* The step functions.  moved is what the reply tells the caller it did to *)
(* the counter: all of delta, amount less the overflow, amount if applied. *)
Declined == [apply |-> FALSE, next |-> 0, moved |-> 0]
Applied(next, moved) == [apply |-> TRUE, next |-> next, moved |-> moved]

(* ErrCounterOverflow also leaves the counter alone.                       *)
IncrStep(cur, delta) ==
    IF \/ delta > 0 /\ cur > Wrap(MaxInt - delta)
       \/ delta < 0 /\ cur < Wrap(MinInt - delta)
    THEN Declined
    ELSE Applied(Wrap(cur + delta), delta)

TopupApplied(cur, amount, max) ==
    IF cur >= max THEN 0
    ELSE IF cur > Wrap(MaxInt - amount) \/ Wrap(cur + amount) > max
         THEN Wrap(max - cur)
    ELSE amount

TopupStep(cur, amount, max) ==
    LET applied == TopupApplied(cur, amount, max)
        overflow == Wrap(amount - applied)
    IN  IF applied = 0 THEN Declined
        ELSE Applied(Wrap(cur + applied), amount - overflow)

(* Mutant: the difference is compared with left without looking for        *)
(* underflow.                                                              *)
TakeStepUnguarded(cur, amount, left) ==
    IF Wrap(cur - amount) < left THEN Declined
    ELSE Applied(Wrap(cur - amount), -amount)

TakeStep(cur, amount, left) ==
    IF cur < Wrap(MinInt + amount) THEN Declined
    ELSE IF Wrap(cur - amount) < left THEN Declined
    ELSE Applied(Wrap(cur - amount), -amount)

-----------------------------------------------------------------------------
Init ==
    /\ cell = NoCell /\ exp = 0 /\ now = 1 /\ credit = 0 /\ damaged = FALSE

Expired == cell # NoCell /\ exp # 0 /\ exp <= now
Live == cell # NoCell /\ ~Expired

(* The value a step sees.                                                  *)
Current == IF Live THEN ParseCounter(cell).val ELSE 0

(* A TTL of the wire in nanoseconds, an int64: the product wraps around,   *)
(* any number of times.                                                    *)
Duration(ttl) == ((ttl * Milli + MaxInt + 1) % (2 * (MaxInt + 1))) + MinInt

(* resolveTTL refuses a duration that is not positive.                     *)
ResolveTTL(ttl) == ttl = 0 \/ Duration(ttl) > 0

(* Mutant: the duration is added to the clock unconverted.                 *)
DeadlineNanos(ttl) == IF ttl = 0 THEN 0 ELSE now + Duration(ttl)

Deadline(ttl) == IF ttl = 0 THEN 0 ELSE now + (Duration(ttl) \div Milli)

(* Mutant: an update re-arms the expiry of a live counter.                 *)
CounterUpdateRearms(s, ttl) ==
    /\ Live => ParseCounter(cell).ok
    /\ IF s.apply
       THEN /\ cell' = FormatCounter(s.next)
            /\ exp' = Deadline(ttl)
       ELSE /\ cell' = IF Live THEN cell ELSE NoCell
            /\ exp' = IF Live THEN exp ELSE 0
    /\ credit' = (IF Live THEN credit ELSE 0) + s.moved
    /\ damaged' = (damaged /\ Live)
    /\ UNCHANGED now

(* counterUpdate with the outcome s of its step.  An expired counter is    *)
(* deleted, whether or not the step then applies; a live one that does not *)
(* parse is refused.  The write is a patch in place, or an append that     *)
(* keeps the expiry: either way the cell holds the new value.              *)
CounterUpdate(s, ttl) ==
    /\ Live => ParseCounter(cell).ok
    /\ IF s.apply
       THEN /\ cell' = FormatCounter(s.next)
            /\ exp' = IF Live THEN exp ELSE Deadline(ttl)
       ELSE /\ cell' = IF Live THEN cell ELSE NoCell
            /\ exp' = IF Live THEN exp ELSE 0
    /\ credit' = (IF Live THEN credit ELSE 0) + s.moved
    /\ damaged' = (damaged /\ Live)
    /\ UNCHANGED now

Incr(delta, ttl) == ResolveTTL(ttl) /\ CounterUpdate(IncrStep(Current, delta), ttl)
Topup(amount, max, ttl) == ResolveTTL(ttl) /\ CounterUpdate(TopupStep(Current, amount, max), ttl)
Take(amount, left, ttl) == ResolveTTL(ttl) /\ CounterUpdate(TakeStep(Current, amount, left), ttl)

(* A Put makes the key a plain value; a Delete removes it.                 *)
Put(ttl) ==
    /\ ResolveTTL(ttl)
    /\ cell' = PlainCell /\ exp' = Deadline(ttl) /\ credit' = 0 /\ damaged' = TRUE
    /\ UNCHANGED now

Delete ==
    /\ cell # NoCell
    /\ cell' = NoCell /\ exp' = 0 /\ credit' = 0 /\ damaged' = FALSE
    /\ UNCHANGED now

(* The process dies while a patch overwrites the cell: every character is  *)
(* the old or the new one.                                                 *)
Digit(m, i) == (m \div 10 ^ i) % 10

Mixed(c, old, new) ==
    /\ c.sign \in {old.sign, new.sign}
    /\ \A i \in 0 .. Digits - 1 : Digit(c.mag, i) \in {Digit(old.mag, i), Digit(new.mag, i)}

TornPatch(next) ==
    /\ Live /\ ParseCounter(cell).ok
    /\ cell' \in {c \in Cells : Mixed(c, cell, FormatCounter(next))}
    /\ credit' = 0 /\ damaged' = TRUE
    /\ UNCHANGED <<exp, now>>

Tick ==
    /\ now < MaxTime
    /\ now' = now + 1
    /\ UNCHANGED <<cell, exp, credit, damaged>>

Bucket ==
    \E amount \in 0 .. MaxInt, bound \in Int64, ttl \in TTLs :
        Topup(amount, bound, ttl) \/ Take(amount, bound, ttl)

Next ==
    \/ \E delta \in Int64, ttl \in TTLs : Incr(delta, ttl)
    \/ Bucket
    \/ \E next \in Int64 : TornPatch(next)
    \/ \E ttl \in TTLs : Put(ttl)
    \/ Delete \/ Tick

Spec == Init /\ [][Next]_vars

-----------------------------------------------------------------------------
(* Correctness.                                                            *)

(* What the caller has been told adds up: as long as no crash has torn the *)
(* cell, the counter is exactly the sum of what the replies to Incr, Topup *)
(* and Take since its creation reported as moved, with no wrap-around.     *)
RepliesAddUp ==
    /\ (cell = NoCell => credit = 0)
    /\ (cell # NoCell /\ ~damaged)
          => ParseCounter(cell) = [ok |-> TRUE, val |-> credit]

(* The steps compute what their doc comments promise on unbounded numbers, *)
(* for every argument, at every value the counter can have.                *)
StepsExact ==
    LET cur == Current
    IN  /\ \A delta \in Int64 :
              LET s == IncrStep(cur, delta)
              IN  IF cur + delta \in Int64 THEN s.apply /\ s.next = cur + delta ELSE ~s.apply
        /\ \A amount \in 0 .. MaxInt, max \in Int64 :
              LET s == TopupStep(cur, amount, max)
                  room == IF cur >= max THEN 0 ELSE max - cur
                  fits == IF amount <= room THEN amount ELSE room
              IN  IF fits = 0 THEN ~s.apply ELSE s.apply /\ s.next = cur + fits /\ s.moved = fits
        /\ \A amount \in 0 .. MaxInt, left \in Int64 :
              LET s == TakeStep(cur, amount, left)
              IN  IF cur - amount >= left THEN s.apply /\ s.next = cur - amount ELSE ~s.apply

(* A TTL whose nanoseconds fit an int64 gives exactly the deadline it asks *)
(* for; a larger one is refused or, where its product wraps around to a    *)
(* positive number, shortened: no record outlives its TTL (parseTTLMillis, *)
(* resolveTTL).                                                            *)
TTLHonoured ==
    \A ttl \in TTLs \ {0} :
        IF ttl * Milli <= MaxInt THEN ResolveTTL(ttl) /\ Deadline(ttl) = now + ttl
        ELSE ResolveTTL(ttl) => Deadline(ttl) < now + ttl

(* The window is fixed: an update of a live counter never moves its expiry.*)
WindowFixed == [][Live /\ cell' # NoCell /\ cell' # PlainCell => exp' = exp]_vars

-----------------------------------------------------------------------------
(* A token bucket: only Topup and Take, which never fill it above Cap nor  *)
(* drain it below Floor.                                                   *)
CONSTANTS Cap, Debt
Floor == -Debt

ASSUME BucketAssumption == Cap \in 0 .. MaxInt /\ Debt \in 0 .. MaxInt

BucketNext ==
    \/ \E amount \in 0 .. MaxInt, max \in MinInt .. Cap, ttl \in TTLs : Topup(amount, max, ttl)
    \/ \E amount \in 0 .. MaxInt, left \in Floor .. MaxInt, ttl \in TTLs : Take(amount, left, ttl)
    \/ Tick

BucketSpec == Init /\ [][BucketNext]_vars

(* However Topup, Take and expiry interleave, the level stays within the   *)
(* bounds the callers set.                                                 *)
LevelBounded == Current \in Floor .. Cap
=============================================================================
