--------------------------- MODULE OperatorProofs ---------------------------
(***************************************************************************)
(* One breaker under any number of concurrent callers, any classes of      *)
(* errors and any options: at most one probe per HALF_OPEN period, no way  *)
(* out of OPEN before the last cooldown is over, no CLOSED breaker with a  *)
(* cliff or a burst behind it, every error judged, the ring a sliding      *)
(* window, and its incremental sum no further from the samples than the    *)
(* outcomes that were rounded.                                             *)
(*                                                                         *)
(* None of these is inductive alone.  BurstServed rests on what a full     *)
(* list of throttles says of the last trip, the probe flag on every answer *)
(* leaving HALF_OPEN.  IInv is BreakerSound, which each method keeps       *)
(* (CommonTheorems), with what the callers of the period amount to.  The   *)
(* window and the drift rest on RingSteps: what a step does to the ring.   *)
(*                                                                         *)
(* One operator on any buckets, listings and settings, with any failures   *)
(* and stop() at any await: its harm is contained by rules, ceiling and    *)
(* canaries, its requests by the lock, and its log covers what it removed. *)
(* OperatorInv follows the phases: what matched and the ceiling it passed, *)
(* the buckets already sampled, and which events the log has.              *)
(***************************************************************************)
EXTENDS CircuitBreaker, SovereignOperator, CommonTheorems

ProbeCounted ==
  /\ prober \in SUBSET Caller
  /\ \A c, d \in prober : c = d
  /\ IF breaker.state = "HALF_OPEN" THEN breaker.probe <=> prober # {} ELSE prober = {}

IInv ==
  /\ BreakerSound(breaker)
  /\ pc \in [Caller -> {"idle", "inflight"}]
  /\ ProbeCounted

-----------------------------------------------------------------------------
(* How an answer with an error ends: in a trip of its own with the ring as *)
(* it was, or judged with the error in the ring.                           *)
LEMMA FailedShape ==
  ASSUME NEW b, BreakerSound(b), NEW classes, NEW jitter \in Jitters
  PROVE  \E u \in BreakerType :
           \/ u.ring = b.ring /\ Failed(b, classes, jitter) = Trip(u, jitter)
           \/ /\ u.ring = RecordOutcome(b.ring, Scale)
              /\ Failed(b, classes, jitter) = Judged(u, jitter)
<1> DEFINE q == [b EXCEPT !.quarantined = TRUE]
           d == IF "denied" \in classes THEN Denied(b) ELSE b
           t == CountedThrottle(d, classes)
           u == [t EXCEPT !.ring = RecordOutcome(@, Scale)]
<1>1. BreakerTyped(d) /\ d.ring = b.ring
  BY DeniedCounted DEF CountedFrom, BreakerSound
<1>2. BreakerTyped(t) /\ t.ring = b.ring
  <2> HIDE DEF d
  <2> QED
    BY <1>1, ThrottledCounted DEF CountedFrom, CountedThrottle
<1>3. u \in BreakerType /\ u.ring = RecordOutcome(b.ring, Scale)
  <2>1. RingSound(t.ring) /\ Scale \in Int
    BY <1>2, ScaleAssumption DEF BreakerTyped
  <2>2. RecordOutcome(t.ring, Scale) \in RingType
    BY <2>1, RecordOutcomeSound DEF RingSound
  <2> HIDE DEF t
  <2> QED
    BY <1>2, <2>2 DEF BreakerTyped, BreakerType
<1>4. q \in BreakerType /\ q.ring = b.ring
  BY DEF BreakerSound, BreakerTyped, BreakerType
<1>5. Failed(b, classes, jitter) =
        IF "integrity" \in classes THEN Trip(q, jitter)
        ELSE IF HardTrip(d, classes) THEN Trip(d, jitter)
        ELSE IF BurstTrip(t, classes) THEN Trip(t, jitter)
        ELSE Judged(u, jitter)
  BY DEF Failed
<1> HIDE DEF q, d, t, u
<1> QED
  BY <1>1, <1>2, <1>3, <1>4, <1>5 DEF BreakerTyped

(* The same for a batch, which enters the ring first.                      *)
LEMMA BatchShape ==
  ASSUME NEW b, BreakerSound(b), NEW classes, NEW jitter \in Jitters,
         NEW total \in Nat, NEW errorCount \in Nat
  PROVE  \E u : /\ BreakerSound(u) \/ (errorCount # 0 /\ u \in BreakerType)
                /\ u.ring = RecordOutcome(b.ring, BatchRatio(total, errorCount))
                /\ LET c == BatchDone(b, total, errorCount, classes, jitter)
                   IN  \/ errorCount = 0 /\ c = Succeeded(u)
                       \/ errorCount # 0 /\ (c = Trip(u, jitter) \/ c = Judged(u, jitter))
<1> DEFINE r == RecordOutcome(b.ring, BatchRatio(total, errorCount))
           seen == [b EXCEPT !.ring = RecordOutcome(@, BatchRatio(total, errorCount))]
           q == [seen EXCEPT !.quarantined = TRUE]
           d == IF "denied" \in classes THEN Denied(seen) ELSE [seen EXCEPT !.denied = 0]
           t == CountedThrottle(d, classes)
<1>1. BreakerSound(seen) /\ seen.ring = r
  <2>1. RingSound(r)
    BY BatchRatioInt, RecordOutcomeSound DEF BreakerSound, BreakerTyped
  <2>2. seen = [b EXCEPT !.ring = r] /\ seen.ring = r
    BY DEF BreakerType, BreakerSound, BreakerTyped
  <2> HIDE DEF seen, r
  <2> QED
    BY <2>1, <2>2, SetFields
<1>2. BatchDone(b, total, errorCount, classes, jitter) =
        IF errorCount = 0 THEN Succeeded(seen)
        ELSE IF "integrity" \in classes THEN Trip(q, jitter)
        ELSE IF HardTrip(d, classes) THEN Trip(d, jitter)
        ELSE IF BurstTrip(t, classes) THEN Trip(t, jitter)
        ELSE Judged(t, jitter)
  BY DEF BatchDone
<1> HIDE DEF seen, r
<1>3. BreakerTyped(d) /\ d.ring = r
  <2>1. [seen EXCEPT !.denied = 0].ring = r
    BY <1>1 DEF BreakerType, BreakerSound, BreakerTyped
  <2> QED
    BY <1>1, <2>1, DeniedCounted, SetFields DEF CountedFrom, BreakerSound
<1>4. BreakerTyped(t) /\ t.ring = r
  <2> HIDE DEF d
  <2> QED
    BY <1>3, ThrottledCounted DEF CountedFrom, CountedThrottle
<1>5. q \in BreakerType /\ q.ring = r
  BY <1>1 DEF BreakerSound, BreakerTyped, BreakerType
<1> HIDE DEF q, d, t
<1> QED
  BY <1>1, <1>2, <1>3, <1>4, <1>5 DEF BreakerTyped, r

(* A trip opens the breaker and leaves the ring alone; a record that is    *)
(* judged and still CLOSED was within the threshold.                       *)
LEMMA TripShape ==
  ASSUME NEW b \in BreakerType, NEW jitter
  PROVE  /\ Trip(b, jitter).state = "OPEN" /\ Trip(b, jitter).ring = b.ring
         /\ Judged(b, jitter).ring = b.ring
         /\ Judged(b, jitter).state # "HALF_OPEN"
         /\ Judged(b, jitter).state = "CLOSED" =>
              b.ring.count < MinSamples \/ ~RateAbove(b.ring, ThresholdPercent)
<1>1. Trip(b, jitter).state = "OPEN" /\ Trip(b, jitter).ring = b.ring
  BY DEF Trip, BreakerType
<1>2. b.ring.count \in Nat /\ MinSamples \in Nat
  BY CooldownAssumption, WindowAssumption DEF BreakerType, RingType
<1> QED
  BY <1>1, <1>2 DEF Judged, BreakerType

LEMMA SucceededShape ==
  ASSUME NEW b \in BreakerType
  PROVE  /\ Succeeded(b).state # "HALF_OPEN"
         /\ Succeeded(b).ring = RecordOutcome(b.ring, 0)
BY DEF Succeeded, BreakerType

(* No answer leaves the breaker HALF_OPEN: a success closes it, an error   *)
(* opens it.                                                               *)
LEMMA AnswersLeave ==
  ASSUME NEW b, BreakerSound(b), NEW classes, NEW jitter \in Jitters,
         NEW total \in Nat, NEW errorCount \in Nat
  PROVE  /\ Succeeded(b).state # "HALF_OPEN"
         /\ Failed(b, classes, jitter).state # "HALF_OPEN"
         /\ BatchDone(b, total, errorCount, classes, jitter).state # "HALF_OPEN"
<1>1. \A c : BreakerSound(c) => c \in BreakerType
  BY DEF BreakerSound, BreakerTyped
<1>2. Failed(b, classes, jitter).state # "HALF_OPEN"
  BY FailedShape, TripShape
<1>3. BatchDone(b, total, errorCount, classes, jitter).state # "HALF_OPEN"
  BY <1>1, BatchShape, TripShape, SucceededShape
<1> QED
  BY <1>1, <1>2, <1>3, SucceededShape

(* What asking does to the state and the flag.                             *)
LEMMA AskedProbe ==
  ASSUME NEW b \in BreakerType
  PROVE  /\ MayExecute(b) /\ Asked(b).state = "HALF_OPEN" =>
              Asked(b).probe /\ (b.state = "HALF_OPEN" => ~b.probe)
         /\ ~MayExecute(b) => /\ Asked(b) = Refresh(b)
                              /\ Asked(b).state = "HALF_OPEN" => Asked(b).probe /\ b.state = "HALF_OPEN" /\ b.probe
         /\ b.state = "CLOSED" => Asked(b).state = "CLOSED"
         /\ Refresh(b).state = "HALF_OPEN" =>
              \/ Refresh(b) = b /\ b.state = "HALF_OPEN"
              \/ ~Refresh(b).probe /\ b.state = "OPEN"
BY DEF MayExecute, Asked, Refresh, BreakerType, States

(* The initial state satisfies the invariant.                              *)
LEMMA InitIInv == Init => IInv
BY NewBreakerSound DEF Init, IInv, ProbeCounted, NewBreaker

(* Every step keeps it.                                                    *)
LEMMA NextIInv == IInv /\ [Next]_vars => IInv'
<1> SUFFICES ASSUME IInv, [Next]_vars PROVE IInv'
  OBVIOUS
<1> USE DEF IInv
<1>0. breaker \in BreakerType
  BY DEF BreakerSound, BreakerTyped
<1>1. ASSUME NEW c \in Caller, Admit(c) PROVE IInv'
  <2>1. BreakerSound(breaker')
    BY <1>1, RefreshSound DEF Admit
  <2>2. pc' \in [Caller -> {"idle", "inflight"}]
    BY <1>1 DEF Admit
  <2>3. ProbeCounted'
    BY <1>0, <1>1, AskedProbe DEF Admit, ProberAfter, ProbeCounted
  <2> QED
    BY <2>1, <2>2, <2>3
<1>2. ASSUME NEW c \in Caller, Refuse(c) PROVE IInv'
  <2>1. BreakerSound(breaker')
    BY <1>2, RefreshSound DEF Refuse
  <2>2. ProbeCounted'
    BY <1>0, <1>2, AskedProbe DEF Refuse, ProberAfter, ProbeCounted
  <2> QED
    BY <1>2, <2>1, <2>2 DEF Refuse
<1>3. ASSUME NEW c \in Caller, Answered(c), BreakerSound(breaker'),
             breaker'.state # "HALF_OPEN"
      PROVE  IInv'
  BY <1>3 DEF Answered, ProberAfter, ProbeCounted
<1>4. ASSUME NEW c \in Caller, Success(c) PROVE IInv'
  <2>1. 0 \in Nat /\ \E jitter : jitter \in Jitters
    BY CooldownAssumption DEF Jitters
  <2>2. BreakerSound(breaker') /\ breaker'.state # "HALF_OPEN"
    BY <1>4, <2>1, SucceededSound, AnswersLeave DEF Success
  <2> QED
    BY <1>3, <1>4, <2>2 DEF Success
<1>5. ASSUME NEW c \in Caller, NEW classes \in ErrorClasses, Failure(c, classes) PROVE IInv'
  <2>1. 0 \in Nat
    OBVIOUS
  <2>2. BreakerSound(breaker') /\ breaker'.state # "HALF_OPEN"
    BY <1>5, <2>1, FailedSound, AnswersLeave DEF Failure
  <2> QED
    BY <1>3, <1>5, <2>2 DEF Failure
<1>6. ASSUME NEW c \in Caller, NEW errorCount \in 0..BatchTotal, NEW classes \in ErrorClasses,
             BatchAnswer(c, errorCount, classes)
      PROVE  IInv'
  <2>1. errorCount \in Nat /\ BatchTotal \in Nat
    BY BatchAssumption
  <2>2. BreakerSound(breaker') /\ breaker'.state # "HALF_OPEN"
    BY <1>6, <2>1, BatchDoneSound, AnswersLeave DEF BatchAnswer
  <2> QED
    BY <1>3, <1>6, <2>2 DEF BatchAnswer
<1>7. ASSUME NEW c \in Caller, Unreported(c) PROVE IInv'
  BY <1>7 DEF Unreported, Answered, ProberAfter, ProbeCounted
<1>8. ASSUME Look PROVE IInv'
  <2>1. BreakerSound(breaker')
    BY <1>8, RefreshSound DEF Look
  <2>2. ProbeCounted'
    BY <1>0, <1>8, AskedProbe DEF Look, ProberAfter, ProbeCounted
  <2> QED
    BY <1>8, <2>1, <2>2 DEF Look
<1>9. ASSUME ResetProbe PROVE IInv'
  BY <1>9, NewBreakerSound DEF ResetProbe, ProberAfter, ProbeCounted, NewBreaker
<1>10. ASSUME Tick PROVE IInv'
  <2>1. BreakerSound(breaker')
    BY <1>10, AgedSound DEF Tick
  <2>2. breaker'.state = breaker.state /\ breaker'.probe = breaker.probe
    BY <1>0, <1>10 DEF Tick, Aged, BreakerType
  <2> QED
    BY <1>10, <2>1, <2>2 DEF Tick, ProbeCounted
<1>11. CASE UNCHANGED vars
  BY <1>11 DEF vars, ProbeCounted
<1> QED
  BY <1>1, <1>2, <1>4, <1>5, <1>6, <1>7, <1>8, <1>9, <1>10, <1>11 DEF Next

LEMMA BreakerInvariant == Spec => []IInv
BY InitIInv, NextIInv, PTL DEF Spec

-----------------------------------------------------------------------------
(* At most one call is admitted per HALF_OPEN period, and the flag says    *)
(* whether one was: canExecute and every answer, in any order.             *)
THEOREM BreakerProbeIsolated == Spec => []ProbeIsolated
<1>1. IInv => ProbeIsolated
  BY DEF IInv, ProbeCounted, ProbeIsolated
<1> QED
  BY <1>1, BreakerInvariant, PTL

(* refreshState is the only way out of OPEN but reset, and it waits for    *)
(* the cooldown of the last trip.                                          *)
THEOREM BreakerCooldownServed == Spec => []CooldownServed
<1>1. IInv => CooldownServed
  BY DEF IInv, BreakerSound, CooldownWaited, CooldownServed
<1> QED
  BY <1>1, BreakerInvariant, PTL

(* The record stays within its types, and a CLOSED breaker has no cliff    *)
(* and no burst behind it: a full list of throttles was full at the last   *)
(* trip, and the cooldown since outlasts them.                             *)
THEOREM BreakerLimitsServed == Spec => []LimitsServed
<1>1. ASSUME IInv PROVE TypeOK /\ CliffServed
  BY <1>1 DEF IInv, BreakerSound, BreakerTyped, CliffTripped, CliffServed, TypeOK, ProbeCounted
<1>2. ASSUME IInv PROVE BurstServed
  <2> DEFINE ages == breaker.throttles
             n == Len(Unexpired(ages))
             m == Len(ages)
  <2>1. SUFFICES ASSUME breaker.state = "CLOSED" PROVE n < 3
    BY DEF BurstServed
  <2>2. ages \in ThrottlesType /\ OldestFirst(ages) /\ breaker \in BreakerType
    BY <1>2, BreakerFields DEF IInv, BreakerSound, BreakerTyped
  <2>3. m \in 0..3 /\ n \in 0..3 /\ n <= m
    BY <2>2, ThrottlesLen, UnexpiredSound
  <2>4. CASE m = 3
    <3>1. /\ breaker.tripCount > 0
          /\ \A i \in 1..3 : ages[i] >= AtMost(ThrottleSpan, breaker.sinceTrip)
      BY <1>2, <2>4 DEF IInv, BreakerSound, BurstTripped
    <3>2. breaker.cooldown >= BaseCooldown /\ breaker.sinceTrip >= breaker.cooldown
      BY <1>2, <2>1, <3>1 DEF IInv, BreakerSound, CooldownWaited
    <3>3. breaker.sinceTrip \in Nat /\ breaker.cooldown \in Nat
      BY <2>2, BreakerFields, LongestCooldownNat
    <3>4. AtMost(ThrottleSpan, breaker.sinceTrip) = ThrottleSpan
      BY <3>2, <3>3, BurstAssumption, CooldownAssumption DEF AtMost
    <3>5. \A i \in 1..m : ages[i] >= ThrottleSpan
      BY <2>4, <3>1, <3>4
    <3>6. n = 0
      BY <2>2, <3>5, UnexpiredSound
    <3> QED
      BY <3>6
  <2>5. CASE m # 3
    <3> HIDE DEF n, m
    <3> QED
      BY <2>3, <2>5
  <2> QED
    BY <2>4, <2>5
<1> QED
  BY <1>1, <1>2, BreakerInvariant, PTL DEF LimitsServed
-----------------------------------------------------------------------------
(* A success in the ring is a 0 at the slot the pointer stood at.          *)
LEMMA ZeroStored ==
  ASSUME NEW r, RingSound(r)
  PROVE  /\ RecordOutcome(r, 0).buffer[r.pointer] = 0
         /\ RecordOutcome(RecordOutcome(r, 0), 0).buffer[r.pointer] = 0
<1> DEFINE s == RecordOutcome(r, 0)
<1>1. Clamped(0) = 0 /\ Float32[Clamped(0)] = 0
  BY ScaleAssumption, Float32Assumption DEF Clamped, AtLeast, AtMost
<1>2. RingSound(s)
  BY RecordOutcomeSound
<1>3. s.buffer[r.pointer] = 0
  BY <1>1 DEF RecordOutcome, Stored, RingSound, RingType
<1>4. RecordOutcome(s, 0).buffer = [s.buffer EXCEPT ![s.pointer] = 0]
  BY <1>1 DEF RecordOutcome, Stored
<1>5. r.pointer \in Slots /\ s.buffer \in [Slots -> 0..Scale]
  BY <1>2 DEF RingSound, RingType
<1> HIDE DEF s
<1>6. RecordOutcome(s, 0).buffer[r.pointer] = 0
  BY <1>3, <1>4, <1>5
<1> QED
  BY <1>3, <1>6 DEF s

(* An error answered while CLOSED, and that leaves the breaker CLOSED, was *)
(* judged with itself in the ring: recordError and recordBatchResult       *)
(* record before they compare.                                             *)
THEOREM BreakerErrorRateJudged == Spec => ErrorRateJudged
<1> DEFINE Within == \/ breaker'.ring.count < MinSamples
                     \/ ~RateAbove(breaker'.ring, ThresholdPercent)
           Judging == ErrorSampled /\ breaker.state = "CLOSED" /\ breaker'.state = "CLOSED"
<1>1. ASSUME IInv, [Next]_vars, Judging PROVE Within
  <2>1. BreakerSound(breaker) /\ breaker \in BreakerType /\ RingSound(breaker.ring)
    BY <1>1 DEF IInv, BreakerSound, BreakerTyped
  <2>2. /\ breaker'.ring # breaker.ring
        /\ breaker'.ring # RecordOutcome(breaker.ring, 0)
        /\ breaker'.ring # RecordOutcome(RecordOutcome(breaker.ring, 0), 0)
    <3>1. breaker'.ring.buffer[breaker.ring.pointer] # 0
      BY <1>1 DEF ErrorSampled
    <3> QED
      BY <1>1, <2>1, <3>1, ZeroStored DEF ErrorSampled
  <2>3. CASE \E c \in Caller, classes \in ErrorClasses : Failure(c, classes)
    <3>1. PICK classes \in ErrorClasses, jitter \in Jitters :
            breaker' = Failed(breaker, classes, jitter)
      BY <2>3 DEF Failure
    <3> QED
      BY <1>1, <2>1, <3>1, FailedShape, TripShape
  <2>4. CASE \E c \in Caller, errorCount \in 0..BatchTotal, classes \in ErrorClasses :
               BatchAnswer(c, errorCount, classes)
    <3>1. PICK errorCount \in 0..BatchTotal, classes \in ErrorClasses, jitter \in Jitters :
            breaker' = BatchDone(breaker, BatchTotal, errorCount, classes, jitter)
      BY <2>4 DEF BatchAnswer
    <3>2. errorCount \in Nat /\ BatchTotal \in Nat
      BY BatchAssumption
    <3>3. PICK u : /\ BreakerSound(u) \/ (errorCount # 0 /\ u \in BreakerType)
                   /\ u.ring = RecordOutcome(breaker.ring, BatchRatio(BatchTotal, errorCount))
                   /\ \/ errorCount = 0 /\ breaker' = Succeeded(u)
                      \/ /\ errorCount # 0
                         /\ breaker' = Trip(u, jitter) \/ breaker' = Judged(u, jitter)
      BY <2>1, <3>1, <3>2, BatchShape
    <3>4. CASE errorCount = 0
      <4>1. BatchRatio(BatchTotal, 0) = 0
        BY <3>2, ScaleAssumption DEF BatchRatio, AtLeast
      <4>2. breaker'.ring = RecordOutcome(RecordOutcome(breaker.ring, 0), 0)
        BY <3>3, <3>4, <4>1, SucceededShape DEF BreakerSound, BreakerTyped
      <4> QED
        BY <2>2, <4>2
    <3>5. CASE errorCount # 0
      BY <1>1, <3>3, <3>5, TripShape DEF BreakerSound, BreakerTyped
    <3> QED
      BY <3>4, <3>5
  <2>5. ASSUME NEW c \in Caller, Success(c) PROVE FALSE
    BY <2>1, <2>2, <2>5, SucceededShape DEF Success
  <2>6. ASSUME NEW c \in Caller, Admit(c) \/ Refuse(c) PROVE FALSE
    BY <2>1, <2>2, <2>6 DEF Admit, Refuse, Asked, Refresh, BreakerType
  <2>7. ASSUME NEW c \in Caller, Unreported(c) PROVE FALSE
    BY <2>2, <2>7 DEF Unreported
  <2>8. ASSUME Look PROVE FALSE
    BY <2>1, <2>2, <2>8 DEF Look, Refresh, BreakerType
  <2>9. ASSUME ResetProbe PROVE FALSE
    BY <1>1, <2>1, <2>9, AskedProbe DEF ResetProbe
  <2>10. ASSUME Tick PROVE FALSE
    BY <2>1, <2>2, <2>10 DEF Tick, Aged, BreakerType
  <2>11. CASE UNCHANGED vars
    BY <2>2, <2>11 DEF vars
  <2> QED
    BY <1>1, <2>3, <2>4, <2>5, <2>6, <2>7, <2>8, <2>9, <2>10, <2>11 DEF Next
<1>2. IInv /\ [Next]_vars => [Judging => Within]_vars
  BY <1>1
<1> QED
  BY <1>2, BreakerInvariant, PTL DEF Spec, ErrorRateJudged

-----------------------------------------------------------------------------
\* the slot that holds the i-th oldest sample
SlotOf(r, i) == (r.pointer - r.count + i - 1 + Window) % Window

LEMMA Wrapped ==
  ASSUME NEW a \in 0..(2 * Window) - 1
  PROVE  a % Window = IF a < Window THEN a ELSE a - Window
BY WindowAssumption

LEMMA SlotFound ==
  ASSUME NEW r, RingSound(r), NEW i \in 1..r.count
  PROVE  SlotOf(r, i) = IF r.count < Window THEN i - 1
                        ELSE IF r.pointer + i - 1 < Window THEN r.pointer + i - 1
                        ELSE r.pointer + i - 1 - Window
<1>1. r.pointer \in 0..Window - 1 /\ r.count \in 0..Window /\ Window \in Nat \ {0}
  BY WindowAssumption DEF RingSound, RingType, Slots
<1>2. CASE r.count < Window
  <2> DEFINE a == r.pointer - r.count + i - 1 + Window
  <2>1. a = i - 1 + Window
    BY <1>1, <1>2 DEF RingSound
  <2>2. a \in 0..(2 * Window) - 1 /\ ~(a < Window) /\ a - Window = i - 1
    BY <1>1, <1>2, <2>1
  <2>3. SlotOf(r, i) = a % Window
    BY DEF SlotOf
  <2> HIDE DEF a
  <2> QED
    BY <1>2, <2>2, <2>3, Wrapped
<1>3. CASE ~(r.count < Window)
  <2> DEFINE a == r.pointer - r.count + i - 1 + Window
  <2>1. a = r.pointer + i - 1 /\ a \in 0..(2 * Window) - 1
    BY <1>1, <1>3
  <2>2. SlotOf(r, i) = a % Window
    BY DEF SlotOf
  <2> HIDE DEF a
  <2> QED
    BY <1>1, <1>3, <2>1, <2>2, Wrapped
<1> QED
  BY <1>2, <1>3

(* The samples the ring still knows are a sequence of outcomes.            *)
LEMMA RecentSeq ==
  ASSUME NEW r, RingSound(r)
  PROVE  /\ Recent(r) \in Seq(0..Scale) /\ Len(Recent(r)) = r.count
         /\ r.count \in 0..Window
         /\ \A i \in 1..r.count : /\ SlotOf(r, i) \in Slots
                                  /\ Recent(r)[i] = r.buffer[SlotOf(r, i)]
<1> DEFINE n == r.count
           s == Recent(r)
<1>1. /\ r.buffer \in [Slots -> 0..Scale] /\ n \in 0..Window
      /\ r.pointer \in 0..Window - 1 /\ Window \in Nat \ {0}
  BY WindowAssumption DEF RingSound, RingType, Slots
<1>2. \A i \in 1..n : SlotOf(r, i) \in Slots
  BY <1>1, SlotFound DEF Slots
<1>3. s = [i \in 1..n |-> r.buffer[SlotOf(r, i)]]
  BY DEF Recent, SlotOf
<1> HIDE DEF n, s
<1>4. s \in [1..n -> 0..Scale] /\ \A i \in 1..n : s[i] = r.buffer[SlotOf(r, i)]
  BY <1>1, <1>2, <1>3
<1>5. s \in Seq(0..Scale)
  <2>1. n \in Nat
    BY <1>1
  <2> QED
    BY <1>4, <2>1, SeqDef, Zenon
<1>6. Len(s) = n
  <2> DEFINE l == Len(s)
  <2>1. l \in Nat /\ DOMAIN s = 1..l
    BY <1>5, LenProperties
  <2>2. 1..l = 1..n
    <3> HIDE DEF l
    <3> QED
      BY <1>4, <2>1
  <2> HIDE DEF l
  <2>3. l = n
    BY <1>1, <2>1, <2>2
  <2> QED
    BY <2>3 DEF l
<1> QED
  BY <1>1, <1>2, <1>4, <1>5, <1>6 DEF n, s

(* recordOutcome slides the window by one.                                 *)
LEMMA RecordOutcomeSlides ==
  ASSUME NEW r, RingSound(r), NEW ratio \in Int
  PROVE  Recent(RecordOutcome(r, ratio)) =
           Sliding!Newest(Append(Recent(r), Float32[Clamped(ratio)]))
<1> DEFINE v   == Float32[Clamped(ratio)]
           q   == RecordOutcome(r, ratio)
           s   == Recent(r)
           t   == Recent(q)
           all == Append(s, v)
           n   == r.count
           p   == r.pointer
<1>1. v \in 0..Scale
  BY StoredType
<1>2. RingSound(q)
  BY RecordOutcomeSound
<1>3. /\ r.buffer \in [Slots -> 0..Scale] /\ n \in 0..Window /\ p \in Slots
      /\ p \in 0..Window - 1 /\ Window \in Nat \ {0} /\ (n < Window => p = n)
  BY WindowAssumption DEF RingSound, RingType, Slots
<1>4. /\ q.count = IF n < Window THEN n + 1 ELSE n
      /\ q.pointer = IF p + 1 < Window THEN p + 1 ELSE 0
      /\ q.buffer = [r.buffer EXCEPT ![p] = v]
  <2>1. p + 1 \in 0..(2 * Window) - 1
    BY <1>3
  <2> QED
    BY <1>3, <2>1, Wrapped DEF RecordOutcome, Stored
<1>5. /\ s \in Seq(0..Scale) /\ Len(s) = n
      /\ \A i \in 1..n : SlotOf(r, i) \in Slots /\ s[i] = r.buffer[SlotOf(r, i)]
  BY RecentSeq
<1>6. /\ t \in Seq(0..Scale) /\ Len(t) = q.count
      /\ \A i \in 1..q.count : SlotOf(q, i) \in Slots /\ t[i] = q.buffer[SlotOf(q, i)]
  BY <1>2, RecentSeq
<1>7. \A i \in 1..n : SlotOf(r, i) = IF n < Window THEN i - 1
                                     ELSE IF p + i - 1 < Window THEN p + i - 1
                                     ELSE p + i - 1 - Window
  BY SlotFound
<1>8. \A i \in 1..q.count :
        SlotOf(q, i) = IF q.count < Window THEN i - 1
                       ELSE IF q.pointer + i - 1 < Window THEN q.pointer + i - 1
                       ELSE q.pointer + i - 1 - Window
  BY <1>2, SlotFound
<1> HIDE DEF s, n, v, q, t, p
<1>9. /\ all \in Seq(0..Scale) /\ all # <<>> /\ Len(all) = n + 1
      /\ \A i \in 1..n : all[i] = s[i]
      /\ all[n + 1] = v
  <2> DEFINE l == Len(s)
  <2>1. /\ all \in Seq(0..Scale) /\ all # <<>> /\ Len(all) = l + 1
        /\ \A i \in 1..l : all[i] = s[i]
        /\ all[l + 1] = v
    <3>1. s \in Seq(0..Scale) /\ v \in 0..Scale
      BY <1>1, <1>5
    <3> DEFINE S == 0..Scale
    <3>2. s \in Seq(S) /\ v \in S
      BY <3>1
    <3> HIDE DEF l, S
    <3>3. /\ all \in Seq(S) /\ all # <<>> /\ Len(all) = Len(s) + 1
          /\ \A i \in 1..Len(s) : all[i] = s[i]
          /\ all[Len(s) + 1] = v
      BY <3>2, AppendProperties
    <3> QED
      BY <3>3 DEF l, S
  <2>2. l = n
    BY <1>5
  <2> HIDE DEF l, all
  <2> QED
    BY <2>1, <2>2
<1> HIDE DEF all
<1>10. CASE n < Window
  <2>1. \A i \in 1..n + 1 : SlotOf(q, i) = i - 1 /\ (i # n + 1 => i \in 1..n /\ SlotOf(r, i) = i - 1)
    BY <1>3, <1>4, <1>7, <1>8, <1>10
  <2>2. \A i \in 1..n + 1 : t[i] = all[i]
    <3>1. SUFFICES ASSUME NEW i \in 1..n + 1 PROVE t[i] = all[i]
      OBVIOUS
    <3>2. t[i] = q.buffer[i - 1] /\ i - 1 \in Slots
      BY <1>4, <1>6, <1>10, <2>1
    <3>3. CASE i = n + 1
      BY <1>3, <1>4, <1>9, <1>10, <3>2, <3>3
    <3>4. CASE i # n + 1
      <4>1. i - 1 # p
        BY <1>3, <1>10, <3>4
      <4> QED
        BY <1>3, <1>4, <1>5, <1>9, <2>1, <3>2, <3>4, <4>1
    <3> QED
      BY <3>3, <3>4
  <2>3. t = all
    <3>1. Len(t) = n + 1 /\ Len(all) = n + 1
      BY <1>4, <1>6, <1>9, <1>10
    <3> QED
      BY <1>6, <1>9, <2>2, <3>1, SeqEqual
  <2>4. Sliding!Newest(all) = all
    <3>1. ~(n + 1 > Window)
      BY <1>3, <1>10
    <3> QED
      BY <1>9, <3>1 DEF Sliding!Newest
  <2> QED
    BY <2>3, <2>4 DEF s, q, t, all, v
<1>11. CASE ~(n < Window)
  <2>1. n = Window /\ q.count = Window
    BY <1>3, <1>4, <1>11
  <2>2. Sliding!Newest(all) = Tail(all)
    <3>1. n + 1 > Window
      BY <1>3, <2>1
    <3> QED
      BY <1>9, <3>1 DEF Sliding!Newest
  <2> DEFINE u == Tail(all)
  <2>3. /\ u \in Seq(0..Scale) /\ Len(u) = (n + 1) - 1
        /\ \A i \in 1..Len(u) : u[i] = all[i + 1]
    BY <1>9, HeadTailProperties
  <2>4. (n + 1) - 1 = Window
    BY <1>3, <2>1
  <2>5. Len(u) = Window /\ \A i \in 1..Window : u[i] = all[i + 1]
    BY <2>3, <2>4
  <2> HIDE DEF u
  <2>6. \A i \in 1..Window : t[i] = u[i]
    <3>1. SUFFICES ASSUME NEW i \in 1..Window PROVE t[i] = u[i]
      OBVIOUS
    <3>2. t[i] = q.buffer[SlotOf(q, i)] /\ SlotOf(q, i) \in Slots
      BY <1>6, <2>1
    <3>3. CASE i = Window
      <4>1. SlotOf(q, i) = p
        BY <1>3, <1>4, <1>8, <2>1, <3>3
      <4> QED
        BY <1>3, <1>4, <1>9, <2>1, <2>5, <3>2, <3>3, <4>1
    <3>4. CASE i # Window
      <4>1. i + 1 \in 1..n /\ SlotOf(q, i) = SlotOf(r, i + 1) /\ SlotOf(q, i) # p
        <5>1. i \in 1..q.count /\ i + 1 \in 1..n
          BY <1>3, <2>1, <3>4
        <5>2. SlotOf(q, i) = IF q.pointer + i - 1 < Window THEN q.pointer + i - 1
                             ELSE q.pointer + i - 1 - Window
          BY <1>3, <1>8, <2>1, <5>1
        <5>3. SlotOf(r, i + 1) = IF p + (i + 1) - 1 < Window THEN p + (i + 1) - 1
                                 ELSE p + (i + 1) - 1 - Window
          BY <1>7, <1>11, <5>1
        <5> HIDE DEF SlotOf
        <5> QED
          BY <1>3, <1>4, <2>1, <3>4, <5>1, <5>2, <5>3
      <4>2. t[i] = r.buffer[SlotOf(r, i + 1)]
        BY <1>3, <1>4, <3>2, <4>1
      <4> QED
        BY <1>5, <1>9, <2>5, <4>1, <4>2
    <3> QED
      BY <3>3, <3>4
  <2>7. t = u
    BY <1>6, <2>1, <2>3, <2>5, <2>6, SeqEqual
  <2> QED
    BY <2>2, <2>7 DEF s, q, t, all, v, u
<1> QED
  BY <1>10, <1>11

(* The sum of the array is the sum of the samples in its window: the       *)
(* slots are the same samples under other names, and what was never        *)
(* written is 0.                                                           *)
LEMMA SumOfRecent ==
  ASSUME NEW r, RingSound(r)
  PROVE  SumFunctionOnSet(r.buffer, Slots) = SumFunctionOnSet(Recent(r), 1..r.count)
<1> DEFINE n == r.count
           p == r.pointer
           s == Recent(r)
           A == 1..n
           h == [i \in A |-> SlotOf(r, i)]
<1>1. /\ r.buffer \in [Slots -> 0..Scale] /\ n \in 0..Window /\ p \in 0..Window - 1
      /\ Window \in Nat \ {0} /\ Scale \in Nat
  BY WindowAssumption, ScaleAssumption DEF RingSound, RingType, Slots
<1>2. \A i \in A : SlotOf(r, i) \in Slots /\ s[i] = r.buffer[SlotOf(r, i)]
  BY RecentSeq
<1>3. \A i \in A : SlotOf(r, i) = IF n < Window THEN i - 1
                                  ELSE IF p + i - 1 < Window THEN p + i - 1
                                  ELSE p + i - 1 - Window
  BY SlotFound
<1>4. IsFiniteSet(A)
  <2>1. 1 \in Int /\ n \in Int
    BY <1>1
  <2> QED
    BY <2>1, FS_Interval
<1>5. \A i \in A : s[i] \in Int
  BY <1>1, <1>2
<1>6. ASSUME NEW B, \A i \in A : SlotOf(r, i) \in B, \A b \in B : \E i \in A : SlotOf(r, i) = b
      PROVE  SumFunctionOnSet(s, A) = SumFunctionOnSet(r.buffer, B)
  <2>1. h \in [A -> B] /\ \A i \in A : h[i] = SlotOf(r, i)
    BY <1>6
  <2>2. \A i, j \in A : h[i] = h[j] => i = j
    <3>1. SUFFICES ASSUME NEW i \in A, NEW j \in A, SlotOf(r, i) = SlotOf(r, j) PROVE i = j
      BY <2>1
    <3> HIDE DEF SlotOf, n, p
    <3> QED
      BY <1>1, <1>3, <3>1
  <2> HIDE DEF h, A, s
  <2> QED
    BY <1>2, <1>4, <1>5, <1>6, <2>1, <2>2, SumRenamed
<1>7. CASE n < Window
  <2> DEFINE B == 0..n - 1
  <2>1. \A i \in A : SlotOf(r, i) \in B
    BY <1>1, <1>3, <1>7
  <2>2. \A b \in B : \E i \in A : SlotOf(r, i) = b
    <3>1. \A b \in B : b + 1 \in A /\ (b + 1) - 1 = b
      BY <1>1
    <3>2. \A b \in B : SlotOf(r, b + 1) = (b + 1) - 1
      BY <1>3, <1>7, <3>1
    <3> QED
      BY <3>1, <3>2
  <2>3. B \subseteq Slots /\ \A x \in Slots \ B : r.buffer[x] = 0
    BY <1>1, <1>7 DEF RingSound, Slots
  <2>4. \A x \in Slots : r.buffer[x] \in Int
    BY <1>1
  <2> HIDE DEF A, s, B
  <2>5. SumFunctionOnSet(r.buffer, Slots) = SumFunctionOnSet(r.buffer, B)
    BY <2>3, <2>4, SlotsFinite, SumOfNonzero
  <2>6. SumFunctionOnSet(s, A) = SumFunctionOnSet(r.buffer, B)
    BY <1>6, <2>1, <2>2
  <2> QED
    BY <1>1, <2>5, <2>6 DEF A, s
<1>8. CASE ~(n < Window)
  <2>1. n = Window
    BY <1>1, <1>8
  <2>2. \A b \in Slots : \E i \in A : SlotOf(r, i) = b
    <3>1. SUFFICES ASSUME NEW b \in Slots PROVE \E i \in A : SlotOf(r, i) = b
      OBVIOUS
    <3> DEFINE i == IF b >= p THEN b - p + 1 ELSE b - p + Window + 1
    <3>2. i \in A
      <4>1. b \in 0..Window - 1 /\ p \in 0..Window - 1 /\ n = Window /\ Window \in Nat
        BY <1>1, <2>1 DEF Slots
      <4> HIDE DEF p, n
      <4>2. i \in 1..n
        BY <4>1
      <4> QED
        BY <4>2
    <3>3. SlotOf(r, i) = b
      <4>1. SlotOf(r, i) = IF p + i - 1 < Window THEN p + i - 1 ELSE p + i - 1 - Window
        BY <1>3, <1>8, <3>2
      <4>2. (IF p + i - 1 < Window THEN p + i - 1 ELSE p + i - 1 - Window) = b
        BY <1>1 DEF Slots
      <4> QED
        BY <4>1, <4>2
    <3> QED
      BY <3>2, <3>3
  <2> HIDE DEF A, s
  <2> QED
    BY <1>1, <1>2, <1>6, <2>2 DEF A, s
<1> QED
  BY <1>7, <1>8

LEMMA RecentEmpty == Recent(EmptyRing) = <<>>
<1>1. /\ Recent(EmptyRing) \in Seq(0..Scale) /\ Len(Recent(EmptyRing)) = 0
  BY EmptyRingSound, RecentSeq DEF EmptyRing
<1> QED
  BY <1>1, EmptySeq

(* What a step of the breaker does to the ring and to the count of rounded *)
(* outcomes: nothing, one outcome, a clean batch recorded twice, or reset. *)
OutcomeRecorded(ratio) ==
  /\ breaker'.ring = RecordOutcome(breaker.ring, ratio)
  /\ rounded' = IF Rounded(ratio) THEN rounded + 1 ELSE rounded

RecordedTwice ==
  /\ breaker'.ring = RecordOutcome(RecordOutcome(breaker.ring, 0), 0)
  /\ rounded' = rounded

RingReset == breaker'.ring = EmptyRing /\ rounded' = 0

RingKept == breaker'.ring = breaker.ring /\ rounded' = rounded

\* 0 and 1 are stored as they are
LEMMA ExactOutcomes ==
  /\ Clamped(0) = 0 /\ Clamped(Scale) = Scale
  /\ Float32[Clamped(0)] = 0 /\ ~Rounded(0) /\ ~Rounded(Scale)
BY ScaleAssumption, Float32Assumption DEF Clamped, AtLeast, AtMost, Rounded

LEMMA RingSteps ==
  ASSUME IInv, [Next]_vars
  PROVE  (\E ratio \in Int : OutcomeRecorded(ratio)) \/ RecordedTwice \/ RingReset \/ RingKept
<1> DEFINE Goal == (\E ratio \in Int : OutcomeRecorded(ratio)) \/ RecordedTwice \/ RingReset \/ RingKept
<1>1. BreakerSound(breaker) /\ breaker \in BreakerType /\ RingSound(breaker.ring)
  BY DEF IInv, BreakerSound, BreakerTyped
<1>2. CASE \E c \in Caller, classes \in ErrorClasses : Failure(c, classes)
  <2>1. PICK classes \in ErrorClasses, jitter \in Jitters :
          breaker' = Failed(breaker, classes, jitter) /\ rounded' = rounded
    BY <1>2 DEF Failure
  <2>2. breaker'.ring = breaker.ring \/ breaker'.ring = RecordOutcome(breaker.ring, Scale)
    BY <1>1, <2>1, FailedShape, TripShape
  <2> QED
    BY <2>1, <2>2, ExactOutcomes, ScaleAssumption DEF OutcomeRecorded, RingKept
<1>3. CASE \E c \in Caller, errorCount \in 0..BatchTotal, classes \in ErrorClasses :
             BatchAnswer(c, errorCount, classes)
  <2>1. PICK errorCount \in 0..BatchTotal, classes \in ErrorClasses, jitter \in Jitters :
          /\ breaker' = BatchDone(breaker, BatchTotal, errorCount, classes, jitter)
          /\ rounded' = IF Rounded(BatchRatio(BatchTotal, errorCount))
                        THEN rounded + 1 ELSE rounded
    BY <1>3 DEF BatchAnswer
  <2>2. errorCount \in Nat /\ BatchTotal \in Nat
    BY BatchAssumption
  <2>3. PICK u : /\ BreakerSound(u) \/ (errorCount # 0 /\ u \in BreakerType)
                 /\ u.ring = RecordOutcome(breaker.ring, BatchRatio(BatchTotal, errorCount))
                 /\ \/ errorCount = 0 /\ breaker' = Succeeded(u)
                    \/ /\ errorCount # 0
                       /\ breaker' = Trip(u, jitter) \/ breaker' = Judged(u, jitter)
    BY <1>1, <2>1, <2>2, BatchShape
  <2>4. CASE errorCount = 0
    <3>1. BatchRatio(BatchTotal, 0) = 0
      BY <2>2, ScaleAssumption DEF BatchRatio, AtLeast
    <3>2. breaker'.ring = RecordOutcome(RecordOutcome(breaker.ring, 0), 0)
      BY <2>3, <2>4, <3>1, SucceededShape DEF BreakerSound, BreakerTyped
    <3> QED
      BY <2>1, <2>4, <3>1, <3>2, ExactOutcomes DEF RecordedTwice
  <2>5. CASE errorCount # 0
    <3>1. breaker'.ring = RecordOutcome(breaker.ring, BatchRatio(BatchTotal, errorCount))
      BY <2>3, <2>5, TripShape DEF BreakerSound, BreakerTyped
    <3> QED
      BY <2>1, <2>2, <3>1, BatchRatioInt DEF OutcomeRecorded
  <2> QED
    BY <2>4, <2>5
<1>4. ASSUME NEW c \in Caller, Success(c) PROVE Goal
  <2>1. breaker'.ring = RecordOutcome(breaker.ring, 0) /\ rounded' = rounded
    BY <1>1, <1>4, SucceededShape DEF Success
  <2> QED
    BY <2>1, ExactOutcomes DEF OutcomeRecorded
<1>5. ASSUME NEW c \in Caller, Admit(c) \/ Refuse(c) PROVE RingKept
  BY <1>1, <1>5 DEF Admit, Refuse, Asked, Refresh, BreakerType, RingKept
<1>6. ASSUME NEW c \in Caller, Unreported(c) PROVE RingKept
  BY <1>6 DEF Unreported, RingKept
<1>7. ASSUME Look PROVE RingKept
  BY <1>1, <1>7 DEF Look, Refresh, BreakerType, RingKept
<1>8. ASSUME ResetProbe PROVE RingReset
  BY <1>8 DEF ResetProbe, NewBreaker, RingReset
<1>9. ASSUME Tick PROVE RingKept
  BY <1>1, <1>9 DEF Tick, Aged, BreakerType, RingKept
<1>10. CASE UNCHANGED vars
  BY <1>10 DEF vars, RingKept
<1> HIDE DEF Goal
<1>11. Goal
  <2>1. (\E ratio \in Int : OutcomeRecorded(ratio)) \/ RecordedTwice \/ RingReset \/ RingKept => Goal
    BY DEF Goal
  <2> QED
    BY <1>2, <1>3, <1>4, <1>5, <1>6, <1>7, <1>8, <1>9, <1>10, <2>1 DEF Next
<1> QED
  BY <1>11 DEF Goal

-----------------------------------------------------------------------------
\* the sum is at most n units away from that of the array
Drift(r, n) == r.runningSum - SumFunctionOnSet(r.buffer, Slots) \in -n..n

(* One outcome moves the sum away from the array by its rounding, which is *)
(* at most a unit; the max(0, ...) only brings it back, because the array  *)
(* holds nothing negative.                                                 *)
LEMMA RecordOutcomeDrifts ==
  ASSUME NEW r, RingSound(r), NEW ratio \in Int, NEW n \in Nat, Drift(r, n)
  PROVE  Drift(RecordOutcome(r, ratio), IF Rounded(ratio) THEN n + 1 ELSE n)
<1> DEFINE v    == Clamped(ratio)
           f    == Float32[v]
           old  == r.buffer[r.pointer]
           sum  == SumFunctionOnSet(r.buffer, Slots)
           sum2 == SumFunctionOnSet(Stored(r, ratio), Slots)
           q    == RecordOutcome(r, ratio)
<1>1. /\ r.buffer \in [Slots -> 0..Scale] /\ r.pointer \in Slots
      /\ r.runningSum \in Nat /\ Scale \in Nat
  BY ScaleAssumption DEF RingSound, RingType
<1>2. /\ v \in 0..Scale /\ f \in 0..Scale /\ f - v \in -1..1
      /\ Stored(r, ratio) \in [Slots -> 0..Scale]
  BY StoredType, Float32Assumption
<1>3. sum2 = (sum - old) + f
  <2>1. r.buffer \in [Slots -> Int] /\ f \in Int
    BY <1>1, <1>2
  <2>2. Stored(r, ratio) = [r.buffer EXCEPT ![r.pointer] = f]
    BY DEF Stored
  <2> HIDE DEF f
  <2> QED
    BY <1>1, <2>1, <2>2, SlotsFinite, SumUpdated
<1>4. sum \in Int /\ old \in Int
  <2>1. \A x \in Slots : r.buffer[x] \in Int
    BY <1>1
  <2> QED
    BY <1>1, <2>1, SlotsFinite, SumIsInt
<1>5. sum2 \in Nat
  <2>1. sum2 \in 0..Scale * Cardinality(Slots)
    BY <1>2, SlotsFinite, ScaleAssumption, SumBounds
  <2>2. Scale * Cardinality(Slots) \in Nat
    BY <1>1, SlotsFinite, WindowAssumption
  <2> HIDE DEF sum2
  <2> QED
    BY <2>1, <2>2
<1>6. q.runningSum = AtLeast(0, (r.runningSum - old) + v) /\ q.buffer = Stored(r, ratio)
  BY DEF RecordOutcome, SumAfter
<1>7. r.runningSum - sum \in -n..n
  BY DEF Drift
<1>8. Rounded(ratio) <=> f # v
  BY DEF Rounded
<1> DEFINE t == q.runningSum
           s == r.runningSum
<1> HIDE DEF v, f, old, sum, sum2, q
<1>9. t = AtLeast(0, (s - old) + v) /\ s \in Nat
  BY <1>1, <1>6
<1>10. s - sum \in -n..n
  BY <1>7
<1> HIDE DEF t, s
<1>11. t - sum2 \in -(n + 1)..(n + 1) /\ (f = v => t - sum2 \in -n..n)
  BY <1>2, <1>3, <1>4, <1>5, <1>9, <1>10 DEF AtLeast
<1>12. SumFunctionOnSet(q.buffer, Slots) = sum2
  BY <1>6 DEF sum2
<1> QED
  BY <1>8, <1>11, <1>12 DEF Drift, t, q

(* The sum is no further from the samples in the window than the outcomes  *)
(* rounded since the last reset, after any calls, trips, wraps and resets. *)
THEOREM BreakerDriftBounded == Spec => []DriftBounded
<1> DEFINE Drifting == rounded \in Nat /\ Drift(breaker.ring, rounded)
<1>1. Drift(EmptyRing, 0)
  <2> DEFINE z == EmptyRing.buffer
  <2>1. /\ \A x \in Slots : z[x] \in Int
        /\ \A x \in Slots \ {} : z[x] = 0
        /\ EmptyRing.runningSum = 0
    BY DEF EmptyRing
  <2> HIDE DEF z
  <2>2. SumFunctionOnSet(z, Slots) = 0
    BY <2>1, SlotsFinite, SumOfNonzero, SumEmpty
  <2> QED
    BY <2>1, <2>2 DEF Drift, z
<1>2. Init => Drifting
  BY <1>1 DEF Init, NewBreaker
<1>3. ASSUME IInv, [Next]_vars, Drifting PROVE Drifting'
  <2>1. RingSound(breaker.ring)
    BY <1>3 DEF IInv, BreakerSound, BreakerTyped
  <2>2. ASSUME NEW ratio \in Int, OutcomeRecorded(ratio) PROVE Drifting'
    BY <1>3, <2>1, <2>2, RecordOutcomeDrifts DEF OutcomeRecorded
  <2>3. ASSUME RecordedTwice PROVE Drifting'
    <3> DEFINE q == RecordOutcome(breaker.ring, 0)
    <3>1. RingSound(q) /\ breaker'.ring = RecordOutcome(q, 0)
      BY <2>1, <2>3, RecordOutcomeSound DEF RecordedTwice
    <3>2. Drift(q, rounded)
      BY <1>3, <2>1, ExactOutcomes, RecordOutcomeDrifts
    <3> HIDE DEF q
    <3>3. Drift(breaker'.ring, rounded)
      BY <1>3, <3>1, <3>2, ExactOutcomes, RecordOutcomeDrifts
    <3> QED
      BY <1>3, <2>3, <3>3 DEF RecordedTwice
  <2>4. ASSUME RingReset PROVE Drifting'
    BY <1>1, <2>4 DEF RingReset
  <2>5. ASSUME RingKept PROVE Drifting'
    BY <1>3, <2>5 DEF RingKept
  <2> HIDE DEF Drifting
  <2> QED
    BY <1>3, <2>2, <2>3, <2>4, <2>5, RingSteps
<1>4. IInv /\ Drifting => DriftBounded
  BY SumOfRecent DEF IInv, BreakerSound, BreakerTyped, Drift, Drifted, DriftBounded
<1>5. IInv /\ Drifting /\ [Next]_vars => Drifting'
  BY <1>3
<1> QED
  BY <1>2, <1>4, <1>5, BreakerInvariant, PTL DEF Spec

(* Whatever is called, in whatever order, the ring holds the last Window   *)
(* outcomes in order as its array holds them, each call adds one, none, or *)
(* two of a clean batch, and the sum that decides about a trip follows     *)
(* them within the roundings.                                              *)
THEOREM BreakerWindowRefined == Spec => WindowRefined
<1> DEFINE recent == Recent(breaker.ring)
           Slide  == Sliding!Observe \/ Sliding!ObserveClean \/ Sliding!Forget
<1>1. Init /\ DriftBounded => Sliding!WindowInit
  BY RecentEmpty DEF Init, NewBreaker, DriftBounded, Sliding!WindowInit, Sliding!Near
<1>2. ASSUME IInv, [Next]_vars PROVE Slide \/ UNCHANGED <<recent, Drifted, rounded>>
  <2>1. RingSound(breaker.ring)
    BY <1>2 DEF IInv, BreakerSound, BreakerTyped
  <2>2. ASSUME NEW ratio \in Int, OutcomeRecorded(ratio) PROVE Slide
    <3>1. Float32[Clamped(ratio)] \in 0..Scale
      BY <2>1, StoredType
    <3>2. recent' = Sliding!Newest(Append(recent, Float32[Clamped(ratio)]))
      BY <2>1, <2>2, RecordOutcomeSlides DEF OutcomeRecorded
    <3>3. rounded' \in {rounded, rounded + 1}
      BY <2>2 DEF OutcomeRecorded
    <3> QED
      BY <3>1, <3>2, <3>3 DEF Sliding!Observe
  <2>3. ASSUME RecordedTwice PROVE Slide
    <3> DEFINE q == RecordOutcome(breaker.ring, 0)
    <3>1. RingSound(q) /\ breaker'.ring = RecordOutcome(q, 0)
      BY <2>1, <2>3, RecordOutcomeSound DEF RecordedTwice
    <3>2. Recent(q) = Sliding!Newest(Append(recent, 0))
      BY <2>1, ExactOutcomes, RecordOutcomeSlides
    <3> HIDE DEF q
    <3>3. recent' = Sliding!Newest(Append(Recent(q), 0))
      BY <3>1, ExactOutcomes, RecordOutcomeSlides
    <3>4. UNCHANGED rounded
      BY <2>3 DEF RecordedTwice
    <3> QED
      BY <3>2, <3>3, <3>4 DEF Sliding!ObserveClean
  <2>4. ASSUME RingReset PROVE Slide
    BY <2>4, RecentEmpty DEF RingReset, Sliding!Forget
  <2>5. ASSUME RingKept PROVE UNCHANGED <<recent, Drifted, rounded>>
    BY <2>5 DEF RingKept, Drifted
  <2> HIDE DEF Slide, recent
  <2> QED
    BY <1>2, <2>2, <2>3, <2>4, <2>5, RingSteps
<1>3. IInv /\ [Next]_vars /\ DriftBounded' => [Slide /\ Sliding!Near']_(Sliding!window)
  <2>1. DriftBounded' => Sliding!Near'
    BY DEF DriftBounded, Sliding!Near
  <2> HIDE DEF Slide
  <2> QED
    BY <1>2, <2>1 DEF Sliding!window
<1> QED
  BY <1>1, <1>3, BreakerInvariant, BreakerDriftBounded, PTL
    DEF Spec, WindowRefined, Sliding!WindowSpec

-----------------------------------------------------------------------------
(* The operator.  Its phases before anything is touched, and those that    *)
(* touch what matched.                                                     *)
Early  == {"DISCOVERY", "POLICY_MATCH", "BLAST_RADIUS_AUDIT"}
Acting == {"CANARY_TEST", "CIRCUIT_VERIFY", "BULK_EXECUTE"}

(* Types, and a breaker that only its methods have changed.                *)
OperatorTyped ==
  /\ options \in Options /\ phase \in Phases \cup Resting
  /\ epoch \in 0..MaxRuns /\ cursor \in Bucket \cup {"none"}
  /\ halted \in BOOLEAN /\ running \in BOOLEAN /\ lock \in BOOLEAN /\ shutting \in BOOLEAN
  /\ stops \in [Callers -> {"off", "waiting", "done"}]
  /\ toScan \in Seq(Bucket) /\ toTest \in Seq(Bucket) /\ tried \subseteq Bucket /\ passed \subseteq Bucket
  /\ discovered \in Seq(Target) /\ matched \in Seq(Target) /\ todo \in Seq(Target)
  /\ handled \cup flying \cup certified \cup alive \cup destroyed \subseteq Target
  /\ BreakerSound(circuitBreaker)
  /\ events \in Seq(Events) /\ log \in Seq(Events) /\ written \in 0..Len(events)

(* The lock and the calls of stop().                                       *)
Guarded ==
  /\ phase = "READY" => shutting = FALSE
  /\ shutting = FALSE => /\ \A c \in Callers : stops[c] = "off"
                         /\ phase # "READY" => lock = TRUE
  /\ phase \in Phases => /\ lock = TRUE /\ halted = FALSE /\ epoch # 0
                         /\ \A c \in Callers : stops[c] # "done"
  /\ phase \in {"READY", "LOOP", "SLEEPING"} => epoch < MaxRuns

(* What matched, and the ceiling it passed.                                *)
Planned ==
  /\ SetOf(matched) \subseteq Violations
  /\ phase = "BLAST_RADIUS_AUDIT" => Len(matched) <= Len(discovered)
  /\ phase \in Acting \/ destroyed # {} => 100 * Len(matched) <= MaxPercent * Len(discovered)

(* What was touched matched; before the canaries, nothing is.              *)
Harmed ==
  /\ destroyed \cup flying \cup SetOf(todo) \subseteq SetOf(matched)
  /\ phase # "BULK_EXECUTE" => flying = {} /\ todo = <<>>
  /\ phase \in Early => destroyed = {} /\ passed = {}
  /\ options.dryRun => destroyed = {} /\ phase # "BULK_EXECUTE"

(* The buckets whose canary passed, and those still to come.               *)
Sampled ==
  phase \in Acting =>
    /\ \A t \in destroyed : BucketOf(t) \in passed
    /\ options.dryRun => passed = {}
    /\ ~options.dryRun =>
         IF phase = "CANARY_TEST"
         THEN /\ Distinct(toTest) /\ Elements(toTest) = Affected \ passed
              /\ passed \subseteq Affected
         ELSE passed = Affected

\* an event of this epoch for every bucket that lost a target
Covers(s) ==
  \A t \in destroyed : \E e \in Elements(s) : e.bucket = BucketOf(t) /\ e.epoch = epoch

(* The events of this epoch, and how many of them are in the log.          *)
Recorded ==
  /\ \/ phase \in Early \cup {"UNDO_EXPORT"}
     \/ phase \in {"READY", "LOOP", "SLEEP", "SLEEPING"} /\ ~shutting
     => events = <<>> /\ written = 0
  /\ phase \in Acting =>
       /\ Distinct(events) /\ Elements(events) = {Event("CANARY_VERIFIED", b) : b \in passed}
       /\ written = 0
  /\ phase = "AUDIT_LOG" =>
       /\ Distinct(events) /\ Covers(events)
       /\ \A i \in 1..Len(events) : /\ events[i].epoch = epoch
                                    /\ events[i] \in Elements(log) <=> i <= written

(* The log: no event of this epoch before its audit.                       *)
Logged ==
  /\ Distinct(log)
  /\ \A e \in Elements(log) :
       /\ e.epoch <= epoch
       /\ phase \in Early \cup Acting => e.epoch # epoch
  /\ phase = "UNDO_EXPORT" \/ (phase = "SLEEP" /\ ~shutting) => Covers(log)

OperatorInv == OperatorTyped /\ Guarded /\ Planned /\ Harmed /\ Sampled /\ Recorded /\ Logged

-----------------------------------------------------------------------------
(* Every target is discovered in one bucket.                               *)
LEMMA BucketFacts ==
  /\ Buckets \in Seq(Bucket) /\ Distinct(Buckets) /\ Elements(Buckets) = Bucket
  /\ IsFiniteSet(Target)
  /\ \A t \in Target : BucketOf(t) \in Bucket /\ t \in SetOf(Listing[BucketOf(t)])
  /\ \A b \in Bucket : /\ Listing[b] \in Seq(Target)
                       /\ \A t \in SetOf(Listing[b]) : t \in Target /\ BucketOf(t) = b
<1>1. Buckets \in Seq(Bucket) /\ IsFiniteSet(Target) /\ \A b \in Bucket : Listing[b] \in Seq(Target)
  BY ListingAssumption
<1>2. Distinct(Buckets) /\ Elements(Buckets) = Bucket
  <2>1. DOMAIN Buckets = 1..Len(Buckets)
    BY <1>1
  <2> QED
    BY <2>1, ListingAssumption DEF Distinct, Elements, Bucket, SetOf
<1>3. \A t \in Target : BucketOf(t) \in Bucket /\ t \in SetOf(Listing[BucketOf(t)])
  BY DEF Target, BucketOf
<1>4. \A b \in Bucket : \A t \in SetOf(Listing[b]) : t \in Target
  BY DEF Target
<1>5. \A b \in Bucket : \A t \in SetOf(Listing[b]) : BucketOf(t) = b
  <2> SUFFICES ASSUME NEW b \in Bucket, NEW t \in SetOf(Listing[b]), BucketOf(t) # b
               PROVE  FALSE
    OBVIOUS
  <2>1. BucketOf(t) \in Bucket /\ t \in SetOf(Listing[BucketOf(t)])
    BY <1>3, <1>4
  <2> QED
    BY <2>1, ListingAssumption
<1> QED
  BY <1>1, <1>2, <1>3, <1>4, <1>5

(* The members of a list of the operator.                                  *)
LEMMA Members ==
  ASSUME NEW Item, NEW s \in Seq(Item)
  PROVE  /\ SetOf(s) = Elements(s) /\ SetOf(s) \subseteq Item /\ IsFiniteSet(SetOf(s))
         /\ Cardinality(SetOf(s)) \in Nat /\ Len(s) \in Nat /\ Cardinality(SetOf(s)) <= Len(s)
<1>1. SetOf(s) = Elements(s)
  BY ElementsCounted DEF SetOf
<1> QED
  BY <1>1, ElementsCounted

(* Discovery resumes on a part of the list of buckets.                     *)
LEMMA FromCursorType == FromCursor(Buckets) \in Seq(Bucket)
<1>1. ASSUME NEW i \in DOMAIN Buckets PROVE SubSeq(Buckets, i, Len(Buckets)) \in Seq(Bucket)
  BY <1>1, BucketFacts
<1> QED
  BY <1>1, BucketFacts DEF FromCursor

(* Cardinality, under the name the gate has it.                            *)
LEMMA GateCardinality == \A b, S : Gate(b)!Cardinality(S) = Cardinality(S)
BY DEF Gate!Cardinality, Cardinality

(* The canary of a bucket takes what matched there.                        *)
LEMMA SampleWithin ==
  ASSUME matched \in Seq(Target), NEW b \in Bucket
  PROVE  /\ SampleOf(b) \subseteq SetOf(matched) \cap SetOf(Listing[b])
         /\ IsFiniteSet(SampleOf(b)) /\ Cardinality(SampleOf(b)) \in Nat
<1> DEFINE plan == Of(b)
           n    == Len(plan)
           born == [t \in Target |-> IF AsUploads(b) /\ t \notin Upload THEN 0 ELSE Born[t]]
           m    == Gate(b)!SampleSize
           s    == Gate(b)!Sample
<1>1. /\ plan \in Seq(Target) /\ Elements(plan) = SetOf(matched) \cap SetOf(Listing[b])
      /\ n \in Nat /\ DOMAIN plan = 1..n /\ plan \in [1..n -> Target]
  <2>1. plan \in Seq(Target) /\ Elements(plan) = Elements(matched) \cap SetOf(Listing[b])
    BY FilterSound DEF Of
  <2>2. SetOf(matched) = Elements(matched)
    BY Members
  <2> QED
    BY <2>1, <2>2
<1>2. born \in [Target -> Nat]
  BY ListingAssumption
<1>3. m \in 0..n
  <2>1. m = IF CanaryCount < n THEN CanaryCount ELSE n
    BY DEF Gate!SampleSize
  <2> HIDE DEF m, n
  <2> QED
    BY <1>1, <2>1, OptionsAssumption
<1>4. \A i \in 1..n : Gate(b)!RankOf(i) = AgeRank(plan, born, n, i)
  BY <1>1, GateCardinality DEF Gate!RankOf, Gate!Older, AgeRank
<1>5. \A k \in 1..n : \E i \in 1..n : AgeRank(plan, born, n, i) = k
  <2> HIDE DEF plan, born, n
  <2> QED
    BY <1>1, <1>2, AgeRanked
<1>6. s = [k \in 1..m |-> plan[CHOOSE i \in DOMAIN plan : Gate(b)!RankOf(i) = k]]
  BY DEF Gate!Sample
<1>7. \A k \in 1..m : \E i \in 1..n : s[k] = plan[i]
  <2> SUFFICES ASSUME NEW k \in 1..m
               PROVE  \E i \in 1..n : s[k] = plan[i]
    OBVIOUS
  <2>1. \E i \in DOMAIN plan : Gate(b)!RankOf(i) = k
    <3>1. k \in 1..n
      <4> HIDE DEF m, n
      <4> QED
        BY <1>1, <1>3
    <3> HIDE DEF plan, born, n, m
    <3> QED
      BY <1>1, <1>4, <1>5, <3>1
  <2>2. (CHOOSE i \in DOMAIN plan : Gate(b)!RankOf(i) = k) \in DOMAIN plan
    BY <2>1, Zenon
  <2> QED
    BY <1>1, <1>6, <2>2
<1> HIDE DEF plan, born, m, s
<1>8. SetOf(s) \subseteq Elements(plan)
  BY <1>1, <1>6, <1>7 DEF SetOf, Elements
<1> QED
  BY <1>1, <1>8, Members, FS_Subset, FS_CardinalityType DEF SampleOf, s

-----------------------------------------------------------------------------
(* Events of a phase name a bucket or the fleet, in this epoch.            *)
LEMMA EventType ==
  ASSUME OperatorTyped, Guarded, phase \in Phases,
         NEW kind \in {"BLAST_RADIUS", "CANARY_VERIFIED", "CIRCUIT_BREAKER_TRIPPED", "REMEDIATION_EXECUTED"},
         NEW b \in Bucket \cup {"fleet"}
  PROVE  Event(kind, b) \in Events
<1>1. epoch \in 1..MaxRuns
  BY OptionsAssumption DEF OperatorTyped, Guarded
<1> QED
  BY <1>1 DEF Event, Events

(* What an event says.                                                     *)
LEMMA EventFields ==
  ASSUME NEW kind, NEW b
  PROVE  Event(kind, b).kind = kind /\ Event(kind, b).bucket = b /\ Event(kind, b).epoch = epoch
BY DEF Event

(* What matched was discovered in a bucket.                                *)
LEMMA AffectedBuckets ==
  matched \in Seq(Target) => Affected \subseteq Bucket
BY Members, BucketFacts DEF Affected

(* The bulk's events: one for each bucket it touched, in this epoch.       *)
LEMMA BulkEventsType ==
  ASSUME OperatorTyped, Guarded, phase \in Phases
  PROVE  /\ BulkEvents \in Seq(Events) /\ Distinct(BulkEvents)
         /\ \A i \in 1..Len(BulkEvents) :
              BulkEvents[i].kind = "REMEDIATION_EXECUTED" /\ BulkEvents[i].epoch = epoch
<1> DEFINE touched  == {b \in Bucket : \E t \in SetOf(Remaining) : BucketOf(t) = b}
           affected == Filtered(Buckets, touched)
           n        == Len(affected)
<1>1. affected \in Seq(Bucket) /\ Distinct(affected)
  BY BucketFacts, FilterSound
<1>2. BulkEvents = [i \in DOMAIN affected |-> Event("REMEDIATION_EXECUTED", affected[i])]
  BY DEF BulkEvents
<1> HIDE DEF affected
<1>3. n \in Nat /\ DOMAIN affected = 1..n /\ \A i \in 1..n : affected[i] \in Bucket
  BY <1>1
<1>4. \A i \in 1..n : BulkEvents[i] = Event("REMEDIATION_EXECUTED", affected[i])
  BY <1>2, <1>3
<1>5. BulkEvents \in Seq(Events) /\ Len(BulkEvents) = n
  <2>1. BulkEvents \in [1..n -> Events]
    <3> HIDE DEF n
    <3> QED
      BY <1>2, <1>3, EventType
  <2> HIDE DEF n
  <2> QED
    BY <1>3, <2>1, LenProperties
<1> HIDE DEF n
<1>6. \A i \in 1..n : /\ BulkEvents[i].kind = "REMEDIATION_EXECUTED"
                      /\ BulkEvents[i].bucket = affected[i] /\ BulkEvents[i].epoch = epoch
  BY <1>4, EventFields
<1>7. \A i, j \in 1..n : BulkEvents[i] = BulkEvents[j] => i = j
  BY <1>1, <1>6 DEF Distinct, n
<1> QED
  BY <1>5, <1>6, <1>7 DEF Distinct

(* What the gate has told the breaker leaves it sound.                     *)
LEMMA ToldSound ==
  ASSUME OperatorTyped, NEW b \in Bucket, NEW classes, NEW told \in ToldByGate(b, classes)
  PROVE  BreakerSound(told)
<1>1. BreakerSound(circuitBreaker) /\ matched \in Seq(Target)
  BY DEF OperatorTyped
<1>2. CASE \E j \in Jitters : told = Failed(circuitBreaker, classes, j)
  BY <1>1, <1>2, FailedSound
<1>3. CASE \E n \in 1..Cardinality(SampleOf(b)), j \in Jitters :
             told = BatchDone(circuitBreaker, Cardinality(SampleOf(b)), n, classes, j)
  <2>1. PICK n \in 1..Cardinality(SampleOf(b)), j \in Jitters :
               told = BatchDone(circuitBreaker, Cardinality(SampleOf(b)), n, classes, j)
    BY <1>3
  <2>2. Cardinality(SampleOf(b)) \in Nat
    BY <1>1, SampleWithin
  <2>3. n \in Nat
    BY <2>2
  <2> QED
    BY <1>1, <2>1, <2>2, <2>3, BatchDoneSound
<1> QED
  BY <1>1, <1>2, <1>3 DEF ToldByGate

(* Types.                                                                  *)
LEMMA NextOperatorTyped ==
  OperatorTyped /\ Guarded /\ [OperatorNext]_operatorVars => OperatorTyped'
<1> SUFFICES ASSUME OperatorTyped, Guarded, [OperatorNext]_operatorVars PROVE OperatorTyped'
  OBVIOUS
<1> USE DEF OperatorTyped, loopVars, findVars, bulkVars, recordVars, s3Vars, Phases, Resting
<1>1. CASE Start
  BY <1>1 DEF Start
<1>2. CASE BeginEpoch
  <2>1. epoch + 1 \in 0..MaxRuns
    BY <1>2, OptionsAssumption DEF BeginEpoch, Guarded
  <2>2. <<>> \in Seq(Target)
    OBVIOUS
  <2> QED
    BY <1>2, <2>1, <2>2, FromCursorType DEF BeginEpoch
<1>3. CASE LeaveLoop
  BY <1>3 DEF LeaveLoop
<1>4. CASE ListBucketsFails
  BY <1>4 DEF ListBucketsFails, HaltWith
<1>5. ASSUME NEW found \in Seq(Target), Scan(found), cursor' \in Bucket \cup {"none"} PROVE OperatorTyped'
  <2>1. Head(toScan) \in Bucket /\ Tail(toScan) \in Seq(Bucket) /\ discovered \o found \in Seq(Target)
    BY <1>5 DEF Scan
  <2> QED
    BY <1>5, <2>1 DEF Scan
<1>6. ASSUME NEW withVersions \in BOOLEAN, ScanBucket(withVersions) PROVE OperatorTyped'
  <2> DEFINE S == IF withVersions THEN alive ELSE alive \cap Upload
  <2>1. Head(toScan) \in Bucket
    BY <1>6 DEF ScanBucket, Scan
  <2>2. Filtered(Listing[Head(toScan)], S) \in Seq(Target)
    BY <2>1, BucketFacts, FilterSound
  <2> QED
    BY <1>5, <1>6, <2>1, <2>2 DEF ScanBucket
<1>7. CASE ScanFails
  <2>1. <<>> \in Seq(Target)
    OBVIOUS
  <2> QED
    BY <1>5, <1>7, <2>1 DEF ScanFails
<1>8. CASE EndDiscovery
  BY <1>8 DEF EndDiscovery, Then
<1>9. CASE PolicyMatch
  <2>1. Filtered(discovered, Violations) \in Seq(Target)
    BY FilterSound
  <2> QED
    BY <1>9, <2>1 DEF PolicyMatch, Then
<1>10. CASE PolicyFails
  BY <1>10 DEF PolicyFails, HaltWith
<1>11. CASE BlastRadiusPasses
  <2>1. Filtered(Buckets, Affected) \in Seq(Bucket)
    BY BucketFacts, FilterSound
  <2> QED
    BY <1>11, <2>1 DEF BlastRadiusPasses, Then
<1>12. CASE BlastRadiusHalts
  <2>1. \E said \in Seq(Events) : events' = events \o said
    <3>1. Affected \subseteq Bucket
      BY AffectedBuckets
    <3>2. \A b \in Bucket \cup {"fleet"} : <<Event("BLAST_RADIUS", b)>> \in Seq(Events)
      BY <1>12, EventType DEF BlastRadiusHalts
    <3>3. <<>> \in Seq(Events)
      OBVIOUS
    <3>4. \/ events' = events \o <<>>
          \/ \E b \in Bucket \cup {"fleet"} : events' = events \o <<Event("BLAST_RADIUS", b)>>
      BY <1>12, <3>1 DEF BlastRadiusHalts, HaltWith
    <3> QED
      BY <3>2, <3>3, <3>4
  <2>2. events' \in Seq(Events) /\ written \in 0..Len(events')
    BY <2>1
  <2>3. halted' = TRUE /\ phase' = "HALTED"
    BY <1>12 DEF BlastRadiusHalts, HaltWith
  <2> QED
    BY <1>12, <2>2, <2>3 DEF BlastRadiusHalts
<1>13. ASSUME NEW b \in Bucket, CanaryPasses(b) PROVE OperatorTyped'
  <2>1. Tail(toTest) \in Seq(Bucket) /\ BreakerSound(circuitBreaker')
    BY <1>13, SucceededSound DEF CanaryPasses
  <2>2. SampleOf(b) \subseteq Target
    BY SampleWithin, Members
  <2>3. events' \in Seq(Events) /\ written \in 0..Len(events')
    BY <1>13, EventType DEF CanaryPasses
  <2> QED
    BY <1>13, <2>1, <2>2, <2>3 DEF CanaryPasses, Removes
<1>14. ASSUME NEW b \in Bucket, NEW classes \in Exceptions, NEW gone \in SUBSET Target,
              CanaryFails(b, classes, gone)
       PROVE  OperatorTyped'
  <2>1. BreakerSound(circuitBreaker')
    <3>1. PICK told \in ToldByGate(b, classes), quoted \in SUBSET (classes \ {"integrity"}),
               j1 \in Jitters, j2 \in Jitters :
                 circuitBreaker' = Trip(Failed(told, quoted, j1), j2)
      BY <1>14 DEF CanaryFails
    <3>2. BreakerSound(Failed(told, quoted, j1))
      BY <3>1, ToldSound, FailedSound
    <3> QED
      BY <3>1, <3>2, TripSound DEF BreakerSound
  <2> QED
    BY <1>14, <2>1 DEF CanaryFails, Removes, HaltWith
<1>15. CASE EndCanaries
  BY <1>15 DEF EndCanaries, Then
<1>16. CASE CircuitVerify
  <2>1. BreakerSound(circuitBreaker')
    BY <1>16, RefreshSound DEF CircuitVerify
  <2>2. Remaining \in Seq(Target)
    BY FilterSound DEF Remaining
  <2>3. ASSUME NEW said, said = <<Event("CIRCUIT_BREAKER_TRIPPED", "fleet")>>
        PROVE  events \o said \in Seq(Events) /\ written \in 0..Len(events \o said)
    <3>1. Event("CIRCUIT_BREAKER_TRIPPED", "fleet") \in Events
      BY <1>16, EventType DEF CircuitVerify
    <3> QED
      BY <2>3, <3>1
  <2>4. events' \in Seq(Events) /\ written \in 0..Len(events')
    BY <1>16, <2>3 DEF CircuitVerify, HaltWith
  <2>5. todo' \in Seq(Target)
    <3>1. <<>> \in Seq(Target)
      OBVIOUS
    <3> QED
      BY <1>16, <2>2, <3>1 DEF CircuitVerify
  <2>6. halted' \in BOOLEAN /\ phase' \in Phases \cup Resting
    BY <1>16 DEF CircuitVerify, HaltWith
  <2> QED
    BY <1>16, <2>1, <2>4, <2>5, <2>6 DEF CircuitVerify
<1>17. CASE StartTask
  <2>1. Head(todo) \in Target /\ Tail(todo) \in Seq(Target)
    BY <1>17 DEF StartTask
  <2> QED
    BY <1>17, <2>1 DEF StartTask, Bulk
<1>18. ASSUME NEW t \in Target, TaskSucceeds(t) PROVE OperatorTyped'
  <2>1. BreakerSound(circuitBreaker')
    BY <1>18, SucceededSound DEF TaskSucceeds
  <2> QED
    BY <1>18, <2>1 DEF TaskSucceeds, TaskAnswered, Bulk, Removes
<1>19. ASSUME NEW t \in Target, NEW classes \in Exceptions, NEW lost \in BOOLEAN,
              TaskFails(t, classes, lost)
       PROVE  OperatorTyped'
  <2>1. BreakerSound(circuitBreaker')
    BY <1>19, FailedSound DEF TaskFails
  <2> QED
    BY <1>19, <2>1 DEF TaskFails, TaskAnswered, Bulk, Removes
<1>20. CASE EndBulk
  <2>1. events' \in Seq(Events) /\ written \in 0..Len(events')
    BY <1>20, BulkEventsType DEF EndBulk, Bulk
  <2> QED
    BY <1>20, <2>1 DEF EndBulk, Bulk, Then
<1>21. CASE AppendEvent
  <2>1. events[written + 1] \in Events /\ written + 1 \in 0..Len(events)
    BY <1>21 DEF AppendEvent
  <2> QED
    BY <1>21, <2>1 DEF AppendEvent, Record
<1>22. CASE AppendThrows
  BY <1>22 DEF AppendThrows, Record
<1>23. CASE EndAudit
  BY <1>23 DEF EndAudit, Record, Then
<1>24. CASE UndoExport
  <2>1. certified' \subseteq Target
    BY <1>24, Members DEF UndoExport
  <2> QED
    BY <1>24, <2>1 DEF UndoExport, Record
<1>25. CASE Sleep
  <2>1. BreakerSound(circuitBreaker')
    BY <1>25, RefreshSound, NewBreakerSound DEF Sleep
  <2> QED
    BY <1>25, <2>1 DEF Sleep, Between
<1>26. CASE Wake
  BY <1>26 DEF Wake, Between
<1>27. CASE Halted
  BY <1>27 DEF Halted, Between
<1>28. ASSUME NEW c \in Callers, CallStop(c) PROVE OperatorTyped'
  BY <1>28 DEF CallStop, Between
<1>29. ASSUME NEW c \in Callers, FinishStop(c) PROVE OperatorTyped'
  BY <1>29 DEF FinishStop, Between
<1>30. CASE EndStart
  BY <1>30 DEF EndStart, Between
<1>31. CASE Exit
  BY <1>31 DEF Exit, Between
<1>32. CASE OperatorTick
  <2>1. BreakerSound(circuitBreaker')
    BY <1>32, AgedSound DEF OperatorTick
  <2> QED
    BY <1>32, <2>1 DEF OperatorTick, Between
<1>33. CASE UNCHANGED operatorVars
  BY <1>33 DEF operatorVars
<1> QED
  BY <1>1, <1>2, <1>3, <1>4, <1>6, <1>7, <1>8, <1>9, <1>10, <1>11, <1>12, <1>13, <1>14, <1>15,
     <1>16, <1>17, <1>18, <1>19, <1>20, <1>21, <1>22, <1>23, <1>24, <1>25, <1>26, <1>27, <1>28,
     <1>29, <1>30, <1>31, <1>32, <1>33
  DEF OperatorNext, Run, Discover, CanaryAnswer, Answer, WakeAborted, Callers

(* The lock is held, and stop() is not done, while a phase runs.           *)
LEMMA NextGuarded ==
  OperatorTyped /\ Guarded /\ [OperatorNext]_operatorVars => Guarded'
<1> SUFFICES ASSUME OperatorTyped, Guarded, [OperatorNext]_operatorVars PROVE Guarded'
  OBVIOUS
<1> USE DEF Guarded, loopVars, Phases
<1>1. CASE Start
  BY <1>1 DEF Start
<1>2. CASE BeginEpoch
  <2>1. epoch + 1 # 0
    BY DEF OperatorTyped
  <2> QED
    BY <1>2, <2>1 DEF BeginEpoch
<1>3. CASE LeaveLoop
  BY <1>3 DEF LeaveLoop
<1>4. CASE ListBucketsFails
  BY <1>4 DEF ListBucketsFails, HaltWith
<1>5. ASSUME NEW found, Scan(found) PROVE Guarded'
  BY <1>5 DEF Scan
<1>6. CASE EndDiscovery
  BY <1>6 DEF EndDiscovery, Then
<1>7. CASE PolicyMatch
  BY <1>7 DEF PolicyMatch, Then
<1>8. CASE PolicyFails
  BY <1>8 DEF PolicyFails, HaltWith
<1>9. CASE BlastRadiusPasses
  BY <1>9 DEF BlastRadiusPasses, Then
<1>10. CASE BlastRadiusHalts
  <2>1. phase' = "HALTED"
    BY <1>10 DEF BlastRadiusHalts, HaltWith
  <2> QED
    BY <1>10, <2>1 DEF BlastRadiusHalts
<1>11. ASSUME NEW b \in Bucket, CanaryPasses(b) PROVE Guarded'
  BY <1>11 DEF CanaryPasses
<1>12. ASSUME NEW b \in Bucket, NEW classes, NEW gone, CanaryFails(b, classes, gone) PROVE Guarded'
  BY <1>12 DEF CanaryFails, HaltWith
<1>13. CASE EndCanaries
  BY <1>13 DEF EndCanaries, Then
<1>14. CASE CircuitVerify
  BY <1>14 DEF CircuitVerify, HaltWith
<1>15. CASE StartTask \/ \E t \in Target : Answer(t)
  BY <1>15 DEF StartTask, Answer, TaskSucceeds, TaskFails, TaskAnswered, Bulk
<1>16. CASE EndBulk
  BY <1>16 DEF EndBulk, Bulk, Then
<1>17. CASE AppendEvent \/ AppendThrows
  BY <1>17 DEF AppendEvent, AppendThrows, Record
<1>18. CASE EndAudit
  BY <1>18 DEF EndAudit, Record, Then
<1>19. CASE UndoExport
  BY <1>19 DEF UndoExport, Record
<1>20. CASE Sleep
  BY <1>20, OptionsAssumption DEF Sleep, Between, LastRun, OperatorTyped
<1>21. CASE Wake \/ Halted \/ EndStart \/ OperatorTick
  BY <1>21 DEF Wake, Halted, EndStart, OperatorTick, Between
<1>22. ASSUME NEW c \in Callers, CallStop(c) PROVE Guarded'
  <2>1. /\ phase \in Phases \cup {"SLEEPING", "FINALLY"} /\ UNCHANGED <<phase, lock, halted, epoch>>
        /\ stops' = [stops EXCEPT ![c] = IF running \/ lock THEN "waiting" ELSE "done"]
        /\ shutting' = (shutting \/ running \/ lock)
    BY <1>22 DEF CallStop, Between
  <2>2. CASE lock = TRUE
    <3>1. shutting' = TRUE /\ stops' = [stops EXCEPT ![c] = "waiting"]
      BY <2>1, <2>2
    <3> QED
      BY <2>1, <2>2, <3>1 DEF OperatorTyped
  <2>3. CASE lock # TRUE
    <3>1. shutting = TRUE /\ phase \notin Phases
      BY <2>1, <2>3 DEF OperatorTyped
    <3>2. shutting' = TRUE
      BY <2>1, <3>1
    <3> QED
      BY <2>1, <3>1, <3>2
  <2> QED
    BY <2>2, <2>3
<1>23. ASSUME NEW c \in Callers, FinishStop(c) PROVE Guarded'
  BY <1>23 DEF FinishStop, Between, PhaseSettled, OperatorTyped
<1>24. CASE Exit
  BY <1>24 DEF Exit, Between, Callers
<1>25. CASE UNCHANGED operatorVars
  BY <1>25 DEF operatorVars
<1> QED
  BY <1>1, <1>2, <1>3, <1>4, <1>5, <1>6, <1>7, <1>8, <1>9, <1>10, <1>11, <1>12, <1>13, <1>14, <1>15,
     <1>16, <1>17, <1>18, <1>19, <1>20, <1>21, <1>22, <1>23, <1>24, <1>25
  DEF OperatorNext, Run, Discover, ScanBucket, ScanFails, CanaryAnswer, WakeAborted, Callers

(* What the ceiling says of what matched.                                  *)
LEMMA CeilingSaid ==
  ASSUME NEW planned \in Nat, NEW inventory \in Nat, planned <= inventory,
         WithinCeiling(planned, inventory, FALSE)
  PROVE  100 * planned <= MaxPercent * inventory
<1> DEFINE allowed == inventory * MaxPercent
<1>1. allowed \in Nat /\ allowed = MaxPercent * inventory
  BY BudgetAssumption
<1>2. planned <= IF inventory > 0 THEN allowed \div 100 ELSE MaxAbsoluteFallback
  BY DEF WithinCeiling, MutationLimit
<1>3. CASE inventory = 0
  BY <1>3, BudgetAssumption
<1>4. CASE inventory > 0
  <2> HIDE DEF allowed
  <2>1. 100 * (allowed \div 100) <= allowed /\ allowed \div 100 \in Nat
    BY <1>1
  <2> QED
    BY <1>1, <1>2, <1>4, <2>1
<1> QED
  BY <1>3, <1>4

(* What matched is due and within the ceiling of what was discovered.      *)
LEMMA NextPlanned ==
  OperatorTyped /\ Planned /\ Harmed /\ [OperatorNext]_operatorVars => Planned'
<1> SUFFICES ASSUME OperatorTyped, Planned, Harmed, [OperatorNext]_operatorVars PROVE Planned'
  OBVIOUS
<1> USE DEF Planned, Violations, Acting, SetOf, loopVars, findVars, s3Vars
<1>1. CASE Start
  BY <1>1 DEF Start
<1>2. CASE BeginEpoch
  BY <1>2 DEF BeginEpoch
<1>3. CASE LeaveLoop
  BY <1>3 DEF LeaveLoop
<1>4. CASE ListBucketsFails
  BY <1>4 DEF ListBucketsFails, HaltWith
<1>5. ASSUME NEW found, Scan(found) PROVE Planned'
  BY <1>5 DEF Scan, Harmed, Early
<1>6. CASE EndDiscovery
  BY <1>6 DEF EndDiscovery, Then
<1>7. CASE PolicyMatch
  <2> DEFINE found == Filtered(discovered, Violations)
  <2>1. found \in Seq(Target) /\ Len(found) <= Len(discovered) /\ SetOf(found) \subseteq Violations
    <3>1. /\ found \in Seq(Target) /\ Len(found) <= Len(discovered)
          /\ Elements(found) = Elements(discovered) \cap Violations
      BY FilterSound DEF OperatorTyped
    <3> HIDE DEF found, Violations, SetOf
    <3>2. SetOf(found) = Elements(found)
      BY <3>1, Members
    <3> QED
      BY <3>1, <3>2
  <2>2. matched' = found /\ destroyed = {} /\ phase' \notin Acting
    BY <1>7 DEF PolicyMatch, Then, Harmed, Early
  <2> HIDE DEF found
  <2> QED
    BY <1>7, <2>1, <2>2 DEF PolicyMatch
<1>8. CASE PolicyFails
  BY <1>8 DEF PolicyFails, HaltWith, Harmed, Early
<1>9. CASE BlastRadiusPasses
  <2>1. 100 * Len(matched) <= MaxPercent * Len(discovered)
    <3>1. Len(matched) \in Nat /\ Len(discovered) \in Nat
      BY DEF OperatorTyped
    <3> QED
      BY <1>9, <3>1, CeilingSaid DEF BlastRadiusPasses, UnderCeiling
  <2> QED
    BY <1>9, <2>1 DEF BlastRadiusPasses, Then
<1>10. CASE BlastRadiusHalts
  <2>1. phase' = "HALTED"
    BY <1>10 DEF BlastRadiusHalts, HaltWith
  <2> QED
    BY <1>10, <2>1 DEF BlastRadiusHalts
<1>11. ASSUME NEW b \in Bucket, CanaryPasses(b) PROVE Planned'
  BY <1>11 DEF CanaryPasses
<1>12. ASSUME NEW b \in Bucket, NEW classes, NEW gone, CanaryFails(b, classes, gone) PROVE Planned'
  BY <1>12 DEF CanaryFails, HaltWith
<1>13. CASE EndCanaries
  BY <1>13 DEF EndCanaries, Then
<1>14. CASE CircuitVerify
  BY <1>14 DEF CircuitVerify, HaltWith
<1>15. CASE StartTask \/ \E t \in Target : Answer(t)
  BY <1>15 DEF StartTask, Answer, TaskSucceeds, TaskFails, TaskAnswered, Bulk
<1>16. CASE EndBulk
  BY <1>16 DEF EndBulk, Bulk, Then
<1>17. CASE AppendEvent \/ AppendThrows
  BY <1>17 DEF AppendEvent, AppendThrows, Record
<1>18. CASE EndAudit
  BY <1>18 DEF EndAudit, Record, Then
<1>19. CASE UndoExport
  BY <1>19 DEF UndoExport, Record
<1>20. CASE Sleep
  BY <1>20 DEF Sleep, Between
<1>21. CASE Wake \/ Halted \/ EndStart \/ OperatorTick \/ Exit
  BY <1>21 DEF Wake, Halted, EndStart, OperatorTick, Exit, Between
<1>22. ASSUME NEW c \in Callers, CallStop(c) \/ FinishStop(c) PROVE Planned'
  BY <1>22 DEF CallStop, FinishStop, Between
<1>23. CASE UNCHANGED operatorVars
  BY <1>23 DEF operatorVars
<1> QED
  BY <1>1, <1>2, <1>3, <1>4, <1>5, <1>6, <1>7, <1>8, <1>9, <1>10, <1>11, <1>12, <1>13, <1>14, <1>15,
     <1>16, <1>17, <1>18, <1>19, <1>20, <1>21, <1>22, <1>23
  DEF OperatorNext, Run, Discover, ScanBucket, ScanFails, CanaryAnswer, WakeAborted, Callers

(* Only what matched is touched, and in the phases for it.                 *)
LEMMA NextHarmed ==
  OperatorTyped /\ Guarded /\ Harmed /\ [OperatorNext]_operatorVars => Harmed'
<1> SUFFICES ASSUME OperatorTyped, Guarded, Harmed, [OperatorNext]_operatorVars PROVE Harmed'
  OBVIOUS
<1> USE DEF Harmed, Early, SetOf, loopVars, findVars, bulkVars, s3Vars
<1>1. CASE Start
  BY <1>1 DEF Start
<1>2. CASE BeginEpoch
  BY <1>2 DEF BeginEpoch
<1>3. CASE LeaveLoop
  BY <1>3 DEF LeaveLoop
<1>4. CASE ListBucketsFails
  BY <1>4 DEF ListBucketsFails, HaltWith
<1>5. ASSUME NEW found, Scan(found) PROVE Harmed'
  BY <1>5 DEF Scan
<1>6. CASE EndDiscovery
  BY <1>6 DEF EndDiscovery, Then
<1>7. CASE PolicyMatch
  <2>1. destroyed = {} /\ flying = {} /\ todo = <<>>
    BY <1>7 DEF PolicyMatch
  <2> QED
    BY <1>7, <2>1 DEF PolicyMatch, Then
<1>8. CASE PolicyFails
  <2>1. destroyed = {} /\ flying = {} /\ todo = <<>>
    BY <1>8 DEF PolicyFails
  <2> QED
    BY <1>8, <2>1 DEF PolicyFails, HaltWith
<1>9. CASE BlastRadiusPasses
  BY <1>9 DEF BlastRadiusPasses, Then
<1>10. CASE BlastRadiusHalts
  <2>1. phase' = "HALTED"
    BY <1>10 DEF BlastRadiusHalts, HaltWith
  <2> QED
    BY <1>10, <2>1 DEF BlastRadiusHalts
<1>11. ASSUME NEW b \in Bucket, CanaryPasses(b) PROVE Harmed'
  <2>1. SampleOf(b) \subseteq SetOf(matched)
    BY SampleWithin DEF OperatorTyped
  <2> QED
    BY <1>11, <2>1 DEF CanaryPasses, Removes
<1>12. ASSUME NEW b \in Bucket, NEW classes, NEW gone, CanaryFails(b, classes, gone) PROVE Harmed'
  <2>1. Deletable(b) \subseteq SetOf(matched)
    BY SampleWithin DEF OperatorTyped, Deletable
  <2> QED
    BY <1>12, <2>1 DEF CanaryFails, HaltWith, Removes
<1>13. CASE EndCanaries
  BY <1>13 DEF EndCanaries, Then
<1>14. CASE CircuitVerify
  <2>1. SetOf(Remaining) \subseteq SetOf(matched)
    <3> DEFINE S == {t \in SetOf(matched) : ~ \E u \in handled : SameOutcome(t, u)}
    <3>1. Remaining \in Seq(Target) /\ Elements(Remaining) = Elements(matched) \cap S
      BY FilterSound DEF Remaining, OperatorTyped
    <3> HIDE DEF S, SetOf
    <3> QED
      BY <3>1, Members DEF OperatorTyped
  <2> QED
    BY <1>14, <2>1 DEF CircuitVerify, HaltWith
<1>15. CASE StartTask
  <2>1. /\ SetOf(todo) = {Head(todo)} \cup SetOf(Tail(todo))
    <3> HIDE DEF SetOf
    <3>1. /\ todo \in Seq(Target) /\ todo # <<>>
      BY <1>15 DEF StartTask, OperatorTyped
    <3>2. Tail(todo) \in Seq(Target) /\ Elements(todo) = {Head(todo)} \cup Elements(Tail(todo))
      BY <3>1, ShiftSound
    <3> QED
      BY <3>1, <3>2, Members
  <2> HIDE DEF SetOf
  <2>2. SetOf(matched)' = SetOf(matched) /\ SetOf(todo)' = SetOf(Tail(todo))
    BY <1>15 DEF StartTask, Bulk, SetOf
  <2> QED
    BY <1>15, <2>1, <2>2 DEF StartTask, Bulk
<1>16. CASE \E t \in Target : Answer(t)
  BY <1>16 DEF Answer, TaskSucceeds, TaskFails, TaskAnswered, Bulk, Removes
<1>17. CASE EndBulk
  BY <1>17 DEF EndBulk, Bulk, Then
<1>18. CASE AppendEvent \/ AppendThrows
  BY <1>18 DEF AppendEvent, AppendThrows, Record
<1>19. CASE EndAudit
  BY <1>19 DEF EndAudit, Record, Then
<1>20. CASE UndoExport
  BY <1>20 DEF UndoExport, Record
<1>21. CASE Sleep
  BY <1>21 DEF Sleep, Between
<1>22. CASE Wake \/ Halted \/ EndStart \/ OperatorTick
  BY <1>22 DEF Wake, Halted, EndStart, OperatorTick, Between
<1>23. CASE Exit
  BY <1>23 DEF Exit, Between, Guarded, Phases, Callers
<1>24. ASSUME NEW c \in Callers, CallStop(c) \/ FinishStop(c) PROVE Harmed'
  BY <1>24 DEF CallStop, FinishStop, Between
<1>25. CASE UNCHANGED operatorVars
  <2>1. UNCHANGED <<options, phase, matched, todo, flying, destroyed, passed>>
    BY <1>25 DEF operatorVars
  <2> QED
    BY <2>1
<1> QED
  BY <1>1, <1>2, <1>3, <1>4, <1>5, <1>6, <1>7, <1>8, <1>9, <1>10, <1>11, <1>12, <1>13, <1>14, <1>15,
     <1>16, <1>17, <1>18, <1>19, <1>20, <1>21, <1>22, <1>23, <1>24, <1>25
  DEF OperatorNext, Run, Discover, ScanBucket, ScanFails, CanaryAnswer, WakeAborted, Callers

(* Every bucket is sampled before the bulk.                                *)
LEMMA NextSampled ==
  OperatorTyped /\ Guarded /\ Harmed /\ Sampled /\ [OperatorNext]_operatorVars => Sampled'
<1> SUFFICES ASSUME OperatorTyped, Guarded, Harmed, Sampled, [OperatorNext]_operatorVars PROVE Sampled'
  OBVIOUS
<1> USE DEF Sampled, Acting, loopVars, findVars, bulkVars, s3Vars
<1>1. CASE Start
  BY <1>1 DEF Start
<1>2. CASE BeginEpoch
  BY <1>2 DEF BeginEpoch
<1>3. CASE LeaveLoop
  BY <1>3 DEF LeaveLoop
<1>4. CASE ListBucketsFails
  BY <1>4 DEF ListBucketsFails, HaltWith
<1>5. ASSUME NEW found, Scan(found) PROVE Sampled'
  BY <1>5 DEF Scan
<1>6. CASE EndDiscovery
  BY <1>6 DEF EndDiscovery, Then
<1>7. CASE PolicyMatch
  BY <1>7 DEF PolicyMatch, Then
<1>8. CASE PolicyFails
  BY <1>8 DEF PolicyFails, HaltWith
<1>9. CASE BlastRadiusPasses
  <2>1. Distinct(toTest') /\ Elements(toTest') = Affected
    <3>1. Affected \subseteq Bucket
      BY AffectedBuckets DEF OperatorTyped
    <3>2. Distinct(Filtered(Buckets, Affected)) /\ Elements(Filtered(Buckets, Affected)) = Bucket \cap Affected
      BY BucketFacts, FilterSound
    <3> QED
      BY <1>9, <3>1, <3>2 DEF BlastRadiusPasses
  <2>2. destroyed' = {} /\ passed' = {} /\ Affected' = Affected
    BY <1>9 DEF BlastRadiusPasses, Harmed, Early, Affected
  <2> QED
    BY <1>9, <2>1, <2>2 DEF BlastRadiusPasses, Then
<1>10. CASE BlastRadiusHalts
  <2>1. phase' = "HALTED"
    BY <1>10 DEF BlastRadiusHalts, HaltWith
  <2> QED
    BY <2>1
<1>11. ASSUME NEW b \in Bucket, CanaryPasses(b) PROVE Sampled'
  <2>1. /\ phase = "CANARY_TEST" /\ phase' = phase /\ ~options.dryRun /\ options' = options
        /\ toTest # <<>> /\ b = Head(toTest) /\ toTest' = Tail(toTest) /\ passed' = passed \cup {b}
        /\ destroyed' \subseteq destroyed \cup SampleOf(b) /\ matched' = matched
    BY <1>11 DEF CanaryPasses, Removes
  <2>2. /\ Distinct(Tail(toTest)) /\ b \in Elements(toTest)
        /\ \A c : c \in Elements(Tail(toTest)) <=> c \in Elements(toTest) /\ c # b
    BY <2>1, TailSound DEF OperatorTyped
  <2>3. \A t \in SampleOf(b) : BucketOf(t) = b
    BY SampleWithin, BucketFacts DEF OperatorTyped
  <2>4. Affected' = Affected
    BY <2>1 DEF Affected
  <2>5. Elements(toTest') = Affected \ passed'
    BY <2>1, <2>2
  <2> QED
    BY <2>1, <2>2, <2>3, <2>4, <2>5
<1>12. ASSUME NEW b \in Bucket, NEW classes, NEW gone, CanaryFails(b, classes, gone) PROVE Sampled'
  BY <1>12 DEF CanaryFails, HaltWith
<1>13. CASE EndCanaries
  <2>1. UNCHANGED <<options, matched, passed, destroyed>> /\ phase = "CANARY_TEST" /\ phase' \in {"CIRCUIT_VERIFY", "SLEEP"}
    BY <1>13 DEF EndCanaries, Then
  <2>2. Affected' = Affected
    BY <2>1 DEF Affected
  <2>3. ~options.dryRun => passed = Affected
    BY <1>13, NoElements DEF EndCanaries, OperatorTyped
  <2> QED
    BY <2>1, <2>2, <2>3
<1>14. CASE CircuitVerify
  <2>1. /\ UNCHANGED <<options, matched, passed, destroyed>> /\ phase = "CIRCUIT_VERIFY"
        /\ phase' \in {"BULK_EXECUTE", "AUDIT_LOG", "HALTED"}
    BY <1>14 DEF CircuitVerify, HaltWith
  <2>2. Affected' = Affected
    BY <2>1 DEF Affected
  <2> QED
    BY <2>1, <2>2
<1>15. CASE StartTask
  <2>1. UNCHANGED <<options, phase, matched, passed, destroyed>> /\ phase = "BULK_EXECUTE"
    BY <1>15 DEF StartTask, Bulk
  <2>2. Affected' = Affected
    BY <2>1 DEF Affected
  <2> QED
    BY <2>1, <2>2
<1>16. ASSUME NEW t \in Target, Answer(t) PROVE Sampled'
  <2>1. /\ UNCHANGED <<options, phase, matched, passed>> /\ phase = "BULK_EXECUTE"
        /\ t \in flying /\ destroyed' \subseteq destroyed \cup {t}
    BY <1>16 DEF Answer, TaskSucceeds, TaskFails, TaskAnswered, Bulk, Removes
  <2>2. Affected' = Affected
    BY <2>1 DEF Affected
  <2>3. passed = Affected /\ BucketOf(t) \in Affected
    BY <2>1 DEF Harmed, Affected
  <2> QED
    BY <2>1, <2>2, <2>3
<1>17. CASE EndBulk
  BY <1>17 DEF EndBulk, Bulk, Then
<1>18. CASE AppendEvent \/ AppendThrows
  BY <1>18 DEF AppendEvent, AppendThrows, Record
<1>19. CASE EndAudit
  BY <1>19 DEF EndAudit, Record, Then
<1>20. CASE UndoExport
  BY <1>20 DEF UndoExport, Record
<1>21. CASE Sleep
  BY <1>21 DEF Sleep, Between
<1>22. CASE Wake \/ Halted \/ EndStart \/ Exit
  BY <1>22 DEF Wake, Halted, EndStart, Exit
<1>23. ASSUME UNCHANGED <<options, phase, matched, toTest, passed, destroyed>> PROVE Sampled'
  <2>1. Affected' = Affected
    BY <1>23 DEF Affected
  <2> QED
    BY <1>23, <2>1
<1>24. CASE OperatorTick \/ \E c \in Callers : CallStop(c) \/ FinishStop(c)
  BY <1>23, <1>24 DEF OperatorTick, CallStop, FinishStop, Between
<1>25. CASE UNCHANGED operatorVars
  BY <1>23, <1>25 DEF operatorVars
<1> QED
  BY <1>1, <1>2, <1>3, <1>4, <1>5, <1>6, <1>7, <1>8, <1>9, <1>10, <1>11, <1>12, <1>13, <1>14, <1>15,
     <1>16, <1>17, <1>18, <1>19, <1>20, <1>21, <1>22, <1>24, <1>25
  DEF OperatorNext, Run, Discover, ScanBucket, ScanFails, CanaryAnswer, WakeAborted, Callers

(* The events of an epoch are kept apart from those of the log.            *)
LEMMA NextRecorded ==
  OperatorTyped /\ Guarded /\ Harmed /\ Sampled /\ Recorded /\ Logged /\ [OperatorNext]_operatorVars
    => Recorded'
<1> SUFFICES ASSUME OperatorTyped, Guarded, Harmed, Sampled, Recorded, Logged, [OperatorNext]_operatorVars
             PROVE  Recorded'
  OBVIOUS
<1> USE DEF Recorded, Early, Acting, loopVars, findVars, bulkVars, recordVars, s3Vars
<1>1. ASSUME UNCHANGED <<epoch, events, written, log, destroyed, passed>>, phase' = phase,
             shutting' = shutting \/ shutting' = TRUE
      PROVE  Recorded'
  BY <1>1 DEF Covers, Event
<1>2. ASSUME phase' \in {"FINALLY", "HALTED", "ENDED", "EXITED"} \/ (phase' \in {"LOOP", "SLEEP"} /\ shutting' = TRUE)
      PROVE  Recorded'
  BY <1>2
<1>3. ASSUME UNCHANGED <<events, written, shutting>>, events = <<>>, written = 0,
             phase' \in Early \cup {"LOOP", "SLEEP", "SLEEPING"}
      PROVE  Recorded'
  BY <1>3
<1>4. CASE Start
  BY <1>4, <1>3 DEF Start, Guarded
<1>5. CASE BeginEpoch
  BY <1>5, <1>3 DEF BeginEpoch
<1>6. CASE LeaveLoop \/ ListBucketsFails \/ PolicyFails \/ Halted \/ EndStart \/ Exit \/ AppendThrows
  BY <1>6, <1>2 DEF LeaveLoop, ListBucketsFails, PolicyFails, HaltWith, Halted, EndStart, Exit, AppendThrows
<1>7. ASSUME NEW found, Scan(found) PROVE Recorded'
  BY <1>7, <1>3 DEF Scan
<1>8. CASE EndDiscovery
  BY <1>8, <1>2, <1>3 DEF EndDiscovery, Then, OperatorTyped
<1>9. CASE PolicyMatch
  BY <1>9, <1>2, <1>3 DEF PolicyMatch, Then, OperatorTyped
<1>10. CASE BlastRadiusPasses
  <2>1. events' = <<>> /\ written' = 0 /\ passed' = {}
    BY <1>10 DEF BlastRadiusPasses, Harmed
  <2>2. Distinct(events') /\ Elements(events') = {}
    BY <2>1, NoElements DEF Distinct, Elements
  <2>3. phase' = "CANARY_TEST" \/ (phase' = "SLEEP" /\ shutting' = TRUE)
    BY <1>10 DEF BlastRadiusPasses, Then, OperatorTyped
  <2> QED
    BY <1>2, <2>1, <2>2, <2>3
<1>11. CASE BlastRadiusHalts
  <2>1. phase' = "HALTED"
    BY <1>11 DEF BlastRadiusHalts, HaltWith
  <2> QED
    BY <2>1
<1>12. ASSUME NEW b \in Bucket, CanaryPasses(b) PROVE Recorded'
  <2> DEFINE e == Event("CANARY_VERIFIED", b)
  <2>1. /\ phase = "CANARY_TEST" /\ phase' = phase /\ ~options.dryRun /\ toTest # <<>> /\ b = Head(toTest)
        /\ UNCHANGED <<epoch, written>> /\ passed' = passed \cup {b} /\ events' = Append(events, e)
    BY <1>12 DEF CanaryPasses
  <2>2. b \notin passed
    <3>1. b \in Elements(toTest)
      BY <2>1, TailSound DEF Sampled, OperatorTyped
    <3> QED
      BY <2>1, <3>1 DEF Sampled
  <2>3. \A c : Event("CANARY_VERIFIED", c).bucket = c /\ Event("CANARY_VERIFIED", c)' = Event("CANARY_VERIFIED", c)
    BY <2>1 DEF Event
  <2>4. e \in Events
    BY <2>1, EventType DEF Phases
  <2>5. Distinct(events) /\ Elements(events) = {Event("CANARY_VERIFIED", c) : c \in passed}
    BY <2>1
  <2>6. e \notin Elements(events)
    BY <2>2, <2>3, <2>5
  <2>7. Distinct(events') /\ Elements(events') = Elements(events) \cup {e}
    BY <2>1, <2>4, <2>5, <2>6, AppendSound DEF OperatorTyped
  <2>8. {Event("CANARY_VERIFIED", c)' : c \in passed'} = Elements(events) \cup {e}
    BY <2>1, <2>3, <2>5
  <2> HIDE DEF e
  <2> QED
    BY <2>1, <2>7, <2>8
<1>13. ASSUME NEW b \in Bucket, NEW classes, NEW gone, CanaryFails(b, classes, gone) PROVE Recorded'
  BY <1>13, <1>2 DEF CanaryFails, HaltWith
<1>14. ASSUME phase \in Acting, phase' \in Acting, UNCHANGED <<epoch, events, written, passed>>
       PROVE  Recorded'
  BY <1>14 DEF Event
<1>15. CASE EndCanaries
  BY <1>15, <1>2, <1>14 DEF EndCanaries, Then, OperatorTyped
<1>16. CASE CircuitVerify
  <2>1. CASE phase' \in Acting
    BY <1>14, <1>16, <2>1 DEF CircuitVerify, HaltWith
  <2>2. CASE phase' = "AUDIT_LOG"
    <3>1. /\ phase = "CIRCUIT_VERIFY" /\ options.dryRun /\ UNCHANGED <<epoch, events, written, log, destroyed>>
      BY <1>16, <2>2 DEF CircuitVerify, HaltWith
    <3>2. passed = {} /\ destroyed = {} /\ written = 0
      BY <3>1 DEF Sampled, Harmed
    <3>3. Distinct(events) /\ Elements(events) = {}
      BY <3>1, <3>2
    <3>4. events = <<>>
      BY <3>3, NoElements DEF OperatorTyped
    <3>5. Len(events) = 0
      BY <3>4
    <3> QED
      BY <2>2, <3>1, <3>2, <3>3, <3>5 DEF Covers
  <2>3. CASE phase' = "HALTED"
    BY <1>2, <2>3
  <2> QED
    BY <1>16, <2>1, <2>2, <2>3 DEF CircuitVerify, HaltWith
<1>17. CASE StartTask \/ \E t \in Target : Answer(t)
  BY <1>14, <1>17 DEF StartTask, Answer, TaskSucceeds, TaskFails, TaskAnswered, Bulk
<1>18. CASE EndBulk
  <2>1. /\ phase = "BULK_EXECUTE" /\ events' = events \o BulkEvents /\ written' = 0 /\ ~options.dryRun
        /\ UNCHANGED <<epoch, log, destroyed>>
        /\ phase' = "AUDIT_LOG" \/ (phase' = "SLEEP" /\ shutting' = TRUE)
    BY <1>18 DEF EndBulk, Bulk, Then, OperatorTyped, Harmed
  <2>2. Distinct(events) /\ Elements(events) = {Event("CANARY_VERIFIED", b) : b \in passed}
    BY <2>1
  <2>3. /\ BulkEvents \in Seq(Events) /\ Distinct(BulkEvents)
        /\ \A e \in Elements(BulkEvents) : e.kind = "REMEDIATION_EXECUTED" /\ e.epoch = epoch
    BY <2>1, BulkEventsType DEF Phases, Elements
  <2>4. \A e \in Elements(events) : e.kind = "CANARY_VERIFIED" /\ e.epoch = epoch
    BY <2>2, EventFields
  <2>5. Elements(events) \cap Elements(BulkEvents) = {}
    BY <2>3, <2>4
  <2>6. /\ events' \in Seq(Events) /\ Distinct(events')
        /\ Elements(events') = Elements(events) \cup Elements(BulkEvents)
    BY <2>1, <2>2, <2>3, <2>5, ConcatSound DEF OperatorTyped
  <2>7. \A e \in Elements(events') : e.epoch = epoch
    BY <2>3, <2>4, <2>6
  <2>8. Covers(events')
    <3> SUFFICES ASSUME NEW t \in destroyed
                 PROVE  \E e \in Elements(events') : e.bucket = BucketOf(t) /\ e.epoch = epoch
      BY DEF Covers
    <3>1. BucketOf(t) \in passed
      BY <2>1 DEF Sampled
    <3>2. Event("CANARY_VERIFIED", BucketOf(t)) \in Elements(events')
      BY <2>2, <2>6, <3>1
    <3> QED
      BY <3>2, EventFields
  <2>9. \A i \in 1..Len(events') : events'[i].epoch = epoch /\ events'[i] \notin Elements(log) /\ ~ (i <= 0)
    <3>1. \A i \in 1..Len(events') : events'[i] \in Elements(events')
      BY DEF Elements
    <3>2. \A e \in Elements(log) : e.epoch # epoch
      BY <2>1 DEF Logged
    <3> QED
      BY <2>7, <3>1, <3>2
  <2>10. phase' = "AUDIT_LOG" => Covers(events)'
    BY <2>1, <2>8 DEF Covers
  <2> HIDE DEF BulkEvents
  <2> QED
    BY <1>2, <2>1, <2>6, <2>9, <2>10
<1>19. CASE AppendEvent
  <2>1. /\ phase = "AUDIT_LOG" /\ phase' = phase /\ written < Len(events) /\ written' = written + 1
        /\ log' = Append(log, events[written + 1]) /\ UNCHANGED <<events, epoch, destroyed>>
    BY <1>19 DEF AppendEvent, Record
  <2>2. written + 1 \in 1..Len(events) /\ written \in Nat
    BY <2>1 DEF OperatorTyped
  <2>3. Elements(log') = Elements(log) \cup {events[written + 1]}
    BY <2>1, <2>2, AppendSound DEF OperatorTyped
  <2>4. \A i \in 1..Len(events) : events[i] \in Elements(log') <=> i <= written + 1
    <3>1. \A i \in 1..Len(events) : events[i] = events[written + 1] => i = written + 1
      BY <2>1, <2>2 DEF Distinct
    <3>2. \A i \in 1..Len(events) : events[i] \in Elements(log) <=> i <= written
      BY <2>1
    <3>3. \A i \in 1..Len(events) : i \in Nat /\ (i <= written + 1 <=> i <= written \/ i = written + 1)
      BY <2>2 DEF OperatorTyped
    <3> QED
      BY <2>3, <3>1, <3>2, <3>3
  <2>5. Covers(events)'
    BY <2>1 DEF Covers
  <2> QED
    BY <2>1, <2>4, <2>5
<1>20. CASE EndAudit
  <2>1. events' = <<>> /\ written' = 0 /\ (phase' = "UNDO_EXPORT" \/ (phase' = "SLEEP" /\ shutting' = TRUE))
    BY <1>20 DEF EndAudit, Then, Record, OperatorTyped
  <2> QED
    BY <2>1
<1>21. CASE UndoExport
  BY <1>21, <1>3 DEF UndoExport, Record
<1>22. CASE Sleep
  <2>1. CASE shutting = TRUE
    <3>1. phase' \in {"FINALLY", "LOOP"} /\ shutting' = TRUE
      BY <1>22, <2>1 DEF Sleep
    <3> QED
      BY <1>2, <3>1
  <2>2. CASE shutting = FALSE
    BY <1>2, <1>3, <1>22, <2>2 DEF Sleep, Between
  <2> QED
    BY <2>1, <2>2 DEF OperatorTyped
<1>23. CASE Wake
  <2>1. phase = "SLEEPING" /\ phase' = "LOOP" /\ UNCHANGED <<events, written, shutting>>
    BY <1>23 DEF Wake, Between
  <2> QED
    BY <1>2, <1>3, <2>1 DEF OperatorTyped
<1>24. CASE OperatorTick \/ \E c \in Callers : FinishStop(c)
  BY <1>1, <1>24 DEF OperatorTick, FinishStop, Between
<1>25. ASSUME NEW c \in Callers, CallStop(c) PROVE Recorded'
  <2>1. /\ UNCHANGED <<epoch, events, written, log, destroyed, passed>> /\ phase' = phase
        /\ shutting' = (shutting \/ running \/ lock)
    BY <1>25 DEF CallStop, Between
  <2> QED
    BY <1>1, <2>1 DEF OperatorTyped
<1>26. CASE UNCHANGED operatorVars
  BY <1>1, <1>26 DEF operatorVars
<1> QED
  BY <1>4, <1>5, <1>6, <1>7, <1>8, <1>9, <1>10, <1>11, <1>12, <1>13, <1>15,
     <1>16, <1>17, <1>18, <1>19, <1>20, <1>21, <1>22, <1>23, <1>24, <1>25, <1>26
  DEF OperatorNext, Run, Discover, ScanBucket, ScanFails, CanaryAnswer, WakeAborted, Callers

(* The log names no event twice, and covers an epoch once it is audited.   *)
LEMMA NextLogged ==
  OperatorTyped /\ Recorded /\ Logged /\ [OperatorNext]_operatorVars => Logged'
<1> SUFFICES ASSUME OperatorTyped, Recorded, Logged, [OperatorNext]_operatorVars PROVE Logged'
  OBVIOUS
<1> USE DEF Logged, Early, Acting, loopVars, findVars, bulkVars, recordVars, s3Vars
<1>1. ASSUME UNCHANGED <<epoch, log>>,
             phase' \in Early \cup Acting => phase \in Early \cup Acting,
             phase' # "UNDO_EXPORT" /\ ~(phase' = "SLEEP" /\ ~shutting')
      PROVE  Logged'
  BY <1>1
<1>2. CASE Start \/ LeaveLoop \/ Halted \/ EndStart \/ Exit \/ Wake \/ Sleep
  BY <1>1, <1>2 DEF Start, LeaveLoop, Halted, EndStart, Exit, Wake, Sleep, Between
<1>3. CASE BeginEpoch
  <2>1. \A e \in Elements(log) : e.epoch \in Nat /\ e.epoch <= epoch
    <3>1. Elements(log) \in SUBSET Events
      BY ElementsCounted DEF OperatorTyped
    <3> QED
      BY <3>1, OptionsAssumption DEF Events
  <2>2. \A e \in Elements(log) : e.epoch <= epoch + 1 /\ e.epoch # epoch + 1
    BY <2>1 DEF OperatorTyped
  <2> QED
    BY <1>3, <2>2 DEF BeginEpoch
<1>4. CASE ListBucketsFails \/ PolicyFails
  BY <1>1, <1>4 DEF ListBucketsFails, PolicyFails, HaltWith
<1>5. ASSUME NEW found, Scan(found) PROVE Logged'
  BY <1>1, <1>5 DEF Scan
<1>6. CASE EndDiscovery \/ PolicyMatch \/ BlastRadiusPasses \/ EndCanaries
  BY <1>1, <1>6 DEF EndDiscovery, PolicyMatch, BlastRadiusPasses, EndCanaries, Then, OperatorTyped
<1>7. CASE BlastRadiusHalts
  <2>1. phase' = "HALTED" /\ UNCHANGED <<epoch, log>>
    BY <1>7 DEF BlastRadiusHalts, HaltWith
  <2> QED
    BY <1>1, <2>1
<1>8. ASSUME NEW b \in Bucket, CanaryPasses(b) PROVE Logged'
  BY <1>1, <1>8 DEF CanaryPasses
<1>9. ASSUME NEW b \in Bucket, NEW classes, NEW gone, CanaryFails(b, classes, gone) PROVE Logged'
  BY <1>1, <1>9 DEF CanaryFails, HaltWith
<1>10. CASE CircuitVerify
  <2>1. UNCHANGED <<epoch, log>> /\ phase = "CIRCUIT_VERIFY" /\ phase' \in {"HALTED", "AUDIT_LOG", "BULK_EXECUTE"}
    BY <1>10 DEF CircuitVerify, HaltWith
  <2> QED
    BY <1>1, <2>1
<1>11. CASE StartTask \/ \E t \in Target : Answer(t)
  BY <1>1, <1>11 DEF StartTask, Answer, TaskSucceeds, TaskFails, TaskAnswered, Bulk
<1>12. CASE EndBulk
  BY <1>1, <1>12 DEF EndBulk, Bulk, Then, OperatorTyped
<1>13. CASE AppendEvent
  <2>1. /\ phase = "AUDIT_LOG" /\ phase' = phase /\ written < Len(events) /\ epoch' = epoch
        /\ log' = Append(log, events[written + 1])
    BY <1>13 DEF AppendEvent, Record
  <2>2. written + 1 \in 1..Len(events) /\ ~ (written + 1 <= written)
    BY <2>1 DEF OperatorTyped
  <2>3. events[written + 1] \notin Elements(log) /\ events[written + 1].epoch = epoch
    BY <2>1, <2>2 DEF Recorded
  <2>4. Distinct(log') /\ Elements(log') = Elements(log) \cup {events[written + 1]}
    BY <2>1, <2>2, <2>3, AppendSound DEF OperatorTyped
  <2>5. epoch <= epoch
    BY DEF OperatorTyped
  <2> QED
    BY <2>1, <2>3, <2>4, <2>5
<1>14. CASE AppendThrows
  BY <1>1, <1>14 DEF AppendThrows, Record
<1>15. CASE EndAudit
  <2>1. /\ phase = "AUDIT_LOG" /\ written = Len(events) /\ UNCHANGED <<epoch, log, destroyed, shutting>>
        /\ phase' \in {"UNDO_EXPORT", "SLEEP"}
    BY <1>15 DEF EndAudit, Then, Record
  <2>2. \A e \in Elements(events) : e \in Elements(log)
    <3>1. \A i \in 1..Len(events) : i <= written
      BY <2>1 DEF OperatorTyped
    <3>2. \A i \in 1..Len(events) : events[i] \in Elements(log)
      BY <2>1, <3>1 DEF Recorded
    <3> QED
      BY <3>2 DEF Elements
  <2>3. Covers(log)'
    BY <2>1, <2>2 DEF Recorded, Covers
  <2> QED
    BY <2>1, <2>3
<1>16. CASE UndoExport
  <2>1. phase = "UNDO_EXPORT" /\ phase' = "SLEEP" /\ UNCHANGED <<epoch, log, destroyed>>
    BY <1>16 DEF UndoExport, Record
  <2>2. Covers(log)'
    BY <2>1 DEF Covers
  <2> QED
    BY <2>1, <2>2
<1>17. ASSUME UNCHANGED <<phase, epoch, log, destroyed>>, ~shutting' => ~shutting PROVE Logged'
  BY <1>17 DEF Covers
<1>18. CASE OperatorTick \/ \E c \in Callers : CallStop(c) \/ FinishStop(c)
  BY <1>17, <1>18 DEF OperatorTick, CallStop, FinishStop, Between
<1>19. CASE UNCHANGED operatorVars
  BY <1>17, <1>19 DEF operatorVars
<1> QED
  BY <1>2, <1>3, <1>4, <1>5, <1>6, <1>7, <1>8, <1>9, <1>10, <1>11, <1>12, <1>13, <1>14, <1>15,
     <1>16, <1>18, <1>19
  DEF OperatorNext, Run, Discover, ScanBucket, ScanFails, CanaryAnswer, WakeAborted, Callers

-----------------------------------------------------------------------------
(* The initial state satisfies the invariant.                              *)
LEMMA InitOperatorInv == OperatorInit => OperatorInv
<1> SUFFICES ASSUME OperatorInit PROVE OperatorInv
  OBVIOUS
<1>1. /\ <<>> \in Seq(Bucket) /\ <<>> \in Seq(Target) /\ <<>> \in Seq(Events) /\ Len(<<>>) = 0
      /\ SetOf(<<>>) = {} /\ Elements(<<>>) = {} /\ Distinct(<<>>)
  BY DEF SetOf, Elements, Distinct
<1>2. OperatorTyped
  <2>1. options \in Options /\ phase \in Resting /\ epoch \in 0..MaxRuns /\ cursor \in Bucket \cup {"none"}
    BY OptionsAssumption DEF OperatorInit, Resting
  <2>2. stops \in [Callers -> {"off", "waiting", "done"}]
    BY DEF OperatorInit
  <2>3. /\ toScan \in Seq(Bucket) /\ toTest \in Seq(Bucket)
        /\ discovered \in Seq(Target) /\ matched \in Seq(Target) /\ todo \in Seq(Target)
        /\ events \in Seq(Events) /\ log \in Seq(Events) /\ written \in 0..Len(events)
    BY <1>1 DEF OperatorInit
  <2> QED
    BY <2>1, <2>2, <2>3, NewBreakerSound DEF OperatorInit, OperatorTyped
<1>3. Guarded
  BY OptionsAssumption DEF OperatorInit, Guarded, Phases
<1>4. Planned /\ Harmed /\ Sampled
  BY <1>1 DEF OperatorInit, Planned, Harmed, Sampled, Early, Acting
<1>5. Recorded /\ Logged
  BY <1>1 DEF OperatorInit, Recorded, Logged, Early, Acting
<1> QED
  BY <1>2, <1>3, <1>4, <1>5 DEF OperatorInv

(* The lock, the ceiling, the canaries and the log, whatever fails and     *)
(* whenever stop() is called.                                              *)
THEOREM OperatorInvariant == OperatorSpec => []OperatorInv
<1>1. OperatorInv /\ [OperatorNext]_operatorVars => OperatorInv'
  BY NextOperatorTyped, NextGuarded, NextPlanned, NextHarmed, NextSampled, NextRecorded, NextLogged
  DEF OperatorInv
<1> QED
  BY InitOperatorInv, <1>1, PTL DEF OperatorSpec

(* What an epoch removes was due, is under no MONITOR_ONLY rule, stays     *)
(* within the ceiling of what it discovered, and the bulk begins only when *)
(* every affected bucket's canary has passed: the phases of runOnce.       *)
THEOREM OperatorHarmContained == OperatorSpec => []HarmContained
<1>1. OperatorInv => HarmContained
  <2> SUFFICES ASSUME OperatorInv PROVE HarmContained
    OBVIOUS
  <2> USE DEF OperatorInv
  <2>1. OperatorTypeOK
    <3>1. /\ SetOf(toScan) \subseteq Bucket /\ SetOf(toTest) \subseteq Bucket
          /\ SetOf(discovered) \subseteq Target /\ SetOf(matched) \subseteq Target /\ SetOf(todo) \subseteq Target
          /\ SetOf(events) \subseteq Events /\ SetOf(log) \subseteq Events
      BY Members DEF OperatorTyped
    <3> QED
      BY <3>1 DEF OperatorTyped, OperatorTypeOK, BreakerSound, BreakerTyped
  <2>2. HarmBounded
    <3>1. \A t \in destroyed : t \in options.due /\ BucketOf(t) \notin options.monitor
      BY DEF Harmed, Planned, Violations
    <3>2. destroyed # {} => 100 * Cardinality(destroyed) <= MaxPercent * Len(discovered)
      <4>1. /\ IsFiniteSet(SetOf(matched)) /\ Cardinality(SetOf(matched)) <= Len(matched)
            /\ Cardinality(SetOf(matched)) \in Nat /\ Len(matched) \in Nat /\ Len(discovered) \in Nat
        BY Members DEF OperatorTyped
      <4>2. Cardinality(destroyed) \in Nat /\ Cardinality(destroyed) <= Cardinality(SetOf(matched))
        BY <4>1, FS_Subset, FS_CardinalityType DEF Harmed
      <4> DEFINE count == Cardinality(destroyed)
                 planned == Cardinality(SetOf(matched))
                 allowed == MaxPercent * Len(discovered)
      <4>3. allowed \in Nat
        BY <4>1, BudgetAssumption
      <4>4. destroyed # {} => 100 * Len(matched) <= allowed
        BY DEF Planned
      <4> HIDE DEF count, planned, allowed
      <4>5. destroyed # {} => 100 * count <= allowed
        BY <4>1, <4>2, <4>3, <4>4 DEF count, planned
      <4> QED
        BY <4>5 DEF count, allowed
    <3>3. destroyed = {} => 100 * Cardinality(destroyed) <= MaxPercent * Len(discovered)
      <4>1. Len(discovered) \in Nat /\ Cardinality({}) = 0
        BY FS_EmptySet DEF OperatorTyped
      <4>2. MaxPercent * Len(discovered) \in Nat
        BY <4>1, BudgetAssumption
      <4> QED
        BY <4>1, <4>2
    <3> QED
      BY <3>1, <3>2, <3>3 DEF HarmBounded, Harmed
  <2>3. BulkAfterCanaries
    BY DEF BulkAfterCanaries, Harmed, Sampled, Acting, Guarded, Phases, OperatorTyped
  <2> QED
    BY <2>1, <2>2, <2>3 DEF HarmContained
<1> QED
  BY <1>1, OperatorInvariant, PTL

(* A request is on the wire only while the lock is held: stop() releases   *)
(* it after the phase.                                                     *)
THEOREM OperatorLockCoversMutations == OperatorSpec => []LockCoversMutations
<1>1. OperatorInv => LockCoversMutations
  BY DEF OperatorInv, Harmed, Guarded, Phases, LockCoversMutations
<1> QED
  BY <1>1, OperatorInvariant, PTL

(* An epoch that was neither halted nor stopped has logged every bucket    *)
(* that lost a target, and the log names no event twice.                   *)
THEOREM OperatorMutationsLoggedOnce == OperatorSpec => []MutationsLoggedOnce
<1>1. OperatorInv => MutationsLoggedOnce
  <2> SUFFICES ASSUME OperatorInv PROVE MutationsLoggedOnce
    OBVIOUS
  <2> USE DEF OperatorInv
  <2>1. DOMAIN log = 1..Len(log)
    BY DEF OperatorTyped
  <2>2. \A i, j \in DOMAIN log : log[i] = log[j] => i = j
    BY <2>1 DEF Logged, Distinct
  <2>3. phase = "SLEEP" /\ ~shutting =>
          \A t \in destroyed : \E i \in DOMAIN log : log[i].bucket = BucketOf(t) /\ log[i].epoch = epoch
    BY <2>1 DEF Logged, Covers, Elements
  <2> QED
    BY <2>2, <2>3 DEF MutationsLoggedOnce
<1> QED
  BY <1>1, OperatorInvariant, PTL
=============================================================================
