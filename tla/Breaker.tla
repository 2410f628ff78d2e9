------------------------------- MODULE Breaker -------------------------------
(***************************************************************************)
(* src/circuit/breaker.ts as operators on a breaker record, so that every  *)
(* component that owns a breaker (the two executors, the canary gate, the  *)
(* operator) runs the same code.                                           *)
(*                                                                         *)
(* Time.  The code keeps timestamps and reads Date.now(); it only ever     *)
(* looks at differences, so the record keeps ages: sinceTrip stands for    *)
(* now - lastOpenedAt and throttles for the ages of throttleTimestamps.    *)
(* Aged moves the clock by one unit.  An age stops growing once it passes  *)
(* the span or the cooldown it is compared with, tripCount stops at the    *)
(* value where the backoff is capped, and the list of throttle ages keeps  *)
(* the three newest: no comparison can tell the difference.                *)
(*                                                                         *)
(* An error is the set of classes its predicates put it in, "integrity",   *)
(* "denied", "throttle": S3's RequestTimeTooSkewed (HTTP 403, and in the   *)
(* throttle list) is in two, a plain error in none.  The text of           *)
(* tripReason is left out.                                                 *)
(***************************************************************************)
EXTENDS VolumetricRing, Sequences, FiniteSets

CONSTANTS BaseCooldown,       \* baseCooldownMs
          BackoffCap,         \* the exponent cap of trip(), 5 in the code
          MaxJitter,          \* largest jitter added to a cooldown
          ThrottleSpan,       \* the 5000 ms in which throttles add up
          ThresholdPercent,   \* sustainedErrorThreshold
          MinSamples,         \* minSamplesForSustained
          InitialConcurrency,
          MinConcurrency

ASSUME CooldownAssumption ==
  /\ BaseCooldown \in Nat \ {0} /\ BackoffCap \in Nat /\ MaxJitter \in Nat
  /\ ThrottleSpan \in Nat /\ ThresholdPercent \in Nat /\ MinSamples \in Nat
\* both are 5000 ms: no caller sets baseCooldownMs
ASSUME BurstAssumption == ThrottleSpan <= BaseCooldown
\* arithmetic of Math.pow, which the provers do not know of a variable exponent
ASSUME BackoffAssumption == \A n \in 0..BackoffCap : 2^n \in 1..2^BackoffCap
ASSUME ConcurrencyOptions ==
  /\ InitialConcurrency \in Nat /\ MinConcurrency \in Nat
  /\ MinConcurrency <= InitialConcurrency

States  == {"CLOSED", "OPEN", "HALF_OPEN"}
Classes == {"integrity", "denied", "throttle"}
Jitters == 0..MaxJitter

LongestCooldown == BaseCooldown * 2^BackoffCap + MaxJitter

BreakerType ==
  [state          : States,
   ring           : RingType,
   denied         : 0..3,
   throttles      : {ages \in Seq(0..ThrottleSpan) : Len(ages) \in 0..3},
   tripCount      : 0..BackoffCap + 1,
   sinceTrip      : 0..LongestCooldown,
   cooldown       : 0..LongestCooldown,
   quarantined    : BOOLEAN,
   probe          : BOOLEAN,
   concurrency    : MinConcurrency..InitialConcurrency]

\* the constructor, and what reset() goes back to
NewBreaker ==
  [state |-> "CLOSED", ring |-> EmptyRing, denied |-> 0, throttles |-> <<>>,
   tripCount |-> 0, sinceTrip |-> 0, cooldown |-> 0, quarantined |-> FALSE,
   probe |-> FALSE, concurrency |-> InitialConcurrency]

Aged(b) ==
  [b EXCEPT !.sinceTrip = AtMost(b.cooldown, @ + 1),
            !.throttles = [i \in DOMAIN @ |-> AtMost(ThrottleSpan, @[i] + 1)]]

(* What a breaker is like that only the methods below have changed.        *)
OldestFirst(ages) == \A i, j \in DOMAIN ages : i <= j => ages[i] >= ages[j]

BreakerTyped(b) ==
  b \in BreakerType /\ RingSound(b.ring) /\ OldestFirst(b.throttles)

\* a full list of throttles was full when the breaker last tripped
BurstTripped(b) ==
  Len(b.throttles) = 3 =>
    /\ b.tripCount > 0
    /\ \A i \in 1..3 : b.throttles[i] >= AtMost(ThrottleSpan, b.sinceTrip)

CooldownWaited(b) ==
  b.tripCount > 0 => /\ b.cooldown >= BaseCooldown
                     /\ b.state # "OPEN" => b.sinceTrip >= b.cooldown

CliffTripped(b) == b.denied = 3 => b.state # "CLOSED"

BreakerSound(b) ==
  BreakerTyped(b) /\ BurstTripped(b) /\ CooldownWaited(b) /\ CliffTripped(b)

-----------------------------------------------------------------------------
\* slip: the cooldown is not consulted
RefreshNoWait(b) ==
  IF b.state = "OPEN" THEN [b EXCEPT !.state = "HALF_OPEN", !.probe = FALSE] ELSE b

(* refreshState(): OPEN ends by itself once the cooldown has elapsed.      *)
Refresh(b) ==
  IF b.state = "OPEN" /\ b.sinceTrip >= b.cooldown
  THEN [b EXCEPT !.state = "HALF_OPEN", !.probe = FALSE]
  ELSE b

(* canExecute(): the answer, and the record after it.                      *)
MayExecute(b) ==
  LET r == Refresh(b)
  IN  r.state = "CLOSED" \/ (r.state = "HALF_OPEN" /\ ~r.probe)

\* slip: the probe is admitted and not marked as being in flight
AskedUnmarked(b) == Refresh(b)

Asked(b) ==
  LET r == Refresh(b)
  IN  IF r.state = "HALF_OPEN" /\ ~r.probe THEN [r EXCEPT !.probe = TRUE] ELSE r

(* trip(): from any state, OPEN included.                                  *)
Trip(b, jitter) ==
  LET n == AtMost(BackoffCap + 1, b.tripCount + 1)
  IN  [b EXCEPT !.state = "OPEN", !.tripCount = n, !.sinceTrip = 0,
                !.probe = FALSE,
                !.cooldown = BaseCooldown * 2^AtMost(n - 1, BackoffCap) + jitter]

Halved(b) ==
  [b EXCEPT !.concurrency = AtLeast(MinConcurrency, @ \div 2)]

(* recordSuccess(): also the answer of a probe.                            *)
Succeeded(b) ==
  LET c == [b EXCEPT !.denied = 0,
                     !.ring = RecordOutcome(@, 0),
                     !.concurrency = AtMost(InitialConcurrency, @ + 1)]
  IN  IF b.state = "HALF_OPEN"
      THEN [c EXCEPT !.state = "CLOSED", !.probe = FALSE,
                     !.concurrency = InitialConcurrency]
      ELSE c

\* the filter of throttleTimestamps: the oldest come first, so what it drops
\* is the head of the list
Unexpired(ages) ==
  LET expired == {i \in DOMAIN ages : ages[i] >= ThrottleSpan}
  IN  SubSeq(ages, Cardinality(expired) + 1, Len(ages))

\* those younger than the span, then this one
Throttled(b) ==
  LET all == Append(Unexpired(b.throttles), 0)
  IN  [Halved(b) EXCEPT !.throttles =
         IF Len(all) > 3 THEN Tail(all) ELSE all]

Denied(b) == [b EXCEPT !.denied = AtMost(3, @ + 1)]

(* The checks that end recordBatchResult and recordError: the sustained    *)
(* error rate of a CLOSED breaker, and any error of a HALF_OPEN one.       *)
Judged(b, jitter) ==
  IF \/ /\ b.state = "CLOSED"
        /\ b.ring.count >= MinSamples
        /\ RateAbove(b.ring, ThresholdPercent)
     \/ b.state = "HALF_OPEN"
  THEN Trip(b, jitter)
  ELSE b

\* slip: the limit is compared with > instead of >=
BurstTripLate(t, classes) == "throttle" \in classes /\ Len(t.throttles) > 3

HardTrip(d, classes)  == "denied" \in classes /\ d.denied >= 3
BurstTrip(t, classes) == "throttle" \in classes /\ Len(t.throttles) >= 3

CountedThrottle(b, classes) == IF "throttle" \in classes THEN Throttled(b) ELSE b

\* slip: the error rate is judged before the error is in the ring
FailedJudgedEarly(b, classes, jitter) ==
  LET d == IF "denied" \in classes THEN Denied(b) ELSE b
      t == CountedThrottle(d, classes)
      j == Judged(t, jitter)
  IN  IF "integrity" \in classes THEN Trip([b EXCEPT !.quarantined = TRUE], jitter)
      ELSE IF HardTrip(d, classes) THEN Trip(d, jitter)
      ELSE IF BurstTrip(t, classes) THEN Trip(t, jitter)
      ELSE [j EXCEPT !.ring = RecordOutcome(@, Scale)]

(* recordError(err): a plain error leaves the count of 403s alone, and an  *)
(* error that trips at once never reaches the ring.                        *)
Failed(b, classes, jitter) ==
  LET d == IF "denied" \in classes THEN Denied(b) ELSE b
      t == CountedThrottle(d, classes)
  IN  IF "integrity" \in classes THEN Trip([b EXCEPT !.quarantined = TRUE], jitter)
      ELSE IF HardTrip(d, classes) THEN Trip(d, jitter)
      ELSE IF BurstTrip(t, classes) THEN Trip(t, jitter)
      ELSE Judged([t EXCEPT !.ring = RecordOutcome(@, Scale)], jitter)

BatchRatio(total, errorCount) ==
  LET size == AtLeast(total, errorCount)
  IN  IF size > 0 THEN (Scale * errorCount) \div size ELSE 0

(* recordBatchResult(total, errors): the ring sees the batch first; a      *)
(* clean batch is recorded twice, here and by recordSuccess; errors with   *)
(* no 403 among them end a run of 403s.                                    *)
BatchDone(b, total, errorCount, classes, jitter) ==
  LET seen == [b EXCEPT !.ring = RecordOutcome(@, BatchRatio(total, errorCount))]
      d    == IF "denied" \in classes THEN Denied(seen)
                                      ELSE [seen EXCEPT !.denied = 0]
      t    == CountedThrottle(d, classes)
  IN  IF errorCount = 0 THEN Succeeded(seen)
      ELSE IF "integrity" \in classes
           THEN Trip([seen EXCEPT !.quarantined = TRUE], jitter)
      ELSE IF HardTrip(d, classes) THEN Trip(d, jitter)
      ELSE IF BurstTrip(t, classes) THEN Trip(t, jitter)
      ELSE Judged(t, jitter)
=============================================================================
