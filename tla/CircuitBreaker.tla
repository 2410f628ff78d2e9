--------------------------- MODULE CircuitBreaker ---------------------------
(***************************************************************************)
(* One CircuitBreaker object and the calls that go through it.  A caller   *)
(* asks canExecute, sends its request, and reports the answer later: other *)
(* callers ask, report, and let time pass in between, so an answer may     *)
(* arrive in another state than the one its call was admitted in.  Each    *)
(* method is synchronous, hence one step.                                  *)
(***************************************************************************)
EXTENDS Breaker

CONSTANTS Caller,        \* the concurrent calls
          ErrorClasses,  \* the sets of classes an answer can carry
          BatchTotal,    \* the size of a DeleteObjects batch
          MaxRounded     \* bound on the outcomes that the array rounds

ASSUME BatchAssumption == BatchTotal \in Nat

VARIABLES breaker,
          pc,       \* "idle", or "inflight" between admission and answer
          prober,   \* history: the calls admitted in this HALF_OPEN period
          rounded   \* history: the outcomes since the last reset that the
                    \* array of the ring has rounded

vars == <<breaker, pc, prober, rounded>>

Init ==
  /\ breaker = NewBreaker
  /\ pc = [c \in Caller |-> "idle"]
  /\ prober = {}
  /\ rounded = 0

(* The calls of the period are forgotten when the breaker leaves it.       *)
ProberAfter(admitted) ==
  prober' = IF breaker'.state = "HALF_OPEN" THEN prober \cup admitted ELSE {}

-----------------------------------------------------------------------------
Admit(c) ==
  /\ pc[c] = "idle"
  /\ MayExecute(breaker)
  /\ breaker' = Asked(breaker)
  /\ pc' = [pc EXCEPT ![c] = "inflight"]
  /\ ProberAfter({c})
  /\ UNCHANGED rounded

Refuse(c) ==
  /\ pc[c] = "idle"
  /\ ~MayExecute(breaker)
  /\ breaker' = Asked(breaker)
  /\ ProberAfter({})
  /\ UNCHANGED <<pc, rounded>>

Answered(c) ==
  /\ pc[c] = "inflight"
  /\ pc' = [pc EXCEPT ![c] = "idle"]
  /\ ProberAfter({})

Success(c) ==
  /\ breaker' = Succeeded(breaker)
  /\ Answered(c)
  /\ UNCHANGED rounded

Failure(c, classes) ==
  /\ \E jitter \in Jitters : breaker' = Failed(breaker, classes, jitter)
  /\ Answered(c)
  /\ UNCHANGED rounded

BatchAnswer(c, errorCount, classes) ==
  /\ errorCount = 0 => classes = {}
  /\ \E jitter \in Jitters :
       breaker' = BatchDone(breaker, BatchTotal, errorCount, classes, jitter)
  /\ Answered(c)
  /\ rounded' = IF Rounded(BatchRatio(BatchTotal, errorCount))
                THEN rounded + 1 ELSE rounded
  /\ rounded' <= MaxRounded

(* NoSuchUpload: the abort executor reports nothing.                       *)
Unreported(c) ==
  /\ breaker' = breaker
  /\ Answered(c)
  /\ UNCHANGED rounded

(* getState(), by an executor after an error or by the operator.           *)
Look ==
  /\ breaker' = Refresh(breaker)
  /\ ProberAfter({})
  /\ UNCHANGED <<pc, rounded>>

(* The operator's sleep: if (getState() === "HALF_OPEN") reset().          *)
ResetProbe ==
  /\ Refresh(breaker).state = "HALF_OPEN"
  /\ breaker' = NewBreaker
  /\ ProberAfter({})
  /\ rounded' = 0
  /\ UNCHANGED pc

Tick ==
  /\ breaker' = Aged(breaker)
  /\ UNCHANGED <<pc, prober, rounded>>

Next ==
  \/ \E c \in Caller :
       \/ Admit(c)
       \/ Refuse(c)
       \/ Success(c)
       \/ \E classes \in ErrorClasses : Failure(c, classes)
       \/ \E errorCount \in 0..BatchTotal, classes \in ErrorClasses :
            BatchAnswer(c, errorCount, classes)
       \/ Unreported(c)
  \/ Look
  \/ ResetProbe
  \/ Tick

Spec == Init /\ [][Next]_vars

-----------------------------------------------------------------------------
(* The record keeps its types: the concurrency stays between its limits    *)
(* under any mix of halving and restoring, the ring inside its array.      *)
TypeOK ==
  /\ breaker \in BreakerType
  /\ pc \in [Caller -> {"idle", "inflight"}]
  /\ prober \in SUBSET Caller

(* Within one HALF_OPEN period at most one call is admitted, and the flag  *)
(* says whether it was, although answers to older calls, trips, resets and *)
(* refreshes come in between.                                              *)
ProbeIsolated ==
  /\ \A c, d \in prober : c = d
  /\ breaker.state = "HALF_OPEN" => (breaker.probe <=> prober # {})

(* A breaker that has tripped is out of OPEN only after the whole cooldown *)
(* of its last trip: a success that arrives while OPEN closes nothing, and *)
(* a trip while OPEN starts the wait again.                                *)
CooldownServed ==
  breaker.tripCount > 0 /\ breaker.state # "OPEN"
    => breaker.sinceTrip >= breaker.cooldown

(* Three 403s on the count mean a trip that no success has answered: the   *)
(* permission cliff cannot be forgotten by waiting.                        *)
CliffServed == breaker.denied = 3 => breaker.state # "CLOSED"

(* A CLOSED breaker never carries a full burst of throttles: the cooldown  *)
(* is at least as long as the span in which throttles add up, so the first *)
(* throttle after a recovery does not trip on the strength of old ones.    *)
BurstServed ==
  breaker.state = "CLOSED" =>
    Len(Unexpired(breaker.throttles)) < 3

(* The limits hold together: the record within its types under any mix of  *)
(* halving and restoring, the permission cliff, the burst.                 *)
LimitsServed == TypeOK /\ CliffServed /\ BurstServed

ErrorSampled ==
  /\ breaker'.ring.pointer # breaker.ring.pointer
  /\ breaker'.ring.buffer[breaker.ring.pointer] > 0

(* Errors judged while CLOSED: if the breaker stays CLOSED the rate, this  *)
(* error included, is within the threshold or the samples are too few.     *)
ErrorRateJudged ==
  [][ErrorSampled /\ breaker.state = "CLOSED" /\ breaker'.state = "CLOSED"
       => breaker'.ring.count < MinSamples
          \/ ~RateAbove(breaker'.ring, ThresholdPercent)]_vars

(* The incremental sum of ring-buffer.ts is not the sum of the samples it  *)
(* stands for: every outcome that the array rounds moves it away, and      *)
(* overwrites, trips and wraps never bring it back.  But it drifts by one  *)
(* rounding for each such outcome since the last reset and by no more,     *)
(* and outcomes of 0 and 1 leave it exact.                                 *)
Drifted ==
  breaker.ring.runningSum - SumFunctionOnSet(Recent(breaker.ring), 1..breaker.ring.count)

DriftBounded == Drifted \in -rounded..rounded

(* The ring inside the breaker implements the sliding window of the last   *)
(* outcomes, each as the array holds it, oldest first, through wraps of    *)
(* the pointer, trips and resets; and its sum stays as near to theirs.     *)
Sliding == INSTANCE SlidingWindow WITH recent <- Recent(breaker.ring),
                                       off    <- Drifted

WindowRefined == Sliding!WindowSpec

=============================================================================
