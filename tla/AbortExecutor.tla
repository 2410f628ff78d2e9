--------------------------- MODULE AbortExecutor ---------------------------
(***************************************************************************)
(* src/executor/abort.ts, executeAbortPlan, with the multipart half of     *)
(* src/safety/canary.ts: the gates, the canary sample one upload at a      *)
(* time, then every other upload through the concurrency limiter under the *)
(* circuit breaker, and the certificate.  S3 and the clients that complete *)
(* or abort uploads meanwhile are the environment.                         *)
(*                                                                         *)
(* A step is the code between two awaits.  A request and its answer are    *)
(* one step (AnswerAborted and the like); what runs before the request is  *)
(* sent, on a promise that is already resolved, belongs to the step that   *)
(* starts the task.                                                        *)
(***************************************************************************)
EXTENDS Breaker, MutationBudget, FiniteSets

CONSTANTS Upload,        \* the uploads of the plan
          Plan,          \* their order in the plan
          Initiated,     \* when each was initiated
          Young,         \* those Wasabi's 90 days still cover
          CanaryMax,     \* maxCanary, 10
          Limit,         \* min(concurrencyLimit, 10)
          MaxRetries,    \* withRetry's maxRetries
          ErrorClasses,  \* what an error answer can be classified as
          Retryable,     \* those isSlowDownError accepts
          Options        \* the flags and estimates a call can carry

ASSUME PlanAssumption ==
  /\ IsFiniteSet(Upload) /\ Plan \in Seq(Upload)
  /\ \A u \in Upload : \E i \in 1..Len(Plan) : Plan[i] = u
  /\ \A i, j \in 1..Len(Plan) : Plan[i] = Plan[j] => i = j
  /\ Initiated \in [Upload -> Nat]
ASSUME LimitAssumption ==
  /\ Limit \in Nat \ {0} /\ MaxRetries \in Nat /\ CanaryMax \in Nat \ {0}
  /\ Young \subseteq Upload /\ Retryable \subseteq ErrorClasses
ASSUME OptionsAssumption ==
  Options \subseteq [confirm : BOOLEAN, wasabi : BOOLEAN, force : BOOLEAN,
                     inventory : Nat, bypass : BOOLEAN, skipCanary : BOOLEAN]

VARIABLES
  options,      \* the flags of the call
  phase,        \* "gates", "canary", "launch", "bulk", "certify", "over"
  breaker,
  sample,       \* the canary targets not yet verified, oldest first
  probing,      \* TRUE while the head of sample awaits its HeadObject
  todo,         \* the uploads Promise.all has not yet handed to the limiter
  slot, activeCount, queue,  \* the limiter's state
  task,         \* what each upload's function is doing
  attempt,      \* withRetry's counter of each upload
  tripped,      \* breakerTripped
  status,       \* the status each upload is reported with
  tally,        \* the counters of the result
  certificate,  \* the item ledger of the certificate, {} if there is none
  alive,        \* S3: the uploads that still exist
  destroyed     \* history: the uploads this run removed from S3

limiterVars == <<slot, activeCount, queue>>
reportVars  == <<status, tally>>
s3Vars      == <<alive, destroyed>>
vars == <<options, phase, breaker, sample, probing, todo, limiterVars, task,
          attempt, tripped, reportVars, certificate, s3Vars>>

Limiter == INSTANCE ConcurrencyLimiter
             WITH Task <- Upload, Concurrency <- Limit, pc <- slot

Statuses == {"none", "ABORTED", "SKIPPED_ALREADY_ABORTED", "FAILED"}
Reported == Statuses \ {"none"}

Init ==
  /\ options \in Options
  /\ phase = "gates"
  /\ breaker = NewBreaker
  /\ sample = <<>> /\ probing = FALSE /\ todo = <<>>
  /\ Limiter!Init
  /\ task = [u \in Upload |-> "none"]
  /\ attempt = [u \in Upload |-> 0]
  /\ tripped = FALSE
  /\ status = [u \in Upload |-> "none"]
  /\ tally = [s \in Reported |-> 0]
  /\ certificate = {}
  /\ alive = Upload /\ destroyed = {}

-----------------------------------------------------------------------------
(* items.push and the matching counter (the canary's outcomes are counted  *)
(* when its gate returns or throws; nothing reads the counters before).    *)
Report(u, s) ==
  /\ status' = [status EXCEPT ![u] = s]
  /\ tally' = [tally EXCEPT ![s] = @ + 1]

Removed(u) == alive' = alive \ {u} /\ destroyed' = destroyed \cup {u}

Canary == INSTANCE CanaryGate WITH Born <- Initiated

IsCanary(u) == Canary!InSample(u)

-----------------------------------------------------------------------------
(* The synchronous gates: --confirm, Wasabi's retention, the ceiling.      *)
GatesOpen ==
  /\ options.confirm
  /\ options.wasabi /\ ~options.force => Young = {}
  /\ WithinCeiling(Len(Plan), options.inventory, options.bypass)

RefuseRun ==
  /\ phase = "gates"
  /\ ~GatesOpen
  /\ phase' = "over"
  /\ UNCHANGED <<options, breaker, sample, probing, todo, limiterVars, task,
                 attempt, tripped, reportVars, certificate, s3Vars>>

(* Promise.all over an empty list resolves at once.                        *)
Hand(uploads) ==
  /\ todo' = uploads
  /\ phase' = IF uploads = <<>> THEN "certify" ELSE "launch"

EnterRun ==
  /\ phase = "gates"
  /\ GatesOpen
  /\ IF options.skipCanary \/ Plan = <<>>
       THEN Hand(Plan) /\ UNCHANGED sample
       ELSE phase' = "canary" /\ sample' = Canary!Sample /\ UNCHANGED todo
  /\ UNCHANGED <<options, breaker, probing, limiterVars, task, attempt,
                 tripped, reportVars, certificate, s3Vars>>

-----------------------------------------------------------------------------
(* The canary gate: abort and probe one upload after the other.            *)
CanaryStep(u) ==
  /\ phase = "canary"
  /\ ~probing
  /\ u = Head(sample)
  /\ UNCHANGED <<options, todo, limiterVars, task, attempt, tripped, certificate>>

CanaryAborted(u) ==
  /\ CanaryStep(u)
  /\ u \in alive
  /\ Removed(u)
  /\ Report(u, "ABORTED")
  /\ probing' = TRUE
  /\ UNCHANGED <<phase, breaker, sample>>

\* NoSuchUpload; also when the answer to our own request was lost and the
\* SDK's second attempt finds the upload gone
CanaryGone(u, lost) ==
  /\ CanaryStep(u)
  /\ IF lost THEN u \in alive /\ Removed(u)
             ELSE u \notin alive /\ UNCHANGED s3Vars
  /\ Report(u, "SKIPPED_ALREADY_ABORTED")
  /\ probing' = TRUE
  /\ UNCHANGED <<phase, breaker, sample>>

\* slip: only the failed upload is reported, the rest of the plan is dropped
FailUnreported(u) ==
  /\ status' = [status EXCEPT ![u] = "FAILED"]
  /\ tally' = [tally EXCEPT !["FAILED"] = @ + 1]

(* A CanaryVerificationError: every upload without an outcome is FAILED.   *)
FailRest(u) ==
  /\ status' = [v \in Upload |->
                  IF status[v] = "none" THEN "FAILED" ELSE status[v]]
  /\ tally' = [tally EXCEPT !["FAILED"] =
                 @ + Cardinality({v \in Upload : status[v] = "none"})]

CanaryRefused(u, classes, lost) ==
  /\ CanaryStep(u)
  /\ IF lost THEN u \in alive /\ classes = {} /\ Removed(u) ELSE UNCHANGED s3Vars
  /\ \E jitter \in Jitters : breaker' = Failed(breaker, classes, jitter)
  /\ FailRest(u)
  /\ phase' = "certify"
  /\ UNCHANGED <<sample, probing>>

CanaryProbe ==
  /\ phase = "canary"
  /\ probing
  /\ UNCHANGED <<options, limiterVars, task, attempt, tripped, certificate, s3Vars>>

\* slip: the bulk starts after the first verified canary
ProbeExpectedFirstOnly ==
  /\ CanaryProbe
  /\ probing' = FALSE
  /\ sample' = <<>>
  /\ breaker' = Succeeded(breaker)
  /\ Hand(SelectSeq(Plan, LAMBDA u : u # Head(sample)))
  /\ UNCHANGED reportVars

(* HeadObject answers, or says the key is gone: both are expected.         *)
ProbeExpected ==
  /\ CanaryProbe
  /\ probing' = FALSE
  /\ sample' = Tail(sample)
  /\ IF Len(sample) = 1
       THEN /\ breaker' = Succeeded(breaker)
            /\ Hand(Canary!Others)
       ELSE UNCHANGED <<phase, todo, breaker>>
  /\ UNCHANGED reportVars

ProbeError(classes) ==
  /\ CanaryProbe
  /\ \E jitter \in Jitters : breaker' = Failed(breaker, classes, jitter)
  /\ FailRest(Head(sample))
  /\ phase' = "certify"
  /\ UNCHANGED <<sample, probing, todo>>

-----------------------------------------------------------------------------
\* slip: the sticky flag is not consulted, only the breaker is
BeginUnlatched(u) ==
  IF MayExecute(breaker)
  THEN /\ breaker' = Asked(breaker)
       /\ task' = [task EXCEPT ![u] = "sending"]
       /\ attempt' = [attempt EXCEPT ![u] = 1]
       /\ UNCHANGED <<tripped, reportVars>>
  ELSE /\ breaker' = Asked(breaker)
       /\ tripped' = TRUE
       /\ Report(u, "FAILED")
       /\ task' = [task EXCEPT ![u] = "returning"]
       /\ UNCHANGED attempt

(* The function given to the limiter, up to its first request: the sticky  *)
(* flag first, so that a breaker seen OPEN once is not asked again.        *)
Begin(u) ==
  IF ~tripped /\ MayExecute(breaker)
  THEN /\ breaker' = Asked(breaker)
       /\ task' = [task EXCEPT ![u] = "sending"]
       /\ attempt' = [attempt EXCEPT ![u] = 1]
       /\ UNCHANGED <<tripped, reportVars>>
  ELSE /\ breaker' = IF tripped THEN breaker ELSE Asked(breaker)
       /\ tripped' = TRUE
       /\ Report(u, "FAILED")
       /\ task' = [task EXCEPT ![u] = "returning"]
       /\ UNCHANGED attempt

(* targetsToProcess.map calls the limiter for every upload without a pause *)
(* in between: nothing else happens before the last call.                  *)
Launch ==
  /\ phase = "launch"
  /\ LET u == Head(todo)
     IN  \/ Limiter!StartNow(u) /\ Begin(u)
         \/ Limiter!Enqueue(u)
            /\ UNCHANGED <<breaker, task, attempt, tripped, reportVars>>
  /\ todo' = Tail(todo)
  /\ phase' = IF Len(todo) = 1 THEN "bulk" ELSE "launch"
  /\ UNCHANGED <<options, sample, probing, certificate, s3Vars>>

Bulk ==
  /\ phase = "bulk"
  /\ UNCHANGED <<options, phase, sample, probing, todo, certificate>>

ResumeTask(u) ==
  /\ Bulk
  /\ Limiter!Resume(u)
  /\ Begin(u)
  /\ UNCHANGED s3Vars

(* The function returns; the limiter's finally block frees its slot.       *)
Leave(u) ==
  /\ task' = [task EXCEPT ![u] = "settled"]
  /\ \/ Limiter!FinishIdle(u, "fulfilled")
     \/ Limiter!FinishHandOver(u, "fulfilled")

ReturnRefused(u) ==
  /\ Bulk
  /\ task[u] = "returning"
  /\ Leave(u)
  /\ UNCHANGED <<breaker, attempt, tripped, reportVars, s3Vars>>

AnswerAborted(u) ==
  /\ Bulk
  /\ task[u] = "sending"
  /\ u \in alive
  /\ Removed(u)
  /\ breaker' = Succeeded(breaker)
  /\ Report(u, "ABORTED")
  /\ Leave(u)
  /\ UNCHANGED <<attempt, tripped>>

AnswerGone(u, lost) ==
  /\ Bulk
  /\ task[u] = "sending"
  /\ IF lost THEN u \in alive /\ Removed(u)
             ELSE u \notin alive /\ UNCHANGED s3Vars
  /\ Report(u, "SKIPPED_ALREADY_ABORTED")
  /\ Leave(u)
  /\ UNCHANGED <<breaker, attempt, tripped>>

AnswerSlowDown(u, classes) ==
  /\ Bulk
  /\ task[u] = "sending"
  /\ classes \in Retryable
  /\ attempt[u] <= MaxRetries
  /\ task' = [task EXCEPT ![u] = "backoff"]
  /\ UNCHANGED <<breaker, limiterVars, attempt, tripped, reportVars, s3Vars>>

\* slip: the attempt is not counted
ResendUncounted(u) ==
  /\ Bulk
  /\ task[u] = "backoff"
  /\ task' = [task EXCEPT ![u] = "sending"]
  /\ UNCHANGED <<breaker, limiterVars, attempt, tripped, reportVars, s3Vars>>

Resend(u) ==
  /\ Bulk
  /\ task[u] = "backoff"
  /\ task' = [task EXCEPT ![u] = "sending"]
  /\ attempt' = [attempt EXCEPT ![u] = @ + 1]
  /\ UNCHANGED <<breaker, limiterVars, tripped, reportVars, s3Vars>>

(* Any other error, and a slow-down after the last retry: recordError, and *)
(* getState decides whether the rest of the plan is given up.              *)
AnswerError(u, classes, lost) ==
  /\ Bulk
  /\ task[u] = "sending"
  /\ classes \in Retryable => attempt[u] > MaxRetries
  /\ IF lost THEN u \in alive /\ classes = {} /\ Removed(u) ELSE UNCHANGED s3Vars
  /\ \E jitter \in Jitters : breaker' = Refresh(Failed(breaker, classes, jitter))
  /\ tripped' = (tripped \/ breaker'.state = "OPEN")
  /\ Report(u, "FAILED")
  /\ Leave(u)
  /\ UNCHANGED attempt

AllSettled ==
  /\ phase = "bulk"
  /\ \A u \in Upload : slot[u] \in {"idle", "fulfilled"}
  /\ phase' = "certify"
  /\ UNCHANGED <<options, breaker, sample, probing, todo, limiterVars, task,
                 attempt, tripped, reportVars, certificate, s3Vars>>

\* slip: the ledger is every item of the run, whatever its status
CertifyAll ==
  /\ phase = "certify"
  /\ phase' = "over"
  /\ certificate' \in {{}, IF tally["ABORTED"] > 0
                             THEN {u \in Upload : status[u] # "none"} ELSE {}}
  /\ UNCHANGED <<options, breaker, sample, probing, todo, limiterVars, task,
                 attempt, tripped, reportVars, s3Vars>>

(* createDeletionCertificate, if anything was aborted; a failed write is   *)
(* logged and the run ends without a certificate.                          *)
Certify ==
  /\ phase = "certify"
  /\ phase' = "over"
  /\ certificate' \in {{}, {u \in Upload : status[u] = "ABORTED"}}
  /\ UNCHANGED <<options, breaker, sample, probing, todo, limiterVars, task,
                 attempt, tripped, reportVars, s3Vars>>

-----------------------------------------------------------------------------
(* A client completes or aborts one of the planned uploads.                *)
Vanish(u) ==
  /\ u \in alive
  /\ phase # "over"
  /\ alive' = alive \ {u}
  /\ UNCHANGED <<options, phase, breaker, sample, probing, todo, limiterVars,
                 task, attempt, tripped, reportVars, certificate, destroyed>>

Tick ==
  /\ breaker' = Aged(breaker)
  /\ UNCHANGED <<options, phase, sample, probing, todo, limiterVars, task,
                 attempt, tripped, reportVars, certificate, s3Vars>>

Answer(u) ==
  \/ CanaryAborted(u)
  \/ \E lost \in BOOLEAN : CanaryGone(u, lost) \/ AnswerGone(u, lost)
  \/ AnswerAborted(u)
  \/ \E classes \in ErrorClasses :
       \/ AnswerSlowDown(u, classes)
       \/ \E lost \in BOOLEAN :
            CanaryRefused(u, classes, lost) \/ AnswerError(u, classes, lost)

ProbeAnswer == ProbeExpected \/ \E classes \in ErrorClasses : ProbeError(classes)

Run == RefuseRun \/ EnterRun \/ Launch \/ AllSettled \/ Certify

Next ==
  \/ Run
  \/ ProbeAnswer
  \/ \E u \in Upload :
       Answer(u) \/ ResumeTask(u) \/ ReturnRefused(u) \/ Resend(u) \/ Vanish(u)
  \/ Tick

Spec == Init /\ [][Next]_vars

(* The process runs, every request is answered or times out, every timer   *)
(* of withRetry fires.  Nothing is owed by other clients or by the clock.  *)
Fairness ==
  /\ WF_vars(Run)
  /\ WF_vars(ProbeAnswer)
  /\ \A u \in Upload : /\ WF_vars(Answer(u)) /\ WF_vars(ResumeTask(u))
                       /\ WF_vars(ReturnRefused(u)) /\ WF_vars(Resend(u))

FairSpec == Spec /\ Fairness

-----------------------------------------------------------------------------
Phases == {"gates", "canary", "launch", "bulk", "certify", "over"}
Tasks  == {"none", "sending", "backoff", "returning", "settled"}

InFlight == {u \in Upload : task[u] \in {"sending", "backoff"}}
Having(s) == {u \in Upload : status[u] = s}

(* Every variable keeps its type, the limiter's as its own module says.    *)
TypeOK ==
  /\ options \in Options
  /\ phase \in Phases
  /\ breaker \in BreakerType
  /\ sample \in Seq(Upload) /\ probing \in BOOLEAN /\ todo \in Seq(Upload)
  /\ Limiter!TypeOK
  /\ task \in [Upload -> Tasks]
  /\ attempt \in [Upload -> 0..MaxRetries + 1]
  /\ tripped \in BOOLEAN
  /\ status \in [Upload -> Statuses]
  /\ tally \in [Reported -> 0..Cardinality(Upload)]
  /\ alive \subseteq Upload /\ destroyed \subseteq Upload \ alive
  /\ certificate \subseteq Upload

(* The result adds up: the counters are the statuses at every moment, and  *)
(* when the run concludes every upload of the plan has been reported, once,*)
(* whether the canary failed, the breaker opened or tasks were refused.    *)
ReportAddsUp ==
  /\ \A s \in Reported : tally[s] = Cardinality(Having(s))
  /\ phase = "certify" => Having("none") = {}

(* The harm a run can do is what the gates allow: without --confirm it     *)
(* removes nothing, under Wasabi no upload younger than 90 days unless     *)
(* forced, and in all no more than the percentage of a known inventory, or *)
(* the absolute number, unless the ceiling is bypassed.                    *)
GatesBoundHarm ==
  /\ destroyed # {} => options.confirm
  /\ options.wasabi /\ ~options.force => destroyed \cap Young = {}
  /\ ~options.bypass =>
       IF options.inventory > 0
       THEN 100 * Cardinality(destroyed) <= MaxPercent * options.inventory
       ELSE Cardinality(destroyed) <= MaxAbsoluteFallback

(* A canary failure stays in the sample: an upload outside it is reached   *)
(* only once every upload of the sample was removed or found gone, and     *)
(* its key probed.                                                         *)
CanaryContained ==
  ~options.skipCanary =>
    \A u \in Upload :
      ~IsCanary(u) /\ (task[u] # "none" \/ u \in destroyed) =>
        /\ sample = <<>>
        /\ \A v \in Upload : IsCanary(v) =>
             status[v] \in {"ABORTED", "SKIPPED_ALREADY_ABORTED"}

(* The limiter's bound holds for requests: sending and waiting to resend.  *)
RequestsBounded == Cardinality(InFlight) <= Limit

(* The certificate claims nothing the run did not do, and an upload the    *)
(* run was told is aborted is on it.                                       *)
CertificateSound ==
  /\ certificate \subseteq destroyed
  /\ certificate # {} => certificate = Having("ABORTED")

(* What a run may do to the bucket is bounded by its gates, its canary and *)
(* its limiter at once.                                                    *)
HarmBounded == GatesBoundHarm /\ CanaryContained /\ RequestsBounded

(* What a run says is true: its state is well formed, its report complete, *)
(* its certificate backed by what S3 lost.                                 *)
ReportSound == TypeOK /\ ReportAddsUp /\ CertificateSound

(* Once a task has seen the breaker OPEN, no upload outside those already  *)
(* in flight is ever touched, even after the cooldown or a late success.   *)
TripLatches ==
  [][tripped => {u \in Upload : task'[u] \in {"sending", "backoff"}} \subseteq InFlight]_vars

(* The run ends, under every mix of answers, retries and refusals.         *)
RunEnds == <>(phase = "over")

(* The executor keeps the promises of a destructive run.                   *)
VerdictOf(s) ==
  CASE s = "none" -> "pending" [] s = "ABORTED" -> "destroyed"
    [] s = "FAILED" -> "failed" [] OTHER -> "skipped"

Abstract == INSTANCE DestructiveRun
              WITH Item <- Upload,
                   verdict <- [u \in Upload |-> VerdictOf(status[u])],
                   over <- phase = "over"

RunRefined == Abstract!RunSpec

=============================================================================
