--------------------------- MODULE VersionExecutor ---------------------------
(***************************************************************************)
(* src/versioning/executor.ts, executeVersionDeletion, with the version    *)
(* half of src/safety/canary.ts: the gates, one DeleteObjects for the      *)
(* canary sample and a HeadObject for each of it, then batch after batch   *)
(* under the circuit breaker, and the certificate.                         *)
(*                                                                         *)
(* One request is out at a time.  DeleteObjects answers 200 with an error  *)
(* for some of its keys, or throws; deleting a version that is gone is a   *)
(* success.  The sleep before a repeated request and withRetry's repeats   *)
(* of a throttled one are folded into the answer they end with.            *)
(***************************************************************************)
EXTENDS Breaker, MutationBudget, FiniteSets

CONSTANTS Version,        \* the versions of the plan
          Plan,           \* entries
          Modified,       \* LastModified of each
          Young,          \* those Wasabi's 90 days still cover
          Unversioned,    \* those whose VersionId is "null"
          Caller,         \* the breakers a caller may pass in
          CanaryMax, BatchSize, MaxRetries,
          Codes,          \* what S3 may say of a key
          ErrorClasses,   \* what an exception can be classified as
          Options

ASSUME PlanAssumption ==
  /\ IsFiniteSet(Version) /\ Plan \in Seq(Version)
  /\ \A v \in Version : \E i \in 1..Len(Plan) : Plan[i] = v
  /\ \A i, j \in 1..Len(Plan) : Plan[i] = Plan[j] => i = j
  /\ Modified \in [Version -> Nat]
  /\ Young \subseteq Version /\ Unversioned \subseteq Version
ASSUME BatchAssumption ==
  /\ BatchSize \in Nat \ {0} /\ MaxRetries \in Nat /\ CanaryMax \in Nat \ {0}
  /\ Codes \subseteq {"SlowDown", "InternalError", "AccessDenied", "BadDigest"}
  /\ \A b \in Caller : BreakerSound(b)
  /\ Options \subseteq [confirm : BOOLEAN, wasabi : BOOLEAN, force : BOOLEAN,
                        inventory : Nat, bypass : BOOLEAN, skipCanary : BOOLEAN]

VARIABLES
  options,
  phase,        \* what the run waits for, or "gates", "loop", "certify"
  gate,         \* "none", "skipped", "verified", "failed": the canary's result
  breaker,
  pending,      \* the versions of the request that is out
  attempt,
  probes,       \* the canary targets not yet probed
  remaining,    \* itemsToExecute from i on
  deleted,      \* totalDeleted
  failed,       \* allErrors.length
  failedSet,    \* the versions in allErrors
  certificate,  \* the item ledger, {} if there is none
  alive,        \* S3: the versions that exist
  destroyed     \* history: the versions this run removed

reportVars == <<deleted, failed, failedSet>>
s3Vars     == <<alive, destroyed>>
vars == <<options, phase, gate, breaker, pending, attempt, probes, remaining,
          reportVars, certificate, s3Vars>>

Waiting == {"canary", "probe", "batch"}
Ended   == {"refused", "threw", "over"}
Phases  == {"gates", "loop", "certify"} \cup Waiting \cup Ended

Canary == INSTANCE CanaryGate WITH Born <- Modified

SetOf(s) == {s[i] : i \in DOMAIN s}
CanarySet == SetOf(Canary!Sample)

Init ==
  /\ options \in Options
  /\ phase = "gates" /\ gate = "none"
  /\ breaker \in {NewBreaker} \cup Caller
  /\ pending = {} /\ attempt = 0
  /\ probes = <<>> /\ remaining = Plan
  /\ deleted = 0 /\ failed = 0 /\ failedSet = {}
  /\ certificate = {}
  /\ alive = Version /\ destroyed = {}

-----------------------------------------------------------------------------
GatesOpen ==
  /\ options.confirm
  /\ WithinCeiling(Len(Plan), options.inventory, options.bypass)
  /\ options.wasabi /\ ~options.force => Young = {}

RefuseRun ==
  /\ phase = "gates"
  /\ ~GatesOpen
  /\ phase' = "refused"
  /\ UNCHANGED <<options, gate, breaker, pending, attempt, probes, remaining,
                 reportVars, certificate, s3Vars>>

EnterRun ==
  /\ phase = "gates"
  /\ GatesOpen
  /\ IF options.skipCanary \/ Plan = <<>>
       THEN phase' = "loop" /\ gate' = "skipped" /\ UNCHANGED pending
       ELSE phase' = "canary" /\ pending' = CanarySet /\ UNCHANGED gate
  /\ UNCHANGED <<options, breaker, attempt, probes, remaining, reportVars,
                 certificate, s3Vars>>

-----------------------------------------------------------------------------
(* What S3 says of the keys of a request: an error code for some of them.  *)
Answers == UNION {[S -> Codes] : S \in SUBSET pending}

Remove(gone) == alive' = alive \ gone /\ destroyed' = destroyed \cup (alive \cap gone)

Applied(codes) == Remove(pending \ DOMAIN codes)

Having(codes, them) == {v \in DOMAIN codes : codes[v] \in them}

ClassesOf(codes) ==
  {c \in Classes : Having(codes, CASE c = "throttle"  -> {"SlowDown"}
                                   [] c = "denied"    -> {"AccessDenied"}
                                   [] c = "integrity" -> {"BadDigest"}) # {}}

(* recordBatchResult of an answer to a request for this many keys.         *)
Heard(keys, codes) ==
  \E jitter \in Jitters :
    breaker' = BatchDone(breaker, keys, Cardinality(DOMAIN codes), ClassesOf(codes), jitter)

-----------------------------------------------------------------------------
CanaryAwaits(what) ==
  /\ phase = what
  /\ UNCHANGED <<options, certificate>>

(* A CanaryVerificationError that carries the outcomes of the sample.      *)
FailCanary(errors) ==
  /\ phase' = "certify" /\ gate' = "failed"
  /\ deleted' = deleted + Cardinality(CanarySet \ errors)
  /\ failedSet' = errors \cup (Version \ CanarySet)
  /\ failed' = failed + Cardinality(failedSet')

(* One without outcomes: the first entry stands for the failure, then      *)
(* every entry is accounted for as not processed.                          *)
FailCanaryBlind ==
  /\ phase' = "certify" /\ gate' = "failed"
  /\ failedSet' = Version
  /\ failed' = failed + 1 + Len(Plan)
  /\ UNCHANGED deleted

PassCanary ==
  /\ phase' = "loop" /\ gate' = "verified"
  /\ breaker' = Succeeded(breaker)
  /\ deleted' = deleted + Cardinality(CanarySet)
  /\ remaining' = Canary!Others

Slowed(codes) == Having(codes, {"SlowDown"})

(* Only the throttled keys are sent again; the answer to that replaces the *)
(* first one, other errors of which are forgotten.                         *)
CanaryRepeat(codes) ==
  /\ CanaryAwaits("canary")
  /\ Slowed(codes) # {} /\ attempt < MaxRetries
  /\ Applied(codes)
  /\ pending' = Slowed(codes)
  /\ attempt' = attempt + 1
  /\ UNCHANGED <<phase, gate, breaker, probes, remaining, reportVars>>

CanaryDeleted(codes) ==
  /\ CanaryAwaits("canary")
  /\ Slowed(codes) # {} => attempt >= MaxRetries
  /\ Applied(codes)
  /\ IF DOMAIN codes = {}
       THEN /\ phase' = "probe" /\ probes' = Canary!Sample
            /\ UNCHANGED <<gate, breaker, reportVars>>
       ELSE /\ Heard(Cardinality(CanarySet), codes)
            /\ FailCanary(DOMAIN codes)
            /\ UNCHANGED probes
  /\ UNCHANGED <<pending, attempt, remaining>>

(* The first dispatch throws: a canary failure.  A repeated one throws: no *)
(* handler below knows the exception, it leaves the run.                   *)
CanaryThrows(classes, gone) ==
  /\ CanaryAwaits("canary")
  /\ Remove(gone)
  /\ IF attempt = 0
       THEN /\ \E jitter \in Jitters : breaker' = Failed(breaker, classes, jitter)
            /\ FailCanaryBlind
       ELSE phase' = "threw" /\ UNCHANGED <<gate, breaker, reportVars>>
  /\ UNCHANGED <<pending, attempt, probes, remaining>>

\* the probe of a "null" version asks for the key's current version, which
\* may exist when the deleted one is gone, and be gone when it exists
MayLook(v, there) == v \in Unversioned \/ (v \in alive <=> there)

ProbeGone ==
  /\ CanaryAwaits("probe")
  /\ MayLook(Head(probes), FALSE)
  /\ probes' = Tail(probes)
  /\ IF Len(probes) = 1
       THEN PassCanary
       ELSE UNCHANGED <<phase, gate, breaker, deleted, remaining>>
  /\ UNCHANGED <<pending, attempt, failed, failedSet, s3Vars>>

ProbeFails(classes) ==
  /\ CanaryAwaits("probe")
  /\ \E jitter \in Jitters : breaker' = Failed(breaker, classes, jitter)
  /\ FailCanaryBlind
  /\ UNCHANGED <<pending, attempt, probes, remaining, s3Vars>>

ProbeFound == ProbeFails({}) /\ MayLook(Head(probes), TRUE)

-----------------------------------------------------------------------------
LoopHead ==
  /\ phase = "loop"
  /\ UNCHANGED <<options, gate, probes, deleted, certificate, s3Vars>>

EndLoop ==
  /\ LoopHead
  /\ remaining = <<>>
  /\ phase' = "certify"
  /\ UNCHANGED <<breaker, pending, attempt, remaining, failed, failedSet>>

Chunk == IF Len(remaining) < BatchSize THEN Len(remaining) ELSE BatchSize

StartBatch ==
  /\ LoopHead
  /\ remaining # <<>>
  /\ MayExecute(breaker)
  /\ phase' = "batch"
  /\ pending' = SetOf(SubSeq(remaining, 1, Chunk))
  /\ remaining' = SubSeq(remaining, Chunk + 1, Len(remaining))
  /\ attempt' = 1
  /\ breaker' = Asked(breaker)
  /\ UNCHANGED <<failed, failedSet>>

RefuseBatch ==
  /\ LoopHead
  /\ remaining # <<>>
  /\ ~MayExecute(breaker)
  /\ phase' = "certify"
  /\ failed' = failed + 1
  /\ failedSet' = failedSet \cup {Head(remaining)}
  /\ breaker' = Asked(breaker)
  /\ UNCHANGED <<pending, attempt, remaining>>

(* transientItems: the keys that will be sent again.                       *)
StillTransient(codes) ==
  IF attempt <= MaxRetries THEN Having(codes, {"SlowDown", "InternalError"}) ELSE {}

\* slip: the keys are repeated whatever the breaker says
GivesUpNever(b) == FALSE

(* getState() right after recordBatchResult.                               *)
GivesUp(b) == Refresh(b).state = "OPEN"

\* slip: a 200 is taken for a success of every key
DeletedByAll(codes) == Cardinality(pending)

DeletedBy(codes) == Cardinality(pending \ DOMAIN codes)

(* The answer is counted before the breaker is looked at: keys that would  *)
(* be sent again and are not, because it is OPEN, are reported nowhere.    *)
BatchAnswer(codes) ==
  LET permanent == DOMAIN codes \ StillTransient(codes)
  IN  /\ phase = "batch"
      /\ Applied(codes)
      /\ Heard(Cardinality(pending), codes)
      /\ IF GivesUp(breaker')
           THEN phase' = "certify" /\ UNCHANGED <<pending, attempt>>
         ELSE IF StillTransient(codes) # {}
           THEN pending' = StillTransient(codes) /\ attempt' = attempt + 1 /\ UNCHANGED phase
         ELSE phase' = "loop" /\ UNCHANGED <<pending, attempt>>
      /\ deleted' = deleted + DeletedBy(codes)
      /\ failed' = failed + Cardinality(permanent)
      /\ failedSet' = failedSet \cup permanent
      /\ UNCHANGED <<options, gate, probes, remaining, certificate>>

(* Nobody catches it: the caller gets neither counts nor certificate.      *)
BatchThrows(gone) ==
  /\ phase = "batch"
  /\ Remove(gone)
  /\ phase' = "threw"
  /\ UNCHANGED <<options, gate, breaker, pending, attempt, probes, remaining,
                 reportVars, certificate>>

-----------------------------------------------------------------------------
(* The first `deleted` entries of the plan that no error names.            *)
Unnamed == {i \in DOMAIN Plan : Plan[i] \notin failedSet}

Ledger == {Plan[i] : i \in {k \in Unnamed : Cardinality({j \in Unnamed : j <= k}) <= deleted}}

Certify ==
  /\ phase = "certify"
  /\ phase' = "over"
  /\ certificate' \in {{}, Ledger}
  /\ UNCHANGED <<options, gate, breaker, pending, attempt, probes, remaining,
                 reportVars, s3Vars>>

(* Another client deletes one of the versions.                             *)
Vanish(v) ==
  /\ phase \in Waiting
  /\ v \in alive
  /\ alive' = alive \ {v}
  /\ UNCHANGED <<options, phase, gate, breaker, pending, attempt, probes,
                 remaining, reportVars, certificate, destroyed>>

Tick ==
  /\ phase \in Waiting \cup {"gates"}
  /\ breaker' = Aged(breaker)
  /\ UNCHANGED <<options, phase, gate, pending, attempt, probes, remaining,
                 reportVars, certificate, s3Vars>>

S3Answers ==
  \/ \E codes \in Answers : CanaryRepeat(codes) \/ CanaryDeleted(codes) \/ BatchAnswer(codes)
  \/ \E gone \in SUBSET pending :
       BatchThrows(gone) \/ \E classes \in ErrorClasses : CanaryThrows(classes, gone)
  \/ ProbeGone
  \/ ProbeFound
  \/ \E classes \in ErrorClasses : ProbeFails(classes)

Run == RefuseRun \/ EnterRun \/ EndLoop \/ StartBatch \/ RefuseBatch \/ S3Answers \/ Certify

Next == Run \/ (\E v \in Version : Vanish(v)) \/ Tick

Spec == Init /\ [][Next]_vars

-----------------------------------------------------------------------------
(* Every variable keeps its type; a repeat stays within maxRetries.        *)
TypeOK ==
  /\ options \in Options
  /\ phase \in Phases
  /\ gate \in {"none", "skipped", "verified", "failed"}
  /\ breaker \in BreakerType
  /\ pending \subseteq Version /\ attempt \in 0..MaxRetries + 1
  /\ probes \in Seq(Version) /\ remaining \in Seq(Version)
  /\ deleted \in Nat /\ failed \in Nat /\ failedSet \subseteq Version
  /\ certificate \subseteq Version
  /\ alive \subseteq Version /\ destroyed \subseteq Version \ alive

(* The harm a run can do is what the gates allow: without --confirm it     *)
(* removes nothing, under Wasabi no version younger than 90 days unless    *)
(* forced, and in all no more than the ceiling unless it is bypassed.      *)
GatesBoundHarm ==
  /\ destroyed # {} => options.confirm
  /\ options.wasabi /\ ~options.force => destroyed \cap Young = {}
  /\ ~options.bypass =>
       IF options.inventory > 0
       THEN 100 * Cardinality(destroyed) <= MaxPercent * options.inventory
       ELSE Cardinality(destroyed) <= MaxAbsoluteFallback

(* A failure stays in the sample: a version outside it is removed only     *)
(* when every version of it is gone from S3.  A "null" version is excluded *)
(* because its probe asks about another one and a forgotten error of the   *)
(* first DeleteObjects is only noticed by the probe.                       *)
CanaryContained ==
  ~options.skipCanary /\ ~(destroyed \subseteq CanarySet) =>
    (CanarySet \ Unversioned) \cap alive = {}

(* What a run may do to the bucket is bounded by its gates and its canary. *)
HarmBounded == TypeOK /\ GatesBoundHarm /\ CanaryContained

(* What a run whose canary passed, or was skipped, reports: no more        *)
(* deletions than versions gone, no removed version among the failures, no *)
(* version twice.                                                          *)
BulkReportSound ==
  gate \in {"verified", "skipped"} =>
    /\ deleted <= Cardinality((Version \ alive) \cup (CanarySet \cap Unversioned))
    /\ failedSet \cap destroyed = {}
    /\ deleted + failed <= Len(Plan)

(* No DeleteObjects of the bulk starts, and no key is sent again, while    *)
(* the breaker is OPEN, be it the caller's or opened by this very answer.  *)
OpenStopsBatches ==
  [][phase' = "batch" /\ (phase # "batch" \/ attempt' # attempt) => breaker'.state # "OPEN"]_vars

=============================================================================
