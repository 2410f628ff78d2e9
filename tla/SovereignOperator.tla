------------------------- MODULE SovereignOperator -------------------------
(***************************************************************************)
(* src/operator/sovereign-operator.ts: start(), the nine phases of         *)
(* runOnce(), and stop(), which a signal handler or the embedding program  *)
(* may call at any await, and which start() calls again as it ends.        *)
(*                                                                         *)
(* A step is the code between two awaits, with two exceptions that nothing *)
(* can observe: a phase whose awaits only read is one step, and so is the  *)
(* canary gate of one bucket, which AbortExecutor and VersionExecutor take *)
(* apart.  withRetry's repeats are folded into the answer they end with.   *)
(* Totals, byte counts, undo manifests (written with the certificates, of  *)
(* the same targets) and the S3 mirror of the log are left out.            *)
(***************************************************************************)
EXTENDS Breaker, MutationBudget, Selection

CONSTANTS Buckets,      \* the answer of ListBuckets, or the one target bucket
          Listing,      \* a bucket's targets in the order they are discovered
          Upload,       \* those that are multipart uploads, not versions
          KeyOf, Born,
          CanaryCount, MaxConcurrency, MaxRuns,
          Exceptions, \* what an exception can be classified as
          Options       \* dryRun, once, the buckets under MONITOR_ONLY and
                        \* the targets the policy's ages make due

SetOf(s) == {s[i] : i \in DOMAIN s}

Bucket == SetOf(Buckets)
Target == UNION {SetOf(Listing[b]) : b \in Bucket}
BucketOf(t) == CHOOSE b \in Bucket : t \in SetOf(Listing[b])

ASSUME ListingAssumption ==
  /\ Buckets \in Seq(Bucket) /\ {"none", "fleet"} \cap Bucket = {}
  /\ \A i, j \in DOMAIN Buckets : Buckets[i] = Buckets[j] => i = j
  /\ Listing \in [Bucket -> Seq(Target)] /\ IsFiniteSet(Target) /\ Born \in [Target -> Nat]
  /\ \A b, c \in Bucket : b # c => SetOf(Listing[b]) \cap SetOf(Listing[c]) = {}
  /\ \A b \in Bucket : \A i, j \in DOMAIN Listing[b] :
       /\ Listing[b][i] = Listing[b][j] => i = j
       /\ i < j /\ Listing[b][j] \in Upload => Listing[b][i] \in Upload
ASSUME OptionsAssumption ==
  /\ CanaryCount \in Nat \ {0} /\ MaxConcurrency \in Nat \ {0} /\ MaxRuns \in Nat \ {0}
  /\ Options \subseteq [dryRun : BOOLEAN, once : BOOLEAN, monitor : SUBSET Bucket, due : SUBSET Target]

VARIABLES
  options,
  phase,       \* this.state, or where start() is between two epochs
  epoch, cursor, halted,
  running, lock, shutting,   \* isRunning, the lock file, isShuttingDown
  stops,       \* where each call of stop() is
  toScan,      \* targetBucketNames not yet scanned
  tried,       \* the buckets of discoveredBuckets, those with an ERROR included
  discovered,  \* discoveredTargets
  matched,     \* matchedViolations
  toTest,      \* affected buckets whose canary is still to come, in order
  handled,     \* canaryResult.outcomes
  circuitBreaker,
  todo, flying,     \* bulk: parked in the limiter, and on the wire
  events, written,  \* auditEvents, and how many of them are appended
  log,              \* audit.jsonl
  certified,        \* the targets on the certificates
  alive,            \* S3: the targets that exist
  destroyed,        \* history: the targets this operator removed, this epoch
  passed            \* history: the buckets whose canary passed, this epoch

loopVars   == <<epoch, cursor, halted, running, lock, shutting, stops>>
findVars   == <<toScan, tried, discovered>>
bulkVars   == <<todo, flying>>
recordVars == <<events, written, log, certified>>
s3Vars     == <<alive, destroyed>>
operatorVars == <<options, phase, loopVars, findVars, matched, toTest, handled, circuitBreaker,
          bulkVars, recordVars, s3Vars, passed>>

Phases  == {"DISCOVERY", "POLICY_MATCH", "BLAST_RADIUS_AUDIT", "CANARY_TEST",
            "CIRCUIT_VERIFY", "BULK_EXECUTE", "AUDIT_LOG", "UNDO_EXPORT"}
Resting == {"READY", "LOOP", "HALTED", "SLEEP", "SLEEPING", "FINALLY", "ENDED", "EXITED"}
Callers == {"caller", "finally"}

OperatorInit ==
  /\ options \in Options
  /\ phase = "READY"
  /\ epoch = 0 /\ cursor = "none" /\ halted = FALSE
  /\ running = FALSE /\ lock = FALSE /\ shutting = FALSE
  /\ stops = [c \in Callers |-> "off"]
  /\ toScan = <<>> /\ tried = {} /\ discovered = <<>> /\ matched = <<>>
  /\ toTest = <<>> /\ handled = {}
  /\ circuitBreaker = NewBreaker
  /\ todo = <<>> /\ flying = {}
  /\ events = <<>> /\ written = 0 /\ log = <<>> /\ certified = {}
  /\ alive = Target /\ destroyed = {} /\ passed = {}

-----------------------------------------------------------------------------
(* runPhase: the next phase runs unless the last one halted the operator   *)
(* or it is shutting down; the sleep is skipped by a halt only.            *)
Then(next) == phase' = IF shutting THEN "SLEEP" ELSE next

HaltWith(event) ==
  /\ halted' = TRUE
  /\ phase' = "HALTED"
  /\ events' = events \o event

Event(kind, b) == [kind |-> kind, bucket |-> b, epoch |-> epoch]

Removes(gone) == alive' = alive \ gone /\ destroyed' = destroyed \cup (alive \cap gone)

Start ==
  /\ phase = "READY"
  /\ running' = TRUE /\ lock' = TRUE
  /\ phase' = "LOOP"
  /\ UNCHANGED <<options, epoch, cursor, halted, shutting, stops, findVars, matched, toTest,
                 handled, circuitBreaker, bulkVars, recordVars, s3Vars, passed>>

(* Discovery resumes at the cursor, which no epoch ever clears.            *)
FromCursor(names) ==
  IF \E i \in DOMAIN names : names[i] = cursor
  THEN LET i == CHOOSE k \in DOMAIN names : names[k] = cursor
       IN  SubSeq(names, i, Len(names))
  ELSE names

(* The loop's condition, runOnce() up to ListBuckets, and its answer.      *)
BeginEpoch ==
  /\ phase = "LOOP"
  /\ ~shutting
  /\ epoch' = epoch + 1 /\ halted' = FALSE
  /\ tried' = {} /\ discovered' = <<>>
  /\ destroyed' = {} /\ passed' = {}
  /\ toScan' = FromCursor(Buckets)
  /\ phase' = "DISCOVERY"
  /\ UNCHANGED <<options, cursor, running, lock, shutting, stops, matched, toTest,
                 handled, circuitBreaker, bulkVars, recordVars, alive>>

LeaveLoop ==
  /\ phase = "LOOP"
  /\ shutting
  /\ phase' = "FINALLY"
  /\ UNCHANGED <<options, loopVars, findVars, matched, toTest, handled, circuitBreaker,
                 bulkVars, recordVars, s3Vars, passed>>

ListBucketsFails ==
  /\ phase = "DISCOVERY"
  /\ tried = {} /\ toScan = FromCursor(Buckets)
  /\ HaltWith(<<>>)
  /\ UNCHANGED <<options, epoch, cursor, running, lock, shutting, stops, findVars, matched,
                 toTest, handled, circuitBreaker, bulkVars, written, log, certified, s3Vars, passed>>

(* scanMultipartUploads and scanObjectVersions of one bucket: the second   *)
(* may fail in silence, the first makes the bucket an ERROR.               *)
Scan(found) ==
  /\ phase = "DISCOVERY"
  /\ toScan # <<>> /\ ~shutting
  /\ tried' = tried \cup {Head(toScan)}
  /\ toScan' = Tail(toScan)
  /\ discovered' = discovered \o found
  /\ UNCHANGED <<options, phase, epoch, halted, running, lock, shutting, stops, matched,
                 toTest, handled, circuitBreaker, bulkVars, recordVars, s3Vars, passed>>

ScanBucket(withVersions) ==
  /\ Scan(Filtered(Listing[Head(toScan)], IF withVersions THEN alive ELSE alive \cap Upload))
  /\ cursor' = Head(toScan)

ScanFails == Scan(<<>>) /\ UNCHANGED cursor

EndDiscovery ==
  /\ phase = "DISCOVERY"
  /\ toScan = <<>> \/ shutting
  /\ Then("POLICY_MATCH")
  /\ UNCHANGED <<options, loopVars, findVars, matched, toTest, handled, circuitBreaker,
                 bulkVars, recordVars, s3Vars, passed>>

Violations == {t \in Target : BucketOf(t) \notin options.monitor /\ t \in options.due}

PolicyMatch ==
  /\ phase = "POLICY_MATCH"
  /\ matched' = Filtered(discovered, Violations)
  /\ Then("BLAST_RADIUS_AUDIT")
  /\ UNCHANGED <<options, loopVars, findVars, toTest, handled, circuitBreaker, bulkVars,
                 recordVars, s3Vars, passed>>

PolicyFails ==
  /\ phase = "POLICY_MATCH"
  /\ matched' = <<>>
  /\ HaltWith(<<>>)
  /\ UNCHANGED <<options, epoch, cursor, running, lock, shutting, stops, findVars,
                 toTest, handled, circuitBreaker, bulkVars, written, log, certified, s3Vars, passed>>

Of(b)    == Filtered(matched, SetOf(Listing[b]))
Affected == {BucketOf(t) : t \in SetOf(matched)}

(* The inventory the ceiling is a share of is what discovery found.        *)
UnderCeiling == WithinCeiling(Len(matched), Len(discovered), FALSE)

BlastRadiusPasses ==
  /\ phase = "BLAST_RADIUS_AUDIT"
  /\ UnderCeiling
  /\ toTest' = Filtered(Buckets, Affected)
  /\ Then("CANARY_TEST")
  /\ UNCHANGED <<options, loopVars, findVars, matched, handled, circuitBreaker, bulkVars,
                 recordVars, s3Vars, passed>>

(* Above the ceiling, a bucket the guard blocks, or a check that throws.   *)
BlastRadiusHalts ==
  /\ phase = "BLAST_RADIUS_AUDIT"
  /\ IF UnderCeiling
       THEN \E b \in Affected : HaltWith(<<>>) \/ HaltWith(<<Event("BLAST_RADIUS", b)>>)
       ELSE HaltWith(<<Event("BLAST_RADIUS", "fleet")>>)
  /\ UNCHANGED <<options, epoch, cursor, running, lock, shutting, stops, findVars, matched,
                 toTest, handled, circuitBreaker, bulkVars, written, log, certified, s3Vars, passed>>

-----------------------------------------------------------------------------
(* "uploadId" in the first target decides for the whole bucket; the        *)
(* versions of a mixed bucket then sort first, as uploads without a date.  *)
AsUploads(b) == Head(Of(b)) \in Upload

Gate(b) == INSTANCE CanaryGate
             WITH Plan <- Of(b), CanaryMax <- CanaryCount,
                  Born <- [t \in Target |-> IF AsUploads(b) /\ t \notin Upload THEN 0 ELSE Born[t]]

SampleOf(b) == SetOf(Gate(b)!Sample)

\* without an upload id AbortMultipartUpload is not even sent
Deletable(b) == IF AsUploads(b) THEN SampleOf(b) \cap Upload ELSE SampleOf(b)

CanaryPasses(b) ==
  /\ phase = "CANARY_TEST"
  /\ ~options.dryRun
  /\ toTest # <<>> /\ b = Head(toTest)
  /\ SampleOf(b) = Deletable(b)
  /\ Removes(SampleOf(b))
  /\ circuitBreaker' = Succeeded(circuitBreaker)
  /\ toTest' = Tail(toTest)
  /\ handled' = SampleOf(b)
  /\ passed' = passed \cup {b}
  /\ events' = Append(events, Event("CANARY_VERIFIED", b))
  /\ UNCHANGED <<options, phase, loopVars, findVars, matched, bulkVars, written, log, certified>>

\* slip: a failed canary is recorded and the next bucket goes on
CanaryFailsOn(b, classes, gone) ==
  /\ phase = "CANARY_TEST"
  /\ ~options.dryRun
  /\ toTest # <<>> /\ b = Head(toTest)
  /\ gone \subseteq Deletable(b)
  /\ Removes(gone)
  /\ \E jitter \in Jitters : circuitBreaker' = Failed(circuitBreaker, classes, jitter)
  /\ toTest' = Tail(toTest)
  /\ UNCHANGED <<options, phase, loopVars, findVars, matched, handled, bulkVars, recordVars, passed>>

(* What the gate has told the breaker before it throws: the exception, the *)
(* errors in a DeleteObjects answer, or nothing when a repeat of the       *)
(* request throws.                                                         *)
ToldByGate(b, classes) ==
  {Failed(circuitBreaker, classes, j) : j \in Jitters}
  \cup (IF AsUploads(b) THEN {}
        ELSE {circuitBreaker} \cup {BatchDone(circuitBreaker, Cardinality(SampleOf(b)), n, classes, j) :
                               n \in 1..Cardinality(SampleOf(b)), j \in Jitters})

(* Part of the sample may be gone.  The operator reports the gate's error  *)
(* again, whose message may quote the first one, and trips the breaker.    *)
CanaryFails(b, classes, gone) ==
  /\ phase = "CANARY_TEST"
  /\ ~options.dryRun
  /\ toTest # <<>> /\ b = Head(toTest)
  /\ gone \subseteq Deletable(b)
  /\ Removes(gone)
  /\ \E told \in ToldByGate(b, classes), quoted \in SUBSET (classes \ {"integrity"}), j1, j2 \in Jitters :
       circuitBreaker' = Trip(Failed(told, quoted, j1), j2)
  /\ HaltWith(<<>>)
  /\ UNCHANGED <<options, epoch, cursor, running, lock, shutting, stops, findVars, matched,
                 toTest, handled, bulkVars, written, log, certified, passed>>

EndCanaries ==
  /\ phase = "CANARY_TEST"
  /\ toTest = <<>> \/ options.dryRun
  /\ Then("CIRCUIT_VERIFY")
  /\ UNCHANGED <<options, loopVars, findVars, matched, toTest, handled, circuitBreaker,
                 bulkVars, recordVars, s3Vars, passed>>

(* getState, and the synchronous start of the bulk step.  Of the canaries  *)
(* only the last bucket's are excluded, by key and upload id: a version is *)
(* excluded when the sample held another version of its key.               *)
SameOutcome(t, u) == KeyOf[t] = KeyOf[u] /\ (t = u \/ {t, u} \cap Upload = {})

Remaining == Filtered(matched, {t \in SetOf(matched) : ~ \E u \in handled : SameOutcome(t, u)})

CircuitVerify ==
  /\ phase = "CIRCUIT_VERIFY"
  /\ circuitBreaker' = Refresh(circuitBreaker)
  /\ IF circuitBreaker'.state = "OPEN"
       THEN HaltWith(<<Event("CIRCUIT_BREAKER_TRIPPED", "fleet")>>) /\ UNCHANGED todo
       ELSE /\ phase' = IF options.dryRun THEN "AUDIT_LOG" ELSE "BULK_EXECUTE"
            /\ todo' = IF options.dryRun THEN <<>> ELSE Remaining
            /\ UNCHANGED <<halted, events>>
  /\ UNCHANGED <<options, epoch, cursor, running, lock, shutting, stops, findVars, matched,
                 toTest, handled, flying, written, log, certified, s3Vars, passed>>

-----------------------------------------------------------------------------
Bulk ==
  /\ phase = "BULK_EXECUTE"
  /\ UNCHANGED <<options, loopVars, findVars, matched, toTest, handled, written, log,
                 certified, passed>>

(* A task sends unless the operator is shutting down; none asks the        *)
(* breaker.  A task that is skipped reports nothing.                       *)
StartTask ==
  /\ Bulk
  /\ todo # <<>> /\ Cardinality(flying) < MaxConcurrency
  /\ todo' = Tail(todo)
  /\ flying' = IF shutting THEN flying ELSE flying \cup {Head(todo)}
  /\ UNCHANGED <<phase, circuitBreaker, events, s3Vars>>

TaskAnswered(t) ==
  /\ Bulk
  /\ t \in flying
  /\ flying' = flying \ {t}
  /\ UNCHANGED <<phase, todo, events>>

(* DeleteObjects answers 200 also when it deletes nothing; Errors is not   *)
(* looked at.  An upload that is gone is an error.                         *)
TaskSucceeds(t) ==
  /\ TaskAnswered(t)
  /\ t \in Upload => t \in alive
  /\ circuitBreaker' = Succeeded(circuitBreaker)
  /\ \/ Removes({t})
     \/ t \notin Upload /\ UNCHANGED s3Vars

TaskFails(t, classes, lost) ==
  /\ TaskAnswered(t)
  /\ IF lost THEN Removes({t}) ELSE UNCHANGED s3Vars
  /\ \E jitter \in Jitters : circuitBreaker' = Failed(circuitBreaker, classes, jitter)

BulkEvents ==
  LET touched == {b \in Bucket : \E t \in SetOf(Remaining) : BucketOf(t) = b}
      affected == Filtered(Buckets, touched)
  IN  [i \in DOMAIN affected |-> Event("REMEDIATION_EXECUTED", affected[i])]

EndBulk ==
  /\ Bulk
  /\ todo = <<>> /\ flying = {}
  /\ events' = events \o BulkEvents
  /\ Then("AUDIT_LOG")
  /\ UNCHANGED <<bulkVars, circuitBreaker, s3Vars>>

-----------------------------------------------------------------------------
Record ==
  UNCHANGED <<options, epoch, cursor, halted, running, lock, shutting, stops, findVars,
              matched, toTest, handled, circuitBreaker, bulkVars, s3Vars, passed>>

AppendEvent ==
  /\ phase = "AUDIT_LOG"
  /\ written < Len(events)
  /\ log' = Append(log, events[written + 1])
  /\ written' = written + 1
  /\ UNCHANGED <<phase, events, certified>>
  /\ Record

(* The first append of a process creates the state directory and may fail: *)
(* the exception leaves runOnce and start's loop.                          *)
AppendThrows ==
  /\ phase = "AUDIT_LOG"
  /\ written < Len(events) /\ log = <<>>
  /\ phase' = "FINALLY"
  /\ UNCHANGED recordVars
  /\ Record

\* slip: the events are kept for the next epoch
EndAuditKept ==
  /\ phase = "AUDIT_LOG"
  /\ written = Len(events)
  /\ written' = 0
  /\ Then("UNDO_EXPORT")
  /\ UNCHANGED <<events, log, certified>>
  /\ Record

EndAudit ==
  /\ phase = "AUDIT_LOG"
  /\ written = Len(events)
  /\ events' = <<>> /\ written' = 0
  /\ Then("UNDO_EXPORT")
  /\ UNCHANGED <<log, certified>>
  /\ Record

(* Manifests and certificates list what matched, dry run or not; a write   *)
(* that fails is a warning.                                                *)
UndoExport ==
  /\ phase = "UNDO_EXPORT"
  /\ \E saved \in SUBSET Affected :
       certified' = certified \cup {t \in SetOf(matched) : BucketOf(t) \in saved}
  /\ phase' = "SLEEP"
  /\ UNCHANGED <<events, written, log>>
  /\ Record

-----------------------------------------------------------------------------
Between ==
  UNCHANGED <<options, epoch, cursor, halted, findVars, matched, toTest, handled, bulkVars,
              recordVars, s3Vars, passed>>

LastRun == options.once \/ epoch >= MaxRuns

(* stepSleep up to its promise, or past it when there is nothing to wait   *)
(* for; the breaker is looked at either way.                               *)
Sleep ==
  /\ phase = "SLEEP"
  /\ circuitBreaker' = IF Refresh(circuitBreaker).state = "HALF_OPEN" THEN NewBreaker ELSE Refresh(circuitBreaker)
  /\ phase' = IF LastRun THEN "FINALLY" ELSE IF shutting THEN "LOOP" ELSE "SLEEPING"
  /\ UNCHANGED <<running, lock, shutting, stops>>
  /\ Between

Wake ==
  /\ phase = "SLEEPING"
  /\ phase' = "LOOP"
  /\ UNCHANGED <<circuitBreaker, running, lock, shutting, stops>>
  /\ Between

\* slip: the sleep does not listen to the abort signal
WakeAbortedDeaf == FALSE /\ UNCHANGED operatorVars

WakeAborted == shutting /\ Wake

Halted ==
  /\ phase = "HALTED"
  /\ phase' = "FINALLY"
  /\ UNCHANGED <<circuitBreaker, running, lock, shutting, stops>>
  /\ Between

(* stop(), up to its first await: at any await of a run, or in start()'s   *)
(* finally.  CIRCUIT_VERIFY has none.                                      *)
CallStop(c) ==
  /\ stops[c] = "off"
  /\ IF c = "finally" THEN phase = "FINALLY"
     ELSE \/ phase \in (Phases \ {"CIRCUIT_VERIFY"}) \cup {"SLEEPING"}
          \/ phase = "FINALLY" /\ stops["finally"] = "waiting"
  /\ stops' = [stops EXCEPT ![c] = IF running \/ lock THEN "waiting" ELSE "done"]
  /\ shutting' = (shutting \/ running \/ lock)
  /\ UNCHANGED <<phase, circuitBreaker, running, lock>>
  /\ Between

\* slip: the phase in progress is not awaited
PhaseSettledAtOnce == TRUE

PhaseSettled == phase \notin Phases

(* After the phase: the writer is closed, the checkpoint written (nothing  *)
(* reads it), the lock released.                                           *)
FinishStop(c) ==
  /\ stops[c] = "waiting"
  /\ PhaseSettled
  /\ stops' = [stops EXCEPT ![c] = "done"]
  /\ running' = FALSE /\ lock' = FALSE
  /\ UNCHANGED <<phase, circuitBreaker, shutting>>
  /\ Between

EndStart ==
  /\ phase = "FINALLY"
  /\ stops["finally"] = "done"
  /\ phase' = "ENDED"
  /\ UNCHANGED <<circuitBreaker, running, lock, shutting, stops>>
  /\ Between

(* The signal handler's process.exit(0); another caller does not exit.     *)
Exit ==
  /\ stops["caller"] = "done"
  /\ phase \notin {"ENDED", "EXITED"}
  /\ phase' = "EXITED"
  /\ UNCHANGED <<circuitBreaker, running, lock, shutting, stops>>
  /\ Between

OperatorTick ==
  /\ phase \in (Phases \ {"CIRCUIT_VERIFY"}) \cup {"SLEEPING"}
  /\ circuitBreaker' = Aged(circuitBreaker)
  /\ UNCHANGED <<phase, running, lock, shutting, stops>>
  /\ Between

Discover ==
  \/ \E withVersions \in BOOLEAN : ScanBucket(withVersions)
  \/ ListBucketsFails \/ ScanFails \/ EndDiscovery

CanaryAnswer ==
  \/ \E b \in Bucket : CanaryPasses(b)
  \/ \E b \in Bucket, classes \in Exceptions, gone \in SUBSET Target : CanaryFails(b, classes, gone)

Answer(t) ==
  TaskSucceeds(t) \/ \E classes \in Exceptions, lost \in BOOLEAN : TaskFails(t, classes, lost)

Run ==
  \/ BeginEpoch \/ LeaveLoop \/ Discover \/ PolicyMatch \/ PolicyFails
  \/ BlastRadiusPasses \/ BlastRadiusHalts \/ CanaryAnswer \/ EndCanaries
  \/ CircuitVerify \/ StartTask \/ EndBulk \/ AppendEvent \/ AppendThrows
  \/ EndAudit \/ UndoExport \/ Sleep \/ Halted \/ WakeAborted \/ EndStart
  \/ CallStop("finally") \/ \E t \in Target : Answer(t)

OperatorNext == Start \/ Run \/ Wake \/ CallStop("caller") \/ (\E c \in Callers : FinishStop(c)) \/ Exit \/ OperatorTick

OperatorSpec == OperatorInit /\ [][OperatorNext]_operatorVars

(* The process runs and requests are answered.  Nobody has to start or     *)
(* stop it, and the timer of the sleep is not waited for.                  *)
FairSpec == OperatorSpec /\ WF_operatorVars(Run) /\ \A c \in Callers : WF_operatorVars(FinishStop(c))

-----------------------------------------------------------------------------
Events == [kind : {"BLAST_RADIUS", "CANARY_VERIFIED", "CIRCUIT_BREAKER_TRIPPED", "REMEDIATION_EXECUTED"},
           bucket : Bucket \cup {"fleet"}, epoch : 1..MaxRuns]

(* Types; the loop ends after MaxRuns epochs.                              *)
OperatorTypeOK ==
  /\ options \in Options
  /\ phase \in Phases \cup Resting
  /\ epoch \in 0..MaxRuns /\ cursor \in Bucket \cup {"none"}
  /\ {halted, running, lock, shutting} \subseteq BOOLEAN
  /\ stops \in [Callers -> {"off", "waiting", "done"}]
  /\ SetOf(toScan) \cup SetOf(toTest) \cup tried \cup passed \subseteq Bucket
  /\ SetOf(discovered) \cup SetOf(matched) \cup SetOf(todo) \subseteq Target
  /\ handled \cup flying \cup certified \cup alive \cup destroyed \subseteq Target
  /\ circuitBreaker \in BreakerType
  /\ SetOf(events) \cup SetOf(log) \subseteq Events /\ written \in 0..Len(events)

(* What an epoch removes, by canary, by bulk or by a request whose answer  *)
(* is lost, is due, is under no MONITOR_ONLY rule and stays within the     *)
(* ceiling of what the epoch discovered; a dry run removes nothing.        *)
HarmBounded ==
  /\ options.dryRun => destroyed = {}
  /\ \A t \in destroyed : t \in options.due /\ BucketOf(t) \notin options.monitor
  /\ 100 * Cardinality(destroyed) <= MaxPercent * Len(discovered)

(* A bulk request is on the wire only when the canary of every affected    *)
(* bucket passed in this epoch, also when the operator was asked to stop   *)
(* between two canaries.                                                   *)
BulkAfterCanaries == flying # {} => passed = Affected /\ ~halted

(* The harm of an epoch is contained by its rules, by its ceiling and by   *)
(* its canaries.                                                           *)
HarmContained == OperatorTypeOK /\ HarmBounded /\ BulkAfterCanaries

(* Nothing is on the wire once the lock is released, even if stop() is     *)
(* called with requests in flight: another operator may then start.        *)
LockCoversMutations == flying # {} => lock

(* An epoch that was neither halted nor stopped reaches its sleep with an  *)
(* event of that epoch in the log for every bucket that lost a target, and *)
(* no event is ever appended twice.                                        *)
MutationsLoggedOnce ==
  /\ \A i, j \in DOMAIN log : log[i] = log[j] => i = j
  /\ phase = "SLEEP" /\ ~shutting =>
       \A t \in destroyed : \E i \in DOMAIN log :
         log[i].bucket = BucketOf(t) /\ log[i].epoch = epoch

(* stop() ends the operator, from any phase and from the sleep, without    *)
(* waiting for the sleep's timer.                                          *)
StopEnds == shutting ~> phase \in {"ENDED", "EXITED"}

=============================================================================
