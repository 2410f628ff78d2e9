------------------------------ MODULE PlanApply ------------------------------
(***************************************************************************)
(* src/cli.ts, `plan <bucket>` and `apply --plan`: one invocation writes a *)
(* plan file, later ones carry it out, and between and during them time    *)
(* passes, the file is edited, the bucket's owner changes its protection   *)
(* and other clients take entries away.  The executors are what            *)
(* AbortExecutor and VersionExecutor show of them: some entries removed,   *)
(* all others named as failed, or an exception after the canaries.         *)
(***************************************************************************)
EXTENDS BlastRadius, PlanFile, FiniteSets

CONSTANTS Upload, Version,  \* entries of the bucket, by id
          ProtectedKey,     \* those under a protected prefix
          Contents,         \* what the bucket may hold at first
          GuardChoices,     \* how it may be protected when apply begins
          Born,             \* when each was made
          Endpoint,         \* of the plans; "wasabi" is one of that provider
          Routes,           \* --endpoint and --provider of an apply, or "unset"
          Sample,           \* entries a canary takes
          FlagSets,         \* flags of the operator
          MaxTime, MaxMeddling, MaxInvocations \* bounds

Entry == Upload \union Version

ASSUME PlanAssumption ==
  /\ GuardChoices \subseteq [lock : Locks, replication : {"none", "active"}, tags : {"plain", "protected"}]
  /\ FlagSets \subseteq [bypassGovernance : BOOLEAN, acknowledgeReplication : BOOLEAN,
                           allowActiveChurn : BOOLEAN, forceWasabiEarlyDelete : BOOLEAN]
  /\ IsFiniteSet(Entry) /\ Upload \intersect Version = {} /\ ProtectedKey \subseteq Entry
  /\ Born \in [Entry -> Int] /\ Sample \in Nat

VARIABLES opts,      \* the command line of this invocation
          pc, code,  \* where it is and what it ends with
          entries, guard, now,   \* the bucket: contents, protection; the clock
          file,      \* plan files on disk, one or none
          plan,      \* the plan in memory, likewise
          answers,   \* of the three calls so far
          hadErrors, ledger,
          meddling, invocations, \* counted for the bounds
          removed,   \* history: what this invocation removed
          made,      \* history: entries of the last plan that was made
          resealed,  \* history: its hash was computed again since
          steady,    \* history: protections nobody touched during this invocation
          appendsOk  \* history: each append of this invocation succeeded

world == <<entries, guard, now>>
disk == <<file, made, resealed>>
self == <<plan, answers, hadErrors, ledger, removed, appendsOk>>
bounds == <<meddling, invocations>>
applyVars == <<opts, pc, code, world, disk, self, steady, bounds>>

NoAnswers == [lock |-> "none", replication |-> "none", tags |-> "plain"]

PlanOptions == [cmd : {"plan"}, days : {0, 1}, versions : BOOLEAN, endpoint : Endpoint]
ApplyOptions ==
  {o \in [cmd : {"apply"}, args : {"ok"}, flags : FlagSets,
          endpoint : {r.endpoint : r \in Routes}, provider : {r.provider : r \in Routes}] :
     [endpoint |-> o.endpoint, provider |-> o.provider] \in Routes}
  \union [cmd : {"apply"}, args : {"no plan", "no --confirm", "bad percentage"}]

At(cmd, where) == opts.cmd = cmd /\ pc = where
Goes(where) == pc' = where /\ UNCHANGED code
Exits(c) == pc' = "ended" /\ code' = c

(* The catch of main(): a code for each class of exception.                *)
Classes == {"auth", "safety", "file", "network", "other"}
FatalCode(class) ==
  CASE class = "auth" -> 2 [] class = "safety" -> 4 [] class = "file" -> 5
    [] class = "network" -> 6 [] class = "other" -> 1
Throws == \E class \in Classes : Exits(FatalCode(class))

Targets(p) ==
  {[protected |-> e \in ProtectedKey, dated |-> p.stamp[e].dated, time |-> p.stamp[e].time] :
     e \in p.uploads \union p.versions}

-----------------------------------------------------------------------------
(* `plan`: what is old enough is listed, whatever is not current of the    *)
(* versions; an exception of any of the parallel scans ends the command.   *)
Stamps == [e \in Entry |-> [dated |-> TRUE, time |-> Born[e]]]
OldEnough(days) == {e \in entries : now - Born[e] >= days}

ScanForPlan ==
  /\ At("plan", "start")
  /\ \/ /\ \E listed \in {OldEnough(opts.days)} :
             plan' = {CreatePlan("bucket", opts.endpoint, opts.days, listed \intersect Upload,
                                 IF opts.versions THEN listed \intersect Version ELSE {}, Stamps)}
        /\ Goes("lock")
     \/ Throws /\ UNCHANGED plan
  /\ UNCHANGED <<opts, world, disk, answers, hadErrors, ledger, removed, appendsOk, steady, bounds>>

(* The file is written whatever the assessment says, and the code is 0.    *)
WritePlan ==
  /\ At("plan", "assessed")
  /\ \/ /\ file' = plan /\ made' = UNION {p.uploads \union p.versions : p \in plan}
        /\ resealed' = FALSE /\ Exits(0)
     \/ Throws /\ UNCHANGED disk
  /\ plan' = {} /\ answers' = NoAnswers
  /\ UNCHANGED <<opts, world, hadErrors, ledger, removed, appendsOk, steady, bounds>>

-----------------------------------------------------------------------------
(* Three calls in this order, of `plan` and of `apply`.                    *)
CheckLock ==
  /\ pc = "lock" /\ Goes("replication")
  /\ \E a \in LockAnswers(guard) : answers' = [answers EXCEPT !.lock = a]
  /\ UNCHANGED <<opts, world, disk, plan, hadErrors, ledger, removed, appendsOk, steady, bounds>>

CheckReplication ==
  /\ pc = "replication" /\ Goes("tags")
  /\ \E a \in ReplicationAnswers(guard) : answers' = [answers EXCEPT !.replication = a]
  /\ UNCHANGED <<opts, world, disk, plan, hadErrors, ledger, removed, appendsOk, steady, bounds>>

CheckTags ==
  /\ pc = "tags" /\ Goes("assessed")
  /\ \E a \in TagAnswers(guard) : answers' = [answers EXCEPT !.tags = a]
  /\ UNCHANGED <<opts, world, disk, plan, hadErrors, ledger, removed, appendsOk, steady, bounds>>

-----------------------------------------------------------------------------
(* `apply`: the arguments, then the file.                                  *)
RefuseArguments ==
  /\ At("apply", "start") /\ opts.args # "ok" /\ Exits(1)
  /\ UNCHANGED <<opts, world, disk, self, steady, bounds>>

LoadPlan ==
  /\ At("apply", "start") /\ opts.args = "ok"
  /\ \/ Exits(1) /\ UNCHANGED plan
     \/ \E p \in {ValidatePlan(f) : f \in file} :
          IF ~Intact(p) THEN Exits(3) /\ UNCHANGED plan
          ELSE IF p.uploads \union p.versions = {} THEN Exits(0) /\ UNCHANGED plan
          ELSE Goes("lock") /\ plan' = {p}
  /\ UNCHANGED <<opts, world, disk, answers, hadErrors, ledger, removed, appendsOk, steady, bounds>>

(* --endpoint wins over the plan's, and --provider over both.              *)
EffectiveEndpoint(p) == IF opts.endpoint = "unset" THEN p.endpoint ELSE opts.endpoint
OnWasabi(p) ==
  "wasabi" = IF opts.provider = "unset" THEN EffectiveEndpoint(p) ELSE opts.provider

(* The five gates: blocked, governance, replication, Wasabi, and any other *)
(* finding of HIGH risk, which each of the middle three brings too.        *)
Gates ==
  /\ At("apply", "assessed")
  /\ \E p \in plan :
       LET findings == Assessment(answers, Targets(p), now, OnWasabi(p), opts.flags)
       IN IF IsBlocked(findings) \/ Risky(findings, "HIGH") THEN Exits(4) ELSE Goes("uploads")
  /\ UNCHANGED <<opts, world, disk, self, steady, bounds>>

Removes(of) ==
  /\ entries' = entries \ of /\ removed' = removed \union of /\ UNCHANGED <<guard, now>>

(* What an executor leaves: some of what is there is gone, and the rest is *)
(* undone, failed or not reached.  An entry may be undone and gone, its    *)
(* answers lost, or undone and gone before.                                *)
Outcomes(of) ==
  {o \in [gone : SUBSET (of \intersect entries), undone : SUBSET of] :
     of \intersect entries \subseteq o.gone \union o.undone}

(* An abort that was answered counts; one that went through without its    *)
(* answer is skipped when it is tried again, like an upload gone before.   *)
AbortCounts(o) == {Cardinality(S) : S \in SUBSET (o.gone \ o.undone)}

(* A version that is gone before is deleted once more, and counts.         *)
DeletionCount(of, o) == Cardinality(of \ o.undone)

(* Of the events of an apply the ledger keeps REMEDIATION_EXECUTED.  It is *)
(* appended, or there is no --state-dir, or the failure is swallowed.      *)
Executed(step, count) == [step |-> step, count |-> count]
Logs(event) ==
  \/ ledger' = ledger \union {event} /\ UNCHANGED appendsOk
  \/ UNCHANGED ledger /\ appendsOk' = FALSE

\* slip: the errors of the first phase are forgotten in the second
ExecutesAnew(step, o, count, next) ==
  \E open \in BOOLEAN :
    /\ Removes(o.gone) /\ Goes(next)
    /\ hadErrors' = (open \/ o.undone # {})
    /\ Logs(Executed(step, count))

Executes(step, o, count, next) ==
  \E open \in BOOLEAN :
    /\ Removes(o.gone) /\ Goes(next)
    /\ hadErrors' = (hadErrors \/ open \/ o.undone # {})
    /\ Logs(Executed(step, count))

\* an exception: a gate of the executor, or its canary
Refuses(of) ==
  \E canary \in SUBSET (of \intersect entries) :
    /\ Cardinality(canary) <= Sample /\ Removes(canary) /\ Exits(4)
    /\ UNCHANGED <<hadErrors, ledger, appendsOk>>

AbortUploads ==
  /\ At("apply", "uploads")
  /\ \E p \in plan :
       IF p.uploads = {}
         THEN Goes("versions") /\ UNCHANGED <<world, removed, hadErrors, ledger, appendsOk>>
         ELSE \/ \E o \in Outcomes(p.uploads) : \E count \in AbortCounts(o) :
                   Executes("uploads", o, count, "versions")
              \/ Refuses(p.uploads)
  /\ UNCHANGED <<opts, disk, plan, answers, steady, bounds>>

(* Errors of the uploads do not keep the versions.                         *)
DeleteVersions ==
  /\ At("apply", "versions")
  /\ \E p \in plan :
       IF p.versions = {}
         THEN Goes("finish") /\ UNCHANGED <<world, removed, hadErrors, ledger, appendsOk>>
         ELSE \/ \E o \in Outcomes(p.versions) :
                   Executes("versions", o, DeletionCount(p.versions, o), "finish")
              \/ Refuses(p.versions)
  /\ UNCHANGED <<opts, disk, plan, answers, steady, bounds>>

FinishApply ==
  /\ At("apply", "finish") /\ Exits(IF hadErrors THEN 4 ELSE 0)
  /\ UNCHANGED <<opts, world, disk, self, steady, bounds>>

-----------------------------------------------------------------------------
\* a new process knows nothing of the last one; its bucket may be another's by now
Forgets ==
  /\ plan' = {} /\ answers' = NoAnswers /\ hadErrors' = FALSE /\ removed' = {}
  /\ steady' = {"lock", "replication", "tags"} /\ appendsOk' = TRUE /\ ledger' = {}

InvokeApply ==
  /\ pc = "ended" /\ opts.cmd \in {"plan", "apply"} /\ invocations < MaxInvocations
  /\ invocations' = invocations + 1
  /\ opts' \in ApplyOptions /\ pc' = "start" /\ code' = 0 /\ Forgets
  /\ guard' \in GuardChoices /\ now' \in now..MaxTime
  /\ UNCHANGED <<entries, disk, meddling>>

(* A hand takes an entry out or puts one in, or an editor or another       *)
(* program changes a date; the file keeps its hash, has it computed again, *)
(* or is rewritten in the schema that has none.                            *)
Retargeted(f) ==
  {[f EXCEPT !.uploads = f.uploads \ {e}, !.versions = f.versions \ {e}] : e \in Entry}
  \union {[f EXCEPT !.uploads = f.uploads \union ({e} \intersect Upload),
                    !.versions = f.versions \union ({e} \intersect Version)] : e \in Entry}
Undated(f) == {[f EXCEPT !.stamp[e].dated = FALSE] : e \in f.uploads \union f.versions}
Unsealed(f) == [f EXCEPT !.schema = "1.2", !.hash = NoHash]

EditFile ==
  /\ pc = "ended" /\ invocations < MaxInvocations
  /\ meddling < MaxMeddling /\ meddling' = meddling + 1
  /\ \E f \in file :
       \/ \E g \in Retargeted(f) \union Undated(f) : file' = {g} /\ UNCHANGED resealed
       \/ \E g \in Retargeted(f) : file' = {Unsealed(g)} /\ UNCHANGED resealed
       \/ \E g \in Retargeted(f) : file' = {Sealed(g)} /\ resealed' = TRUE
  /\ UNCHANGED <<opts, pc, code, world, made, self, steady, invocations>>

\* what others do before shows when the command looks, what they do later is not looked at
OwnerActs ==
  /\ opts.cmd = "apply" /\ pc \in {"lock", "replication", "tags", "assessed"}
  /\ meddling < MaxMeddling /\ meddling' = meddling + 1
  /\ \/ \E l \in Locks : guard' = [guard EXCEPT !.lock = l] /\ steady' = steady \ {"lock"}
     \/ \E r \in {"none", "active"} : guard' = [guard EXCEPT !.replication = r] /\ steady' = steady \ {"replication"}
     \/ \E t \in {"plain", "protected"} : guard' = [guard EXCEPT !.tags = t] /\ steady' = steady \ {"tags"}
  /\ guard' # guard
  /\ UNCHANGED <<opts, pc, code, entries, now, disk, self, invocations>>

OtherClient ==
  /\ pc \in {"uploads", "versions"} /\ meddling < MaxMeddling /\ meddling' = meddling + 1
  /\ \E e \in entries : entries' = entries \ {e}
  /\ UNCHANGED <<opts, pc, code, guard, now, disk, self, steady, invocations>>

-----------------------------------------------------------------------------
Blank ==
  /\ guard = NoAnswers /\ now = 0
  /\ file = {} /\ plan = {} /\ answers = NoAnswers /\ hadErrors = FALSE /\ ledger = {}
  /\ meddling = 0 /\ invocations = 1
  /\ removed = {} /\ made = {} /\ resealed = FALSE /\ steady = {"lock", "replication", "tags"} /\ appendsOk = TRUE

ApplyInit ==
  opts \in PlanOptions /\ pc = "start" /\ code = 0 /\ entries \in Contents /\ Blank

Command ==
  \/ ScanForPlan \/ WritePlan \/ CheckLock \/ CheckReplication \/ CheckTags
  \/ RefuseArguments \/ LoadPlan \/ Gates \/ AbortUploads \/ DeleteVersions \/ FinishApply

Outside == InvokeApply \/ EditFile \/ OwnerActs \/ OtherClient

-----------------------------------------------------------------------------
(* What a bucket was protected by during all of an apply keeps it whole    *)
(* unless the operator passed the flag for it: a lock, a replication, a    *)
(* tag, a key of a pipeline, an upload of today or an early deletion at    *)
(* what the apply takes for Wasabi, provided that the call that asks for   *)
(* it did not fail and the dates in the file are those of the entries.     *)
Stood(what, state) ==
  what \in steady /\ answers[what] \notin {Failed, Absent} /\ guard[what] = state

StandingProtectionHolds ==
  opts.cmd = "apply" /\ removed # {} =>
    /\ ~Stood("lock", "COMPLIANCE") /\ ~Stood("tags", "protected")
    /\ Stood("lock", "GOVERNANCE") => opts.flags.bypassGovernance
    /\ Stood("replication", "active") => opts.flags.acknowledgeReplication
    /\ removed \intersect ProtectedKey = {}
    /\ \A p \in plan, e \in removed : p.stamp[e].dated =>
         /\ now - Born[e] < ChurnSpan => opts.flags.allowActiveChurn
         /\ now - Born[e] < WasabiSpan /\ OnWasabi(p) => opts.flags.forceWasabiEarlyDelete

(* Nothing goes that was not in the plan as it was made, unless the file   *)
(* was rewritten without its hash or with one of its own: the hash tells   *)
(* a change that forgets it from none, and not who made the change.        *)
RemovedAsPlanned ==
  opts.cmd = "apply" =>
    \A p \in plan : p.hash # NoHash /\ ~resealed => removed \subseteq made

(* An apply that ends with 0 leaves nothing of its plan in the bucket, and *)
(* the record, if it could be written, has every version of the plan as    *)
(* deleted, whoever deleted it, and no more aborts than there were.  It    *)
(* may have fewer: an upload whose answer was lost is off the record.      *)
ZeroMeansApplied ==
  opts.cmd = "apply" /\ pc = "ended" /\ code = 0 =>
    /\ \A p \in plan :
         /\ entries \intersect (p.uploads \union p.versions) = {}
         /\ appendsOk /\ p.versions # {} =>
              Executed("versions", Cardinality(p.versions)) \in ledger
    /\ \A e \in ledger : e.step = "uploads" => e.count <= Cardinality(removed \intersect Upload)
=============================================================================
