-------------------------- MODULE CommandLineProofs --------------------------
(***************************************************************************)
(* An invocation of the command line, for every bucket, plan, set of flags *)
(* and number of invocations: no apply removes what stood protected or,    *)
(* under the hash the plan was made with, what was not in the plan; an     *)
(* exit code of 0 means that the change was made; and no command ends with *)
(* its clients in use.                                                     *)
(*                                                                         *)
(* The invariant follows one invocation.  Sound says what the files on     *)
(* disk keep of the plan that was made, whoever edits them; Asked that an  *)
(* answer is still what the bucket shows, unless the owner has moved;      *)
(* Cleared that the gates were passed by everything that is gone; Cleaned  *)
(* that an apply without errors has left nothing of its plan and that the  *)
(* ledger counts no abort that did not happen; and Sweeping                *)
(* where the other commands stand.                                         *)
(*                                                                         *)
(* The second part is about the lifecycle rules that several operators     *)
(* change and put back, for every number of them, of retries and of other  *)
(* writers: UndoIsInverse and OtherRulesKept follow from RulesIInv, which  *)
(* says what a command that nobody wrote next to still knows of the bucket *)
(* (what it read, or what its own Put left), and what a manifest knows of  *)
(* the state before it.                                                    *)
(***************************************************************************)
EXTENDS CommandLine, LifecycleUndo, FiniteSetTheorems, TLAPS

ApplyPlaces == {"start", "lock", "replication", "tags", "assessed",
                "uploads", "versions", "finish", "ended"}
OwnPlaces   == {"start", "sweep", "judge", "audits", "run", "task", "sleep",
                "put", "done", "ended"}

Planning == opts.cmd \in {"plan", "apply"}
Applying == opts.cmd = "apply"

-----------------------------------------------------------------------------
PayloadType ==
  [bucket : {"bucket"}, olderThanDays : {0, 1}, uploads : SUBSET Upload, versions : SUBSET Version]

PlanType ==
  [schema : {"1.1", "1.2", "1.3"}, bucket : {"bucket"}, endpoint : Endpoint,
   olderThanDays : {0, 1}, uploads : SUBSET Upload, versions : SUBSET Version,
   stamp : [Entry -> [dated : BOOLEAN, time : Int]], hash : SUBSET PayloadType]

\* a date is that of the entry or unreadable
Truthful(f) ==
  /\ f \in PlanType
  /\ \A e \in Entry : f.stamp[e].time = Born[e]

HashedOf(f, targets) == \A h \in f.hash : f.hash = {h} /\ h.uploads \union h.versions = targets

AtMostOne(S) == \A x, y \in S : x = y

Sound ==
  /\ AtMostOne(plan)
  /\ \A f \in file : Truthful(f) /\ (~resealed => HashedOf(f, made))
  /\ \A p \in plan :
       /\ Truthful(p)
       /\ IF Applying THEN p.hash # NoHash /\ ~resealed => p.uploads \union p.versions = made
                      ELSE HashedOf(p, p.uploads \union p.versions)
  /\ opts.cmd = "plan" => opts \in PlanOptions
  /\ guard \in [lock : Locks, replication : {"none", "active"}, tags : {"plain", "protected"}]
  /\ answers \in [lock : Locks \union {Failed, Absent}, replication : {"none", "active", Failed, Absent},
                  tags : {"plain", "protected", Failed}]

\* the calls that have been answered, by where the apply is
Acting == pc \in {"uploads", "versions", "finish"} \/ removed # {}
Since(places, what) ==
  Applying /\ (pc \in places \/ Acting) /\ what \in steady => answers[what] \in {guard[what], Failed, Absent}

AnswersStand ==
  /\ Since({"replication", "tags", "assessed"}, "lock")
  /\ Since({"tags", "assessed"}, "replication")
  /\ Since({"assessed"}, "tags")

Passed(p) ==
  LET findings == Assessment(answers, Targets(p), now, OnWasabi(p), opts.flags)
  IN  ~IsBlocked(findings) /\ ~Risky(findings, "HIGH")

Cleared ==
  Applying =>
    /\ pc \in {"start", "lock", "replication", "tags", "assessed"} => removed = {}
    /\ pc = "start" => plan = {}
    /\ removed # {} => plan # {}
    /\ \A p \in plan : removed \subseteq p.uploads \union p.versions
    /\ Acting => \A p \in plan : Passed(p)

\* what the ledger says of the versions and of the uploads
Deleted(of) == of # {} => Executed("versions", Cardinality(of)) \in ledger
Counted ==
  \A e \in ledger :
    e.count \in Nat /\ (e.step = "uploads" => e.count <= Cardinality(removed \intersect Upload))

Cleaned ==
  Applying =>
    /\ \A p \in plan :
         /\ pc = "versions" /\ ~hadErrors => entries \intersect p.uploads = {}
         /\ (pc = "finish" /\ ~hadErrors) \/ (pc = "ended" /\ code = 0) =>
              /\ entries \intersect (p.uploads \union p.versions) = {}
              /\ appendsOk => Deleted(p.versions)
    /\ Counted

-----------------------------------------------------------------------------
LifecycleType == [provider : Providers, rules : SUBSET Rule]

FailsDaemon == opts.cmd = "scan" /\ opts.daemon /\ opts.limits.failOnUnprotected

Sweeping ==
  /\ Planning => pc \in ApplyPlaces /\ pool = "none" /\ results = << >> /\ todo = {}
  /\ ~Planning => pc \in OwnPlaces
  /\ \A b \in DOMAIN results : results[b] \in LifecycleType
  /\ pc \in {"start", "put", "done"} => results = << >>
  /\ pc \in {"start", "done"} => todo = {}
  /\ opts.cmd = "remediate" /\ pc = "judge" =>
       \A b \in Audited(results) : Purged(results[b]) \/ b \in todo
  /\ FailsDaemon /\ last = 0 => Bare(results) = {}
  /\ pool = "leased" =>
       \/ pc = "sweep" /\ Pooled
       \/ pc = "judge" /\ opts.cmd = "remediate"
       \/ pc = "audits"
       \/ pc = "task" /\ opts.scope = "fleet"
  /\ pc = "task" => Daemon

IInv == Sound /\ AnswersStand /\ Cleared /\ Cleaned /\ Sweeping /\ ZeroMeansDone
-----------------------------------------------------------------------------
(* A plan, as it is made.                                                  *)
LEMMA MadeTruthful ==
  ASSUME NEW endpoint \in Endpoint, NEW days \in {0, 1},
         NEW U \in SUBSET Upload, NEW V \in SUBSET Version
  PROVE  LET p == CreatePlan("bucket", endpoint, days, U, V, Stamps)
         IN  Truthful(p) /\ HashedOf(p, p.uploads \union p.versions)
<1> DEFINE q == [schema |-> "1.3", bucket |-> "bucket", endpoint |-> endpoint,
                 olderThanDays |-> days, uploads |-> U, versions |-> V,
                 stamp |-> Stamps, hash |-> NoHash]
           h == [bucket |-> "bucket", olderThanDays |-> days, uploads |-> U, versions |-> V]
           p == CreatePlan("bucket", endpoint, days, U, V, Stamps)
<1>1. Stamps \in [Entry -> [dated : BOOLEAN, time : Int]] /\ \A e \in Entry : Stamps[e].time = Born[e]
  BY PlanAssumption DEF Stamps
<1>2. p = [q EXCEPT !.hash = {h}]
  BY DEF CreatePlan, Sealed, Payload
<1>3. h \in PayloadType /\ h.uploads = U /\ h.versions = V
  BY DEF PayloadType
<1>4. p = [schema |-> "1.3", bucket |-> "bucket", endpoint |-> endpoint,
           olderThanDays |-> days, uploads |-> U, versions |-> V,
           stamp |-> Stamps, hash |-> {h}]
  BY <1>2
<1> HIDE DEF p, h
<1>5. p \in PlanType
  BY <1>1, <1>3, <1>4 DEF PlanType
<1>6. Truthful(p)
  BY <1>1, <1>4, <1>5 DEF Truthful
<1>7. HashedOf(p, p.uploads \union p.versions)
  BY <1>3, <1>4 DEF HashedOf
<1> QED
  BY <1>6, <1>7 DEF p

(* A file, as validatePlan returns it.                                     *)
LEMMA ValidatedTruthful ==
  ASSUME NEW f, Truthful(f)
  PROVE  /\ Truthful(ValidatePlan(f)) /\ ValidatePlan(f).hash = f.hash
         /\ Payload(ValidatePlan(f)) = Payload(f)
         /\ ValidatePlan(f).uploads = f.uploads /\ ValidatePlan(f).versions = f.versions
<1> DEFINE v == ValidatedSchema(f)
           g == [f EXCEPT !.schema = v]
<1>1. v \in {"1.1", "1.2", "1.3"} /\ f \in PlanType
  BY DEF ValidatedSchema, Truthful
<1>2. ValidatePlan(f) = g
  BY DEF ValidatePlan
<1> HIDE DEF v
<1>3. /\ g \in PlanType /\ g.hash = f.hash /\ g.stamp = f.stamp /\ g.bucket = f.bucket
      /\ g.olderThanDays = f.olderThanDays /\ g.uploads = f.uploads /\ g.versions = f.versions
  BY <1>1 DEF PlanType
<1> HIDE DEF g
<1> QED
  BY <1>2, <1>3 DEF Truthful, Payload

(* A file, as a hand or another program leaves it: a hash is kept, dropped *)
(* or computed again, and no date comes in that was not there.             *)
LEMMA UndatedTruthful ==
  ASSUME NEW f, Truthful(f), NEW g \in Undated(f)
  PROVE  Truthful(g) /\ g.hash = f.hash
<1>1. PICK e \in Entry : g = [f EXCEPT !.stamp[e].dated = FALSE]
  BY DEF Truthful, PlanType, Undated, Entry
<1> DEFINE u == [f.stamp EXCEPT ![e].dated = FALSE]
<1>2. f \in PlanType /\ f.stamp \in [Entry -> [dated : BOOLEAN, time : Int]]
  BY DEF Truthful, PlanType
<1>3. g = [f EXCEPT !.stamp = u]
  BY <1>1
<1>4. u \in [Entry -> [dated : BOOLEAN, time : Int]] /\ \A d \in Entry : u[d].time = f.stamp[d].time
  BY <1>2
<1> HIDE DEF u
<1>5. g \in PlanType /\ g.stamp = u /\ g.hash = f.hash
  BY <1>2, <1>3, <1>4 DEF PlanType
<1> QED
  BY <1>4, <1>5 DEF Truthful

LEMMA RetargetedTruthful ==
  ASSUME NEW f, Truthful(f), NEW g \in Retargeted(f)
  PROVE  Truthful(g) /\ g.hash = f.hash
<1>1. f \in PlanType /\ f.uploads \in SUBSET Upload /\ f.versions \in SUBSET Version
  BY DEF Truthful, PlanType
<1>2. ASSUME NEW U \in SUBSET Upload, NEW V \in SUBSET Version,
             g = [f EXCEPT !.uploads = U, !.versions = V]
      PROVE  Truthful(g) /\ g.hash = f.hash
  BY <1>1, <1>2 DEF Truthful, PlanType
<1>3. ASSUME NEW e \in Entry, g = [f EXCEPT !.uploads = f.uploads \ {e}, !.versions = f.versions \ {e}]
      PROVE  Truthful(g) /\ g.hash = f.hash
  BY <1>1, <1>2, <1>3
<1>4. ASSUME NEW e \in Entry,
             g = [f EXCEPT !.uploads = f.uploads \union ({e} \intersect Upload),
                           !.versions = f.versions \union ({e} \intersect Version)]
      PROVE  Truthful(g) /\ g.hash = f.hash
  BY <1>1, <1>2, <1>4
<1> QED
  BY <1>3, <1>4 DEF Retargeted

LEMMA ResealedTruthful ==
  ASSUME NEW f, Truthful(f)
  PROVE  Truthful(Unsealed(f)) /\ Unsealed(f).hash = NoHash /\ Truthful(Sealed(f))
<1>1. f \in PlanType
  BY DEF Truthful
<1>2. Unsealed(f) \in PlanType /\ Unsealed(f).stamp = f.stamp /\ Unsealed(f).hash = NoHash
  BY <1>1 DEF Unsealed, NoHash, PlanType
<1> DEFINE h == Payload(f)
<1>3. h \in PayloadType
  BY <1>1 DEF Payload, PayloadType, PlanType
<1>4. Sealed(f) = [f EXCEPT !.hash = {h}]
  BY DEF Sealed
<1> HIDE DEF h
<1>5. Sealed(f) \in PlanType /\ Sealed(f).stamp = f.stamp
  BY <1>1, <1>3, <1>4 DEF PlanType
<1> QED
  BY <1>2, <1>5 DEF Truthful
-----------------------------------------------------------------------------
\* the steps of every command but plan and apply
OwnNext ==
  \/ Arguments \/ Operate \/ Lens \/ Dashboard \/ Certificate \/ State \/ PolicyValidate
  \/ FleetStart \/ FleetSweeps \/ JudgeFleet \/ RemediateNext \/ LambdaRefuses \/ LambdaBucket
  \/ Accounts \/ SweepAccounts \/ JudgeAccounts
  \/ ScanBucket \/ TransitionsOfBucket \/ TransitionsOfFleet \/ TransitionsEnd
  \/ DaemonStart \/ DaemonPool \/ DaemonTask \/ DaemonAgain \/ DaemonEnds
  \/ RemediateFleet \/ RemediateBucket \/ Drift \/ Rollback \/ Rehydrate \/ PolicyPlan
  \/ PolicyApply \/ Put \/ Done

(* The other commands know neither the plan nor the bucket of an apply.    *)
LEMMA OwnFrame ==
  ASSUME Sweeping, OwnNext
  PROVE  ~Planning /\ UNCHANGED others
<1> USE DEF Planning, At
<1>1. CASE Arguments \/ Operate
  BY <1>1 DEF Arguments, Operate
<1>2. CASE Lens \/ Dashboard \/ Certificate \/ State \/ PolicyValidate
  BY <1>2 DEF Lens, Dashboard, Certificate, State, PolicyValidate, Reads
<1>3. CASE FleetStart \/ FleetSweeps
  BY <1>3 DEF FleetStart, FleetSweeps, Pooled
<1>4. CASE JudgeFleet
  BY <1>4 DEF JudgeFleet, JudgeScan, JudgeFleetPlan, LambdaAnswers
<1>5. CASE RemediateNext \/ LambdaRefuses \/ LambdaBucket
  BY <1>5 DEF RemediateNext, LambdaRefuses, LambdaBucket, Single
<1>6. CASE Accounts \/ SweepAccounts \/ JudgeAccounts
  BY <1>6 DEF Accounts, SweepAccounts, JudgeAccounts
<1>7. CASE ScanBucket \/ TransitionsOfBucket \/ TransitionsOfFleet \/ TransitionsEnd
  BY <1>7 DEF ScanBucket, TransitionsOfBucket, TransitionsOfFleet, TransitionsEnd, Single
<1>8. CASE DaemonStart \/ DaemonPool \/ DaemonTask \/ DaemonAgain \/ DaemonEnds
  BY <1>8 DEF DaemonStart, DaemonPool, DaemonTask, DaemonAgain, DaemonEnds, Daemon
<1>9. CASE RemediateFleet \/ RemediateBucket \/ Drift \/ Rollback \/ Rehydrate
  BY <1>9 DEF RemediateFleet, RemediateBucket, Drift, Rollback, Rehydrate
<1>10. CASE PolicyPlan \/ PolicyApply
  BY <1>10 DEF PolicyPlan, PolicyApply
<1>11. CASE Put \/ Done
  BY <1>11 DEF Put, Done, Sweeping, ApplyPlaces
<1> QED
  BY <1>1, <1>2, <1>3, <1>4, <1>5, <1>6, <1>7, <1>8, <1>9, <1>10, <1>11 DEF OwnNext

(* What the files and the plan keep, step by step.                         *)
LEMMA SoundKept ==
  ASSUME Sound, UNCHANGED <<opts, plan, file, made, resealed, guard, answers>>
  PROVE  Sound'
BY DEF Sound, Applying

(* What an apply is invoked with.                                         *)
LEMMA ApplyOptionsApply == \A o \in ApplyOptions : o.cmd = "apply"
BY DEF ApplyOptions

LEMMA SoundStep ==
  ASSUME IInv, [Next]_vars
  PROVE  Sound'
<1> DEFINE GuardType == [lock : Locks, replication : {"none", "active"}, tags : {"plain", "protected"}]
<1>1. Sound
  BY DEF IInv
<1>2. CASE OwnNext
  BY <1>1, <1>2, OwnFrame, SoundKept DEF IInv, others, world, disk, self
<1>3. CASE UNCHANGED vars
  BY <1>1, <1>3, SoundKept DEF vars, applyVars, world, disk, self
<1>4. CASE ScanForPlan
  <2>1. opts.cmd = "plan" /\ opts \in PlanOptions
    BY <1>1, <1>4 DEF ScanForPlan, At, Sound
  <2>2. UNCHANGED <<opts, file, made, resealed, guard, answers>>
    BY <1>4 DEF ScanForPlan, world, disk
  <2>3. CASE UNCHANGED plan
    BY <1>1, <2>2, <2>3, SoundKept
  <2>4. CASE ~UNCHANGED plan
    <3> DEFINE U == OldEnough(opts.days) \intersect Upload
               V == IF opts.versions THEN OldEnough(opts.days) \intersect Version ELSE {}
               p == CreatePlan("bucket", opts.endpoint, opts.days, U, V, Stamps)
    <3>1. plan' = {p}
      BY <1>4, <2>4 DEF ScanForPlan
    <3>2. opts.endpoint \in Endpoint /\ opts.days \in {0, 1}
      BY <2>1 DEF PlanOptions
    <3>3. U \in SUBSET Upload /\ V \in SUBSET Version
      OBVIOUS
    <3>4. Truthful(p) /\ HashedOf(p, p.uploads \union p.versions)
      <4> HIDE DEF U, V
      <4> QED
        BY <3>2, <3>3, MadeTruthful
    <3>5. AtMostOne({p})
      BY DEF AtMostOne
    <3> HIDE DEF p
    <3>6. ~Applying'
      BY <2>1, <2>2 DEF Applying
    <3>7. \A q \in plan' : Truthful(q) /\ HashedOf(q, q.uploads \union q.versions)
      BY <3>1, <3>4
    <3> HIDE DEF GuardType
    <3>8. \A f \in file' : Truthful(f) /\ (~resealed' => HashedOf(f, made'))
      BY <1>1, <2>2 DEF Sound
    <3> QED
      BY <1>1, <2>1, <2>2, <3>1, <3>5, <3>6, <3>7, <3>8 DEF Sound
  <2> QED
    BY <2>3, <2>4
<1>5. CASE WritePlan
  <2>1. opts.cmd = "plan" /\ UNCHANGED <<opts, guard>> /\ plan' = {} /\ answers' = NoAnswers
    BY <1>5 DEF WritePlan, At, world
  <2>2. \A f \in file' : Truthful(f) /\ (~resealed' => HashedOf(f, made'))
    <3>1. CASE UNCHANGED disk
      BY <1>1, <3>1 DEF Sound, disk
    <3>2. CASE ~UNCHANGED disk
      <4>1. file' = plan /\ made' = UNION {p.uploads \union p.versions : p \in plan}
        BY <1>5, <3>2 DEF WritePlan
      <4>2. \A p \in plan : Truthful(p) /\ HashedOf(p, p.uploads \union p.versions)
        BY <1>1, <2>1 DEF Sound, Applying
      <4>3. \A p \in plan : made' = p.uploads \union p.versions
        BY <1>1, <4>1 DEF Sound, AtMostOne
      <4> QED
        BY <4>1, <4>2, <4>3
    <3> QED
      BY <3>1, <3>2
  <2>3. /\ NoAnswers \in [lock : Locks \union {Failed, Absent}, replication : {"none", "active", Failed, Absent},
                          tags : {"plain", "protected", Failed}]
        /\ AtMostOne({})
    BY DEF NoAnswers, Locks, AtMostOne
  <2> QED
    BY <1>1, <2>1, <2>2, <2>3 DEF Sound
<1>6. CASE CheckLock \/ CheckReplication \/ CheckTags
  <2>1. UNCHANGED <<opts, plan, file, made, resealed, guard>>
    BY <1>6 DEF CheckLock, CheckReplication, CheckTags, world, disk
  <2>2. answers' \in [lock : Locks \union {Failed, Absent}, replication : {"none", "active", Failed, Absent},
                      tags : {"plain", "protected", Failed}]
    BY <1>1, <1>6 DEF CheckLock, CheckReplication, CheckTags, Sound, LockAnswers,
       ReplicationAnswers, TagAnswers
  <2> QED
    BY <1>1, <2>1, <2>2 DEF Sound, Applying
<1>7. CASE LoadPlan
  <2>1. /\ opts.cmd = "apply" /\ UNCHANGED <<opts, file, made, resealed, guard, answers>>
    BY <1>7 DEF LoadPlan, At, world, disk
  <2>2. CASE UNCHANGED plan
    BY <1>1, <2>1, <2>2, SoundKept
  <2>3. CASE ~UNCHANGED plan
    <3>1. PICK f \in file : plan' = {ValidatePlan(f)} /\ Intact(ValidatePlan(f))
      BY <1>7, <2>3 DEF LoadPlan
    <3> DEFINE p == ValidatePlan(f)
    <3>2. Truthful(f) /\ (~resealed => HashedOf(f, made))
      BY <1>1, <3>1 DEF Sound
    <3>3. Truthful(p) /\ p.hash = f.hash /\ p.uploads = f.uploads /\ p.versions = f.versions
      BY <3>2, ValidatedTruthful
    <3> HIDE DEF p
    <3>4. p.hash # NoHash /\ ~resealed => p.uploads \union p.versions = made
      <4>1. SUFFICES ASSUME p.hash # NoHash, ~resealed PROVE p.uploads \union p.versions = made
        OBVIOUS
      <4>2. p.hash = {Payload(p)}
        BY <3>1, <4>1 DEF Intact, p
      <4>3. Payload(p) \in f.hash
        BY <3>3, <4>2
      <4>4. Payload(p).uploads \union Payload(p).versions = made
        BY <3>2, <4>1, <4>3 DEF HashedOf
      <4> QED
        BY <4>4 DEF Payload
    <3>5. AtMostOne({p}) /\ plan' = {p}
      BY <3>1 DEF AtMostOne, p
    <3>6. Applying'
      BY <2>1 DEF Applying
    <3>7. \A q \in plan' : Truthful(q) /\ (q.hash # NoHash /\ ~resealed' => q.uploads \union q.versions = made')
      BY <2>1, <3>3, <3>4, <3>5
    <3>8. \A g \in file' : Truthful(g) /\ (~resealed' => HashedOf(g, made'))
      BY <1>1, <2>1 DEF Sound
    <3> HIDE DEF GuardType
    <3> QED
      BY <1>1, <2>1, <3>5, <3>6, <3>7, <3>8 DEF Sound
  <2> QED
    BY <2>2, <2>3
<1>8. CASE RefuseArguments \/ Gates \/ AbortUploads \/ DeleteVersions \/ FinishApply
  <2>1. UNCHANGED <<opts, plan, file, made, resealed, guard, answers>>
    BY <1>8 DEF RefuseArguments, Gates, AbortUploads, DeleteVersions, FinishApply,
       Executes, Refuses, Removes, world, disk, self
  <2> QED
    BY <1>1, <2>1, SoundKept
<1>9. CASE InvokeApply
  <2>1. /\ UNCHANGED <<file, made, resealed>> /\ plan' = {} /\ answers' = NoAnswers /\ guard' \in GuardChoices
        /\ opts'.cmd = "apply"
    BY <1>9, ApplyOptionsApply DEF InvokeApply, Forgets, disk
  <2>2. guard' \in GuardType
    BY <2>1, PlanAssumption
  <2>3. /\ NoAnswers \in [lock : Locks \union {Failed, Absent}, replication : {"none", "active", Failed, Absent},
                          tags : {"plain", "protected", Failed}]
        /\ AtMostOne({})
    BY DEF NoAnswers, Locks, AtMostOne
  <2> QED
    BY <1>1, <2>1, <2>2, <2>3 DEF Sound
<1>10. CASE EditFile
  <2>1. UNCHANGED <<opts, plan, made, guard, answers>>
    BY <1>10 DEF EditFile, world, self
  <2>2. PICK f \in file :
          \/ \E g \in Retargeted(f) \union Undated(f) : file' = {g} /\ UNCHANGED resealed
          \/ \E g \in Retargeted(f) : file' = {Unsealed(g)} /\ UNCHANGED resealed
          \/ \E g \in Retargeted(f) : file' = {Sealed(g)} /\ resealed' = TRUE
    BY <1>10 DEF EditFile
  <2>3. Truthful(f) /\ (~resealed => HashedOf(f, made)) /\ (~resealed' => ~resealed)
    BY <1>1, <2>2 DEF Sound
  <2>4. ASSUME NEW g \in Retargeted(f) \union Undated(f)
        PROVE  Truthful(g) /\ (~resealed => HashedOf(g, made))
    BY <2>3, RetargetedTruthful, UndatedTruthful DEF HashedOf
  <2>5. ASSUME NEW g \in Retargeted(f)
        PROVE  /\ Truthful(Unsealed(g)) /\ HashedOf(Unsealed(g), made)
               /\ Truthful(Sealed(g))
    <3>1. Truthful(g)
      BY <2>4
    <3> QED
      BY <3>1, ResealedTruthful DEF HashedOf, NoHash
  <2>6. \A e \in file' : Truthful(e) /\ (~resealed' => HashedOf(e, made))
    BY <2>2, <2>3, <2>4, <2>5
  <2> QED
    BY <1>1, <2>1, <2>3, <2>6 DEF Sound, Applying
<1>11. CASE OwnerActs
  <2>1. UNCHANGED <<opts, plan, file, made, resealed, answers>>
    BY <1>11 DEF OwnerActs, disk, self
  <2>2. guard' \in GuardType
    BY <1>1, <1>11 DEF OwnerActs, Sound
  <2> QED
    BY <1>1, <2>1, <2>2 DEF Sound, Applying
<1>12. CASE OtherClient
  <2>1. UNCHANGED <<opts, plan, file, made, resealed, guard, answers>>
    BY <1>12 DEF OtherClient, disk, self
  <2> QED
    BY <1>1, <2>1, SoundKept
<1> QED
  BY <1>2, <1>3, <1>4, <1>5, <1>6, <1>7, <1>8, <1>9, <1>10, <1>11, <1>12
  DEF Next, OwnNext, Command, Outside
(* Nothing but an apply is an apply: the steps of the other commands.      *)
LEMMA NotApplying ==
  ASSUME Sweeping, OwnNext \/ ScanForPlan \/ WritePlan
  PROVE  ~Applying'
<1>1. CASE OwnNext
  BY <1>1, OwnFrame DEF Planning, Applying, others
<1>2. CASE ScanForPlan \/ WritePlan
  BY <1>2 DEF ScanForPlan, WritePlan, At, Applying
<1> QED
  BY <1>1, <1>2

(* What the bucket answered is what it shows, unless the owner has moved.  *)
LEMMA AnswersStep ==
  ASSUME IInv, [Next]_vars
  PROVE  AnswersStand'
<1>1. Sound /\ AnswersStand /\ Cleared /\ Sweeping
  BY DEF IInv
<1>2. CASE OwnNext \/ ScanForPlan \/ WritePlan
  BY <1>1, <1>2, NotApplying DEF AnswersStand, Since
<1>3. CASE UNCHANGED vars
  BY <1>1, <1>3 DEF vars, applyVars, world, self, AnswersStand, Since, Applying, Acting
<1>4. CASE CheckLock
  <2>1. /\ pc = "lock" /\ pc' = "replication" /\ UNCHANGED <<opts, steady, guard, removed>>
        /\ answers'["lock"] \in {guard["lock"], Failed, Absent}
    BY <1>1, <1>4 DEF CheckLock, Goes, world, self, Sound, LockAnswers
  <2>2. Applying => removed = {}
    BY <1>1, <2>1 DEF Cleared
  <2> QED
    BY <2>1, <2>2 DEF AnswersStand, Since, Applying, Acting
<1>5. CASE CheckReplication
  <2>1. /\ pc = "replication" /\ pc' = "tags" /\ UNCHANGED <<opts, steady, guard, removed>>
        /\ answers'["replication"] \in {guard["replication"], Failed, Absent}
        /\ answers'["lock"] = answers["lock"]
    BY <1>1, <1>5 DEF CheckReplication, Goes, world, self, Sound, ReplicationAnswers
  <2>2. Applying => removed = {}
    BY <1>1, <2>1 DEF Cleared
  <2> QED
    BY <1>1, <2>1, <2>2 DEF AnswersStand, Since, Applying, Acting
<1>6. CASE CheckTags
  <2>1. /\ pc = "tags" /\ pc' = "assessed" /\ UNCHANGED <<opts, steady, guard, removed>>
        /\ answers'["tags"] \in {guard["tags"], Failed}
        /\ answers'["lock"] = answers["lock"] /\ answers'["replication"] = answers["replication"]
    BY <1>1, <1>6 DEF CheckTags, Goes, world, self, Sound, TagAnswers
  <2>2. Applying => removed = {}
    BY <1>1, <2>1 DEF Cleared
  <2> QED
    BY <1>1, <2>1, <2>2 DEF AnswersStand, Since, Applying, Acting
<1>7. CASE RefuseArguments \/ LoadPlan
  <2>1. /\ UNCHANGED <<opts, removed>> /\ pc = "start" /\ pc' \in {"ended", "lock"}
    BY <1>7 DEF RefuseArguments, LoadPlan, Goes, Exits, At, self
  <2>2. Applying => removed = {}
    BY <1>1, <2>1 DEF Cleared
  <2> QED
    BY <2>1, <2>2 DEF AnswersStand, Since, Applying, Acting
<1>8. CASE Gates
  <2>1. /\ UNCHANGED <<opts, steady, answers, guard, removed>> /\ pc = "assessed" /\ pc' \in {"ended", "uploads"}
    BY <1>8 DEF Gates, Goes, Exits, At, world, self
  <2> QED
    BY <1>1, <2>1 DEF AnswersStand, Since, Applying, Acting
<1>9. CASE AbortUploads \/ DeleteVersions \/ FinishApply
  <2>1. /\ UNCHANGED <<opts, steady, answers, guard>> /\ pc \in {"uploads", "versions", "finish"}
        /\ pc' \in {"versions", "finish", "ended"}
    BY <1>9 DEF AbortUploads, DeleteVersions, FinishApply, Executes, Refuses, Removes,
       Goes, Exits, At, world, self
  <2> QED
    BY <1>1, <2>1 DEF AnswersStand, Since, Applying, Acting
<1>10. CASE InvokeApply
  BY <1>10 DEF InvokeApply, Forgets, AnswersStand, Since, Applying, Acting
<1>11. CASE EditFile \/ OtherClient
  <2>1. UNCHANGED <<opts, pc, steady, answers, guard, removed>>
    BY <1>11 DEF EditFile, OtherClient, world, self
  <2> QED
    BY <1>1, <2>1 DEF AnswersStand, Since, Applying, Acting
<1>12. CASE OwnerActs
  <2>1. UNCHANGED <<opts, pc, answers, removed>>
    BY <1>12 DEF OwnerActs, self
  <2>2. \A what \in {"lock", "replication", "tags"} :
          what \in steady' => what \in steady /\ guard'[what] = guard[what]
    BY <1>1, <1>12 DEF OwnerActs, Sound
  <2> QED
    BY <1>1, <2>1, <2>2 DEF AnswersStand, Since, Applying, Acting
<1> QED
  BY <1>2, <1>3, <1>4, <1>5, <1>6, <1>7, <1>8, <1>9, <1>10, <1>11, <1>12
  DEF Next, OwnNext, Command, Outside

(* Whatever is gone was let through by the gates.                          *)
LEMMA ClearedStep ==
  ASSUME IInv, [Next]_vars
  PROVE  Cleared'
<1>1. Sound /\ Cleared /\ Sweeping
  BY DEF IInv
<1>2. CASE OwnNext \/ ScanForPlan \/ WritePlan
  BY <1>1, <1>2, NotApplying DEF Cleared
<1>3. ASSUME UNCHANGED <<opts, pc, plan, answers, now, removed>> PROVE Cleared'
  BY <1>1, <1>3 DEF Cleared, Acting, Applying, Passed, OnWasabi, EffectiveEndpoint
<1>4. CASE UNCHANGED vars
  BY <1>3, <1>4 DEF vars, applyVars, world, self
<1>5. CASE CheckLock \/ CheckReplication \/ CheckTags
  <2>1. /\ UNCHANGED <<opts, plan, removed>> /\ pc \in {"lock", "replication", "tags"}
        /\ pc' \in {"replication", "tags", "assessed"}
    BY <1>5 DEF CheckLock, CheckReplication, CheckTags, Goes
  <2> QED
    BY <1>1, <2>1 DEF Cleared, Acting, Applying
<1>6. CASE RefuseArguments \/ LoadPlan
  <2>1. /\ UNCHANGED <<opts, removed>> /\ pc = "start" /\ pc' \in {"ended", "lock"}
    BY <1>6 DEF RefuseArguments, LoadPlan, Goes, Exits, At, self
  <2> QED
    BY <1>1, <2>1 DEF Cleared, Acting, Applying
<1>7. CASE Gates
  <2>1. /\ UNCHANGED <<opts, plan, answers, now, removed>> /\ pc = "assessed"
        /\ opts.cmd = "apply"
    BY <1>7 DEF Gates, At, world, self
  <2>2. removed = {}
    BY <1>1, <2>1 DEF Cleared, Applying
  <2>3. PICK p \in plan : IF Passed(p) THEN Goes("uploads") ELSE Exits(4)
    BY <1>7 DEF Gates, Passed
  <2>4. CASE Passed(p)
    <3>1. \A q \in plan' : q = p
      BY <1>1, <2>1 DEF Sound, AtMostOne
    <3>2. Passed(p)'
      BY <2>1, <2>4 DEF Passed, OnWasabi, EffectiveEndpoint
    <3> QED
      BY <2>1, <2>2, <2>3, <2>4, <3>1, <3>2 DEF Cleared, Goes
  <2>5. CASE ~Passed(p)
    BY <2>1, <2>2, <2>3, <2>5 DEF Cleared, Acting, Exits
  <2> QED
    BY <2>4, <2>5
<1>8. CASE AbortUploads \/ DeleteVersions \/ FinishApply
  <2>1. /\ UNCHANGED <<opts, plan, answers, now>> /\ opts.cmd = "apply"
        /\ pc \in {"uploads", "versions", "finish"}
        /\ pc' \in {"versions", "finish", "ended"}
    BY <1>8 DEF AbortUploads, DeleteVersions, FinishApply, Executes, Refuses, Removes,
       Goes, Exits, At, world, disk, self
  <2>2. \/ removed' = removed
        \/ \E p \in plan : \E gone \in SUBSET (p.uploads \union p.versions) :
             removed' = removed \union gone
    BY <1>8 DEF AbortUploads, DeleteVersions, FinishApply, Executes, Outcomes, Refuses, Removes, self
  <2>3. \A p \in plan' : removed' \subseteq p.uploads \union p.versions
    BY <1>1, <2>1, <2>2 DEF Cleared, Applying, Sound, AtMostOne
  <2>4. removed' # {} => plan' # {}
    BY <1>1, <2>1, <2>2 DEF Cleared, Applying
  <2>5. \A p \in plan' : Passed(p)'
    BY <1>1, <2>1 DEF Cleared, Applying, Acting, Passed, OnWasabi, EffectiveEndpoint
  <2> QED
    BY <2>1, <2>3, <2>4, <2>5 DEF Cleared
<1>9. CASE InvokeApply
  BY <1>9 DEF InvokeApply, Forgets, Cleared, Acting
<1>10. CASE EditFile \/ OtherClient \/ OwnerActs
  BY <1>3, <1>10 DEF EditFile, OtherClient, OwnerActs, world, self
<1> QED
  BY <1>2, <1>4, <1>5, <1>6, <1>7, <1>8, <1>9, <1>10 DEF Next, OwnNext, Command, Outside
(* An apply without errors has emptied the bucket of its plan, and what    *)
(* the ledger counts is no more than there was.                            *)
LEMMA RemovedKnown == Sound /\ Cleared /\ Applying => removed \subseteq Entry
BY DEF Sound, Cleared, Truthful, PlanType, Entry

LEMMA CountedStep ==
  ASSUME Counted, removed \subseteq Entry, NEW gone \in SUBSET Entry, removed' = removed \union gone,
         NEW step, NEW count \in Nat,
         step = "uploads" => count <= Cardinality(removed' \intersect Upload),
         ledger' \in SUBSET (ledger \union {Executed(step, count)})
  PROVE  Counted'
<1> DEFINE m == Cardinality(removed \intersect Upload)
           n == Cardinality(removed' \intersect Upload)
<1>1. m \in Nat /\ n \in Nat /\ m <= n
  <2>1. IsFiniteSet(removed' \intersect Upload)
    BY PlanAssumption, FS_Subset
  <2> QED
    BY <2>1, FS_Subset, FS_CardinalityType
<1> HIDE DEF m, n
<1>2. ASSUME NEW e \in ledger'
      PROVE  e.count \in Nat /\ (e.step = "uploads" => e.count <= n)
  <2>1. CASE e \in ledger
    <3>1. e.count \in Nat /\ (e.step = "uploads" => e.count <= m)
      BY <2>1 DEF Counted, m
    <3> QED
      BY <1>1, <3>1
  <2>2. CASE e = Executed(step, count)
    BY <2>2 DEF Executed, n
  <2> QED
    BY <2>1, <2>2
<1> QED
  BY <1>2 DEF Counted, n

LEMMA CleanedStep ==
  ASSUME IInv, [Next]_vars
  PROVE  Cleaned'
<1>1. Sound /\ Cleared /\ Cleaned /\ Sweeping
  BY DEF IInv
<1>2. CASE OwnNext \/ ScanForPlan \/ WritePlan
  BY <1>1, <1>2, NotApplying DEF Cleaned
<1>3. ASSUME UNCHANGED <<opts, pc, code, plan, hadErrors, appendsOk, ledger, removed>>,
             entries' \subseteq entries
      PROVE  Cleaned'
  BY <1>1, <1>3 DEF Cleaned, Applying, Counted, Deleted
<1>4. CASE UNCHANGED vars
  BY <1>3, <1>4 DEF vars, applyVars, world, self
<1>5. CASE CheckLock \/ CheckReplication \/ CheckTags
  <2>1. /\ UNCHANGED <<opts, plan, hadErrors, appendsOk, ledger, removed>>
        /\ pc \in {"lock", "replication", "tags"} /\ pc' \in {"replication", "tags", "assessed"}
    BY <1>5 DEF CheckLock, CheckReplication, CheckTags, Goes
  <2> QED
    BY <1>1, <2>1 DEF Cleaned, Applying, Counted
<1>6. CASE RefuseArguments
  <2>1. /\ UNCHANGED <<opts, ledger, removed>> /\ pc' = "ended" /\ code' = 1
    BY <1>6 DEF RefuseArguments, Exits, self
  <2>2. Applying' => Counted'
    BY <1>1, <2>1 DEF Cleaned, Applying, Counted
  <2> QED
    BY <2>1, <2>2 DEF Cleaned
<1>7. CASE LoadPlan
  <2>1. /\ UNCHANGED <<opts, hadErrors, appendsOk, ledger, removed>> /\ pc = "start"
        /\ opts.cmd = "apply" /\ pc' \in {"ended", "lock"} /\ (pc' = "ended" => plan' = plan)
    BY <1>7 DEF LoadPlan, Goes, Exits, At
  <2>2. pc' = "ended" => plan' = {}
    BY <1>1, <2>1 DEF Cleared, Applying
  <2> QED
    BY <1>1, <2>1, <2>2 DEF Cleaned, Applying, Counted
<1>8. CASE Gates
  <2>1. UNCHANGED <<opts, ledger, removed>> /\ (pc' = "uploads" \/ (pc' = "ended" /\ code' = 4))
    BY <1>8 DEF Gates, At, Goes, Exits, self
  <2>2. Applying' => Counted'
    BY <1>1, <2>1 DEF Cleaned, Applying, Counted
  <2> QED
    BY <2>1, <2>2 DEF Cleaned
<1>a. ASSUME NEW of \in SUBSET Entry, Applying, Refuses(of), UNCHANGED opts PROVE Cleaned'
  <2>1. PICK gone \in SUBSET (of \intersect entries) : Removes(gone)
    BY <1>a DEF Refuses
  <2>2. Counted'
    <3>1. removed' = removed \union gone /\ UNCHANGED ledger
      BY <1>a, <2>1 DEF Removes, Refuses
    <3> QED
      BY <1>1, <1>a, <3>1, RemovedKnown, CountedStep DEF Cleaned
  <2> QED
    BY <1>a, <2>2 DEF Refuses, Exits, Cleaned
<1>9. CASE AbortUploads
  <2>1. UNCHANGED <<opts, plan>> /\ pc = "uploads" /\ Applying
    BY <1>9 DEF AbortUploads, At, Applying
  <2>2. PICK p \in plan :
          IF p.uploads = {}
            THEN Goes("versions") /\ UNCHANGED <<world, removed, hadErrors, ledger, appendsOk>>
            ELSE \/ \E o \in Outcomes(p.uploads) : \E count \in AbortCounts(o) :
                      Executes("uploads", o, count, "versions")
                 \/ Refuses(p.uploads)
    BY <1>9 DEF AbortUploads
  <2>3. \A q \in plan' : q = p
    BY <1>1, <2>1 DEF Sound, AtMostOne
  <2>4. p.uploads \subseteq Upload
    BY <1>1 DEF Sound, Truthful, PlanType
  <2>5. CASE p.uploads = {}
    <3>1. pc' = "versions" /\ UNCHANGED <<entries, removed, hadErrors, ledger, appendsOk>>
      BY <2>2, <2>5 DEF Goes, world
    <3> QED
      BY <1>1, <2>1, <2>3, <2>5, <3>1 DEF Cleaned, Counted
  <2>6. ASSUME NEW o \in Outcomes(p.uploads), NEW count \in AbortCounts(o),
               Executes("uploads", o, count, "versions")
        PROVE  Cleaned'
    <3>1. /\ Removes(o.gone) /\ Goes("versions") /\ (~hadErrors' => o.undone = {})
          /\ Logs(Executed("uploads", count))
      BY <2>6 DEF Executes
    <3>2. /\ o.gone \in SUBSET Entry /\ o.gone \subseteq Upload
          /\ o.undone = {} => p.uploads \intersect entries \subseteq o.gone
      BY <2>4, <2>6 DEF Outcomes, Entry
    <3>3. entries' = entries \ o.gone /\ removed' = removed \union o.gone
      BY <3>1 DEF Removes
    <3>4. count \in Nat /\ count <= Cardinality(removed' \intersect Upload)
      <4>1. PICK S \in SUBSET (o.gone \ o.undone) : count = Cardinality(S)
        BY <2>6 DEF AbortCounts
      <4>2. S \subseteq removed' \intersect Upload /\ removed' \subseteq Entry
        BY <1>1, <2>1, <3>2, <3>3, <4>1, RemovedKnown
      <4>3. IsFiniteSet(removed' \intersect Upload)
        BY <4>2, PlanAssumption, FS_Subset
      <4> QED
        BY <4>1, <4>2, <4>3, FS_Subset, FS_CardinalityType
    <3>5. Counted'
      <4>1. ledger' \in SUBSET (ledger \union {Executed("uploads", count)})
        BY <3>1 DEF Logs
      <4> QED
        BY <1>1, <2>1, <3>2, <3>3, <3>4, <4>1, RemovedKnown, CountedStep DEF Cleaned
    <3>6. ~hadErrors' => entries' \intersect p.uploads = {}
      BY <3>1, <3>2, <3>3
    <3> QED
      BY <2>3, <3>1, <3>5, <3>6 DEF Cleaned, Goes
  <2>7. CASE Refuses(p.uploads)
    BY <1>a, <2>1, <2>4, <2>7 DEF Entry
  <2> QED
    BY <2>2, <2>5, <2>6, <2>7
<1>10. CASE DeleteVersions
  <2>1. UNCHANGED <<opts, plan>> /\ pc = "versions" /\ Applying
    BY <1>10 DEF DeleteVersions, At, Applying
  <2>2. PICK p \in plan :
          IF p.versions = {}
            THEN Goes("finish") /\ UNCHANGED <<world, removed, hadErrors, ledger, appendsOk>>
            ELSE \/ \E o \in Outcomes(p.versions) :
                      Executes("versions", o, DeletionCount(p.versions, o), "finish")
                 \/ Refuses(p.versions)
    BY <1>10 DEF DeleteVersions
  <2>3. \A q \in plan' : q = p
    BY <1>1, <2>1 DEF Sound, AtMostOne
  <2>4. p.versions \subseteq Version
    BY <1>1 DEF Sound, Truthful, PlanType
  <2>5. ~hadErrors => entries \intersect p.uploads = {}
    BY <1>1, <2>1 DEF Cleaned
  <2>6. CASE p.versions = {}
    <3>1. pc' = "finish" /\ UNCHANGED <<entries, removed, hadErrors, ledger, appendsOk>>
      BY <2>2, <2>6 DEF Goes, world
    <3> QED
      BY <1>1, <2>1, <2>3, <2>5, <2>6, <3>1 DEF Cleaned, Counted, Deleted
  <2>7. ASSUME NEW o \in Outcomes(p.versions),
               Executes("versions", o, DeletionCount(p.versions, o), "finish")
        PROVE  Cleaned'
    <3> DEFINE count == DeletionCount(p.versions, o)
    <3>1. /\ Removes(o.gone) /\ Goes("finish")
          /\ ~hadErrors' => ~hadErrors /\ o.undone = {}
          /\ Logs(Executed("versions", count))
      BY <2>7 DEF Executes
    <3>2. /\ o.gone \in SUBSET Entry
          /\ o.undone = {} => p.versions \intersect entries \subseteq o.gone
      BY <2>4, <2>7 DEF Outcomes, Entry
    <3>3. entries' = entries \ o.gone /\ removed' = removed \union o.gone
      BY <3>1 DEF Removes
    <3>4. count \in Nat /\ (o.undone = {} => count = Cardinality(p.versions))
      <4>1. IsFiniteSet(p.versions \ o.undone)
        BY <2>4, PlanAssumption, FS_Subset DEF Entry
      <4>2. o.undone = {} => p.versions \ o.undone = p.versions
        OBVIOUS
      <4> QED
        BY <4>1, <4>2, FS_CardinalityType DEF DeletionCount
    <3> HIDE DEF count
    <3>5. Counted'
      <4>1. ledger' \in SUBSET (ledger \union {Executed("versions", count)})
        BY <3>1 DEF Logs
      <4> QED
        BY <1>1, <2>1, <3>2, <3>3, <3>4, <4>1, RemovedKnown, CountedStep DEF Cleaned
    <3>6. ~hadErrors' => entries' \intersect (p.uploads \union p.versions) = {}
      BY <2>5, <3>1, <3>2, <3>3
    <3>7. ~hadErrors' /\ appendsOk' => \A q \in plan' : Deleted(q.versions)'
      BY <2>1, <2>3, <3>1, <3>4 DEF Logs, Deleted
    <3> QED
      BY <2>3, <3>1, <3>5, <3>6, <3>7 DEF Cleaned, Goes
  <2>8. CASE Refuses(p.versions)
    BY <1>a, <2>1, <2>4, <2>8 DEF Entry
  <2> QED
    BY <2>2, <2>6, <2>7, <2>8
<1>11. CASE FinishApply
  <2>1. /\ UNCHANGED <<opts, plan, entries, hadErrors, appendsOk, ledger, removed>>
        /\ pc = "finish" /\ opts.cmd = "apply" /\ pc' = "ended"
        /\ code' = 0 => ~hadErrors
    BY <1>11 DEF FinishApply, At, Exits, world, self
  <2> QED
    BY <1>1, <2>1 DEF Cleaned, Applying, Counted, Deleted
<1>12. CASE InvokeApply
  <2>1. pc' = "start" /\ removed' = {} /\ ledger' = {} /\ plan' = {}
    BY <1>12 DEF InvokeApply, Forgets
  <2> QED
    BY <2>1 DEF Cleaned, Counted
<1>13. CASE EditFile \/ OtherClient \/ OwnerActs
  <2>1. /\ UNCHANGED <<opts, pc, code, plan, hadErrors, appendsOk, ledger, removed>>
        /\ entries' \subseteq entries
    BY <1>13 DEF EditFile, OtherClient, OwnerActs, world, self
  <2> QED
    BY <1>3, <2>1
<1> QED
  BY <1>2, <1>4, <1>5, <1>6, <1>7, <1>8, <1>9, <1>10, <1>11, <1>12, <1>13
  DEF Next, OwnNext, Command, Outside
-----------------------------------------------------------------------------
(* What the audit of a bucket is worth: one that was remediated is purged, *)
(* one that is not eligible was, and one that is not bare is or was not    *)
(* asked.                                                                  *)
LEMMA RemediatedPurged ==
  ASSUME NEW b \in LifecycleType
  PROVE  Remediated(b) \in LifecycleType /\ Purged(Remediated(b))
<1> DEFINE R == {r \in b.rules : ~r.own} \union {CleanRule}
<1>1. CleanRule \in Rule /\ CleanRule.aborts /\ CleanRule.enabled /\ ~CleanRule.tagged
  BY DEF CleanRule, Rule
<1>2. R \in SUBSET Rule /\ CleanRule \in R
  BY <1>1 DEF LifecycleType
<1>3. Remediated(b) = [b EXCEPT !.rules = R]
  BY DEF Remediated, LifecycleType
<1> HIDE DEF R
<1>4. Remediated(b) \in LifecycleType /\ Remediated(b).rules = R
  BY <1>2, <1>3 DEF LifecycleType
<1> QED
  BY <1>1, <1>2, <1>4 DEF Purged

LEMMA AuditTells ==
  ASSUME NEW b \in LifecycleType
  PROVE  /\ Audit(b).covering => Purged(b)
         /\ Audit(b).noted => b.provider \in {"unasked", "r2"}
BY DEF Audit, AbortRules, Purged, LifecycleType

LEMMA FoundTold ==
  ASSUME NEW found \in Found
  PROVE  /\ \A b \in DOMAIN found : found[b] \in LifecycleType
         /\ \A b \in Audited(found) : Purged(found[b]) \/ b \in Eligible(found)
<1>1. \A b \in DOMAIN found : found[b] \in LifecycleType
  BY LifecyclesAssumption DEF Found, LifecycleType
<1> QED
  BY <1>1, AuditTells DEF Eligible, Audited

LEMMA NoneBare ==
  ASSUME NEW found, \A b \in DOMAIN found : found[b] \in LifecycleType, Bare(found) = {}
  PROVE  \A b \in Audited(found) : Purged(found[b]) \/ found[b].provider = "unasked"
BY AuditTells DEF Bare, Audited, Purged

LEMMA VerdictTold ==
  ASSUME NEW limits, NEW found, 0 \in Verdict(limits, found), limits.failOnUnprotected
  PROVE  Bare(found) = {}
BY DEF Verdict

LEMMA NothingFound ==
  /\ Audited(<< >>) = {} /\ Bare(<< >>) = {} /\ \A b \in DOMAIN << >> : FALSE
BY DEF Audited, Bare

LEMMA FatalCodeNonzero ==
  ASSUME NEW class \in Classes
  PROVE  FatalCode(class) # 0
BY DEF Classes, FatalCode
-----------------------------------------------------------------------------
\* a command that ends, with clients released and what it found untouched
Leaves == pc' = "ended" /\ UNCHANGED <<opts, results, last>> /\ pool' # "leased"

\* the steps that can only end the command they belong to
Ending ==
  \/ Arguments \/ Operate \/ Lens \/ Dashboard \/ Certificate \/ State \/ PolicyValidate
  \/ JudgeFleet \/ LambdaRefuses \/ LambdaBucket \/ JudgeAccounts
  \/ ScanBucket \/ TransitionsOfBucket \/ TransitionsEnd \/ DaemonEnds \/ Done

LEMMA EndingLeaves ==
  ASSUME Sweeping, Ending
  PROVE  Leaves
<1> USE DEF Leaves, Exits, ExitsWith, Throws, At, Sweeping, own, others
<1>1. CASE Arguments \/ Operate
  BY <1>1 DEF Arguments, Operate
<1>2. CASE Lens \/ Dashboard \/ Certificate \/ State \/ PolicyValidate
  BY <1>2 DEF Lens, Dashboard, Certificate, State, PolicyValidate, Reads
<1>3. CASE JudgeFleet
  BY <1>3 DEF JudgeFleet, JudgeScan, JudgeFleetPlan, LambdaAnswers
<1>4. CASE LambdaRefuses \/ LambdaBucket
  BY <1>4 DEF LambdaRefuses, LambdaBucket, LambdaAnswers, LambdaFatal, Single
<1>5. CASE JudgeAccounts
  BY <1>5 DEF JudgeAccounts, AccountsPlan
<1>6. CASE ScanBucket \/ TransitionsOfBucket \/ TransitionsEnd
  BY <1>6 DEF ScanBucket, TransitionsOfBucket, TransitionsEnd, Single
<1>7. CASE DaemonEnds \/ Done
  BY <1>7 DEF DaemonEnds, Done
<1> QED
  BY <1>1, <1>2, <1>3, <1>4, <1>5, <1>6, <1>7 DEF Ending

LEMMA LeavesSweeping ==
  ASSUME Sweeping, ~Planning, Leaves
  PROVE  Sweeping'
BY DEF Sweeping, Leaves, Planning, OwnPlaces, FailsDaemon, Daemon

\* the steps of plan and apply, and of those around them
LEMMA PlanningSweeping ==
  ASSUME Sweeping, Command \/ Outside, UNCHANGED own
  PROVE  Sweeping'
<1>1. ASSUME Planning, Planning', pc' \in ApplyPlaces PROVE Sweeping'
  BY <1>1, NothingFound DEF Sweeping, Planning, ApplyPlaces, FailsDaemon, own
<1>2. CASE EditFile \/ OtherClient \/ OwnerActs
  <2>1. UNCHANGED <<opts, pc>>
    BY <1>2 DEF EditFile, OtherClient, OwnerActs
  <2> QED
    BY <2>1 DEF Sweeping, Planning, FailsDaemon, own, Pooled, Daemon
<1>3. CASE InvokeApply
  BY <1>1, <1>3, ApplyOptionsApply DEF InvokeApply, Planning, ApplyPlaces
<1>4. CASE CheckLock \/ CheckReplication \/ CheckTags
  <2>1. /\ UNCHANGED opts /\ pc \in {"lock", "replication", "tags"}
        /\ pc' \in {"replication", "tags", "assessed"}
    BY <1>4 DEF CheckLock, CheckReplication, CheckTags, Goes
  <2> QED
    BY <1>1, <2>1 DEF Sweeping, Planning, OwnPlaces, ApplyPlaces
<1>5. CASE ScanForPlan \/ WritePlan \/ RefuseArguments \/ LoadPlan
  <2>1. UNCHANGED opts /\ Planning /\ pc' \in ApplyPlaces
    BY <1>5 DEF ScanForPlan, WritePlan, RefuseArguments, LoadPlan, Goes, Exits, Throws, At,
       Planning, ApplyPlaces
  <2> QED
    BY <1>1, <2>1 DEF Planning
<1>6. CASE Gates \/ AbortUploads \/ DeleteVersions \/ FinishApply
  <2>1. UNCHANGED opts /\ Planning /\ pc' \in ApplyPlaces
    BY <1>6 DEF Gates, AbortUploads, DeleteVersions, FinishApply, Executes, Refuses, Goes, Exits,
       At, Planning, ApplyPlaces
  <2> QED
    BY <1>1, <2>1 DEF Planning
<1> QED
  BY <1>2, <1>3, <1>4, <1>5, <1>6 DEF Command, Outside

(* Where a sweep, a daemon or a put stands, what it holds and what it has  *)
(* still to change.                                                        *)
LEMMA SweepingStep ==
  ASSUME IInv, [Next]_vars
  PROVE  Sweeping'
<1>1. Sweeping
  BY DEF IInv
<1>2. CASE UNCHANGED vars
  BY <1>1, <1>2 DEF Sweeping, vars, applyVars, own, Planning, FailsDaemon, Pooled, Daemon
<1>3. CASE (Command \/ Outside) /\ UNCHANGED own
  BY <1>1, <1>3, PlanningSweeping
<1>4. CASE OwnNext
  <2>1. ~Planning /\ UNCHANGED opts /\ pc \in OwnPlaces
    BY <1>1, <1>4, OwnFrame DEF others, Sweeping
  <2> USE DEF Planning, OwnPlaces, Goes, At
  <2>2. ASSUME Leaves PROVE Sweeping'
    BY <1>1, <2>1, <2>2, LeavesSweeping
  <2>3. CASE Ending
    BY <1>1, <2>2, <2>3, EndingLeaves
  <2>4. CASE FleetStart
    BY <1>1, <2>1, <2>4 DEF FleetStart, Sweeping, FailsDaemon, Daemon, Pooled
  <2>5. CASE FleetSweeps
    <3>1. ~Daemon /\ pc = "sweep" /\ UNCHANGED last
      BY <2>5 DEF FleetSweeps
    <3>2. CASE LambdaFatal /\ pool' = Released(TRUE) /\ UNCHANGED <<results, todo>>
      <4>1. Leaves
        BY <2>1, <3>1, <3>2 DEF Leaves, LambdaFatal, Exits, Throws, Released
      <4> QED
        BY <2>2, <4>1
    <3>3. CASE ~(LambdaFatal /\ pool' = Released(TRUE) /\ UNCHANGED <<results, todo>>)
      <4>1. /\ results' \in Found /\ pc' = "judge"
            /\ IF opts.cmd = "remediate"
                 THEN todo' = Eligible(results') /\ UNCHANGED pool
                 ELSE pool' = Released(FALSE) /\ UNCHANGED todo
        BY <2>5, <3>3 DEF FleetSweeps
      <4>2. /\ \A b \in DOMAIN results' : results'[b] \in LifecycleType
            /\ \A b \in Audited(results') : Purged(results'[b]) \/ b \in Eligible(results')
        <5> DEFINE found == results'
        <5>1. found \in Found
          BY <4>1
        <5> HIDE DEF found
        <5>2. /\ \A b \in DOMAIN found : found[b] \in LifecycleType
              /\ \A b \in Audited(found) : Purged(found[b]) \/ b \in Eligible(found)
          BY <5>1, FoundTold
        <5> QED
          BY <5>2 DEF found
      <4> QED
        BY <1>1, <2>1, <3>1, <4>1, <4>2 DEF Sweeping, FailsDaemon, Daemon, Released
    <3> QED
      BY <3>2, <3>3
  <2>6. CASE RemediateNext
    <3>1. opts.cmd = "remediate" /\ pc = "judge" /\ UNCHANGED last
      BY <2>6 DEF RemediateNext
    <3>2. ASSUME NEW b \in todo, results' = [results EXCEPT ![b] = Remediated(results[b])],
                 todo' = todo \ {b}, pc' = "judge", UNCHANGED pool
          PROVE  Sweeping'
      <4>1. /\ DOMAIN results' = DOMAIN results
            /\ \A c \in DOMAIN results : c # b => results'[c] = results[c]
            /\ b \in DOMAIN results => results'[b] = Remediated(results[b])
        BY <3>2
      <4>2. b \in DOMAIN results => results'[b] \in LifecycleType /\ Purged(results'[b])
        BY <1>1, <4>1, RemediatedPurged DEF Sweeping
      <4>3. \A c \in DOMAIN results' : results'[c] \in LifecycleType
        BY <1>1, <4>1, <4>2 DEF Sweeping
      <4>4. \A c \in Audited(results') : Purged(results'[c]) \/ c \in todo'
        <5>1. SUFFICES ASSUME NEW c \in Audited(results'), c # b
                       PROVE  Purged(results'[c]) \/ c \in todo'
          BY <4>1, <4>2 DEF Audited
        <5>2. c \in Audited(results) /\ results'[c] = results[c]
          BY <4>1, <5>1 DEF Audited
        <5>3. Purged(results[c]) \/ c \in todo
          BY <1>1, <3>1, <5>2 DEF Sweeping
        <5> QED
          BY <3>2, <5>1, <5>2, <5>3
      <4> QED
        BY <1>1, <2>1, <3>1, <3>2, <4>3, <4>4 DEF Sweeping, FailsDaemon, Daemon
    <3>3. ASSUME pc' = "ended", pool' = "destroyed", UNCHANGED results PROVE Sweeping'
      BY <2>1, <2>2, <3>1, <3>3 DEF Leaves
    <3> QED
      BY <2>6, <3>2, <3>3 DEF RemediateNext, Exits, Throws, Released
  <2>7. CASE Accounts
    <3>1. opts.cmd = "accounts" /\ pc = "start" /\ pc' \in {"ended", "sweep"} /\ UNCHANGED own
      BY <2>7 DEF Accounts, Exits, Throws
    <3> QED
      BY <1>1, <2>1, <3>1 DEF Sweeping, FailsDaemon, own
  <2>8. CASE SweepAccounts
    <3>1. /\ opts.cmd = "accounts" /\ pc = "sweep" /\ UNCHANGED <<pool, todo, last>>
          /\ \/ results' \in Found /\ pc' = "judge"
             \/ pc' = "ended" /\ UNCHANGED results
      BY <2>8 DEF SweepAccounts, Exits, Throws
    <3>2. \A b \in DOMAIN results' : results'[b] \in LifecycleType
      BY <1>1, <3>1, FoundTold DEF Sweeping
    <3> QED
      BY <1>1, <2>1, <3>1, <3>2 DEF Sweeping, FailsDaemon, Pooled
  <2>9. CASE TransitionsOfFleet
    <3>1. /\ opts.cmd = "transitions" /\ ~Daemon /\ UNCHANGED <<todo, last>> /\ pc = "start"
          /\ \/ pc' = "ended" /\ pool' = "idle" /\ UNCHANGED results
             \/ pc' = "audits" /\ results' \in Found
      BY <2>9 DEF TransitionsOfFleet, Exits
    <3>2. \A b \in DOMAIN results' : results'[b] \in LifecycleType
      BY <1>1, <3>1, FoundTold DEF Sweeping
    <3> QED
      BY <1>1, <2>1, <3>1, <3>2 DEF Sweeping, FailsDaemon
  <2>10. CASE DaemonStart
    <3>1. pc = "start" /\ pc' \in {"ended", "run"} /\ UNCHANGED own
      BY <2>10 DEF DaemonStart, Exits, Throws
    <3> QED
      BY <1>1, <2>1, <3>1 DEF Sweeping, FailsDaemon, own
  <2>11. CASE DaemonPool
    <3>1. /\ Daemon /\ pc' = "task" /\ UNCHANGED <<results, todo, last>>
          /\ pool' = IF opts.scope = "fleet" THEN "leased" ELSE "none"
      BY <2>11 DEF DaemonPool
    <3> QED
      BY <1>1, <2>1, <3>1 DEF Sweeping, FailsDaemon, Daemon
  <2>12. CASE DaemonTask
    <3>1. Daemon /\ pc = "task" /\ pc' = "sleep" /\ UNCHANGED todo
      BY <2>12 DEF DaemonTask
    <3>2. \A b \in DOMAIN results' : results'[b] \in LifecycleType
      <4>1. results' \in Found \/ UNCHANGED results
        BY <2>12 DEF DaemonTask, ScanFleetTask, ScanBucketTask, TransitionsFleetTask,
           TransitionsBucketTask
      <4> QED
        BY <1>1, <4>1, FoundTold DEF Sweeping
    <3>3. pool' # "leased"
      BY <1>1, <2>12, <3>1 DEF DaemonTask, ScanFleetTask, ScanBucketTask, TransitionsFleetTask,
         TransitionsBucketTask, Released, Sweeping
    <3>4. FailsDaemon' /\ last' = 0 => Bare(results') = {}
      <4>1. SUFFICES ASSUME FailsDaemon, last' = 0 PROVE Bare(results') = {}
        BY <2>1 DEF FailsDaemon
      <4>2. \/ last' \in Verdict(opts.limits, results')
            \/ last' \in {2, last} /\ UNCHANGED results
        BY <2>12, <4>1 DEF DaemonTask, ScanFleetTask, ScanBucketTask, TransitionsFleetTask,
           TransitionsBucketTask, FailsDaemon
      <4> QED
        BY <1>1, <4>1, <4>2, VerdictTold DEF Sweeping, FailsDaemon
    <3> QED
      BY <2>1, <3>1, <3>2, <3>3, <3>4 DEF Sweeping
  <2>13. CASE DaemonAgain
    <3>1. Daemon /\ pc = "sleep" /\ pc' = "run" /\ UNCHANGED own
      BY <2>13 DEF DaemonAgain
    <3> QED
      BY <1>1, <2>1, <3>1 DEF Sweeping, FailsDaemon, own
  <2>14. CASE RemediateFleet \/ RemediateBucket \/ Drift \/ Rollback \/ Rehydrate
                \/ PolicyPlan \/ PolicyApply
    <3>1. pc = "start" /\ UNCHANGED <<pool, results, last>> /\ pc' \in {"ended", "put"}
      BY <2>14 DEF RemediateFleet, RemediateBucket, Drift, Rollback, Rehydrate, PolicyPlan,
         PolicyApply, Refused, Asks, ExitsWith, Exits, Throws, own
    <3> QED
      BY <1>1, <2>1, <3>1 DEF Sweeping, FailsDaemon
  <2>15. CASE Put
    <3>1. /\ pc = "put" /\ UNCHANGED <<pool, results, last>>
          /\ pc' = "ended" \/ (pc' = "done" /\ todo' = {})
      BY <2>15 DEF Put, PutOrThrow, ExitsWith, Exits
    <3> QED
      BY <1>1, <2>1, <3>1 DEF Sweeping, FailsDaemon
  <2> QED
    BY <1>4, <2>3, <2>4, <2>5, <2>6, <2>7, <2>8, <2>9, <2>10, <2>11, <2>12, <2>13, <2>14, <2>15
    DEF OwnNext, Ending
<1> QED
  BY <1>2, <1>3, <1>4 DEF Next, OwnNext
(* An exit code of 0 is earned, whichever step ends the command.           *)
LEMMA ZeroStep ==
  ASSUME IInv, [Next]_vars, Cleaned'
  PROVE  ZeroMeansDone'
<1> DEFINE Earned ==
             /\ opts.cmd \in Promising => todo = {}
             /\ opts.cmd = "remediate" => \A b \in Audited(results) : Purged(results[b])
             /\ FailsOnBare =>
                  \A b \in Audited(results) : Purged(results[b]) \/ results[b].provider = "unasked"
<1>1. Sweeping /\ (pc = "ended" /\ code = 0 => Earned)
  BY DEF IInv, ZeroMeansDone
<1>2. ZeroMeansApplied'
  BY DEF Cleaned, ZeroMeansApplied, Applying, Counted, Deleted
<1> SUFFICES ASSUME pc' = "ended", code' = 0 PROVE Earned'
  BY <1>2 DEF ZeroMeansDone
<1>3. ASSUME Planning' PROVE Earned'
  BY <1>3 DEF Planning, Promising, FailsOnBare
<1>4. ASSUME UNCHANGED <<opts, pc, code, results, todo>> PROVE Earned'
  BY <1>1, <1>4 DEF FailsOnBare
<1>5. ASSUME results' = << >>, todo' = {} PROVE Earned'
  BY <1>5, NothingFound
<1>6. ASSUME Throws PROVE FALSE
  BY <1>6, FatalCodeNonzero DEF Throws, Exits
<1>7. CASE UNCHANGED vars
  BY <1>4, <1>7 DEF vars, applyVars, own
<1>8. CASE (Command \/ Outside) /\ UNCHANGED own
  <2>1. CASE EditFile \/ OtherClient \/ OwnerActs
    BY <1>4, <1>8, <2>1 DEF EditFile, OtherClient, OwnerActs, own
  <2>2. CASE InvokeApply
    BY <2>2 DEF InvokeApply
  <2>3. CASE Command
    <3>1. UNCHANGED opts /\ (Planning \/ pc' # "ended")
      BY <2>3 DEF Command, ScanForPlan, WritePlan, CheckLock, CheckReplication, CheckTags,
         RefuseArguments, LoadPlan, Gates, AbortUploads, DeleteVersions, FinishApply, At, Goes,
         Planning
    <3> QED
      BY <1>3, <3>1 DEF Planning
  <2> QED
    BY <1>8, <2>1, <2>2, <2>3 DEF Outside
<1>9. CASE OwnNext
  <2>1. UNCHANGED opts
    BY <1>1, <1>9, OwnFrame DEF others
  <2>2. ASSUME opts.cmd \notin Promising, ~FailsOnBare PROVE Earned'
    BY <2>1, <2>2 DEF FailsOnBare, Promising
  <2>3. ASSUME UNCHANGED results, opts.cmd \notin Promising,
               FailsOnBare => Bare(results) = {}
        PROVE  Earned'
    BY <1>1, <2>1, <2>3, NoneBare DEF FailsOnBare, Promising, Sweeping
  <2> USE DEF Exits, Goes, At
  <2>4. CASE Arguments \/ Operate \/ Lens \/ Dashboard \/ Certificate \/ State \/ PolicyValidate
    BY <2>2, <2>4 DEF Arguments, Operate, Lens, Dashboard, Certificate, State, PolicyValidate,
       Reads, Promising, FailsOnBare
  <2>5. CASE FleetStart \/ SweepAccounts \/ DaemonPool \/ DaemonTask \/ DaemonAgain
    BY <1>6, <2>5 DEF FleetStart, SweepAccounts, DaemonPool, DaemonTask, DaemonAgain
  <2>6. CASE FleetSweeps
    BY <1>6, <2>6 DEF FleetSweeps, LambdaFatal
  <2>7. CASE JudgeFleet
    <3>1. UNCHANGED results
      BY <2>7 DEF JudgeFleet, own
    <3>2. CASE JudgeScan
      <4>1. 0 \in Verdict(opts.limits, results)
        BY <3>2 DEF JudgeScan
      <4> QED
        BY <2>3, <3>1, <3>2, <4>1, VerdictTold DEF JudgeScan, FailsOnBare, Promising
    <3>3. CASE JudgeFleetPlan
      <4>1. 0 \in Verdict(opts.limits, results)
        BY <1>6, <3>3 DEF JudgeFleetPlan, ExitsWith
      <4> QED
        BY <2>3, <3>1, <3>3, <4>1, VerdictTold DEF JudgeFleetPlan, FailsOnBare, Promising
    <3> QED
      BY <2>7, <3>2, <3>3 DEF JudgeFleet, LambdaAnswers
  <2>8. CASE RemediateNext
    <3>1. opts.cmd = "remediate" /\ pc = "judge" /\ todo = {} /\ UNCHANGED <<results, todo>>
      BY <1>6, <2>8 DEF RemediateNext
    <3> QED
      BY <1>1, <2>1, <3>1 DEF Sweeping, FailsOnBare
  <2>9. CASE LambdaRefuses \/ LambdaBucket \/ TransitionsOfBucket \/ TransitionsOfFleet \/ TransitionsEnd
    BY <2>2, <2>9 DEF LambdaRefuses, LambdaBucket, TransitionsOfBucket, TransitionsOfFleet,
       TransitionsEnd, Single, Promising, FailsOnBare
  <2>10. CASE Accounts
    BY <1>6, <2>10 DEF Accounts
  <2>11. CASE JudgeAccounts
    <3>1. /\ opts.cmd = "accounts" /\ UNCHANGED results
          /\ 0 \in Verdict(opts.limits, results)
      BY <1>6, <2>11 DEF JudgeAccounts, AccountsPlan, ExitsWith, own
    <3> QED
      BY <2>3, <3>1, VerdictTold DEF FailsOnBare, Promising
  <2>12. CASE ScanBucket
    <3>1. results' = << >> /\ todo' = {}
      BY <1>1, <2>12 DEF ScanBucket, Single, Sweeping, own
    <3> QED
      BY <1>5, <3>1
  <2>13. CASE DaemonStart
    BY <1>6, <2>13 DEF DaemonStart
  <2>14. CASE DaemonEnds
    <3>1. Daemon /\ last = 0 /\ UNCHANGED results
      BY <2>14 DEF DaemonEnds, own
    <3> QED
      BY <1>1, <2>3, <3>1 DEF Daemon, Sweeping, FailsDaemon, FailsOnBare, Promising
  <2>15. CASE RemediateFleet \/ RemediateBucket \/ Drift \/ Rollback \/ Rehydrate
                \/ PolicyPlan \/ PolicyApply
    <3>1. pc = "start" /\ UNCHANGED own
      BY <1>6, <2>15 DEF RemediateFleet, RemediateBucket, Drift, Rollback, Rehydrate, PolicyPlan,
         PolicyApply, Refused, Asks
    <3> QED
      BY <1>1, <1>5, <3>1 DEF Sweeping, own
  <2>16. CASE Put
    <3>1. 0 \notin PutCodes
      BY FatalCodeNonzero DEF PutCodes
    <3> QED
      BY <2>16, <3>1 DEF Put, PutOrThrow, ExitsWith
  <2>17. CASE Done
    BY <1>1, <1>5, <2>17 DEF Done, Sweeping, own
  <2> QED
    BY <1>9, <2>4, <2>5, <2>6, <2>7, <2>8, <2>9, <2>10, <2>11, <2>12, <2>13, <2>14, <2>15,
       <2>16, <2>17 DEF OwnNext
<1> QED
  BY <1>7, <1>8, <1>9 DEF Next, OwnNext

-----------------------------------------------------------------------------
(* The initial state satisfies the invariant.                              *)
LEMMA OptionsOwn == \A o \in Options : o.cmd \notin {"plan", "apply"}
BY DEF Options

LEMMA InitIInv == Init => IInv
<1> SUFFICES ASSUME Init PROVE IInv
  OBVIOUS
<1>1. /\ pc = "start" /\ pool = "none" /\ results = << >> /\ todo = {} /\ last = 0 /\ Blank
      /\ opts \in PlanOptions \/ opts.cmd \notin {"plan", "apply"}
  BY OptionsOwn DEF Init, ApplyInit
<1>2. ~Applying
  BY <1>1 DEF Applying, PlanOptions
<1>3. Sound
  BY <1>1, <1>2 DEF Blank, Sound, NoAnswers, Locks, AtMostOne
<1>4. AnswersStand /\ Cleared /\ Cleaned
  BY <1>2 DEF AnswersStand, Since, Cleared, Cleaned
<1>5. Sweeping
  BY <1>1, NothingFound DEF Sweeping, Planning, ApplyPlaces, OwnPlaces
<1>6. ZeroMeansDone
  BY <1>1 DEF ZeroMeansDone, ZeroMeansApplied
<1> QED
  BY <1>3, <1>4, <1>5, <1>6 DEF IInv

LEMMA NextIInv == IInv /\ [Next]_vars => IInv'
BY SoundStep, AnswersStep, ClearedStep, CleanedStep, SweepingStep, ZeroStep DEF IInv

LEMMA CommandInvariant == Spec => []IInv
BY InitIInv, NextIInv, PTL DEF Spec
-----------------------------------------------------------------------------
(* No apply removes what stood protected while it ran: assessBucketBlast-  *)
(* Radius saw it, and the gates stop at it unless a flag lets it pass.     *)
THEOREM CommandStandingProtectionHolds == Spec => []StandingProtectionHolds
<1>1. ASSUME IInv PROVE StandingProtectionHolds
  <2>1. SUFFICES ASSUME opts.cmd = "apply", removed # {}
                 PROVE
                   /\ ~Stood("lock", "COMPLIANCE") /\ ~Stood("tags", "protected")
                   /\ Stood("lock", "GOVERNANCE") => opts.flags.bypassGovernance
                   /\ Stood("replication", "active") => opts.flags.acknowledgeReplication
                   /\ removed \intersect ProtectedKey = {}
                   /\ \A p \in plan, e \in removed : p.stamp[e].dated =>
                        /\ now - Born[e] < ChurnSpan => opts.flags.allowActiveChurn
                        /\ now - Born[e] < WasabiSpan /\ OnWasabi(p) => opts.flags.forceWasabiEarlyDelete
    BY DEF StandingProtectionHolds
  <2>2. Applying /\ Acting
    BY <2>1 DEF Applying, Acting
  <2>3. PICK p \in plan : Passed(p) /\ removed \subseteq p.uploads \union p.versions
    BY <1>1, <2>1, <2>2 DEF IInv, Cleared
  <2>4. \A q \in plan : q = p
    BY <1>1 DEF IInv, Sound, AtMostOne
  <2>5. /\ p \in PlanType /\ \A e \in Entry : p.stamp[e].time = Born[e]
        /\ \A e \in removed : e \in Entry
    BY <1>1, <2>3 DEF IInv, Sound, Truthful, PlanType, Entry
  <2>6. \A what \in {"lock", "replication", "tags"} :
          \A state : Stood(what, state) => answers[what] = state
    BY <1>1, <2>2 DEF IInv, AnswersStand, Since, Stood
  <2> DEFINE findings == Assessment(answers, Targets(p), now, OnWasabi(p), opts.flags)
  <2>7. \A f \in findings : f.risk # "CRITICAL_BLOCKED" /\ f.risk # "HIGH"
    BY <2>3 DEF Passed, IsBlocked, Risky
  <2>8. /\ LockFindings(answers.lock, opts.flags) \subseteq findings
        /\ ReplicationFindings(answers.replication, opts.flags) \subseteq findings
        /\ TagFindings(answers.tags) \subseteq findings
        /\ PrefixFindings(Targets(p)) \subseteq findings
        /\ AgeFindings(Targets(p), now, OnWasabi(p), opts.flags) \subseteq findings
    BY DEF Assessment
  <2> HIDE DEF findings
  <2>9. \A name, risk : Finding(name, risk) \subseteq findings => risk # "CRITICAL_BLOCKED" /\ risk # "HIGH"
    BY <2>7 DEF Finding
  <2>10. ~Stood("lock", "COMPLIANCE") /\ (Stood("lock", "GOVERNANCE") => opts.flags.bypassGovernance)
    BY <2>6, <2>8, <2>9 DEF LockFindings, Unless, Failed
  <2>11. Stood("replication", "active") => opts.flags.acknowledgeReplication
    BY <2>6, <2>8, <2>9 DEF ReplicationFindings, Unless, Failed
  <2>12. ~Stood("tags", "protected")
    BY <2>6, <2>8, <2>9 DEF TagFindings
  <2> DEFINE target(e) == [protected |-> e \in ProtectedKey, dated |-> p.stamp[e].dated,
                           time |-> p.stamp[e].time]
  <2>13. \A e \in removed : target(e) \in Targets(p)
    BY <2>3 DEF Targets
  <2>14. removed \intersect ProtectedKey = {}
    <3>1. SUFFICES ASSUME NEW e \in removed, e \in ProtectedKey PROVE FALSE
      OBVIOUS
    <3>2. target(e).protected
      BY <3>1
    <3> QED
      BY <2>8, <2>9, <2>13, <3>1, <3>2 DEF PrefixFindings
  <2>15. ASSUME NEW e \in removed, p.stamp[e].dated
         PROVE  /\ now - Born[e] < ChurnSpan => opts.flags.allowActiveChurn
                /\ now - Born[e] < WasabiSpan /\ OnWasabi(p) => opts.flags.forceWasabiEarlyDelete
    <3>1. target(e).dated /\ target(e).time = Born[e] /\ target(e) \in Targets(p)
      BY <2>5, <2>13, <2>15
    <3> HIDE DEF target
    <3>2. \A span : now - Born[e] < span => Young(Targets(p), now, span) # {}
      BY <3>1 DEF Young
    <3> QED
      BY <2>8, <2>9, <3>2 DEF AgeFindings, Unless
  <2> QED
    BY <2>4, <2>10, <2>11, <2>12, <2>14, <2>15
<1> QED
  BY <1>1, CommandInvariant, PTL

(* Nothing goes that was not in the plan as it was made, unless somebody   *)
(* dropped the hash of the file or computed it again: otherwise what       *)
(* validatePlan and the hash let through is what createPlan wrote.         *)
THEOREM CommandRemovedAsPlanned == Spec => []RemovedAsPlanned
<1>1. IInv => RemovedAsPlanned
  BY DEF IInv, Sound, Cleared, RemovedAsPlanned, Applying
<1> QED
  BY <1>1, CommandInvariant, PTL

(* A command that promises a change ends with 0 only if it was made.       *)
THEOREM CommandZeroMeansDone == Spec => []ZeroMeansDone
<1>1. IInv => ZeroMeansDone
  BY DEF IInv
<1> QED
  BY <1>1, CommandInvariant, PTL

(* However a command ends, or a run of a daemon, its clients are released. *)
THEOREM CommandClientsReleased == Spec => []ClientsReleased
<1>1. IInv => ClientsReleased
  BY DEF IInv, Sweeping, ClientsReleased
<1> QED
  BY <1>1, CommandInvariant, PTL

-----------------------------------------------------------------------------
(* The lifecycle rules of a bucket, under commands of several operators.   *)
RuleJobs == Remediations \union PolicyRuns \union [kind : {"rollback"}, manifest : Nat, force : BOOLEAN]
ManifestType ==
  [pre : SUBSET LifecycleRule, post : SUBSET LifecycleRule, before : SUBSET LifecycleRule,
   clean : BOOLEAN]

RulesTyped ==
  /\ live \in SUBSET LifecycleRule
  /\ stage \in [Operator -> {"idle", "write", "record"}]
  /\ job \in [Operator -> RuleJobs \union {NoJob}]
  /\ seen \in [Operator -> SUBSET LifecycleRule]
  /\ manifests \in Seq(ManifestType)
  /\ before \in [Operator -> [rules : SUBSET LifecycleRule, known : BOOLEAN]]
  /\ dirty \in [Operator -> BOOLEAN]

\* a rollback is of a manifest that was written
JobStands(o) ==
  /\ stage[o] = "idle" => before[o] = Unapplied /\ dirty[o] = FALSE
  /\ stage[o] # "idle" => job[o] \in RuleJobs
  /\ job[o].kind = "rollback" => job[o].manifest \in DOMAIN manifests

\* what a command read, and its Put, if it was applied, are what the bucket has
CaptureHolds(o) ==
  stage[o] = "write" /\ dirty[o] = FALSE =>
    IF before[o].known
      THEN before[o].rules = seen[o] /\ live = Written(o) /\ job[o].kind = "remediate"
      ELSE live = seen[o]

DriftChecked(o) ==
  stage[o] = "write" /\ job[o].kind = "rollback" /\ job[o].force = FALSE =>
    seen[o] = manifests[job[o].manifest].post

PutRemembered(o) ==
  stage[o] = "record" /\ dirty[o] = FALSE => before[o].rules = seen[o]

ManifestHolds == \A m \in DOMAIN manifests : manifests[m].clean => manifests[m].pre = manifests[m].before

RulesIInv ==
  /\ RulesTyped /\ ManifestHolds
  /\ \A o \in Operator : JobStands(o) /\ CaptureHolds(o) /\ DriftChecked(o) /\ PutRemembered(o)

(* What a command puts is a set of rules.                                  *)
LEMMA WrittenTyped ==
  ASSUME RulesIInv, NEW o \in Operator, stage[o] # "idle"
  PROVE  Written(o) \in SUBSET LifecycleRule
<1>1. job[o] \in RuleJobs /\ JobStands(o) /\ RulesTyped
  BY DEF RulesIInv, JobStands
<1>2. CASE job[o] \in Remediations
  BY <1>1, <1>2 DEF Written, Merge, Remediations, RulesTyped, LifecycleRule
<1>3. CASE job[o] \in PolicyRuns
  BY <1>1, <1>3, UndoAssumption DEF Written, PolicyRuns, LifecycleRule
<1>4. CASE job[o] \in [kind : {"rollback"}, manifest : Nat, force : BOOLEAN]
  <2>1. job[o].kind = "rollback" /\ manifests[job[o].manifest] \in ManifestType
    BY <1>1, <1>4 DEF JobStands, RulesTyped
  <2> QED
    BY <2>1 DEF Written, ManifestType
<1> QED
  BY <1>1, <1>2, <1>3, <1>4 DEF RuleJobs

(* A manifest stays what it was when others are written.                   *)
LEMMA ManifestStays ==
  ASSUME RulesTyped,
         \/ manifests' = manifests
         \/ \E r \in ManifestType : manifests' = Append(manifests, r)
  PROVE  /\ manifests' \in Seq(ManifestType)
         /\ DOMAIN manifests \subseteq DOMAIN manifests'
         /\ \A m \in DOMAIN manifests : manifests'[m] = manifests[m]
<1>1. manifests \in Seq(ManifestType)
  BY DEF RulesTyped
<1>2. CASE manifests' = manifests
  BY <1>1, <1>2
<1>3. ASSUME NEW r \in ManifestType, manifests' = Append(manifests, r)
      PROVE  /\ manifests' \in Seq(ManifestType)
             /\ DOMAIN manifests \subseteq DOMAIN manifests'
             /\ \A m \in DOMAIN manifests : manifests'[m] = manifests[m]
  <2>1. /\ Len(manifests) \in Nat /\ DOMAIN manifests = 1..Len(manifests)
        /\ manifests' \in Seq(ManifestType) /\ DOMAIN manifests' = 1..Len(manifests) + 1
        /\ \A m \in 1..Len(manifests) : manifests'[m] = manifests[m]
    BY <1>1, <1>3
  <2> QED
    BY <2>1
<1> QED
  BY <1>2, <1>3

(* A command that keeps its job and what it read keeps what it puts.       *)
LEMMA WrittenStays ==
  ASSUME RulesIInv, NEW o \in Operator, job'[o] = job[o], seen'[o] = seen[o],
         \/ manifests' = manifests
         \/ \E r \in ManifestType : manifests' = Append(manifests, r)
  PROVE  Written(o)' = Written(o)
<1>1. job[o].kind = "rollback" => manifests'[job[o].manifest] = manifests[job[o].manifest]
  BY ManifestStays DEF RulesIInv, JobStands
<1> QED
  BY <1>1 DEF Written

LEMMA InitRules == RulesInit => RulesIInv
<1> SUFFICES ASSUME RulesInit PROVE RulesIInv
  OBVIOUS
<1>1. RulesTyped
  <2>1. live \in SUBSET LifecycleRule
    BY DEF RulesInit, LifecycleRule
  <2>2. manifests \in Seq(ManifestType)
    BY DEF RulesInit
  <2>3. before \in [Operator -> [rules : SUBSET LifecycleRule, known : BOOLEAN]]
    BY DEF RulesInit, Unapplied
  <2> QED
    BY <2>1, <2>2, <2>3 DEF RulesInit, RulesTyped
<1>2. ManifestHolds
  BY DEF RulesInit, ManifestHolds
<1>3. ASSUME NEW o \in Operator
      PROVE JobStands(o) /\ CaptureHolds(o) /\ DriftChecked(o) /\ PutRemembered(o)
  BY DEF RulesInit, JobStands, CaptureHolds, DriftChecked, PutRemembered, NoJob
<1> QED
  BY <1>1, <1>2, <1>3 DEF RulesIInv

(* What holds of one command, and a step leaves alone.                     *)
CommandHolds(o) == JobStands(o) /\ CaptureHolds(o) /\ DriftChecked(o) /\ PutRemembered(o)

(* A command rests while another one writes, ends or adds its manifest: it *)
(* remembers the write if it has read and not yet put.                     *)
LEMMA CommandRests ==
  ASSUME RulesIInv, NEW p \in Operator,
         stage'[p] = stage[p], job'[p] = job[p], seen'[p] = seen[p], before'[p] = before[p],
         \/ dirty'[p] = dirty[p] /\ (stage[p] = "write" => live' = live)
         \/ stage[p] = "write" /\ dirty'[p] = TRUE,
         \/ manifests' = manifests
         \/ \E r \in ManifestType : manifests' = Append(manifests, r)
  PROVE  CommandHolds(p)'
<1>1. Written(p)' = Written(p)
  BY WrittenStays
<1>2. CommandHolds(p)
  BY DEF RulesIInv, CommandHolds
<1>3. JobStands(p)'
  BY <1>2, ManifestStays DEF RulesIInv, CommandHolds, JobStands
<1>4. CaptureHolds(p)'
  BY <1>1, <1>2 DEF CommandHolds, CaptureHolds
<1>5. DriftChecked(p)'
  BY <1>2, ManifestStays DEF RulesIInv, CommandHolds, JobStands, DriftChecked
<1>6. PutRemembered(p)'
  BY <1>2 DEF CommandHolds, PutRemembered
<1> QED
  BY <1>3, <1>4, <1>5, <1>6 DEF CommandHolds

(* A command begins with what the bucket has.                              *)
LEMMA BeginsStep ==
  ASSUME RulesIInv, NEW o \in Operator, stage[o] = "idle", NEW newJob \in RuleJobs,
         newJob.kind = "rollback" =>
           /\ newJob.manifest \in DOMAIN manifests
           /\ newJob.force = FALSE => live = manifests[newJob.manifest].post,
         Begins(o, newJob)
  PROVE  RulesIInv'
<1>1. RulesTyped'
  BY DEF Begins, RulesIInv, RulesTyped
<1>2. ManifestHolds'
  BY DEF Begins, RulesIInv, ManifestHolds
<1>3. ASSUME NEW p \in Operator, p # o PROVE CommandHolds(p)'
  <2>1. /\ stage'[p] = stage[p] /\ job'[p] = job[p] /\ seen'[p] = seen[p]
        /\ before' = before /\ dirty' = dirty /\ live' = live /\ manifests' = manifests
    BY <1>3 DEF Begins, RulesIInv, RulesTyped
  <2>2. before'[p] = before[p] /\ dirty'[p] = dirty[p]
    BY <2>1
  <2> QED
    BY <2>1, <2>2, CommandRests
<1>4. CommandHolds(o)'
  <2>1. /\ stage'[o] = "write" /\ job'[o] = newJob /\ seen'[o] = live
        /\ before' = before /\ dirty' = dirty /\ live' = live /\ manifests' = manifests
        /\ before[o] = Unapplied
    BY DEF Begins, RulesIInv, RulesTyped, JobStands
  <2> QED
    BY <2>1 DEF CommandHolds, JobStands, CaptureHolds, DriftChecked, PutRemembered, Unapplied
<1> QED
  BY <1>1, <1>2, <1>3, <1>4 DEF RulesIInv, CommandHolds

LEMMA CaptureStep ==
  ASSUME RulesIInv, NEW o \in Operator, Capture(o)
  PROVE  RulesIInv'
<1>1. PICK newJob \in Remediations \union PolicyRuns : Begins(o, newJob)
  BY DEF Capture
<1>2. newJob \in RuleJobs /\ newJob.kind # "rollback"
  BY DEF RuleJobs, Remediations, PolicyRuns
<1> QED
  BY <1>1, <1>2, BeginsStep DEF Capture

LEMMA CheckDriftStep ==
  ASSUME RulesIInv, NEW o \in Operator, CheckDrift(o)
  PROVE  RulesIInv'
<1>1. PICK m \in DOMAIN manifests, force \in BOOLEAN :
        /\ ~Drifted(m) \/ force
        /\ Begins(o, [kind |-> "rollback", manifest |-> m, force |-> force])
  BY DEF CheckDrift
<1> DEFINE newJob == [kind |-> "rollback", manifest |-> m, force |-> force]
<1>2. m \in Nat
  BY DEF RulesIInv, RulesTyped
<1>3. newJob \in RuleJobs
  BY <1>2 DEF RuleJobs
<1>4. force = FALSE => live = manifests[m].post
  BY <1>1 DEF Drifted
<1> QED
  BY <1>1, <1>3, <1>4, BeginsStep DEF CheckDrift

(* A command that ends leaves nothing.                                     *)
LEMMA EndsStep ==
  ASSUME RulesIInv, NEW o \in Operator, Ends(o),
         before'[o] = Unapplied, dirty'[o] = FALSE
  PROVE  CommandHolds(o)'
BY DEF Ends, RulesIInv, RulesTyped, CommandHolds, JobStands, CaptureHolds, DriftChecked,
       PutRemembered, NoJob

(* The Put of o as another command sees it.                                *)
LEMMA OthersRemember ==
  ASSUME RulesIInv, NEW o \in Operator, NEW p \in Operator, p # o
  PROVE  /\ stage[p] = "write" => Remembered(o)[p] = TRUE
         /\ stage[p] # "write" => Remembered(o)[p] = dirty[p]
<1>1. dirty[p] \in BOOLEAN
  BY DEF RulesIInv, RulesTyped
<1> QED
  BY <1>1 DEF Remembered

LEMMA RememberedTyped ==
  ASSUME RulesIInv, NEW o \in Operator
  PROVE  Remembered(o) \in [Operator -> BOOLEAN] /\ Remembered(o)[o] = dirty[o]
<1>1. dirty[o] \in BOOLEAN
  BY DEF RulesIInv, RulesTyped
<1> QED
  BY <1>1 DEF Remembered

(* The first time a Put is applied, the bucket still is as it was read.    *)
LEMMA FirstAsRead ==
  ASSUME RulesIInv, NEW o \in Operator, stage[o] = "write"
  PROVE  /\ First(o) \in [rules : SUBSET LifecycleRule, known : BOOLEAN]
         /\ First(o).known = TRUE
         /\ dirty[o] = FALSE => First(o).rules = seen[o]
<1>1. /\ before[o] \in [rules : SUBSET LifecycleRule, known : BOOLEAN]
      /\ live \in SUBSET LifecycleRule /\ CaptureHolds(o)
  BY DEF RulesIInv, RulesTyped
<1>2. CASE before[o].known
  BY <1>1, <1>2 DEF First, CaptureHolds
<1>3. CASE ~before[o].known
  BY <1>1, <1>3 DEF First, CaptureHolds
<1> QED
  BY <1>2, <1>3

LEMMA AnsweredStep ==
  ASSUME RulesIInv, NEW o \in Operator, Answered(o)
  PROVE  RulesIInv'
<1>1. /\ stage[o] = "write" /\ live' = Written(o) /\ live' \in SUBSET LifecycleRule
  BY WrittenTyped DEF Answered
<1>2. /\ dirty' = Remembered(o) /\ dirty' \in [Operator -> BOOLEAN] /\ dirty'[o] = dirty[o]
  BY RememberedTyped DEF Answered
<1>3. /\ job' = job /\ seen' = seen /\ manifests' = manifests
      /\ stage' = [stage EXCEPT ![o] = "record"] /\ before' = [before EXCEPT ![o] = First(o)]
  BY DEF Answered
<1>4. RulesTyped'
  BY <1>1, <1>2, <1>3, FirstAsRead DEF RulesIInv, RulesTyped
<1>5. ManifestHolds'
  BY <1>3 DEF RulesIInv, ManifestHolds
<1>6. ASSUME NEW p \in Operator, p # o PROVE CommandHolds(p)'
  <2>1. /\ stage'[p] = stage[p] /\ job'[p] = job[p] /\ seen'[p] = seen[p] /\ before'[p] = before[p]
    BY <1>3, <1>6 DEF RulesIInv, RulesTyped
  <2>2. \/ stage[p] = "write" /\ dirty'[p] = TRUE
        \/ stage[p] # "write" /\ dirty'[p] = dirty[p]
    BY <1>2, <1>6, OthersRemember
  <2> QED
    BY <1>3, <2>1, <2>2, CommandRests
<1>7. CommandHolds(o)'
  <2>1. /\ stage'[o] = "record" /\ job'[o] = job[o] /\ seen'[o] = seen[o] /\ before'[o] = First(o)
    BY <1>3 DEF RulesIInv, RulesTyped
  <2>2. JobStands(o)
    BY DEF RulesIInv
  <2> QED
    BY <1>1, <1>2, <1>3, <2>1, <2>2, FirstAsRead
       DEF CommandHolds, JobStands, CaptureHolds, DriftChecked, PutRemembered
<1> QED
  BY <1>4, <1>5, <1>6, <1>7 DEF RulesIInv, CommandHolds

(* A Put that is not answered leaves everything as it was, or is applied;  *)
(* the others remember it then.                                            *)
LEMMA UnansweredStep ==
  ASSUME RulesIInv, NEW o \in Operator, Unanswered(o)
  PROVE  RulesIInv'
<1>1. PICK applied \in BOOLEAN :
        /\ live' = IF applied THEN Written(o) ELSE live
        /\ \/ /\ job[o].kind = "remediate"
              /\ before' = IF applied THEN [before EXCEPT ![o] = First(o)] ELSE before
              /\ dirty' = IF applied THEN Remembered(o) ELSE dirty
              /\ UNCHANGED <<stage, job, seen>>
           \/ /\ Ends(o) /\ before' = [before EXCEPT ![o] = Unapplied]
              /\ dirty' = [(IF applied THEN Remembered(o) ELSE dirty) EXCEPT ![o] = FALSE]
  BY DEF Unanswered
<1>2. stage[o] = "write" /\ manifests' = manifests
  BY DEF Unanswered
<1> DEFINE noted == IF applied THEN Remembered(o) ELSE dirty
<1>3. noted \in [Operator -> BOOLEAN] /\ noted[o] = dirty[o]
  BY RememberedTyped DEF RulesIInv, RulesTyped
<1>4. ASSUME NEW p \in Operator, p # o
      PROVE  \/ noted[p] = dirty[p] /\ (stage[p] = "write" => live' = live)
             \/ stage[p] = "write" /\ noted[p] = TRUE
  <2>1. CASE applied
    BY <1>4, <2>1, OthersRemember
  <2>2. CASE ~applied
    BY <1>1, <2>2
  <2> QED
    BY <2>1, <2>2
<1>5. live' \in SUBSET LifecycleRule
  BY <1>1, <1>2, WrittenTyped DEF RulesIInv, RulesTyped
<1>6. ManifestHolds'
  BY <1>2 DEF RulesIInv, ManifestHolds
<1> HIDE DEF noted
<1>7. ASSUME job[o].kind = "remediate",
             before' = IF applied THEN [before EXCEPT ![o] = First(o)] ELSE before,
             dirty' = noted, UNCHANGED <<stage, job, seen>>
      PROVE  RulesIInv'
  <2>1. RulesTyped'
    BY <1>2, <1>3, <1>5, <1>7, FirstAsRead DEF RulesIInv, RulesTyped
  <2>2. ASSUME NEW p \in Operator, p # o PROVE CommandHolds(p)'
    <3>1. before'[p] = before[p] /\ stage'[p] = stage[p] /\ job'[p] = job[p] /\ seen'[p] = seen[p]
      BY <1>7, <2>2 DEF RulesIInv, RulesTyped
    <3>2. dirty'[p] = noted[p]
      BY <1>7
    <3> QED
      BY <1>2, <1>4, <2>2, <3>1, <3>2, CommandRests
  <2>3. CommandHolds(o)'
    <3>1. Written(o)' = Written(o)
      BY <1>2, <1>7, WrittenStays
    <3>2. /\ stage'[o] = "write" /\ job'[o] = job[o] /\ seen'[o] = seen[o]
          /\ before'[o] = IF applied THEN First(o) ELSE before[o]
          /\ dirty'[o] = dirty[o]
      BY <1>2, <1>3, <1>7 DEF RulesIInv, RulesTyped
    <3>3. JobStands(o) /\ CaptureHolds(o) /\ DriftChecked(o)
      BY DEF RulesIInv
    <3>4. CaptureHolds(o)'
      <4>1. CASE applied
        <5>1. live' = Written(o)
          BY <1>1, <4>1
        <5>2. before'[o] = First(o)
          BY <3>2, <4>1
        <5>3. First(o).known = TRUE /\ (dirty[o] = FALSE => First(o).rules = seen[o])
          BY <1>2, FirstAsRead
        <5> QED
          BY <1>7, <3>1, <3>2, <5>1, <5>2, <5>3 DEF CaptureHolds
      <4>2. CASE ~applied
        <5>1. live' = live
          BY <1>1, <4>2
        <5>2. before'[o] = before[o]
          BY <3>2, <4>2
        <5> QED
          BY <1>7, <3>1, <3>2, <3>3, <5>1, <5>2 DEF CaptureHolds
      <4> QED
        BY <4>1, <4>2
    <3> QED
      BY <1>2, <1>7, <3>2, <3>3, <3>4 DEF CommandHolds, JobStands, DriftChecked, PutRemembered
  <2> QED
    BY <1>6, <2>1, <2>2, <2>3 DEF RulesIInv, CommandHolds
<1>8. ASSUME Ends(o), before' = [before EXCEPT ![o] = Unapplied],
             dirty' = [noted EXCEPT ![o] = FALSE]
      PROVE  RulesIInv'
  <2>1. RulesTyped'
    BY <1>2, <1>3, <1>5, <1>8 DEF RulesIInv, RulesTyped, Ends, Unapplied
  <2>2. ASSUME NEW p \in Operator, p # o PROVE CommandHolds(p)'
    <3>1. before'[p] = before[p] /\ stage'[p] = stage[p] /\ job'[p] = job[p] /\ seen'[p] = seen[p]
      BY <1>8, <2>2 DEF RulesIInv, RulesTyped, Ends
    <3>2. dirty'[p] = noted[p]
      BY <1>3, <1>8, <2>2
    <3> QED
      BY <1>2, <1>4, <2>2, <3>1, <3>2, CommandRests
  <2>3. CommandHolds(o)'
    BY <1>3, <1>8, EndsStep DEF RulesIInv, RulesTyped
  <2> QED
    BY <1>6, <2>1, <2>2, <2>3 DEF RulesIInv, CommandHolds
<1> QED
  BY <1>1, <1>7, <1>8 DEF noted

(* The manifest of a command nobody wrote next to is of what was there     *)
(* before its Put.                                                         *)
LEMMA RecordStep ==
  ASSUME RulesIInv, NEW o \in Operator, Record(o)
  PROVE  RulesIInv'
<1>1. /\ stage[o] = "record" /\ live' = live /\ Ends(o)
      /\ before' = [before EXCEPT ![o] = Unapplied] /\ dirty' = [dirty EXCEPT ![o] = FALSE]
  BY DEF Record
<1>2. \/ manifests' = manifests
      \/ manifests' = Append(manifests, Manifest(o))
  BY DEF Record
<1>3. Manifest(o) \in ManifestType
  BY <1>1, WrittenTyped DEF Manifest, ManifestType, RulesIInv, RulesTyped
<1>4. Manifest(o).clean => Manifest(o).pre = Manifest(o).before
  BY <1>1 DEF Manifest, RulesIInv, RulesTyped, PutRemembered
<1>5. \/ manifests' = manifests
      \/ \E r \in ManifestType : manifests' = Append(manifests, r)
  BY <1>2, <1>3
<1>6. RulesTyped'
  <2>1. manifests' \in Seq(ManifestType)
    BY <1>5, ManifestStays DEF RulesIInv
  <2> QED
    BY <1>1, <2>1 DEF RulesIInv, RulesTyped, Ends, Unapplied
<1>7. ManifestHolds'
  <2>1. CASE manifests' = manifests
    BY <2>1 DEF RulesIInv, ManifestHolds
  <2>2. CASE manifests' = Append(manifests, Manifest(o))
    <3>1. manifests \in Seq(ManifestType) /\ Len(manifests) \in Nat
      BY DEF RulesIInv, RulesTyped
    <3>2. SUFFICES ASSUME NEW m \in DOMAIN manifests', manifests'[m].clean
                   PROVE  manifests'[m].pre = manifests'[m].before
      BY DEF ManifestHolds
    <3>3. CASE m \in DOMAIN manifests
      <4>1. manifests'[m] = manifests[m]
        BY <1>5, <3>3, ManifestStays DEF RulesIInv
      <4> QED
        BY <3>2, <3>3, <4>1 DEF RulesIInv, ManifestHolds
    <3>4. CASE m \notin DOMAIN manifests
      <4>1. manifests'[m] = Manifest(o)
        BY <1>3, <2>2, <3>1, <3>4
      <4> QED
        BY <1>4, <3>2, <4>1
    <3> QED
      BY <3>3, <3>4
  <2> QED
    BY <1>2, <2>1, <2>2
<1>8. ASSUME NEW p \in Operator, p # o PROVE CommandHolds(p)'
  <2>1. before'[p] = before[p] /\ stage'[p] = stage[p] /\ job'[p] = job[p] /\ seen'[p] = seen[p]
    BY <1>1, <1>8 DEF RulesIInv, RulesTyped, Ends
  <2>2. dirty'[p] = dirty[p]
    BY <1>1, <1>8 DEF RulesIInv, RulesTyped
  <2> QED
    BY <1>1, <1>5, <2>1, <2>2, CommandRests
<1>9. CommandHolds(o)'
  BY <1>1, EndsStep DEF RulesIInv, RulesTyped
<1> QED
  BY <1>6, <1>7, <1>8, <1>9 DEF RulesIInv, CommandHolds

LEMMA OtherOwnerStep ==
  ASSUME RulesIInv, OtherOwner
  PROVE  RulesIInv'
<1>1. /\ dirty' = [o \in Operator |-> dirty[o] \/ stage[o] = "write"]
      /\ stage' = stage /\ job' = job /\ seen' = seen /\ manifests' = manifests /\ before' = before
  BY DEF OtherOwner
<1>2. live' \in SUBSET LifecycleRule
  BY DEF OtherOwner, RulesIInv, RulesTyped, LifecycleRule
<1>3. RulesTyped'
  BY <1>1, <1>2 DEF RulesIInv, RulesTyped
<1>4. ManifestHolds'
  BY <1>1 DEF RulesIInv, ManifestHolds
<1>5. ASSUME NEW p \in Operator PROVE CommandHolds(p)'
  <2>1. dirty[p] \in BOOLEAN
    BY DEF RulesIInv, RulesTyped
  <2>2. /\ stage[p] = "write" => dirty'[p] = TRUE
        /\ stage[p] # "write" => dirty'[p] = dirty[p]
    BY <1>1, <2>1
  <2>3. stage'[p] = stage[p] /\ job'[p] = job[p] /\ seen'[p] = seen[p] /\ before'[p] = before[p]
    BY <1>1
  <2> QED
    BY <1>1, <2>2, <2>3, CommandRests
<1> QED
  BY <1>3, <1>4, <1>5 DEF RulesIInv, CommandHolds

(* Whoever runs what next to whom, a command that nobody wrote next to     *)
(* holds what the bucket has, and a manifest what the bucket had.          *)
THEOREM RulesInvariant == RulesSpec => []RulesIInv
<1>1. RulesIInv /\ [RulesNext]_rulesVars => RulesIInv'
  <2> SUFFICES ASSUME RulesIInv, [RulesNext]_rulesVars PROVE RulesIInv'
    OBVIOUS
  <2>1. CASE OtherOwner
    BY <2>1, OtherOwnerStep
  <2>2. ASSUME NEW o \in Operator, Capture(o) \/ CheckDrift(o) \/ Steps(o)
        PROVE  RulesIInv'
    BY <2>2, CaptureStep, CheckDriftStep, AnsweredStep, UnansweredStep, RecordStep DEF Steps
  <2>3. CASE UNCHANGED rulesVars
    <3>1. ASSUME NEW p \in Operator PROVE CommandHolds(p)'
      BY <2>3, CommandRests DEF rulesVars
    <3> QED
      BY <2>3, <3>1 DEF rulesVars, RulesIInv, RulesTyped, ManifestHolds, CommandHolds
  <2> QED
    BY <2>1, <2>2, <2>3 DEF RulesNext
<1> QED
  BY <1>1, InitRules, PTL DEF RulesSpec

(* A rollback that is not forced and that nobody writes next to finds what *)
(* its command left and puts back what that command found.                 *)
THEOREM RulesUndoIsInverse == RulesSpec => UndoIsInverse
<1>1. ASSUME RulesIInv
      PROVE  \A o \in Operator :
               (job[o].kind = "rollback" /\ ~job[o].force /\ ~dirty[o] /\ Answered(o)) =>
                 LET m == manifests[job[o].manifest]
                 IN live = m.post /\ (m.clean => live' = m.before)
  <2> SUFFICES ASSUME NEW o \in Operator, job[o].kind = "rollback", ~job[o].force, ~dirty[o],
                      Answered(o)
               PROVE  LET m == manifests[job[o].manifest]
                      IN live = m.post /\ (m.clean => live' = m.before)
    OBVIOUS
  <2> DEFINE m == manifests[job[o].manifest]
  <2>1. stage[o] = "write" /\ live' = Written(o)
    BY DEF Answered
  <2>2. dirty[o] = FALSE
    BY <1>1 DEF RulesIInv, RulesTyped
  <2>3. job[o] \in [kind : {"rollback"}, manifest : Nat, force : BOOLEAN]
    BY <1>1, <2>1 DEF RulesIInv, JobStands, RuleJobs, Remediations, PolicyRuns
  <2>4. job[o].force = FALSE
    BY <2>3
  <2>5. live = seen[o]
    BY <1>1, <2>1, <2>2 DEF RulesIInv, CaptureHolds
  <2>6. seen[o] = m.post
    BY <1>1, <2>1, <2>4 DEF RulesIInv, DriftChecked
  <2>7. Written(o) = m.pre
    BY DEF Written
  <2>8. m.clean => m.pre = m.before
    BY <1>1 DEF RulesIInv, JobStands, ManifestHolds
  <2> QED
    BY <2>1, <2>5, <2>6, <2>7, <2>8
<1> QED
  BY <1>1, RulesInvariant, PTL DEF UndoIsInverse, RulesSpec

(* No remediation takes away a rule of another owner, with all its retries *)
(* after lost answers, unless someone wrote between its Get and its Put.   *)
THEOREM RulesOtherRulesKept == RulesSpec => OtherRulesKept
<1>1. ASSUME RulesIInv
      PROVE  \A o \in Operator :
               (job[o].kind = "remediate" /\ ~dirty[o] /\ (Answered(o) \/ Unanswered(o)))
                 => live \intersect OtherRule \subseteq live'
  <2> SUFFICES ASSUME NEW o \in Operator, job[o].kind = "remediate", ~dirty[o],
                      Answered(o) \/ Unanswered(o)
               PROVE  live \intersect OtherRule \subseteq live'
    OBVIOUS
  <2>1. stage[o] = "write" /\ (live' = Written(o) \/ live' = live)
    BY DEF Answered, Unanswered
  <2>2. dirty[o] = FALSE
    BY <1>1 DEF RulesIInv, RulesTyped
  <2>3. live = seen[o] \/ live = Written(o)
    BY <1>1, <2>1, <2>2 DEF RulesIInv, CaptureHolds
  <2>4. Written(o) = (seen[o] \ Target) \union {job[o].target}
    BY DEF Written, Merge
  <2>5. seen[o] \intersect OtherRule \subseteq Written(o)
    BY <2>4, UndoAssumption
  <2> QED
    BY <2>1, <2>3, <2>5
<1> QED
  BY <1>1, RulesInvariant, PTL DEF OtherRulesKept, RulesSpec
=============================================================================
