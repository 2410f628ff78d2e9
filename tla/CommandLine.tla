----------------------------- MODULE CommandLine -----------------------------
(***************************************************************************)
(* src/cli.ts, main(), and the Lambda handler: one invocation from its     *)
(* arguments to its exit code.  A command is the calls it awaits, in       *)
(* order, what it does when one throws and what it ends with; what a call  *)
(* does inside is in the module of its component.  `plan` and `apply` of   *)
(* one bucket are in PlanApply.  What is printed is left out.              *)
(***************************************************************************)
EXTENDS PlanApply, LifecycleAudit

CONSTANTS Bucket,     \* of the account
          Lifecycles  \* what a sweep may find of one

ASSUME LifecyclesAssumption == Lifecycles \subseteq [provider : Providers, rules : SUBSET Rule]

VARIABLES pool,    \* the client pool: none, idle, leased or destroyed
          results, \* of the last sweep: the lifecycle of each bucket it lists
          todo,    \* what the command has still to change: buckets, a file, ...
          last     \* lastExitCode of a daemon

own == <<pool, results, todo, last>>
vars == <<applyVars, own>>
others == <<opts, world, disk, self, steady, bounds>>

Found == UNION {[S -> Lifecycles] : S \in SUBSET Bucket}

Scopes == {"fleet", "bucket"}
Limits == [maxWaste : BOOLEAN, failOnUnprotected : BOOLEAN]
PolicyFiles == {"none", "valid", "invalid", "unreadable"}

Options ==
  [cmd : {"help", "unknown", "bad arguments", "lens", "dashboard", "state", "certificate",
          "policy validate", "rollback"}]
  \union [cmd : {"operate"}, once : BOOLEAN]
  \union [cmd : {"accounts"}, limits : Limits, plan : BOOLEAN]
  \union [cmd : {"scan"}, scope : Scopes, daemon : {FALSE}, limits : Limits, policy : PolicyFiles]
  \union [cmd : {"scan"}, scope : Scopes, daemon : {TRUE}, limits : Limits, once : BOOLEAN]
  \union [cmd : {"transitions"}, scope : Scopes, daemon : {FALSE}]
  \union [cmd : {"transitions"}, scope : Scopes, daemon : {TRUE}, once : BOOLEAN]
  \union [cmd : {"fleet plan"}, limits : Limits]
  \union [cmd : {"lambda"}, scope : Scopes \union {"none"}, limits : Limits]
  \union [cmd : {"remediate"}, scope : Scopes, danger : BOOLEAN, outIac : BOOLEAN]
  \union [cmd : {"drift"}, patch : BOOLEAN, write : BOOLEAN]
  \union [cmd : {"rehydrate"}, dryRun : BOOLEAN]
  \union [cmd : {"policy plan"}, out : BOOLEAN]
  \union [cmd : {"policy apply"}, confirm : BOOLEAN]

Daemon == opts.cmd \in {"scan", "transitions"} /\ opts.daemon
Single(cmd) == opts.cmd = cmd /\ opts.scope = "bucket" /\ pc = "start"

ExitsWith(codes) == \E c \in codes : Exits(c)

-----------------------------------------------------------------------------
(* Arguments that do not parse, and an unknown command, end with 1.        *)
Arguments ==
  /\ pc = "start" /\ UNCHANGED <<others, own>>
  /\ \/ opts.cmd \in {"unknown", "bad arguments"} /\ Exits(1)
     \/ opts.cmd = "help" /\ Exits(0)

(* operate --once: a halt is 4 by words in its reason, else 2 by its       *)
(* error, else 3; without --once what start() throws is 2 or 4.            *)
Operate ==
  /\ At("operate", "start") /\ UNCHANGED <<others, own>>
  /\ \/ ExitsWith({0, 1, 2, 4})
     \/ opts.once /\ (ExitsWith({3}) \/ Throws)

-----------------------------------------------------------------------------
(* evaluatePolicy: a bucket that failed or has a native purge breaks       *)
(* nothing; the sum of the waste may be on either side of the limit.       *)
Verdict(limits, found) ==
  IF limits.failOnUnprotected /\ Bare(found) # {} THEN {3}
  ELSE IF limits.maxWaste THEN {0, 3} ELSE {0}

(* checkFleetPolicyCompliance: a bucket without a covering rule breaks a   *)
(* policy that applies to it, one of a provider that is not asked as well. *)
Compliance(policy, found) ==
  IF policy = "valid" /\ \E b \in Audited(found) : ~Audit(found[b]).covering THEN {0, 3} ELSE {0}

\* slip: the pool is destroyed where the sweep returns, not in a finally
ReleasedAfterReturn(threw) == IF threw THEN pool ELSE "destroyed"

(* The finally of each sweep.                                              *)
Released(threw) == "destroyed"

Pooled ==
  \/ opts.cmd = "fleet plan"
  \/ opts.cmd \in {"scan", "lambda"} /\ opts.scope = "fleet"
  \/ opts.cmd = "remediate" /\ opts.scope = "fleet" /\ opts.danger

FleetStart ==
  /\ pc = "start" /\ Pooled /\ ~Daemon
  /\ pool' = "leased" /\ Goes("sweep") /\ UNCHANGED <<others, results, todo, last>>

LambdaFatal == IF opts.cmd = "lambda" THEN Exits(500) ELSE Throws

FleetSweeps ==
  /\ pc = "sweep" /\ Pooled /\ ~Daemon /\ UNCHANGED <<others, last>>
  /\ \/ /\ results' \in Found /\ Goes("judge")
        /\ IF opts.cmd = "remediate"
             THEN todo' = Eligible(results') /\ UNCHANGED pool
             ELSE pool' = Released(FALSE) /\ UNCHANGED todo
     \/ LambdaFatal /\ pool' = Released(TRUE) /\ UNCHANGED <<results, todo>>

(* The policy file is read after the sweep; the webhook does not throw.    *)
JudgeScan ==
  /\ opts.cmd = "scan"
  /\ CASE opts.policy = "unreadable" -> Exits(1)
       [] opts.policy = "invalid"    -> Exits(3)
       [] OTHER -> \E v \in Verdict(opts.limits, results), c \in Compliance(opts.policy, results) :
                     Exits(IF v = 0 THEN c ELSE v)

(* The plan of the fleet is written once the verdict is known.             *)
JudgeFleetPlan ==
  opts.cmd = "fleet plan" /\ (Throws \/ ExitsWith(Verdict(opts.limits, results)))

(* Violations are in the body of the answer and do not change its status.  *)
LambdaAnswers == opts.cmd = "lambda" /\ Exits(200)

JudgeFleet ==
  /\ pc = "judge" /\ UNCHANGED <<others, own>>
  /\ JudgeScan \/ JudgeFleetPlan \/ LambdaAnswers

(* An event that names neither the fleet nor a bucket; or one bucket.      *)
LambdaRefuses ==
  opts.cmd = "lambda" /\ pc = "start" /\ opts.scope = "none" /\ Exits(400) /\ UNCHANGED <<others, own>>

LambdaBucket == Single("lambda") /\ (LambdaAnswers \/ LambdaFatal) /\ UNCHANGED <<others, own>>

(* remediate --all-buckets --danger-direct-api-apply: one bucket after the *)
(* other; an exception leaves the rest as it was.                          *)
RemediateNext ==
  /\ At("remediate", "judge") /\ UNCHANGED <<others, last>>
  /\ \/ \E b \in todo :
          /\ results' = [results EXCEPT ![b] = Remediated(results[b])]
          /\ todo' = todo \ {b} /\ Goes("judge") /\ UNCHANGED pool
     \/ todo = {} /\ Exits(0) /\ pool' = Released(FALSE) /\ UNCHANGED <<results, todo>>
     \/ todo # {} /\ Throws /\ pool' = Released(TRUE) /\ UNCHANGED <<results, todo>>

-----------------------------------------------------------------------------
(* scan and plan of several accounts: the list, the sweep, the plan's file *)
(* or the webhook; accounts that failed break nothing.                     *)
Accounts ==
  /\ At("accounts", "start") /\ UNCHANGED <<others, own>>
  /\ Exits(2) \/ Exits(1) \/ Throws \/ Goes("sweep")

SweepAccounts ==
  /\ At("accounts", "sweep") /\ UNCHANGED <<others, pool, todo, last>>
  /\ \/ results' \in Found /\ Goes("judge")
     \/ Throws /\ UNCHANGED results

\* `plan` makes the same calls and then writes its file
AccountsPlan == opts.plan /\ Throws

JudgeAccounts ==
  /\ At("accounts", "judge") /\ UNCHANGED <<others, own>>
  /\ AccountsPlan \/ ExitsWith(Verdict(opts.limits, results))

(* One bucket: no name is 1, one exception of the parallel scans ends it,  *)
(* and neither limits nor a policy count.                                  *)
ScanBucket ==
  /\ Single("scan") /\ ~Daemon /\ UNCHANGED <<others, own>>
  /\ Exits(1) \/ Throws \/ Exits(0)

TransitionsOfBucket ==
  /\ Single("transitions") /\ ~Daemon /\ UNCHANGED <<others, own>>
  /\ Exits(1) \/ Throws \/ Exits(0)

(* audit-transitions of the fleet: without a list nothing was leased; a    *)
(* bucket that fails is left out.                                          *)
TransitionsOfFleet ==
  /\ At("transitions", "start") /\ opts.scope = "fleet" /\ ~Daemon
  /\ \/ Exits(2) /\ pool' = "idle" /\ UNCHANGED results
     \/ Goes("audits") /\ pool' = "leased" /\ results' \in Found
  /\ UNCHANGED <<others, todo, last>>

TransitionsEnd ==
  /\ At("transitions", "audits") /\ Exits(0) /\ pool' = "destroyed"
  /\ UNCHANGED <<others, results, todo, last>>

-----------------------------------------------------------------------------
(* --daemon and --once: the lock, whose conflict is 1, then runs.          *)
DaemonStart ==
  /\ pc = "start" /\ Daemon /\ UNCHANGED <<others, own>>
  /\ Exits(1) \/ Throws \/ Goes("run")

DaemonPool ==
  /\ Daemon /\ pc = "run" /\ Goes("task") /\ UNCHANGED <<others, results, todo, last>>
  /\ pool' = IF opts.scope = "fleet" THEN "leased" ELSE "none"

\* the scheduler logs what a task throws; lastExitCode stays what it was
ScanFleetTask ==
  /\ opts.cmd = "scan" /\ opts.scope = "fleet"
  /\ \/ results' \in Found /\ pool' = Released(FALSE) /\ last' \in Verdict(opts.limits, results')
     \/ last' \in {2, last} /\ pool' = Released(TRUE) /\ UNCHANGED results

ScanBucketTask ==
  opts.cmd = "scan" /\ opts.scope = "bucket" /\ UNCHANGED <<pool, results, last>>

\* without a list the task returns before its destroy()
TransitionsFleetTask ==
  /\ opts.cmd = "transitions" /\ opts.scope = "fleet"
  /\ \/ results' \in Found /\ pool' = "destroyed" /\ UNCHANGED last
     \/ last' = 2 /\ pool' = "idle" /\ UNCHANGED results

TransitionsBucketTask ==
  opts.cmd = "transitions" /\ opts.scope = "bucket" /\ UNCHANGED <<pool, results, last>>

DaemonTask ==
  /\ Daemon /\ pc = "task" /\ Goes("sleep") /\ UNCHANGED <<others, todo>>
  /\ ScanFleetTask \/ ScanBucketTask \/ TransitionsFleetTask \/ TransitionsBucketTask

(* The one run of --once, or a signal, ends it with lastExitCode.          *)
DaemonEnds == Daemon /\ pc = "sleep" /\ Exits(last) /\ UNCHANGED <<others, own>>
DaemonAgain == Daemon /\ pc = "sleep" /\ ~opts.once /\ Goes("run") /\ UNCHANGED <<others, own>>

-----------------------------------------------------------------------------
(* Commands that put one thing: what they refuse first, then the put.      *)
Refused(codes) == ExitsWith(codes) /\ UNCHANGED own
Asks(what) == Goes("put") /\ todo' = what /\ UNCHANGED <<pool, results, last>>

(* remediate without a pool: --days is refused with 1; for all buckets a   *)
(* list that failed is 2, an empty one 0; code is made, or one's rule put. *)
RemediateFleet ==
  /\ At("remediate", "start") /\ opts.scope = "fleet" /\ ~opts.danger /\ UNCHANGED others
  /\ Refused({0, 1, 2}) \/ Asks(IF opts.outIac THEN {"file"} ELSE {})

RemediateBucket ==
  /\ At("remediate", "start") /\ opts.scope = "bucket" /\ UNCHANGED others
  /\ \/ Refused({1})
     \/ Asks(IF opts.danger THEN {"rule"} ELSE IF opts.outIac THEN {"file"} ELSE {})

(* drift: a patch that could not be made is not missed by --write; --patch *)
(* ends with 0 and otherwise the verdict counts, also once it is written.  *)
Drift ==
  /\ At("drift", "start") /\ UNCHANGED others
  /\ \/ Refused({0, 1} \union IF opts.patch THEN {} ELSE {3})
     \/ opts.write /\ Asks({"file"})

(* rollback: no manifest is 1; an unreadable one and a bucket that has     *)
(* drifted are 3.  rehydrate: no bucket is 1, a failed listing 3.          *)
Rollback ==
  /\ At("rollback", "start") /\ UNCHANGED others
  /\ Refused({1, 3}) \/ Asks({"state"})

Rehydrate ==
  /\ At("rehydrate", "start") /\ UNCHANGED others
  /\ \/ Refused({1, 3} \union IF opts.dryRun THEN {0} ELSE {})
     \/ ~opts.dryRun /\ Asks({"markers"})

(* Region and tags of the bucket fall back to defaults when a call fails.  *)
PolicyPlan ==
  /\ At("policy plan", "start") /\ UNCHANGED others
  /\ \/ Refused({1, 3})
     \/ Asks(IF opts.out THEN {"file"} ELSE {})

(* MONITOR_ONLY is refused like an invalid policy; the Get may throw.      *)
PolicyApply ==
  /\ At("policy apply", "start") /\ UNCHANGED others
  /\ \/ Refused({1})
     \/ opts.confirm /\ (Refused({3}) \/ (Throws /\ UNCHANGED own) \/ Asks({"rules"}))

PutCodes ==
  CASE opts.cmd = "drift" -> {1}
    [] opts.cmd \in {"rollback", "rehydrate"} -> {3}
    [] OTHER -> {FatalCode(class) : class \in Classes}

PutOrThrow(codes) ==
  \/ Goes("done") /\ todo' = {}
  \/ todo # {} /\ ExitsWith(codes) /\ UNCHANGED todo

Put == pc = "put" /\ PutOrThrow(PutCodes) /\ UNCHANGED <<others, pool, results, last>>

(* policy apply: the manifest may still throw, the audit event may not.    *)
Done ==
  /\ pc = "done" /\ UNCHANGED <<others, own>>
  /\ \/ opts.cmd = "policy apply" /\ Throws
     \/ Exits(IF opts.cmd = "drift" /\ ~opts.patch THEN 3 ELSE 0)

(* Commands that only read, and `state compact`: what each may end with.   *)
Reads(cmd, codes) == At(cmd, "start") /\ ExitsWith(codes) /\ UNCHANGED <<others, own>>

Lens == Reads("lens", {0, 1})
Dashboard == Reads("dashboard", {0, 1})
Certificate == Reads("certificate", {0, 1})
State == Reads("state", {0, 1, 3})
PolicyValidate == Reads("policy validate", {0, 1, 3})

-----------------------------------------------------------------------------
Init ==
  /\ pool = "none" /\ results = << >> /\ todo = {} /\ last = 0
  /\ ApplyInit \/ (opts \in Options /\ pc = "start" /\ code = 0 /\ entries = {} /\ Blank)

Next ==
  \/ Arguments \/ Operate \/ Lens \/ Dashboard \/ Certificate \/ State \/ PolicyValidate
  \/ FleetStart \/ FleetSweeps \/ JudgeFleet \/ RemediateNext \/ LambdaRefuses \/ LambdaBucket
  \/ Accounts \/ SweepAccounts \/ JudgeAccounts
  \/ ScanBucket \/ TransitionsOfBucket \/ TransitionsOfFleet \/ TransitionsEnd
  \/ DaemonStart \/ DaemonPool \/ DaemonTask \/ DaemonAgain \/ DaemonEnds
  \/ RemediateFleet \/ RemediateBucket \/ Drift \/ Rollback \/ Rehydrate \/ PolicyPlan \/ PolicyApply \/ Put \/ Done
  \/ (Command \/ Outside) /\ UNCHANGED own

Spec == Init /\ [][Next]_vars

-----------------------------------------------------------------------------
(* However a command ends, or a run of a daemon, the clients it took from  *)
(* a pool are destroyed: no socket keeps the process from ending.          *)
ClientsReleased == pc \in {"ended", "sleep"} => pool # "leased"

(* A command that promises a change ends with 0 only if all of it was      *)
(* made, an apply only if nothing of its plan is left and what it removed  *)
(* is on record, a remediation of the fleet only if every bucket it could  *)
(* read has a rule that aborts uploads, tags apart, or a purge of its own, *)
(* and a sweep that is to fail on unprotected buckets likewise, or if the  *)
(* provider is not asked.                                                  *)
Promising == {"remediate", "policy plan", "policy apply", "rollback", "drift"}

Purged(b) == b.provider = "r2" \/ \E r \in b.rules : r.aborts /\ r.enabled /\ ~r.tagged
FailsOnBare == opts.cmd \in {"scan", "accounts", "fleet plan"} /\ opts.limits.failOnUnprotected

ZeroMeansDone ==
  /\ ZeroMeansApplied
  /\ pc = "ended" /\ code = 0 =>
       /\ opts.cmd \in Promising => todo = {}
       /\ opts.cmd = "remediate" => \A b \in Audited(results) : Purged(results[b])
       /\ FailsOnBare => \A b \in Audited(results) : Purged(results[b]) \/ results[b].provider = "unasked"
=============================================================================
