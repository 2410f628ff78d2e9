----------------------------- MODULE BlastRadius -----------------------------
(***************************************************************************)
(* src/safety/blast-radius.ts: the verdict of assessBucketBlastRadius on   *)
(* what its three calls answered, the entries to be deleted and the flags  *)
(* of the operator.                                                        *)
(***************************************************************************)
EXTENDS Integers

CONSTANTS ChurnSpan,  \* 24 hours
          WasabiSpan  \* 90 days

ASSUME SpanAssumption == {ChurnSpan, WasabiSpan} \subseteq Nat

Locks == {"none", "unruled", "GOVERNANCE", "COMPLIANCE"}
Failed == "failed"

(* A code isNotFoundError knows, such as 405, 501 or InvalidRequest, is    *)
(* taken to say that nothing is configured, whatever is.                   *)
Absent == "absent"

\* what each call may answer of a bucket whose state is g
LockAnswers(g) == {g.lock, Failed, Absent}
ReplicationAnswers(g) == {g.replication, Failed, Absent}
TagAnswers(g) == {g.tags, Failed}

Finding(code, risk) == {[code |-> code, risk |-> risk]}
Unless(flag, code, risk) == Finding(code, IF flag THEN "MEDIUM" ELSE risk)

LockFindings(lock, flags) ==
  CASE lock = "COMPLIANCE" -> Finding("BLOCKED_COMPLIANCE_LOCK", "CRITICAL_BLOCKED")
    [] lock = "GOVERNANCE" -> Unless(flags.bypassGovernance, "GOVERNANCE_LOCK", "HIGH")
    [] lock = "unruled"    -> Finding("OBJECT_LOCK_ENABLED", "MEDIUM")
    [] lock = Failed       -> Finding("OBJECT_LOCK_CHECK_FAILED", "MEDIUM")
    [] OTHER               -> {}

ReplicationFindings(replication, flags) ==
  CASE replication = "active" -> Unless(flags.acknowledgeReplication, "REPLICATION", "HIGH")
    [] replication = Failed   -> Finding("REPLICATION_CHECK_FAILED", "MEDIUM")
    [] OTHER                  -> {}

(* A call that fails leaves no finding.                                    *)
TagFindings(tags) ==
  IF tags = "protected" THEN Finding("PROTECTED_TAG_DETECTED", "CRITICAL_BLOCKED") ELSE {}

PrefixFindings(targets) ==
  IF \E t \in targets : t.protected THEN Finding("PROTECTED_PREFIX_DETECTED", "CRITICAL_BLOCKED") ELSE {}

(* An entry without a readable timestamp is not young.                     *)
Young(targets, now, span) == {t \in targets : t.dated /\ now - t.time < span}

AgeFindings(targets, now, wasabi, flags) ==
  (IF Young(targets, now, ChurnSpan) = {} THEN {}
     ELSE Unless(flags.allowActiveChurn, "ACTIVE_CHURN", "HIGH"))
  \union
  (IF ~wasabi \/ Young(targets, now, WasabiSpan) = {} THEN {}
     ELSE Unless(flags.forceWasabiEarlyDelete, "HIGH_WASABI_RETENTION_RISK", "HIGH"))

\* slip: the tags are read and nothing is made of them
AssessmentUntagged(answers, targets, now, wasabi, flags) ==
  LockFindings(answers.lock, flags) \union ReplicationFindings(answers.replication, flags)
    \union PrefixFindings(targets) \union AgeFindings(targets, now, wasabi, flags)

Assessment(answers, targets, now, wasabi, flags) ==
  LockFindings(answers.lock, flags) \union ReplicationFindings(answers.replication, flags)
    \union TagFindings(answers.tags) \union PrefixFindings(targets)
    \union AgeFindings(targets, now, wasabi, flags)

Risky(findings, risk) == \E f \in findings : f.risk = risk
IsBlocked(findings) == Risky(findings, "CRITICAL_BLOCKED")

=============================================================================
