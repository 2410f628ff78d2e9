--------------------------- MODULE LifecycleAudit ---------------------------
(***************************************************************************)
(* src/lifecycle/audit.ts: what auditBucketLifecycle concludes from the    *)
(* lifecycle rules of a bucket, and which buckets `remediate` then takes   *)
(* for its own.  S3 ignores the tags in the filter of a rule that aborts   *)
(* uploads, which makes a ghost of it; MinIO, Ceph and R2 are not asked.   *)
(* Prefixes, days and the warnings are left out.                           *)
(***************************************************************************)
EXTENDS Naturals

Rule == [own : BOOLEAN, aborts : BOOLEAN, enabled : BOOLEAN, tagged : BOOLEAN]
CleanRule == [own |-> TRUE, aborts |-> TRUE, enabled |-> TRUE, tagged |-> FALSE]
Providers == {"aws", "unasked", "r2", "unread"}

AbortRules(rules) == {r \in rules : r.aborts}

(* "unread" is a bucket that the sweep could not audit at all.             *)
Audited(found) == {b \in DOMAIN found : found[b].provider # "unread"}

Audit(b) ==
  CASE b.provider = "unasked" -> [policy |-> FALSE, covering |-> FALSE, ghosts |-> FALSE, noted |-> TRUE]
    [] b.provider = "r2"      -> [policy |-> TRUE, covering |-> TRUE, ghosts |-> FALSE, noted |-> TRUE]
    [] OTHER ->
         [policy   |-> b.rules # {},
          covering |-> \E r \in AbortRules(b.rules) : r.enabled /\ ~r.tagged,
          ghosts   |-> \E r \in AbortRules(b.rules) : r.tagged,
          noted    |-> FALSE]

(* What --fail-on-unprotected counts, and what remediate works on.         *)
Bare(found) == {b \in Audited(found) : ~Audit(found[b]).covering /\ ~Audit(found[b]).noted}
Eligible(found) == {b \in Audited(found) : ~Audit(found[b]).covering \/ Audit(found[b]).ghosts}

(* The rule of the guardian takes the place of the one it put before.      *)
Remediated(b) == [b EXCEPT !.rules = {r \in @ : ~r.own} \union {CleanRule}]
=============================================================================
