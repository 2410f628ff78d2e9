------------------------------ MODULE PlanFile ------------------------------
(***************************************************************************)
(* src/planner/plan.ts and jcs.ts: what createPlan writes, what            *)
(* validatePlan makes of a file, and the hash that ties a plan to its      *)
(* targets.  Entries are ids, sorted in the file, so a set stands for      *)
(* their list; a hash is the payload it was computed of; totals, costs and *)
(* the audit copied into the plan are left out.                            *)
(***************************************************************************)
EXTENDS Integers

\* the hashes in a file: one or none
NoHash == {}

\* slip: the versions to delete are left out of the hash
PayloadOfUploads(plan) ==
  [bucket |-> plan.bucket, olderThanDays |-> plan.olderThanDays, uploads |-> plan.uploads]

(* Neither timestamps nor the endpoint are part of it.                     *)
Payload(plan) ==
  [bucket |-> plan.bucket, olderThanDays |-> plan.olderThanDays, uploads |-> plan.uploads,
   versions |-> plan.versions]

\* computePlanHash over whatever is there: the hash has no key
Sealed(plan) == [plan EXCEPT !.hash = {Payload(plan)}]

CreatePlan(bucket, endpoint, days, uploads, versions, stamp) ==
  Sealed([schema |-> "1.3", bucket |-> bucket, endpoint |-> endpoint, olderThanDays |-> days,
          uploads |-> uploads, versions |-> versions, stamp |-> stamp, hash |-> NoHash])

(* A 1.0 file and a 1.1 file with versions move up.                        *)
ValidatedSchema(plan) ==
  CASE plan.schema = "1.3" -> "1.3"
    [] plan.schema = "1.2" \/ plan.versions # {} -> "1.2"
    [] OTHER -> "1.1"

ValidatePlan(plan) == [plan EXCEPT !.schema = ValidatedSchema(plan)]

(* Only the schema of today has to have a hash.                            *)
Intact(plan) ==
  IF plan.hash = NoHash THEN plan.schema # "1.3" ELSE plan.hash = {Payload(plan)}

=============================================================================
