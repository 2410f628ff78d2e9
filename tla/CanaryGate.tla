----------------------------- MODULE CanaryGate -----------------------------
(***************************************************************************)
(* src/safety/canary.ts, the choice of the sample: the oldest items of the *)
(* plan, those of equal age in the order of the plan (the sort is stable). *)
(***************************************************************************)
EXTENDS Integers, Sequences, FiniteSets

CONSTANTS Plan,      \* the items in the order of the plan
          Born,      \* initiated, or LastModified
          CanaryMax  \* maxCanaryCount, 10

Older(i, j) ==
  \/ Born[Plan[i]] < Born[Plan[j]]
  \/ Born[Plan[i]] = Born[Plan[j]] /\ i < j

RankOf(i) == Cardinality({j \in DOMAIN Plan : Older(j, i)}) + 1

SampleSize == IF CanaryMax < Len(Plan) THEN CanaryMax ELSE Len(Plan)

Sample ==
  [k \in 1..SampleSize |-> Plan[CHOOSE i \in DOMAIN Plan : RankOf(i) = k]]

InSample(item) == \E k \in 1..SampleSize : Sample[k] = item

(* remainingTargets: the others, in the order of the plan.                 *)
Rest == {i \in DOMAIN Plan : ~InSample(Plan[i])}

PlaceOf(i) == Cardinality({j \in Rest : j < i}) + 1

Others ==
  [k \in 1..Cardinality(Rest) |-> Plan[CHOOSE i \in Rest : PlaceOf(i) = k]]
=============================================================================
