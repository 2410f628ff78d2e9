--------------------------- MODULE MutationBudget ---------------------------
(***************************************************************************)
(* src/safety/mutation-budget.ts: the ceiling every plan meets before its  *)
(* first request.  A known, positive inventory allows a proportion of it,  *)
(* rounded down; an unknown one (0 here, as in the code's own fallback     *)
(* branch) allows a fixed number; the bypass flag allows anything.         *)
(* The percentage is an integer, so the product is exact.                  *)
(***************************************************************************)
EXTENDS Integers

CONSTANTS MaxPercent,           \* maxPercent, in percent: 5
          MaxAbsoluteFallback   \* maxAbsoluteFallback: 1000

ASSUME BudgetAssumption == MaxPercent \in Nat /\ MaxAbsoluteFallback \in Nat

MutationLimit(inventory) ==
  IF inventory > 0 THEN (inventory * MaxPercent) \div 100 ELSE MaxAbsoluteFallback

\* slip: a plan of limit + 1 items passes
WithinCeilingOffByOne(planned, inventory, bypass) ==
  bypass \/ planned <= MutationLimit(inventory) + 1

WithinCeiling(planned, inventory, bypass) ==
  bypass \/ planned <= MutationLimit(inventory)
=============================================================================
