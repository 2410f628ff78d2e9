-------------------------- MODULE MCAbortExecutor --------------------------
(* A plan of three uploads whose oldest is the last of the plan, and two   *)
(* slots: without the canary one upload queues behind two in flight, with  *)
(* it two are in flight after the sample.  Two flag settings pass the      *)
(* gates, the others fail one gate each.  Two errors in a window of two    *)
(* open the breaker.                                                       *)
EXTENDS AbortExecutor, TLC

CONSTANTS u1, u2, u3

MCUpload == {u1, u2, u3}
MCPlan == <<u1, u2, u3>>
MCInitiated == (u1 :> 2) @@ (u2 :> 3) @@ (u3 :> 1)
MCYoung == {u2}

Flags(confirm, wasabi, force, inventory, bypass, skipCanary) ==
  [confirm |-> confirm, wasabi |-> wasabi, force |-> force,
   inventory |-> inventory, bypass |-> bypass, skipCanary |-> skipCanary]

MCOptions ==
  {Flags(TRUE, FALSE, FALSE, 60, FALSE, FALSE),   \* 5 % of 60 is 3: allowed
   Flags(TRUE, TRUE, TRUE, 0, TRUE, TRUE),        \* forced, bypassed, no canary
   Flags(FALSE, FALSE, FALSE, 60, FALSE, FALSE),  \* no --confirm
   Flags(TRUE, TRUE, FALSE, 60, FALSE, FALSE),    \* Wasabi's 90 days
   Flags(TRUE, FALSE, FALSE, 59, FALSE, FALSE),   \* 5 % of 59 is 2: too many
   Flags(TRUE, FALSE, FALSE, 0, FALSE, FALSE)}    \* unknown: fallback is 2

MCErrorClasses == {{}, {"denied"}, {"throttle"}}
MCRetryable == {{"throttle"}}

\* outcomes are 0 and 1, which are floats
MCFloat32 == [x \in 0..Scale |-> x]
=============================================================================
