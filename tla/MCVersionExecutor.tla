------------------------- MODULE MCVersionExecutor -------------------------
(* Three versions, the oldest of which is the last of the plan, in batches *)
(* of two after a canary of two or none.  v2 has the version id "null".    *)
(* One throttle burst, one cliff of 403s, one 400 or a window of two bad   *)
(* batches opens the breaker; a caller may pass one in that is OPEN.       *)
EXTENDS VersionExecutor, TLC

CONSTANTS v1, v2, v3

MCVersion == {v1, v2, v3}
MCPlan == <<v1, v2, v3>>
MCModified == (v1 :> 2) @@ (v2 :> 3) @@ (v3 :> 1)
MCYoung == {v2}
MCUnversioned == {v2, v3}
MCCaller == {Trip(NewBreaker, 0)}

Flags(confirm, wasabi, force, inventory, bypass, skipCanary) ==
  [confirm |-> confirm, wasabi |-> wasabi, force |-> force,
   inventory |-> inventory, bypass |-> bypass, skipCanary |-> skipCanary]

MCOptions ==
  {Flags(TRUE, FALSE, FALSE, 60, FALSE, FALSE),   \* 5 % of 60 is 3: allowed
   Flags(TRUE, TRUE, TRUE, 0, TRUE, TRUE),        \* forced, bypassed, no canary
   Flags(FALSE, FALSE, FALSE, 60, FALSE, FALSE),  \* no --confirm
   Flags(TRUE, TRUE, FALSE, 60, FALSE, FALSE),    \* Wasabi's 90 days
   Flags(TRUE, FALSE, FALSE, 59, FALSE, FALSE),   \* 5 % of 59 is 2: too many
   Flags(TRUE, FALSE, FALSE, 0, FALSE, FALSE)}    \* unknown: fallback is 2

MCCodes == {"SlowDown", "AccessDenied", "InternalError", "BadDigest"}
MCErrorClasses == {{}, {"denied"}, {"throttle"}}

\* ratios of batches of two are floats
MCFloat32 == [x \in 0..Scale |-> x]
=============================================================================
