-------------------------- MODULE MCCircuitBreaker --------------------------
(* Two callers, so that an answer can be late; a window of three samples   *)
(* with a threshold of 60 %, so that one error in three is tolerated and   *)
(* two are not; batches of three, whose ratios 1/3 and 2/3 no float holds, *)
(* one rounded down and one up; a cooldown and a throttle span of two      *)
(* units, equal as in the code (5000 ms each).                             *)
EXTENDS CircuitBreaker, TLC

MCErrorClasses ==
  {{}, {"denied"}, {"throttle"}, {"integrity"}, {"denied", "throttle"}}

MCFloat32 == [x \in 0..Scale |-> CASE x = 3 -> 2 [] x = 6 -> 7 [] OTHER -> x]

(* Callers differ only in name. *)
MCSymmetry == Permutations(Caller)
=============================================================================
