--------------------------- MODULE DestructiveRun ---------------------------
(***************************************************************************)
(* What a run that destroys data promises, whatever it destroys and        *)
(* however it goes about it: every planned item gets one verdict, once; a  *)
(* run that was refused has given none; and the certificate, if one could  *)
(* be written, comes after the last verdict and names exactly the items    *)
(* the run destroyed.                                                      *)
(***************************************************************************)
EXTENDS FiniteSets

CONSTANT Item

VARIABLES verdict,      \* what the run reports of each item
          certificate,  \* {} or the certified items
          over

runVars == <<verdict, certificate, over>>

Verdicts == {"destroyed", "skipped", "failed"}

RunInit ==
  /\ verdict = [i \in Item |-> "pending"]
  /\ certificate = {}
  /\ over = FALSE

Refuse ==
  /\ ~over
  /\ \A i \in Item : verdict[i] = "pending"
  /\ over' = TRUE
  /\ UNCHANGED <<verdict, certificate>>

\* some pending items are settled, the others keep what they have
Settle ==
  /\ ~over
  /\ \A i \in Item : verdict[i] # "pending" => verdict'[i] = verdict[i]
  /\ verdict' \in [Item -> Verdicts \cup {"pending"}]
  /\ UNCHANGED <<certificate, over>>

Conclude ==
  /\ ~over
  /\ \A i \in Item : verdict[i] # "pending"
  /\ certificate' \in {{}, {i \in Item : verdict[i] = "destroyed"}}
  /\ over' = TRUE
  /\ UNCHANGED verdict

RunNext == Refuse \/ Settle \/ Conclude

RunSpec == RunInit /\ [][RunNext]_runVars
=============================================================================
