---------------------------- MODULE MCCommandLine ----------------------------
(* An upload of today, a version of yesterday and one under a protected    *)
(* prefix, older; a bucket that is protected in one way, an owner who adds  *)
(* another; plans of Wasabi, carried out there, elsewhere or, by what       *)
(* --provider says, elsewhere as if there.                                  *)
EXTENDS CommandLine

\* no rule, a rule of tags, a disabled one, one that covers, with a ghost; others
Abort(ours, enabled, tagged) == [own |-> ours, aborts |-> TRUE, enabled |-> enabled, tagged |-> tagged]
Aws(rules) == [provider |-> "aws", rules |-> rules]
MCLifecycles ==
  {Aws({}), Aws({Abort(FALSE, TRUE, TRUE)}), Aws({Abort(TRUE, FALSE, FALSE)}),
   Aws({CleanRule, Abort(FALSE, TRUE, TRUE)})}
  \union {[provider |-> p, rules |-> {}] : p \in Providers \ {"aws"}}

MCBorn == [e \in Entry |-> CASE e = "u" -> 0 [] e = "v" -> -1 [] e = "p" -> -2]
MCContents == {{"u", "v"}, {"u", "p"}}

AllFlags ==
  [bypassGovernance |-> TRUE, acknowledgeReplication |-> TRUE,
   allowActiveChurn |-> TRUE, forceWasabiEarlyDelete |-> TRUE]
MCFlagSets == {AllFlags} \union {[AllFlags EXCEPT ![f] = FALSE] : f \in DOMAIN AllFlags}

MCRoutes ==
  {[endpoint |-> e, provider |-> "unset"] : e \in {"unset", "aws"}}
  \union {[endpoint |-> "aws", provider |-> "wasabi"]}

MCGuards ==
  {[NoAnswers EXCEPT !.lock = l] : l \in Locks \ {"unruled"}}
  \union {[NoAnswers EXCEPT !.replication = "active"], [NoAnswers EXCEPT !.tags = "protected"]}
=============================================================================
