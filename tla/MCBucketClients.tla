--------------------------- MODULE MCBucketClients ---------------------------
(* The commands of one bucket, on its lifecycle rules and on its entries.  *)
(* No step of either reads or writes what the other keeps, so that one     *)
(* instance checks them next to each other: a behaviour is of one part,    *)
(* the state of the other rests.                                           *)
(* Rules: two operators, two versions of the guardian's rule, two rules of *)
(* others, one policy.  Entries: two keys on pages of two; data under      *)
(* data, a key deleted over data, stacked delete markers, plain uploads.   *)
EXTENDS LifecycleUndo, BucketScan, TLC

CONSTANTS o1, o2, d7, d14, x, y

VARIABLE part

MCOperator == {o1, o2}
MCPolicies == {{x, y}}
MCSymmetry == Permutations(MCOperator)

Data(k, i) == [key |-> k, id |-> i, data |-> TRUE]
Mark(k, i) == [key |-> k, id |-> i, data |-> FALSE]

MCContents ==
  { {Data(1, 1), Data(1, 4), Data(2, 2), Mark(2, 3), Data(2, 5)},
    {Data(1, 1), Data(1, 2), Mark(1, 3), Mark(2, 4), Mark(2, 5)},
    {Data(1, 1), Data(1, 2), Data(1, 3), Data(2, 4), Data(2, 5)} }

ScanRests ==
  /\ entries = {} /\ kind = "uploads" /\ gives = TRUE /\ scanning = "off"
  /\ marker = Start /\ pages = << >> /\ todo = {} /\ done = {}
  /\ scanWrites = 0 /\ stable = {} /\ uncovered = {}

MCInit ==
  \/ part = "rules" /\ RulesInit /\ ScanRests
  \/ part = "entries" /\ RulesInit /\ live = {} /\ ScanInit

MCNext ==
  \/ part = "rules" /\ RulesNext /\ UNCHANGED <<part, scanVars>>
  \/ part = "entries" /\ ScanNext /\ UNCHANGED <<part, rulesVars>>

MCSpec == MCInit /\ [][MCNext]_<<part, rulesVars, scanVars>>
=============================================================================
