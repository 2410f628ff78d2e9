---------------------------- MODULE BoundedPool ----------------------------
(***************************************************************************)
(* What createConcurrencyLimiter promises its callers, with no queue and   *)
(* no counter: a task asks for a slot, holds one of at most Concurrency    *)
(* slots while it runs, and gives it back exactly once.  A task waits only *)
(* when every slot is held, and a slot that is given back while tasks wait *)
(* passes to one of them in the same step: capacity is never left idle.    *)
(***************************************************************************)
EXTENDS Naturals, FiniteSets

CONSTANTS Task,        \* the functions handed to limit()
          Concurrency  \* the limiter's slots

VARIABLES waiting, holding, finished

poolVars == <<waiting, holding, finished>>

PoolInit ==
  /\ waiting = {}
  /\ holding = {}
  /\ finished = {}

Fresh(t) == t \notin waiting \cup holding \cup finished

RequestFree(t) ==
  /\ Fresh(t)
  /\ Cardinality(holding) < Concurrency
  /\ holding' = holding \cup {t}
  /\ UNCHANGED <<waiting, finished>>

RequestFull(t) ==
  /\ Fresh(t)
  /\ Cardinality(holding) = Concurrency
  /\ waiting' = waiting \cup {t}
  /\ UNCHANGED <<holding, finished>>

ReleaseIdle(t) ==
  /\ t \in holding
  /\ waiting = {}
  /\ holding' = holding \ {t}
  /\ finished' = finished \cup {t}
  /\ UNCHANGED waiting

ReleaseHandOver(t) ==
  /\ t \in holding
  /\ \E w \in waiting : /\ holding' = (holding \ {t}) \cup {w}
                        /\ waiting' = waiting \ {w}
  /\ finished' = finished \cup {t}

PoolNext ==
  \E t \in Task : \/ RequestFree(t)
                  \/ RequestFull(t)
                  \/ ReleaseIdle(t)
                  \/ ReleaseHandOver(t)

PoolSpec == PoolInit /\ [][PoolNext]_poolVars
=============================================================================
