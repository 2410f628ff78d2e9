------------------------ MODULE ConcurrencyLimiter -------------------------
(***************************************************************************)
(* src/utils/concurrency.ts: the closure createConcurrencyLimiter returns, *)
(* run by every task the executors, the scanners and the fleet sweep map   *)
(* over their targets.                                                     *)
(*                                                                         *)
(* JavaScript runs one task at a time and switches only at an await, so a  *)
(* step here is the code between two awaits: the call up to the queue push *)
(* or up to the first await of fn, the resumption of a queued call, and    *)
(* the finally block.  A queued call whose promise resumeNext has resolved *)
(* continues in a later microtask: until then it is "woken", it owns a     *)
(* slot and runs nothing.                                                  *)
(***************************************************************************)
EXTENDS Integers, Sequences, FiniteSets

CONSTANTS Task,        \* the calls limit(fn) made on one limiter
          Concurrency  \* the argument of createConcurrencyLimiter

\* The constructor throws for a concurrency below 1.
ASSUME ConcurrencyAssumption == Concurrency \in Nat \ {0}
ASSUME TaskAssumption == IsFiniteSet(Task)

VARIABLES pc,          \* where each call is
          activeCount, \* the closure's counter
          queue        \* the resolvers of the waiting calls, oldest first

vars == <<pc, activeCount, queue>>

PC == {"idle", "queued", "woken", "running", "fulfilled", "rejected"}

Init ==
  /\ pc = [t \in Task |-> "idle"]
  /\ activeCount = 0
  /\ queue = <<>>

-----------------------------------------------------------------------------
(* Slips a change to the closure could make; the mutation runs put them in *)
(* the place of the action they are named after.                           *)

\* the slot is given back and the next call woken without counting it again
FinishHandOverUncounted(t, how) ==
  /\ pc[t] = "running"
  /\ queue # <<>>
  /\ pc' = [pc EXCEPT ![t] = how, ![Head(queue)] = "woken"]
  /\ activeCount' = activeCount - 1
  /\ queue' = Tail(queue)

\* resumeNext runs after the await instead of in finally: not on a rejection
FinishHandOverOnSuccessOnly(t, how) ==
  /\ pc[t] = "running"
  /\ queue # <<>>
  /\ IF how = "fulfilled"
       THEN /\ pc' = [pc EXCEPT ![t] = how, ![Head(queue)] = "woken"]
            /\ queue' = Tail(queue)
            /\ UNCHANGED activeCount
       ELSE /\ pc' = [pc EXCEPT ![t] = how]
            /\ UNCHANGED <<activeCount, queue>>

\* the queue is used as a stack: queue.pop() for queue.shift()
FinishHandOverNewest(t, how) ==
  /\ pc[t] = "running"
  /\ queue # <<>>
  /\ pc' = [pc EXCEPT ![t] = how, ![queue[Len(queue)]] = "woken"]
  /\ queue' = SubSeq(queue, 1, Len(queue) - 1)
  /\ UNCHANGED activeCount

-----------------------------------------------------------------------------
(* limit(fn), first branch: no slot is free, the call parks its resolver.  *)
Enqueue(t) ==
  /\ pc[t] = "idle"
  /\ activeCount >= Concurrency
  /\ pc' = [pc EXCEPT ![t] = "queued"]
  /\ queue' = Append(queue, t)
  /\ UNCHANGED activeCount

(* limit(fn), second branch: a slot is free, fn starts synchronously.      *)
StartNow(t) ==
  /\ pc[t] = "idle"
  /\ activeCount < Concurrency
  /\ pc' = [pc EXCEPT ![t] = "running"]
  /\ activeCount' = activeCount + 1
  /\ UNCHANGED queue

(* The awaited promise of a queued call has been resolved: fn starts.      *)
Resume(t) ==
  /\ pc[t] = "woken"
  /\ pc' = [pc EXCEPT ![t] = "running"]
  /\ UNCHANGED <<activeCount, queue>>

Settled == {"fulfilled", "rejected"}

(* fn settles either way; the finally block runs resumeNext.               *)
FinishIdle(t, how) ==
  /\ pc[t] = "running"
  /\ queue = <<>>
  /\ pc' = [pc EXCEPT ![t] = how]
  /\ activeCount' = activeCount - 1
  /\ UNCHANGED queue

FinishHandOver(t, how) ==
  /\ pc[t] = "running"
  /\ queue # <<>>
  /\ pc' = [pc EXCEPT ![t] = how, ![Head(queue)] = "woken"]
  /\ activeCount' = (activeCount - 1) + 1
  /\ queue' = Tail(queue)

Finish(t) == \E how \in Settled : FinishIdle(t, how) \/ FinishHandOver(t, how)

Submit(t) == Enqueue(t) \/ StartNow(t)

Next == \E t \in Task : Submit(t) \/ Resume(t) \/ Finish(t)

Spec == Init /\ [][Next]_vars

(* The event loop runs every resolved continuation, and every fn the code  *)
(* hands over settles: S3 calls time out and withRetry is bounded.  Nobody *)
(* owes the limiter a call, so Submit has no fairness.                     *)
Fairness == \A t \in Task : WF_vars(Resume(t)) /\ WF_vars(Finish(t))

FairSpec == Spec /\ Fairness

-----------------------------------------------------------------------------
Holders == {t \in Task : pc[t] \in {"woken", "running"}}
Running == {t \in Task : pc[t] = "running"}
Waiters == {t \in Task : pc[t] = "queued"}
Done    == {t \in Task : pc[t] \in Settled}

(* Every variable has its type; the queue holds only calls.                *)
TypeOK ==
  /\ pc \in [Task -> PC]
  /\ activeCount \in 0..Concurrency
  /\ queue \in Seq(Task)

(* The counter the closure compares with its limit is the number of slots  *)
(* owned: by a running call or by one resolved and not yet resumed.        *)
CountExact == activeCount = Cardinality(Holders)

(* No more than Concurrency functions run at once (the doc comment of      *)
(* createConcurrencyLimiter), whatever the interleaving of submissions,    *)
(* resumptions and completions.                                            *)
SlotBound == Cardinality(Running) <= Concurrency

(* No call waits while a slot is free: the finally block of a rejected     *)
(* call hands its slot over like that of a fulfilled one.                  *)
WorkConserving == Waiters # {} => Cardinality(Holders) = Concurrency

(* The queue is the waiting calls, each parked once: no resolver is lost   *)
(* and none is called twice.                                               *)
QueueExact ==
  /\ \A i, j \in 1..Len(queue) : queue[i] = queue[j] => i = j
  /\ Waiters = {queue[i] : i \in 1..Len(queue)}

(* Slots are granted in the order of the calls: a call is woken or starts  *)
(* at once only when no older call is still parked.                        *)
Granted(t) == pc[t] \in {"idle", "queued"} /\ pc'[t] \in {"woken", "running"}

NoOvertaking ==
  [][\A t \in Task : Granted(t) => queue = <<>> \/ Head(queue) = t]_vars

(* Every call that is made settles, parked or not.                         *)
EveryCallSettles == \A t \in Task : pc[t] = "queued" ~> pc[t] \in Settled

(* The limiter implements the abstract pool of slots.                      *)
Pool == INSTANCE BoundedPool
          WITH waiting <- Waiters, holding <- Holders, finished <- Done

PoolRefined == Pool!PoolSpec

=============================================================================
