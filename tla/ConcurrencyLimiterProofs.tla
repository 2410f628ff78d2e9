---------------------- MODULE ConcurrencyLimiterProofs ----------------------
(***************************************************************************)
(* The limiter for every finite set of calls and every limit of at least   *)
(* one: its counter is exact, its queue is exactly the parked calls, it    *)
(* never runs more than Concurrency functions, never idles a slot while a  *)
(* call waits, and it implements the abstract pool.                        *)
(*                                                                         *)
(* SlotBound is not inductive: FinishHandOver keeps the counter and wakes  *)
(* the head of the queue, so the bound needs the counter to be exact and   *)
(* the head to be a parked call, distinct from every slot holder.  IInv is *)
(* the conjunction; each action lemma says what the action does to the     *)
(* three sets the refinement mapping is made of.                           *)
(***************************************************************************)
EXTENDS ConcurrencyLimiter, FiniteSetTheorems, SequenceTheorems, TLAPS

IInv == TypeOK /\ CountExact /\ QueueExact /\ WorkConserving

-----------------------------------------------------------------------------
(* The slot holders are a finite set: Cardinality counts them.             *)
LEMMA HoldersFinite == IsFiniteSet(Holders) /\ Cardinality(Holders) \in Nat
<1>1. Holders \in SUBSET Task
  BY DEF Holders
<1>2. IsFiniteSet(Holders)
  BY <1>1, TaskAssumption, FS_Subset
<1>3. QED
  BY <1>2, FS_CardinalityType

(* The head of a nonempty queue is a parked call.                          *)
LEMMA HeadParked ==
  ASSUME TypeOK, QueueExact, queue # <<>>
  PROVE  /\ Head(queue) \in Waiters
         /\ Head(queue) = queue[1]
         /\ Len(queue) \in Nat \ {0}
<1>1. Len(queue) \in Nat \ {0}
  BY EmptySeq DEF TypeOK
<1>2. Head(queue) = queue[1]
  BY DEF TypeOK
<1>3. QED
  BY <1>1, <1>2 DEF QueueExact

(* An empty queue means that no call is parked.                            *)
LEMMA EmptyQueueNoWaiters ==
  ASSUME QueueExact, queue = <<>>
  PROVE  Waiters = {}
<1>1. Len(queue) = 0
  BY EmptySeq
<1>2. QED
  BY <1>1 DEF QueueExact

(* Enqueue parks a call at the end of the queue, holders untouched.        *)
LEMMA EnqueueStep ==
  ASSUME IInv, NEW t \in Task, Enqueue(t)
  PROVE  /\ TypeOK' /\ QueueExact'
         /\ Holders' = Holders /\ Done' = Done
         /\ Waiters' = Waiters \cup {t}
         /\ t \notin Waiters \cup Holders \cup Done
<1> USE DEF IInv
<1>1. /\ Append(queue, t) \in Seq(Task)
      /\ Len(queue) \in Nat
      /\ Len(queue') = Len(queue) + 1
      /\ \A i \in 1..Len(queue) : queue'[i] = queue[i]
      /\ queue'[Len(queue) + 1] = t
  BY AppendProperties, LenProperties DEF TypeOK, Enqueue
<1>2. TypeOK'
  BY <1>1 DEF TypeOK, Enqueue, PC
<1>3. /\ Holders' = Holders /\ Done' = Done
      /\ Waiters' = Waiters \cup {t}
      /\ t \notin Waiters \cup Holders \cup Done
  BY DEF Holders, Done, Waiters, Settled, TypeOK, Enqueue
<1>4. QueueExact'
  <2>1. \A i \in 1..Len(queue) : queue[i] \in Waiters
    BY DEF QueueExact
  <2>2. \A i \in 1..Len(queue) : queue'[i] # t
    BY <1>1, <1>3, <2>1
  <2>3. \A i, j \in 1..Len(queue)' : queue'[i] = queue'[j] => i = j
    BY <1>1, <2>2 DEF QueueExact
  <2>4. Waiters' = {queue'[i] : i \in 1..Len(queue')}
    BY <1>1, <1>3 DEF QueueExact
  <2>5. QED
    BY <2>3, <2>4 DEF QueueExact
<1>5. QED
  BY <1>2, <1>3, <1>4

(* StartNow adds one holder and touches no parked call.                    *)
LEMMA StartNowStep ==
  ASSUME IInv, NEW t \in Task, StartNow(t)
  PROVE  /\ TypeOK' /\ QueueExact'
         /\ Holders' = Holders \cup {t}
         /\ Waiters' = Waiters /\ Done' = Done
         /\ t \notin Waiters \cup Holders \cup Done
<1> USE DEF IInv
<1>1. TypeOK'
  BY ConcurrencyAssumption DEF TypeOK, StartNow, PC
<1>2. /\ Holders' = Holders \cup {t}
      /\ Waiters' = Waiters /\ Done' = Done
      /\ t \notin Waiters \cup Holders \cup Done
  BY DEF Holders, Done, Waiters, Settled, TypeOK, StartNow
<1>3. QueueExact'
  BY <1>2 DEF QueueExact, StartNow
<1>4. QED
  BY <1>1, <1>2, <1>3

(* Resume only moves a holder from woken to running.                       *)
LEMMA ResumeStep ==
  ASSUME IInv, NEW t \in Task, Resume(t)
  PROVE  /\ TypeOK' /\ QueueExact'
         /\ Holders' = Holders /\ Waiters' = Waiters /\ Done' = Done
<1> USE DEF IInv
<1>1. TypeOK'
  BY DEF TypeOK, Resume, PC
<1>2. Holders' = Holders /\ Waiters' = Waiters /\ Done' = Done
  BY DEF Holders, Done, Waiters, Settled, TypeOK, Resume
<1>3. QueueExact'
  BY <1>2 DEF QueueExact, Resume
<1>4. QED
  BY <1>1, <1>2, <1>3

(* With an empty queue, finishing frees one slot.                          *)
LEMMA FinishIdleStep ==
  ASSUME IInv, NEW t \in Task, NEW how \in Settled, FinishIdle(t, how)
  PROVE  /\ TypeOK' /\ QueueExact'
         /\ t \in Holders /\ Holders' = Holders \ {t}
         /\ Waiters = {} /\ Waiters' = {}
         /\ Done' = Done \cup {t}
<1> USE DEF IInv
<1>1. t \in Holders
  BY DEF FinishIdle, Holders
<1>2. activeCount # 0
  BY <1>1, HoldersFinite, FS_EmptySet DEF CountExact
<1>3. TypeOK'
  BY <1>2, ConcurrencyAssumption DEF TypeOK, FinishIdle, PC, Settled
<1>4. Holders' = Holders \ {t} /\ Waiters' = Waiters /\ Done' = Done \cup {t}
  BY DEF Holders, Done, Waiters, Settled, TypeOK, FinishIdle
<1>5. Waiters = {}
  BY EmptyQueueNoWaiters DEF FinishIdle
<1>6. QueueExact'
  BY <1>4 DEF QueueExact, FinishIdle
<1>7. QED
  BY <1>1, <1>3, <1>4, <1>5, <1>6

(* With a parked call, finishing passes the slot to the head of the queue. *)
LEMMA FinishHandOverStep ==
  ASSUME IInv, NEW t \in Task, NEW how \in Settled, FinishHandOver(t, how)
  PROVE  /\ TypeOK' /\ QueueExact'
         /\ t \in Holders
         /\ Head(queue) \in Waiters
         /\ Head(queue) \notin Holders
         /\ Holders' = (Holders \ {t}) \cup {Head(queue)}
         /\ Waiters' = Waiters \ {Head(queue)}
         /\ Done' = Done \cup {t}
<1> USE DEF IInv
<1> DEFINE h == Head(queue)
<1>1. queue # <<>> /\ pc[t] = "running"
  BY DEF FinishHandOver
<1>2. h \in Waiters /\ h = queue[1] /\ Len(queue) \in Nat \ {0}
  BY <1>1, HeadParked
<1>3. h \in Task /\ pc[h] = "queued" /\ h # t
  BY <1>1, <1>2 DEF Waiters
<1>4. /\ Tail(queue) \in Seq(Task)
      /\ Len(queue') = Len(queue) - 1
      /\ \A i \in 1..Len(queue') : queue'[i] = queue[i + 1]
  BY <1>1, HeadTailProperties DEF TypeOK, FinishHandOver
<1>5. pc' = [pc EXCEPT ![t] = how, ![h] = "woken"]
  BY DEF FinishHandOver
<1> HIDE DEF h
<1>6. TypeOK'
  BY <1>4, <1>5 DEF TypeOK, FinishHandOver, PC, Settled
<1>7. /\ t \in Holders /\ h \notin Holders
      /\ Holders' = (Holders \ {t}) \cup {h}
      /\ Waiters' = Waiters \ {h}
      /\ Done' = Done \cup {t}
  BY <1>1, <1>3, <1>5 DEF Holders, Done, Waiters, Settled, TypeOK
<1>8. QueueExact'
  <2>1. \A i, j \in 1..Len(queue') : queue'[i] = queue'[j] => i = j
    BY <1>2, <1>4 DEF QueueExact
  <2>2. \A i \in 2..Len(queue) : queue[i] # h
    BY <1>2 DEF QueueExact
  <2>3. Waiters \ {h} = {queue[i] : i \in 2..Len(queue)}
    BY <1>2, <2>2 DEF QueueExact
  <2>4. {queue[i] : i \in 2..Len(queue)} = {queue'[i] : i \in 1..Len(queue')}
    <3>1. ASSUME NEW i \in 2..Len(queue)
          PROVE  i - 1 \in 1..Len(queue') /\ queue'[i - 1] = queue[i]
      BY <1>2, <1>4
    <3>2. ASSUME NEW i \in 1..Len(queue')
          PROVE  i + 1 \in 2..Len(queue) /\ queue[i + 1] = queue'[i]
      BY <1>2, <1>4
    <3>3. QED
      BY <3>1, <3>2
  <2>5. QED
    BY <1>7, <2>1, <2>3, <2>4 DEF QueueExact
<1>9. QED
  BY <1>2, <1>6, <1>7, <1>8 DEF h

-----------------------------------------------------------------------------
(* The counter follows the holders, and no slot is idle while calls wait:  *)
(* the numeric half of the inductive invariant, preserved by every step.   *)
LEMMA CountStep ==
  ASSUME IInv, NEW t \in Task, Submit(t) \/ Resume(t) \/ Finish(t)
  PROVE  IInv'
<1> USE HoldersFinite, ConcurrencyAssumption
<1>0. /\ activeCount = Cardinality(Holders)
      /\ activeCount \in 0..Concurrency
      /\ Waiters # {} => activeCount = Concurrency
  BY DEF IInv, CountExact, TypeOK, WorkConserving
<1>1. CASE Enqueue(t)
  <2>1. activeCount' = Cardinality(Holders')
    BY <1>0, <1>1, EnqueueStep DEF Enqueue
  <2>2. activeCount' = Concurrency
    BY <1>0, <1>1 DEF Enqueue
  <2>3. QED
    BY <1>1, <2>1, <2>2, EnqueueStep DEF IInv, CountExact, WorkConserving
<1>2. CASE StartNow(t)
  <2>0. Waiters = {}
    BY <1>0, <1>2 DEF StartNow
  <2>1. Waiters' = {}
    BY <1>2, <2>0, StartNowStep
  <2>2. Cardinality(Holders') = Cardinality(Holders) + 1
    BY <1>2, StartNowStep, FS_AddElement
  <2>3. QED
    BY <1>0, <1>2, <2>1, <2>2, StartNowStep
       DEF IInv, CountExact, WorkConserving, StartNow
<1>3. CASE Resume(t)
  BY <1>0, <1>3, ResumeStep DEF IInv, CountExact, WorkConserving, Resume
<1>4. CASE Finish(t)
  <2> PICK how \in Settled : FinishIdle(t, how) \/ FinishHandOver(t, how)
    BY <1>4 DEF Finish
  <2>1. CASE FinishIdle(t, how)
    <3>1. Cardinality(Holders') = Cardinality(Holders) - 1
      BY <2>1, FinishIdleStep, FS_RemoveElement
    <3>2. QED
      BY <1>0, <2>1, <3>1, FinishIdleStep
         DEF IInv, CountExact, WorkConserving, FinishIdle
  <2>2. CASE FinishHandOver(t, how)
    <3>1. Cardinality(Holders \ {t}) = Cardinality(Holders) - 1
          /\ IsFiniteSet(Holders \ {t})
      BY <2>2, FinishHandOverStep, FS_RemoveElement
    <3>2. Cardinality(Holders') = Cardinality(Holders)
      BY <2>2, <3>1, FinishHandOverStep, FS_AddElement
    <3>3. Waiters # {}
      BY <2>2, FinishHandOverStep
    <3>4. activeCount' = activeCount /\ activeCount = Concurrency
      BY <1>0, <2>2, <3>3 DEF FinishHandOver
    <3>5. TypeOK' /\ QueueExact'
      BY <2>2, FinishHandOverStep
    <3>6. QED
      BY <1>0, <3>2, <3>4, <3>5 DEF IInv, CountExact, WorkConserving
  <2>3. QED
    BY <2>1, <2>2
<1>5. QED
  BY <1>1, <1>2, <1>3, <1>4 DEF Submit

LEMMA InitIInv == Init => IInv
<1> SUFFICES ASSUME Init PROVE IInv
  OBVIOUS
<1>1. Holders = {} /\ Waiters = {} /\ queue = <<>>
  BY DEF Init, Holders, Waiters
<1>2. Cardinality(Holders) = 0
  BY <1>1, FS_EmptySet
<1>3. TypeOK
  BY ConcurrencyAssumption, EmptySeq DEF Init, TypeOK, PC
<1>4. QueueExact
  BY <1>1, EmptySeq DEF QueueExact
<1>5. QED
  BY <1>1, <1>2, <1>3, <1>4 DEF Init, IInv, CountExact, WorkConserving

LEMMA NextIInv == IInv /\ [Next]_vars => IInv'
<1> SUFFICES ASSUME IInv, [Next]_vars PROVE IInv'
  OBVIOUS
<1>1. CASE Next
  BY <1>1, CountStep DEF Next
<1>2. CASE UNCHANGED vars
  BY <1>2 DEF vars, IInv, TypeOK, CountExact, QueueExact, WorkConserving,
              Holders, Waiters
<1>3. QED
  BY <1>1, <1>2

(* The inductive invariant holds in every reachable state of the limiter.  *)
THEOREM LimiterInvariant == Spec => []IInv
  BY InitIInv, NextIInv, PTL DEF Spec

(* The closure's variables keep their types, the counter its range.        *)
THEOREM LimiterTypeCorrect == Spec => []TypeOK
<1>1. IInv => TypeOK
  BY DEF IInv
<1>2. QED
  BY <1>1, LimiterInvariant, PTL

(* However many calls are made and in whatever order they settle, at most  *)
(* Concurrency of the functions handed to the limiter run at once.         *)
THEOREM LimiterSlotBound == Spec => []SlotBound
<1>1. IInv => SlotBound
  <2> SUFFICES ASSUME IInv PROVE SlotBound
    OBVIOUS
  <2>1. Running \in SUBSET Holders
    BY DEF Running, Holders
  <2>2. IsFiniteSet(Running) /\ Cardinality(Running) <= Cardinality(Holders)
    BY <2>1, HoldersFinite, FS_Subset
  <2>3. Cardinality(Running) \in Nat
    BY <2>2, FS_CardinalityType
  <2>4. QED
    BY <2>2, <2>3, HoldersFinite, ConcurrencyAssumption
       DEF IInv, TypeOK, CountExact, SlotBound
<1>2. QED
  BY <1>1, LimiterInvariant, PTL

(* A call waits in the queue only while every slot is owned.               *)
THEOREM LimiterWorkConserving == Spec => []WorkConserving
<1>1. IInv => WorkConserving
  BY DEF IInv
<1>2. QED
  BY <1>1, LimiterInvariant, PTL

(* Slots are granted in the order of the calls: nobody who calls limit()   *)
(* later starts or is woken while an older call is parked.                 *)
THEOREM LimiterNoOvertaking == Spec => NoOvertaking
<1>1. ASSUME IInv, Next
      PROVE  \A t \in Task : Granted(t) => queue = <<>> \/ Head(queue) = t
  <2> SUFFICES ASSUME NEW t \in Task, Granted(t), queue # <<>>
               PROVE  Head(queue) = t
    OBVIOUS
  <2>1. PICK s \in Task : Submit(s) \/ Resume(s) \/ Finish(s)
    BY <1>1 DEF Next
  <2>2. pc \in [Task -> PC] /\ Head(queue) \in Waiters
    BY <1>1, HeadParked DEF IInv, TypeOK
  <2>3. CASE Enqueue(s)
    BY <2>2, <2>3 DEF Enqueue, Granted
  <2>4. CASE StartNow(s)
    <3>1. activeCount # Concurrency
      BY <2>4, ConcurrencyAssumption DEF StartNow
    <3>2. Waiters = {}
      BY <1>1, <3>1 DEF IInv, CountExact, WorkConserving
    <3>3. QED
      BY <2>2, <3>2
  <2>5. CASE Resume(s)
    BY <2>2, <2>5 DEF Resume, Granted
  <2>6. ASSUME NEW how \in Settled, FinishIdle(s, how)
        PROVE  Head(queue) = t
    BY <2>6 DEF FinishIdle
  <2>7. ASSUME NEW how \in Settled, FinishHandOver(s, how)
        PROVE  Head(queue) = t
    BY <2>2, <2>7 DEF FinishHandOver, Granted, Settled, Waiters
  <2>8. QED
    BY <2>1, <2>3, <2>4, <2>5, <2>6, <2>7 DEF Submit, Finish
<1>2. IInv /\ [Next]_vars =>
        [\A t \in Task : Granted(t) => queue = <<>> \/ Head(queue) = t]_vars
  BY <1>1
<1>3. QED
  BY <1>2, LimiterInvariant, PTL DEF Spec, NoOvertaking

(* The pool counts with the same Cardinality as the limiter.               *)
LEMMA PoolCardinality ==
  ASSUME NEW S
  PROVE  Pool!Cardinality(S) = Cardinality(S)
  BY DEF Pool!Cardinality, Cardinality

(* The closure implements the abstract pool: each step of a call is one of *)
(* the pool's requests or releases, and resuming a woken call is invisible *)
(* to it.                                                                  *)
THEOREM LimiterImplementsPool == Spec => PoolRefined
<1>1. Init => Pool!PoolInit
  BY DEF Init, Pool!PoolInit, Waiters, Holders, Done, Settled
<1>2. ASSUME IInv, [Next]_vars
      PROVE  [Pool!PoolNext]_(Pool!poolVars)
  <2> USE DEF Pool!poolVars
  <2>0. /\ activeCount = Cardinality(Holders)
        /\ activeCount \in 0..Concurrency
        /\ Waiters # {} => activeCount = Concurrency
    BY <1>2 DEF IInv, CountExact, TypeOK, WorkConserving
  <2>1. ASSUME NEW t \in Task, Enqueue(t)
        PROVE  Pool!RequestFull(t)
    <3>1. Cardinality(Holders) = Concurrency
      BY <2>0, <2>1, ConcurrencyAssumption DEF Enqueue
    <3>2. QED
      BY <1>2, <2>1, <3>1, EnqueueStep, PoolCardinality
         DEF Pool!RequestFull, Pool!Fresh
  <2>2. ASSUME NEW t \in Task, StartNow(t)
        PROVE  Pool!RequestFree(t)
    BY <1>2, <2>0, <2>2, StartNowStep, PoolCardinality
       DEF Pool!RequestFree, Pool!Fresh, StartNow
  <2>3. ASSUME NEW t \in Task, Resume(t)
        PROVE  UNCHANGED Pool!poolVars
    BY <1>2, <2>3, ResumeStep
  <2>4. ASSUME NEW t \in Task, NEW how \in Settled, FinishIdle(t, how)
        PROVE  Pool!ReleaseIdle(t)
    BY <1>2, <2>4, FinishIdleStep DEF Pool!ReleaseIdle
  <2>5. ASSUME NEW t \in Task, NEW how \in Settled, FinishHandOver(t, how)
        PROVE  Pool!ReleaseHandOver(t)
    BY <1>2, <2>5, FinishHandOverStep DEF Pool!ReleaseHandOver
  <2>6. CASE UNCHANGED vars
    BY <2>6 DEF vars, Waiters, Holders, Done
  <2>7. CASE Next
    BY <2>1, <2>2, <2>3, <2>4, <2>5, <2>7
       DEF Next, Submit, Finish, Pool!PoolNext
  <2>8. QED
    BY <1>2, <2>6, <2>7
<1>3. QED
  BY <1>1, <1>2, LimiterInvariant, PTL
     DEF Spec, PoolRefined, Pool!PoolSpec
=============================================================================
