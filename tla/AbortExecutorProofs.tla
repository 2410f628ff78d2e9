-------------------------- MODULE AbortExecutorProofs --------------------------
(***************************************************************************)
(* A run of executeAbortPlan for every plan, sample size, number of slots, *)
(* retry bound, set of flags and mix of answers: what the run may do to    *)
(* the bucket is bounded, what it reports is true and complete, and a trip *)
(* ends it for every upload not yet in flight.                             *)
(*                                                                         *)
(* The invariant puts together the parts the run is made of.  The limiter  *)
(* is that of ConcurrencyLimiter, so its invariant and the proofs of its   *)
(* steps are taken from there (Pooled); the breaker keeps BreakerSound     *)
(* (CommonTheorems).  Coupled and Told tie what a task does to the slot    *)
(* it holds and to what was reported of it.  Sampling and ToReport say, of *)
(* each phase, which uploads are still to be reported: without them an     *)
(* upload might be reported twice or never.  Counted gives the counters of *)
(* the result their meaning, Backed the history, Gated and Released what   *)
(* had to be true before the first request and after the canary.           *)
(***************************************************************************)
EXTENDS AbortExecutor, CommonTheorems

(* The slots: the limiter, with the theorems about it.                     *)
Pooled == INSTANCE ConcurrencyLimiterProofs
            WITH Task <- Upload, Concurrency <- Limit, pc <- slot

(* What the canary reports of an upload it has finished with.              *)
Verified == {"ABORTED", "SKIPPED_ALREADY_ABORTED"}

(* The types; the breaker with the facts its own steps rest on.            *)
Typed ==
  /\ options \in Options
  /\ phase \in Phases
  /\ BreakerSound(breaker)
  /\ sample \in Seq(Upload) /\ probing \in BOOLEAN /\ todo \in Seq(Upload)
  /\ task \in [Upload -> Tasks]
  /\ attempt \in [Upload -> 0..MaxRetries + 1]
  /\ tripped \in BOOLEAN
  /\ status \in [Upload -> Statuses]
  /\ tally \in [Reported -> Nat]
  /\ alive \subseteq Upload /\ destroyed \subseteq Upload \ alive
  /\ certificate \subseteq Upload

(* A task is at work exactly while it has a slot, and none of them         *)
(* rejects: every error is caught (abort.ts:382).                          *)
Coupled ==
  \A u \in Upload :
    /\ task[u] \in {"sending", "backoff", "returning"} <=> slot[u] = "running"
    /\ task[u] = "settled" <=> slot[u] = "fulfilled"
    /\ slot[u] # "rejected"
    /\ task[u] = "backoff" => attempt[u] <= MaxRetries

(* A task has reported when, and only when, it is about to return.         *)
Told ==
  \A u \in Upload :
    /\ task[u] \in {"sending", "backoff"} \/ slot[u] \in {"queued", "woken"} => status[u] = "none"
    /\ task[u] \in {"returning", "settled"} => status[u] # "none"

(* In the canary: the targets left, and what is known of the others.       *)
Sampling ==
  phase = "canary" =>
    /\ \A u \in Upload : slot[u] = "idle"
    /\ sample # <<>> /\ Distinct(sample)
    /\ \A u \in Elements(sample) : IsCanary(u)
    /\ \A u \in Upload :
         IF IsCanary(u) /\ (u \in Elements(sample) => probing /\ u = Head(sample))
         THEN status[u] \in Verified
         ELSE status[u] = "none"

(* Of each phase, the uploads nothing was reported of yet.                 *)
ToReport ==
  CASE phase = "gates"  -> /\ ~probing
                           /\ \A u \in Upload : slot[u] = "idle" /\ status[u] = "none"
    [] phase = "launch" -> /\ todo # <<>> /\ Distinct(todo)
                           /\ \A u \in Upload : u \in Elements(todo) <=> slot[u] = "idle" /\ status[u] = "none"
    [] phase = "bulk"   -> \A u \in Upload : slot[u] = "idle" => status[u] # "none"
    [] phase = "certify" -> \A u \in Upload : status[u] # "none"
    [] OTHER -> TRUE

(* A counter of the result is the number of the uploads reported so.       *)
Counted == \A s \in Reported : tally[s] = Cardinality(Having(s))

(* The report against what S3 lost, the certificate against the report.    *)
Backed ==
  /\ \A u \in Upload : /\ status[u] = "ABORTED" => u \in destroyed
                       /\ status[u] = "none" => u \notin destroyed
  /\ certificate # {} => phase = "over" /\ certificate = Having("ABORTED")

(* Nothing was touched before the gates were open.                         *)
Gated == phase \notin {"gates", "over"} \/ destroyed # {} => GatesOpen

(* The others were handed over only with every canary verified.            *)
Released ==
  ~options.skipCanary /\ phase \in {"launch", "bulk"} =>
    sample = <<>> /\ \A v \in Upload : IsCanary(v) => status[v] \in Verified

Contained == CanaryContained /\ Released

(* The inductive invariant; TLC finds it true of the run of AbortExecutor. *)
IInv == /\ Typed /\ Pooled!IInv /\ Coupled /\ Told /\ Sampling /\ ToReport
        /\ Counted /\ Backed /\ Gated /\ Contained

(* The canary gate counts as everybody else.                               *)
LEMMA CanaryCardinality ==
  ASSUME NEW S
  PROVE  Canary!Cardinality(S) = Cardinality(S)
  BY DEF Canary!Cardinality, Cardinality

(* The plan names every upload once, so there are no more than it is long. *)
LEMMA PlanFacts ==
  /\ Len(Plan) \in Nat /\ DOMAIN Plan = 1..Len(Plan)
  /\ \A i \in 1..Len(Plan) : Plan[i] \in Upload /\ Initiated[Plan[i]] \in Nat
  /\ IsFiniteSet(1..Len(Plan)) /\ Cardinality(1..Len(Plan)) = Len(Plan)
  /\ IsFiniteSet(Upload) /\ Cardinality(Upload) \in Nat /\ Cardinality(Upload) <= Len(Plan)
<1>1. Len(Plan) \in Nat /\ DOMAIN Plan = 1..Len(Plan) /\ Plan \in [1..Len(Plan) -> Upload]
  BY PlanAssumption, LenProperties
<1> DEFINE n == Len(Plan)
<1>2. IsFiniteSet(1..n) /\ Cardinality(1..n) = n
  <2> HIDE DEF n
  <2>1. n \in Int /\ 1 \in Int /\ n \in Nat
    BY <1>1 DEF n
  <2> QED
    BY <2>1, FS_Interval
<1>3. Plan \in Surjection(1..n, Upload)
  BY <1>1, PlanAssumption DEF Surjection
<1>4. IsFiniteSet(Upload) /\ Cardinality(Upload) <= Cardinality(1..n)
  BY <1>2, <1>3, FS_Surjection
<1> QED
  BY <1>1, <1>2, <1>4, FS_CardinalityType, PlanAssumption

(* The positions of the plan, ranked by age.                               *)
LEMMA SampleRanked ==
  /\ \A i \in 1..Len(Plan) : Canary!RankOf(i) = AgeRank(Plan, Initiated, Len(Plan), i)
  /\ Canary!SampleSize \in 0..Len(Plan)
  /\ Plan # <<>> => Canary!SampleSize # 0
<1>1. ASSUME NEW i \in 1..Len(Plan)
      PROVE  Canary!RankOf(i) = AgeRank(Plan, Initiated, Len(Plan), i)
  BY PlanFacts, CanaryCardinality DEF Canary!RankOf, Canary!Older, AgeRank
<1>2. Plan # <<>> => Len(Plan) # 0
  BY EmptySeq, PlanAssumption
<1>3. Canary!SampleSize \in 0..Len(Plan) /\ (Plan # <<>> => Canary!SampleSize # 0)
  BY <1>2, PlanFacts, LimitAssumption DEF Canary!SampleSize
<1> QED
  BY <1>1, <1>3

(* The sample is the oldest uploads, each once.                            *)
LEMMA SampleSound ==
  /\ Canary!Sample \in Seq(Upload)
  /\ Distinct(Canary!Sample)
  /\ \A u \in Upload : IsCanary(u) <=> u \in Elements(Canary!Sample)
  /\ Plan # <<>> => Canary!Sample # <<>>
<1> DEFINE n == Len(Plan)
           m == Canary!SampleSize
           at == [k \in 1..m |-> CHOOSE i \in DOMAIN Plan : Canary!RankOf(i) = k]
           rank == [i \in 1..n |-> Canary!RankOf(i)]
           s == Canary!Sample
<1>1. /\ n \in Nat /\ Plan \in [1..n -> Upload] /\ DOMAIN Plan = 1..n
      /\ \A i, j \in 1..n : Plan[i] = Plan[j] => i = j
      /\ Initiated \in [Upload -> Nat]
  BY PlanFacts, PlanAssumption
<1>2. /\ \A i, j \in 1..n : rank[i] = rank[j] => i = j
      /\ \A k \in 1..n : \E i \in 1..n : Canary!RankOf(i) = k
  <2> DEFINE a(i) == AgeRank(Plan, Initiated, n, i)
  <2>1. \A i \in 1..n : rank[i] = a(i) /\ Canary!RankOf(i) = a(i)
    BY SampleRanked
  <2>2. /\ \A i, j \in 1..n : a(i) = a(j) => i = j
        /\ \A k \in 1..n : \E i \in 1..n : a(i) = k
    <3>1. n \in Nat /\ Plan \in [1..n -> Upload] /\ Initiated \in [Upload -> Nat]
      BY <1>1
    <3> HIDE DEF n
    <3>2. \A i, j \in 1..n : AgeRank(Plan, Initiated, n, i) = AgeRank(Plan, Initiated, n, j) => i = j
      BY <3>1, AgeRanked
    <3>3. \A k \in 1..n : \E i \in 1..n : AgeRank(Plan, Initiated, n, i) = k
      BY <3>1, AgeRanked
    <3> QED
      BY <3>2, <3>3
  <2> HIDE DEF a, n, rank
  <2> QED
    BY <2>1, <2>2
<1>3. m \in 0..n
  BY SampleRanked
<1>4. \A k \in 1..m : at[k] \in 1..n /\ rank[at[k]] = k
  <2> SUFFICES ASSUME NEW k \in 1..m
               PROVE  at[k] \in 1..n /\ rank[at[k]] = k
    OBVIOUS
  <2>1. k \in 1..n
    <3> HIDE DEF m, n
    <3> QED BY <1>1, <1>3
  <2>2. \E i \in DOMAIN Plan : Canary!RankOf(i) = k
    BY <2>1, <1>1, <1>2
  <2>3. at[k] \in DOMAIN Plan /\ Canary!RankOf(at[k]) = k
    BY <2>2, Zenon
  <2> QED
    BY <2>3, <1>1
<1>5. s = [k \in 1..m |-> Plan[at[k]]]
  <2>1. \A k \in 1..m : at[k] = CHOOSE i \in DOMAIN Plan : Canary!RankOf(i) = k
    OBVIOUS
  <2> QED
    BY <2>1 DEF Canary!Sample
<1>6. s \in Seq(Upload) /\ Len(s) = m /\ Distinct(s)
  <2>1. m \in Nat /\ 1..n \in SUBSET (1..n)
    <3> HIDE DEF n, m
    <3> QED BY <1>1, <1>3
  <2>2. Ranking(rank, at, m, 1..n) /\ OneToOne(Plan, 1..n)
    BY <1>1, <1>2, <1>4 DEF Ranking, OneToOne
  <2>3. s = InOrder(Plan, at, m)
    BY <1>5 DEF InOrder
  <2> HIDE DEF n, m, at, rank, s
  <2> QED
    BY <1>1, <2>1, <2>2, <2>3, Listed
<1>7. \A u \in Upload : IsCanary(u) <=> u \in Elements(s)
  <2>1. Elements(s) = {s[i] : i \in 1..m}
    <3> HIDE DEF s, m
    <3> QED BY <1>6 DEF Elements
  <2> QED
    BY <2>1 DEF IsCanary, Canary!InSample
<1>8. Plan # <<>> => s # <<>>
  <2> HIDE DEF s, m
  <2>1. m = 0 <=> s = <<>>
    BY <1>6, EmptySeq
  <2> QED
    BY <2>1, SampleRanked DEF m
<1> QED
  BY <1>6, <1>7, <1>8

(* The others are the uploads outside the sample, each once.               *)
LEMMA OthersSound ==
  /\ Canary!Others \in Seq(Upload)
  /\ Distinct(Canary!Others)
  /\ \A u \in Upload : ~IsCanary(u) <=> u \in Elements(Canary!Others)
<1> DEFINE n == Len(Plan)
           S == Canary!Rest
           m == Cardinality(S)
           at == [k \in 1..m |-> CHOOSE i \in S : Canary!PlaceOf(i) = k]
           rank == [i \in S |-> Canary!PlaceOf(i)]
           s == Canary!Others
<1>1. /\ n \in Nat /\ Plan \in [1..n -> Upload]
      /\ \A i, j \in 1..n : Plan[i] = Plan[j] => i = j
  BY PlanFacts, PlanAssumption
<1>2. S \in SUBSET (1..n) /\ \A i \in 1..n : i \in S <=> ~IsCanary(Plan[i])
  BY PlanFacts DEF Canary!Rest, IsCanary
<1>3. \A i \in S : Canary!PlaceOf(i) = PlaceRank(S, i)
  BY CanaryCardinality DEF Canary!PlaceOf, PlaceRank
<1>4. /\ m \in Nat
      /\ \A i \in S : PlaceRank(S, i) \in 1..m
      /\ \A i, j \in S : PlaceRank(S, i) = PlaceRank(S, j) => i = j
      /\ \A k \in 1..m : \E i \in S : PlaceRank(S, i) = k
  <2> HIDE DEF n, S
  <2> QED
    BY <1>1, <1>2, PlaceRanked
<1>5. \A k \in 1..m : at[k] \in S /\ rank[at[k]] = k
  <2> SUFFICES ASSUME NEW k \in 1..m
               PROVE  at[k] \in S /\ rank[at[k]] = k
    OBVIOUS
  <2>1. \E i \in S : Canary!PlaceOf(i) = k
    <3> HIDE DEF S, m
    <3> QED BY <1>3, <1>4
  <2>2. at[k] \in S /\ Canary!PlaceOf(at[k]) = k
    BY <2>1, Zenon
  <2> QED
    BY <2>2
<1>6. s = [k \in 1..m |-> Plan[at[k]]]
  <2>1. \A k \in 1..m : at[k] = CHOOSE i \in S : Canary!PlaceOf(i) = k
    OBVIOUS
  <2> QED
    BY <2>1, CanaryCardinality DEF Canary!Others
<1>7. \A i \in S : rank[i] \in 1..m
  <2> HIDE DEF m
  <2> QED
    BY <1>3, <1>4
<1>8. \A i, j \in S : rank[i] = rank[j] => i = j
  BY <1>3, <1>4
<1> HIDE DEF n, S, m, at, rank, s
<1>9. s \in Seq(Upload) /\ Distinct(s) /\ Lists(s, Plan, rank, m, S)
  <2>1. Ranking(rank, at, m, S) /\ OneToOne(Plan, 1..n) /\ s = InOrder(Plan, at, m)
    BY <1>1, <1>5, <1>6, <1>8 DEF Ranking, OneToOne, InOrder
  <2>2. n \in Nat /\ Plan \in [1..n -> Upload] /\ S \in SUBSET (1..n) /\ m \in Nat
    BY <1>1, <1>2, <1>4
  <2> QED
    BY <2>1, <2>2, Listed
<1>10. ASSUME NEW u \in Upload PROVE ~IsCanary(u) <=> u \in Elements(s)
  <2>1. PICK i \in 1..n : Plan[i] = u
    BY PlanAssumption DEF n
  <2>2. u \in Elements(s) <=> i \in S
    BY <2>1, <1>1, <1>2, <1>7, <1>9 DEF Lists
  <2> QED
    BY <2>1, <2>2, <1>2
<1> QED
  BY <1>9, <1>10 DEF s

(* What the limiter assumes of its constants holds of a run.               *)
LEMMA PoolAssumed == Limit \in Nat \ {0} /\ Pooled!IsFiniteSet(Upload)
<1>1. IsFiniteSet(Upload)
  BY PlanAssumption
<1>2. Pooled!IsFiniteSet(Upload)
  BY <1>1 DEF IsFiniteSet, Pooled!IsFiniteSet
<1> QED
  BY <1>2, LimitAssumption

(* The limiter counts as everybody else.                                   *)
LEMMA PoolCardinality ==
  ASSUME NEW S
  PROVE  Pooled!Cardinality(S) = Cardinality(S)
  BY DEF Pooled!Cardinality, Cardinality

(* The limiter's types, from its invariant.                                *)
LEMMA PoolTyped ==
  ASSUME Pooled!IInv
  PROVE  /\ Limiter!TypeOK
         /\ slot \in [Upload -> {"idle", "queued", "woken", "running", "fulfilled", "rejected"}]
         /\ queue \in Seq(Upload)
  BY DEF Pooled!IInv, Pooled!TypeOK, Limiter!TypeOK, Pooled!PC, Limiter!PC

(* A step that leaves the limiter alone.                                   *)
LEMMA PoolIdle ==
  ASSUME Pooled!IInv, UNCHANGED limiterVars
  PROVE  Pooled!IInv'
  BY PoolAssumed, Pooled!NextIInv DEF limiterVars, Pooled!vars

(* limit() with a slot free.                                               *)
LEMMA SlotStarted ==
  ASSUME Pooled!IInv, NEW u \in Upload, Limiter!StartNow(u)
  PROVE  /\ Pooled!IInv'
         /\ slot[u] = "idle" /\ slot' = [slot EXCEPT ![u] = "running"]
<1>1. Pooled!StartNow(u)
  BY DEF Limiter!StartNow, Pooled!StartNow
<1> QED
  BY <1>1, Pooled!CountStep, PoolAssumed DEF Pooled!Submit, Pooled!StartNow

(* limit() with every slot taken.                                          *)
LEMMA SlotQueued ==
  ASSUME Pooled!IInv, NEW u \in Upload, Limiter!Enqueue(u)
  PROVE  /\ Pooled!IInv'
         /\ slot[u] = "idle" /\ slot' = [slot EXCEPT ![u] = "queued"]
<1>1. Pooled!Enqueue(u)
  BY DEF Limiter!Enqueue, Pooled!Enqueue
<1> QED
  BY <1>1, Pooled!CountStep, PoolAssumed DEF Pooled!Submit, Pooled!Enqueue

(* A woken call takes the slot that was handed to it.                      *)
LEMMA SlotResumed ==
  ASSUME Pooled!IInv, NEW u \in Upload, Limiter!Resume(u)
  PROVE  /\ Pooled!IInv'
         /\ slot[u] = "woken" /\ slot' = [slot EXCEPT ![u] = "running"]
<1>1. Pooled!Resume(u)
  BY DEF Limiter!Resume, Pooled!Resume
<1> QED
  BY <1>1, Pooled!CountStep, PoolAssumed DEF Pooled!Resume

(* A function that returns hands its slot to at most one queued call;      *)
(* nothing else moves.                                                     *)
LEMMA SlotLeft ==
  ASSUME Pooled!IInv, NEW u \in Upload, Leave(u)
  PROVE  /\ Pooled!IInv'
         /\ slot[u] = "running" /\ slot'[u] = "fulfilled"
         /\ \A v \in Upload \ {u} :
              slot'[v] = slot[v] \/ (slot[v] = "queued" /\ slot'[v] = "woken")
         /\ task' = [task EXCEPT ![u] = "settled"]
<1>1. \/ Pooled!FinishIdle(u, "fulfilled") \/ Pooled!FinishHandOver(u, "fulfilled")
  BY DEF Leave, Limiter!FinishIdle, Pooled!FinishIdle,
         Limiter!FinishHandOver, Pooled!FinishHandOver
<1>2. Pooled!IInv'
  BY <1>1, Pooled!CountStep, PoolAssumed DEF Pooled!Finish, Pooled!Settled
<1>3. slot \in [Upload -> {"idle", "queued", "woken", "running", "fulfilled", "rejected"}]
  BY PoolTyped
<1>4. CASE Pooled!FinishIdle(u, "fulfilled")
  BY <1>2, <1>3, <1>4 DEF Pooled!FinishIdle, Leave
<1>5. CASE Pooled!FinishHandOver(u, "fulfilled")
  <2>1. Pooled!TypeOK /\ Pooled!QueueExact /\ queue # <<>>
    BY <1>5 DEF Pooled!IInv, Pooled!FinishHandOver
  <2>2. Head(queue) \in Pooled!Waiters
    BY <2>1, Pooled!HeadParked, PoolAssumed
  <2>3. Head(queue) \in Upload /\ slot[Head(queue)] = "queued" /\ slot[u] = "running"
    BY <2>2, <1>5 DEF Pooled!Waiters, Pooled!FinishHandOver
  <2>4. slot' = [slot EXCEPT ![u] = "fulfilled", ![Head(queue)] = "woken"]
    BY <1>5 DEF Pooled!FinishHandOver
  <2> QED
    BY <1>2, <1>3, <2>3, <2>4 DEF Leave
<1> QED
  BY <1>1, <1>4, <1>5

-----------------------------------------------------------------------------

(* The uploads reported alike are finitely many.                           *)
LEMMA HavingFinite ==
  ASSUME NEW s
  PROVE  /\ Having(s) \in SUBSET Upload /\ IsFiniteSet(Having(s))
         /\ Cardinality(Having(s)) \in Nat /\ Cardinality(Having(s)) <= Cardinality(Upload)
<1>1. Having(s) \in SUBSET Upload
  BY DEF Having
<1> QED
  BY <1>1, PlanFacts, FS_Subset, FS_CardinalityType

(* Reporting an upload nothing was said of moves one counter by one.       *)
LEMMA ReportCounted ==
  ASSUME Typed, Counted, NEW u \in Upload, NEW s \in Reported, status[u] = "none", Report(u, s)
  PROVE  /\ status' = [status EXCEPT ![u] = s] /\ status' \in [Upload -> Statuses]
         /\ tally' \in [Reported -> Nat]
         /\ Counted'
<1>1. /\ status' = [status EXCEPT ![u] = s] /\ tally' = [tally EXCEPT ![s] = @ + 1]
      /\ status \in [Upload -> Statuses] /\ tally \in [Reported -> Nat] /\ s # "none"
      /\ s \in Statuses
  BY DEF Report, Typed, Reported
<1>2. \A r \in Reported : Cardinality(Having(r)') = tally'[r]
  <2> SUFFICES ASSUME NEW r \in Reported
               PROVE  Cardinality(Having(r)') = tally'[r]
    OBVIOUS
  <2>1. IsFiniteSet(Having(r)) /\ Cardinality(Having(r)) = tally[r] /\ tally[r] \in Nat
    BY HavingFinite, <1>1 DEF Counted
  <2>2. CASE r = s
    <3>1. Having(r)' = Having(r) \cup {u} /\ u \notin Having(r)
      BY <2>2, <1>1 DEF Having
    <3>2. Cardinality(Having(r) \cup {u}) = Cardinality(Having(r)) + 1
      BY <3>1, <2>1, FS_AddElement
    <3> QED
      BY <3>1, <3>2, <2>1, <2>2, <1>1
  <2>3. CASE r # s
    <3>1. Having(r)' = Having(r)
      BY <2>3, <1>1 DEF Having, Reported
    <3> QED
      BY <3>1, <2>1, <2>3, <1>1
  <2> QED
    BY <2>2, <2>3
<1>3. Counted'
  BY <1>2 DEF Counted
<1> QED
  BY <1>1, <1>3

(* A failed canary reports all that is left as FAILED, and counts it so.   *)
LEMMA RestCounted ==
  ASSUME Typed, Counted, NEW u, FailRest(u)
  PROVE  /\ status' \in [Upload -> Statuses]
         /\ \A v \in Upload : status'[v] = IF status[v] = "none" THEN "FAILED" ELSE status[v]
         /\ tally' \in [Reported -> Nat]
         /\ Counted'
<1>1. /\ status \in [Upload -> Statuses] /\ tally \in [Reported -> Nat]
      /\ status' = [v \in Upload |-> IF status[v] = "none" THEN "FAILED" ELSE status[v]]
      /\ tally' = [tally EXCEPT !["FAILED"] = @ + Cardinality(Having("none"))]
  BY DEF FailRest, Typed, Having
<1>2. Cardinality(Having("none")) \in Nat /\ IsFiniteSet(Having("none"))
  BY HavingFinite
<1>3. \A r \in Reported : Cardinality(Having(r)') = tally'[r]
  <2> SUFFICES ASSUME NEW r \in Reported
               PROVE  Cardinality(Having(r)') = tally'[r]
    OBVIOUS
  <2>1. IsFiniteSet(Having(r)) /\ Cardinality(Having(r)) = tally[r] /\ tally[r] \in Nat
    BY HavingFinite, <1>1 DEF Counted
  <2>2. CASE r = "FAILED"
    <3>1. /\ Having(r)' = Having(r) \cup Having("none")
          /\ Having(r) \cap Having("none") = {}
      BY <2>2, <1>1 DEF Having
    <3>2. Cardinality(Having(r) \cup Having("none")) =
            Cardinality(Having(r)) + Cardinality(Having("none")) - Cardinality({})
      BY <3>1, <2>1, <1>2, FS_Union
    <3>3. Cardinality({}) = 0
      BY FS_EmptySet
    <3>4. tally'[r] = tally[r] + Cardinality(Having("none"))
      BY <2>2, <1>1
    <3> QED
      BY <3>1, <3>2, <3>3, <3>4, <2>1, <1>2
  <2>3. CASE r # "FAILED"
    <3>1. Having(r)' = Having(r)
      BY <2>3, <1>1 DEF Having, Reported
    <3> QED
      BY <3>1, <2>1, <2>3, <1>1
  <2> QED
    BY <2>2, <2>3
<1>4. Counted'
  BY <1>3 DEF Counted
<1>5. tally' \in [Reported -> Nat] /\ status' \in [Upload -> Statuses]
  BY <1>1, <1>2 DEF Reported, Statuses
<1> QED
  BY <1>1, <1>4, <1>5

(* A call that has not passed the gates.                                   *)
LEMMA InitIInv == Init => IInv
<1> SUFFICES ASSUME Init PROVE IInv
  OBVIOUS
<1>1. Pooled!IInv
  <2>1. Pooled!Init
    BY DEF Init, Limiter!Init, Pooled!Init
  <2> QED
    BY <2>1, Pooled!InitIInv, PoolAssumed
<1>2. slot = [u \in Upload |-> "idle"]
  BY DEF Init, Limiter!Init
<1>3. Typed
  <2>1. <<>> \in Seq(Upload) /\ 0 \in 0..MaxRetries + 1
    BY LimitAssumption, EmptySeq
  <2> QED
    BY <2>1, NewBreakerSound DEF Init, Typed, Phases, Tasks, Statuses, Reported
<1>4. Coupled /\ Told
  BY <1>2 DEF Init, Coupled, Told
<1>5. Sampling /\ ToReport
  BY <1>2 DEF Init, Sampling, ToReport
<1>6. Counted
  <2>1. \A s \in Reported : Having(s) = {} /\ tally[s] = 0
    BY DEF Init, Having, Reported
  <2> QED
    BY <2>1, FS_EmptySet DEF Counted
<1>7. Backed /\ Gated
  BY DEF Init, Backed, Gated
<1>8. Contained
  BY DEF Init, Contained, CanaryContained, Released
<1> QED
  BY <1>1, <1>3, <1>4, <1>5, <1>6, <1>7, <1>8 DEF IInv

(* The target at the head of the sample is one of the canaries, reported   *)
(* only while it is being probed.                                          *)
LEMMA HeadOfSample ==
  ASSUME IInv, phase = "canary"
  PROVE  /\ Head(sample) \in Upload /\ Head(sample) = sample[1]
         /\ 1 \in 1..Len(sample) /\ Len(sample) \in Nat
         /\ Head(sample) \in Elements(sample) /\ IsCanary(Head(sample))
         /\ ~probing => status[Head(sample)] = "none"
         /\ probing => status[Head(sample)] \in Verified
<1>1. sample \in Seq(Upload) /\ sample # <<>>
  BY DEF IInv, Typed, Sampling
<1>2. Len(sample) \in Nat \ {0} /\ Head(sample) = sample[1]
  BY <1>1, EmptySeq
<1>3. sample[1] \in Upload /\ sample[1] \in Elements(sample)
  BY <1>1, <1>2, ElementOfSeq DEF Elements
<1>4. IsCanary(Head(sample))
  BY <1>2, <1>3 DEF IInv, Sampling
<1> QED
  BY <1>2, <1>3, <1>4 DEF IInv, Sampling

(* An answer after which the canary goes on to the probe of the same       *)
(* target.                                                                 *)
LEMMA CanaryOutcome ==
  ASSUME IInv, NEW u, NEW s \in Verified,
         CanaryStep(u), Report(u, s), probing' = TRUE, UNCHANGED <<phase, breaker, sample>>,
         \/ u \in alive /\ Removed(u)
         \/ s # "ABORTED" /\ UNCHANGED s3Vars
  PROVE  IInv'
<1>1. /\ phase = "canary" /\ ~probing /\ u = Head(sample) /\ u \in Upload
      /\ status[u] = "none" /\ IsCanary(u) /\ u \in Elements(sample)
  BY HeadOfSample DEF CanaryStep
<1>2. UNCHANGED <<options, todo, limiterVars, task, attempt, tripped, certificate>>
  BY DEF CanaryStep
<1>3. /\ status' = [status EXCEPT ![u] = s] /\ status' \in [Upload -> Statuses]
      /\ status \in [Upload -> Statuses]
      /\ tally' \in [Reported -> Nat] /\ Counted'
  <2>1. s \in Reported
    BY DEF Verified, Reported, Statuses
  <2> QED
    BY <1>1, <2>1, ReportCounted DEF IInv, Typed
<1>4. Typed'
  BY <1>1, <1>2, <1>3 DEF IInv, Typed, Removed, s3Vars
<1>5. Pooled!IInv'
  BY <1>2, PoolIdle DEF IInv
<1>6. Coupled'
  BY <1>2 DEF IInv, Coupled, limiterVars
<1>7. \A v \in Upload : slot[v] = "idle" /\ slot'[v] = "idle" /\ task[v] = "none"
  BY <1>1, <1>2 DEF IInv, Coupled, Sampling, limiterVars, Typed, Tasks
<1>8. Told'
  BY <1>2, <1>7 DEF Told
<1>9. Sampling'
  BY <1>1, <1>2, <1>3, <1>7 DEF IInv, Sampling
<1>10. ToReport'
  BY <1>1 DEF ToReport
<1>11. Backed'
  BY <1>1, <1>2, <1>3 DEF IInv, Backed, Removed, s3Vars, Verified
<1>12. Gated'
  BY <1>1, <1>2 DEF IInv, Gated, GatesOpen
<1>13. Contained'
  <2>1. \A v \in Upload : ~IsCanary(v) => v \notin destroyed'
    <3>1. \A v \in Upload : ~IsCanary(v) => status[v] = "none" /\ v # u
      BY <1>1 DEF IInv, Sampling
    <3> QED
      BY <3>1 DEF IInv, Backed, Removed, s3Vars
  <2>2. CanaryContained'
    BY <2>1, <1>2, <1>7 DEF CanaryContained
  <2> QED
    BY <2>2, <1>1 DEF Contained, Released
<1> QED
  BY <1>3, <1>4, <1>5, <1>6, <1>8, <1>9, <1>10, <1>11, <1>12, <1>13 DEF IInv

(* An answer, or a probe, that fails the canary and with it the run.       *)
LEMMA CanaryFails ==
  ASSUME IInv, NEW u, phase = "canary", FailRest(u), phase' = "certify",
         UNCHANGED <<options, todo, limiterVars, task, attempt, tripped, certificate, sample, probing>>,
         BreakerSound(breaker'),
         UNCHANGED s3Vars \/ (~probing /\ Head(sample) \in alive /\ Removed(Head(sample)))
  PROVE  IInv'
<1> DEFINE h == Head(sample)
<1>1. h \in Upload /\ IsCanary(h) /\ (~probing => status[h] = "none")
  BY HeadOfSample
<1> HIDE DEF h
<1>2. UNCHANGED s3Vars \/ (~probing /\ h \in alive /\ Removed(h))
  BY DEF h
<1>3. /\ status' \in [Upload -> Statuses] /\ status \in [Upload -> Statuses]
      /\ \A v \in Upload : status'[v] = IF status[v] = "none" THEN "FAILED" ELSE status[v]
      /\ tally' \in [Reported -> Nat] /\ Counted'
  BY RestCounted DEF IInv, Typed
<1>4. Typed'
  BY <1>1, <1>2, <1>3 DEF IInv, Typed, Removed, s3Vars, Phases
<1>5. Pooled!IInv'
  BY PoolIdle DEF IInv
<1>6. Coupled'
  BY DEF IInv, Coupled, limiterVars
<1>7. \A v \in Upload : slot[v] = "idle" /\ slot'[v] = "idle" /\ task[v] = "none"
  BY DEF IInv, Coupled, Sampling, limiterVars, Typed, Tasks
<1>8. Told'
  BY <1>7 DEF Told
<1>9. Sampling' /\ ToReport'
  BY <1>3 DEF Sampling, ToReport, Statuses
<1>10. Backed'
  BY <1>1, <1>2, <1>3 DEF IInv, Backed, Removed, s3Vars
<1>11. Gated'
  BY DEF IInv, Gated, GatesOpen
<1>12. Contained'
  <2>1. \A v \in Upload : ~IsCanary(v) => v \notin destroyed'
    <3>1. \A v \in Upload : ~IsCanary(v) => status[v] = "none" /\ v # h
      BY <1>1 DEF IInv, Sampling
    <3> QED
      BY <3>1, <1>2 DEF IInv, Backed, Removed, s3Vars
  <2>2. CanaryContained'
    BY <2>1, <1>7 DEF CanaryContained
  <2> QED
    BY <2>2 DEF Contained, Released
<1> QED
  BY <1>3, <1>4, <1>5, <1>6, <1>8, <1>9, <1>10, <1>11, <1>12 DEF IInv

(* Promise.all is given exactly the uploads that are still to be reported. *)
LEMMA Handed ==
  ASSUME IInv, NEW uploads \in Seq(Upload), Distinct(uploads), Hand(uploads),
         \A u \in Upload : slot[u] = "idle" /\ (u \in Elements(uploads) <=> status[u] = "none"),
         UNCHANGED <<slot, status>>
  PROVE  phase' \in {"launch", "certify"} /\ todo' = uploads /\ ToReport' /\ Sampling'
<1>1. phase' \in {"launch", "certify"} /\ todo' = uploads
  BY DEF Hand
<1>2. ToReport'
  <2>1. CASE uploads = <<>>
    <3>1. phase' = "certify" /\ Elements(uploads) = {}
      BY <2>1, NoElements DEF Hand
    <3>2. \A u \in Upload : status'[u] # "none"
      BY <3>1
    <3> QED
      BY <3>1, <3>2 DEF ToReport
  <2>2. CASE uploads # <<>>
    <3>1. phase' = "launch"
      BY <2>2 DEF Hand
    <3>2. \A u \in Upload : u \in Elements(todo') <=> slot'[u] = "idle" /\ status'[u] = "none"
      BY <1>1
    <3> QED
      BY <1>1, <2>2, <3>1, <3>2 DEF ToReport
  <2> QED
    BY <2>1, <2>2
<1>3. Sampling'
  BY <1>1 DEF Sampling
<1> QED
  BY <1>1, <1>2, <1>3

(* Past the gates: into the canary, or, without one, to the uploads.       *)
LEMMA StepEnterRun == ASSUME IInv, EnterRun PROVE IInv'
<1>1. /\ phase = "gates" /\ GatesOpen
      /\ UNCHANGED <<options, breaker, probing, limiterVars, task, attempt,
                 tripped, reportVars, certificate, s3Vars>>
  BY DEF EnterRun
<1>2. \A u \in Upload : slot[u] = "idle" /\ status[u] = "none" /\ task[u] = "none"
  BY <1>1 DEF IInv, ToReport, Coupled, Typed, Tasks
<1>3. /\ phase' \in {"canary", "launch", "certify"} /\ ToReport' /\ Sampling'
      /\ sample' \in Seq(Upload) /\ todo' \in Seq(Upload)
      /\ phase' \in {"launch", "certify"} => (options.skipCanary \/ Upload = {}) /\ sample' = sample
  <2>1. CASE options.skipCanary \/ Plan = <<>>
    <3>1. Hand(Plan) /\ UNCHANGED sample
      BY <1>1, <2>1 DEF EnterRun
    <3>2. Plan \in Seq(Upload) /\ Distinct(Plan) /\ \A u \in Upload : u \in Elements(Plan)
      BY PlanAssumption DEF Distinct, Elements
    <3>3. /\ phase' \in {"launch", "certify"} /\ todo' = Plan /\ ToReport' /\ Sampling'
      BY <1>1, <1>2, <3>1, <3>2, Handed DEF limiterVars, reportVars
    <3>4. Plan = <<>> => Upload = {}
      BY <3>2, NoElements
    <3> QED
      BY <2>1, <3>1, <3>2, <3>3, <3>4 DEF IInv, Typed
  <2>2. CASE ~(options.skipCanary \/ Plan = <<>>)
    <3>1. phase' = "canary" /\ sample' = Canary!Sample /\ UNCHANGED todo
      BY <2>2, <1>1 DEF EnterRun
    <3>2. \A u \in Elements(sample') : u \in Upload
      BY <3>1, SampleSound, ElementOfSeq DEF Elements
    <3>3. ~probing' /\ \A u \in Upload : slot'[u] = "idle" /\ status'[u] = "none"
      BY <1>1, <1>2 DEF IInv, ToReport, limiterVars, reportVars
    <3>4. sample' # <<>> /\ Distinct(sample') /\ \A u \in Elements(sample') : IsCanary(u)
      BY <2>2, <3>1, <3>2, SampleSound
    <3>5. \A u \in Upload : IsCanary(u) => u \in Elements(sample')
      BY <3>1, SampleSound
    <3>6. Sampling'
      BY <3>3, <3>4, <3>5 DEF Sampling
    <3>7. ToReport'
      BY <3>1 DEF ToReport
    <3> QED
      BY <3>1, <3>6, <3>7, SampleSound DEF IInv, Typed
  <2> QED
    BY <2>1, <2>2
<1>4. Typed'
  BY <1>1, <1>3 DEF IInv, Typed, Phases, reportVars, s3Vars
<1>5. Pooled!IInv'
  BY <1>1, PoolIdle DEF IInv
<1>6. Coupled' /\ Told'
  BY <1>1, <1>2 DEF IInv, Coupled, Told, limiterVars, reportVars
<1>7. Counted'
  BY <1>1 DEF IInv, Counted, Having, reportVars
<1>8. Backed'
  BY <1>1 DEF IInv, Backed, Having, reportVars, s3Vars
<1>9. Gated'
  BY <1>1 DEF IInv, Gated, GatesOpen
<1>10. Contained'
  <2>1. \A u \in Upload : task'[u] = "none" /\ u \notin destroyed'
    BY <1>1, <1>2 DEF IInv, Backed, s3Vars
  <2>2. CanaryContained'
    BY <2>1 DEF CanaryContained
  <2>3. Released'
    BY <1>1, <1>3 DEF Released
  <2> QED
    BY <2>2, <2>3 DEF Contained
<1> QED
  BY <1>3, <1>4, <1>5, <1>6, <1>7, <1>8, <1>9, <1>10 DEF IInv

(* A canary verified: the next one, or the others once it was the last.    *)
LEMMA StepProbeExpected == ASSUME IInv, ProbeExpected PROVE IInv'
<1> DEFINE h == Head(sample)
<1>1. /\ phase = "canary" /\ probing /\ probing' = FALSE
      /\ UNCHANGED <<options, limiterVars, task, attempt, tripped, certificate, s3Vars, reportVars>>
      /\ sample' = Tail(sample)
  BY DEF ProbeExpected, CanaryProbe
<1>2. /\ sample \in Seq(Upload) /\ sample # <<>> /\ Distinct(sample)
      /\ \A u \in Elements(sample) : IsCanary(u)
      /\ \A u \in Upload : /\ slot[u] = "idle" /\ task[u] = "none"
                           /\ IF IsCanary(u) /\ (u \in Elements(sample) => u = h)
                              THEN status[u] \in Verified ELSE status[u] = "none"
  BY <1>1 DEF IInv, Sampling, Typed, Coupled, Tasks
<1> HIDE DEF h
<1>3. /\ Tail(sample) \in Seq(Upload) /\ Distinct(Tail(sample))
      /\ h \in Upload /\ h \in Elements(sample)
      /\ \A u : u \in Elements(Tail(sample)) <=> u \in Elements(sample) /\ u # h
      /\ Tail(sample) = <<>> <=> Len(sample) = 1
  BY <1>2, TailSound DEF h
<1>4. /\ Sampling' /\ ToReport' /\ phase' \in {"canary", "launch", "certify"}
      /\ todo' \in Seq(Upload) /\ BreakerSound(breaker')
      /\ phase' # "canary" => sample' = <<>> /\ \A u \in Upload : IsCanary(u) => status'[u] \in Verified
  <2>1. CASE Len(sample) = 1
    <3>1. breaker' = Succeeded(breaker) /\ Hand(Canary!Others)
      BY <2>1 DEF ProbeExpected
    <3>2. \A u \in Elements(sample) : u = h
      <4>1. Elements(Tail(sample)) = {}
        BY <1>3, <2>1, NoElements
      <4> QED
        BY <4>1, <1>3
    <3>3. \A u \in Upload : slot[u] = "idle" /\ (u \in Elements(Canary!Others) <=> status[u] = "none")
      BY <1>2, <3>2, OthersSound DEF Verified
    <3>4. phase' \in {"launch", "certify"} /\ todo' = Canary!Others /\ ToReport'
      <4>1. UNCHANGED <<slot, status>>
        BY <1>1 DEF limiterVars, reportVars
      <4> QED
        BY <3>1, <3>3, <4>1, OthersSound, Handed
    <3>5. Sampling'
      BY <3>4 DEF Sampling
    <3>6. \A u \in Upload : IsCanary(u) => status'[u] \in Verified
      BY <1>1, <1>2, <3>2 DEF reportVars
    <3> QED
      BY <3>1, <3>4, <3>5, <3>6, <1>1, <1>3, <2>1, OthersSound, SucceededSound DEF IInv, Typed
  <2>2. CASE Len(sample) # 1
    <3>1. UNCHANGED <<phase, todo, breaker>>
      BY <2>2 DEF ProbeExpected
    <3>2. \A u \in Upload : slot'[u] = "idle" /\ status'[u] = status[u]
      BY <1>1, <1>2 DEF limiterVars, reportVars
    <3>3. Sampling'
      BY <1>1, <1>2, <1>3, <2>2, <3>2 DEF Sampling
    <3> QED
      BY <3>1, <3>3, <1>1 DEF IInv, Typed, ToReport
  <2> QED
    BY <2>1, <2>2
<1>5. Typed'
  BY <1>1, <1>3, <1>4 DEF IInv, Typed, Phases, reportVars, s3Vars
<1>6. Pooled!IInv'
  BY <1>1, PoolIdle DEF IInv
<1>7. Coupled' /\ Told'
  BY <1>1 DEF IInv, Coupled, Told, limiterVars, reportVars
<1>8. Counted'
  BY <1>1 DEF IInv, Counted, Having, reportVars
<1>9. Backed'
  BY <1>1 DEF IInv, Backed, Having, reportVars, s3Vars
<1>10. Gated'
  BY <1>1 DEF IInv, Gated, GatesOpen
<1>11. Contained'
  <2>1. \A u \in Upload : ~IsCanary(u) => u \notin destroyed' /\ task'[u] = "none"
    BY <1>1, <1>2 DEF IInv, Backed, s3Vars
  <2>2. CanaryContained'
    BY <2>1 DEF CanaryContained
  <2>3. Released'
    BY <1>4 DEF Released
  <2> QED
    BY <2>2, <2>3 DEF Contained
<1> QED
  BY <1>4, <1>5, <1>6, <1>7, <1>8, <1>9, <1>10, <1>11 DEF IInv

(* A gate that throws leaves everything as it was.                         *)
LEMMA StepRefuseRun == ASSUME IInv, RefuseRun PROVE IInv'
<1> USE DEF RefuseRun
<1>1. Typed'
  BY DEF IInv, Typed, Phases, reportVars, s3Vars
<1>2. Pooled!IInv'
  BY PoolIdle DEF IInv
<1>3. Coupled' /\ Told'
  BY DEF IInv, Coupled, Told, limiterVars, reportVars
<1>4. Sampling' /\ ToReport'
  BY DEF Sampling, ToReport
<1>5. Counted'
  BY DEF IInv, Counted, Having, reportVars
<1>6. Backed'
  BY DEF IInv, Backed, Having, reportVars, s3Vars
<1>7. Gated'
  BY DEF IInv, Gated, GatesOpen, s3Vars
<1>8. Contained'
  BY DEF IInv, Contained, CanaryContained, Released, reportVars, s3Vars
<1> QED
  BY <1>1, <1>2, <1>3, <1>4, <1>5, <1>6, <1>7, <1>8 DEF IInv

(* Promise.all resolves once every task has settled.                       *)
LEMMA StepAllSettled == ASSUME IInv, AllSettled PROVE IInv'
<1> USE DEF AllSettled
<1>1. Typed'
  BY DEF IInv, Typed, Phases, reportVars, s3Vars
<1>2. Pooled!IInv'
  BY PoolIdle DEF IInv
<1>3. Coupled' /\ Told'
  BY DEF IInv, Coupled, Told, limiterVars, reportVars
<1>4. Sampling' /\ ToReport'
  <2>1. \A u \in Upload : status'[u] # "none"
    BY DEF IInv, ToReport, Told, Coupled, reportVars
  <2> QED
    BY <2>1 DEF Sampling, ToReport
<1>5. Counted'
  BY DEF IInv, Counted, Having, reportVars
<1>6. Backed'
  BY DEF IInv, Backed, Having, reportVars, s3Vars
<1>7. Gated'
  BY DEF IInv, Gated, GatesOpen, s3Vars
<1>8. Contained'
  BY DEF IInv, Contained, CanaryContained, Released, reportVars, s3Vars
<1> QED
  BY <1>1, <1>2, <1>3, <1>4, <1>5, <1>6, <1>7, <1>8 DEF IInv

(* The certificate takes the uploads reported ABORTED.                     *)
LEMMA StepCertify == ASSUME IInv, Certify PROVE IInv'
<1> USE DEF Certify
<1>0. certificate' = {} \/ certificate' = Having("ABORTED")
  BY DEF Having
<1>1. Typed'
  BY <1>0, HavingFinite DEF IInv, Typed, Phases, reportVars, s3Vars
<1>2. Pooled!IInv'
  BY PoolIdle DEF IInv
<1>3. Coupled' /\ Told'
  BY DEF IInv, Coupled, Told, limiterVars, reportVars
<1>4. Sampling' /\ ToReport'
  BY DEF Sampling, ToReport
<1>5. Counted'
  BY DEF IInv, Counted, Having, reportVars
<1>6. Backed'
  <2>1. Having("ABORTED")' = Having("ABORTED")
    BY DEF Having, reportVars
  <2> QED
    BY <1>0, <2>1 DEF IInv, Backed, reportVars, s3Vars
<1>7. Gated'
  BY DEF IInv, Gated, GatesOpen, s3Vars
<1>8. Contained'
  BY DEF IInv, Contained, CanaryContained, Released, reportVars, s3Vars
<1> QED
  BY <1>1, <1>2, <1>3, <1>4, <1>5, <1>6, <1>7, <1>8 DEF IInv

(* A step that touches neither the run nor what it removed: another        *)
(* client, the clock, a look at the breaker.                               *)
LEMMA StepIdle ==
  ASSUME IInv, BreakerSound(breaker'), alive' \subseteq alive,
         UNCHANGED <<options, phase, sample, probing, todo, limiterVars, task,
                     attempt, tripped, reportVars, certificate, destroyed>>
  PROVE  IInv'
<1>1. Typed'
  BY DEF IInv, Typed, reportVars
<1>2. Pooled!IInv'
  BY PoolIdle DEF IInv
<1>3. Coupled' /\ Told'
  BY DEF IInv, Coupled, Told, limiterVars, reportVars
<1>4. Sampling' /\ ToReport'
  BY DEF IInv, Sampling, ToReport, limiterVars, reportVars
<1>5. Counted'
  BY DEF IInv, Counted, Having, reportVars
<1>6. Backed'
  BY DEF IInv, Backed, Having, reportVars
<1>7. Gated'
  BY DEF IInv, Gated, GatesOpen
<1>8. Contained'
  BY DEF IInv, Contained, CanaryContained, Released, reportVars
<1> QED
  BY <1>1, <1>2, <1>3, <1>4, <1>5, <1>6, <1>7, <1>8 DEF IInv

(* A status once given stays, so the canaries stay verified.               *)
LEMMA ContainedKept ==
  ASSUME IInv, phase \in {"launch", "bulk"}, UNCHANGED <<options, sample>>,
         \A v \in Upload : status[v] # "none" => status'[v] = status[v]
  PROVE  Contained'
<1>1. ~options.skipCanary =>
        sample = <<>> /\ \A v \in Upload : IsCanary(v) => status'[v] \in Verified
  BY DEF IInv, Contained, Released, Verified
<1>2. CanaryContained'
  BY <1>1 DEF CanaryContained, Verified
<1>3. Released'
  BY <1>1 DEF Released
<1> QED
  BY <1>2, <1>3 DEF Contained

(* A task that gets its slot looks at the breaker and either sends or      *)
(* reports the upload FAILED.                                              *)
LEMMA Begun ==
  ASSUME IInv, NEW u \in Upload, status[u] = "none", Begin(u)
  PROVE  /\ BreakerSound(breaker') /\ tripped' \in BOOLEAN
         /\ tally' \in [Reported -> Nat] /\ Counted'
         /\ \/ /\ task' = [task EXCEPT ![u] = "sending"]
               /\ attempt' = [attempt EXCEPT ![u] = 1]
               /\ UNCHANGED <<tripped, status>> /\ ~tripped
            \/ /\ task' = [task EXCEPT ![u] = "returning"]
               /\ status' = [status EXCEPT ![u] = "FAILED"]
               /\ UNCHANGED attempt
<1>1. BreakerSound(breaker) /\ tripped \in BOOLEAN /\ Typed /\ Counted
  BY DEF IInv, Typed
<1>2. CASE ~tripped /\ MayExecute(breaker)
  <2>1. /\ breaker' = Asked(breaker)
        /\ task' = [task EXCEPT ![u] = "sending"]
        /\ attempt' = [attempt EXCEPT ![u] = 1]
        /\ UNCHANGED <<tripped, reportVars>>
    BY <1>2 DEF Begin
  <2>2. BreakerSound(breaker')
    BY <1>1, <2>1, RefreshSound
  <2>3. Counted' /\ tally' \in [Reported -> Nat]
    BY <1>1, <2>1 DEF Counted, Having, reportVars, Typed
  <2> QED
    BY <1>1, <1>2, <2>1, <2>2, <2>3 DEF reportVars
<1>3. CASE ~(~tripped /\ MayExecute(breaker))
  <2>1. /\ breaker' = IF tripped THEN breaker ELSE Asked(breaker)
        /\ tripped' = TRUE
        /\ Report(u, "FAILED")
        /\ task' = [task EXCEPT ![u] = "returning"]
        /\ UNCHANGED attempt
    BY <1>3 DEF Begin
  <2>2. BreakerSound(breaker')
    BY <1>1, <2>1, RefreshSound
  <2>3. Counted' /\ tally' \in [Reported -> Nat] /\ status' = [status EXCEPT ![u] = "FAILED"]
    <3>1. "FAILED" \in Reported
      BY DEF Reported, Statuses
    <3> QED
      BY <1>1, <2>1, <3>1, ReportCounted
  <2> QED
    BY <2>1, <2>2, <2>3
<1> QED
  BY <1>2, <1>3

(* Promise.all hands the next upload to the limiter: started or queued.    *)
LEMMA StepLaunch == ASSUME IInv, Launch PROVE IInv'
<1> DEFINE u == Head(todo)
<1>1. /\ phase = "launch" /\ todo' = Tail(todo)
      /\ phase' = IF Len(todo) = 1 THEN "bulk" ELSE "launch"
      /\ UNCHANGED <<options, sample, probing, certificate, s3Vars>>
      /\ \/ Limiter!StartNow(u) /\ Begin(u)
         \/ /\ Limiter!Enqueue(u)
            /\ UNCHANGED <<breaker, task, attempt, tripped, reportVars>>
  BY DEF Launch
<1>2. /\ todo \in Seq(Upload) /\ todo # <<>> /\ Distinct(todo)
      /\ \A v \in Upload : v \in Elements(todo) <=> slot[v] = "idle" /\ status[v] = "none"
  BY <1>1 DEF IInv, Typed, ToReport
<1>3. /\ Tail(todo) \in Seq(Upload) /\ Distinct(Tail(todo))
      /\ u \in Upload /\ u \in Elements(todo)
      /\ \A v : v \in Elements(Tail(todo)) <=> v \in Elements(todo) /\ v # u
      /\ Tail(todo) = <<>> <=> Len(todo) = 1
  BY <1>2, TailSound
<1> HIDE DEF u
<1>4. /\ status \in [Upload -> Statuses] /\ task \in [Upload -> Tasks]
      /\ attempt \in [Upload -> 0..MaxRetries + 1] /\ 1 \in 0..MaxRetries + 1
      /\ slot \in [Upload -> {"idle", "queued", "woken", "running", "fulfilled", "rejected"}]
      /\ status[u] = "none"
  BY <1>2, <1>3, PoolTyped, LimitAssumption DEF IInv, Typed
<1>5. /\ Pooled!IInv' /\ BreakerSound(breaker') /\ tripped' \in BOOLEAN
      /\ tally' \in [Reported -> Nat] /\ Counted'
      /\ \/ /\ slot' = [slot EXCEPT ![u] = "running"]
            /\ \/ /\ task' = [task EXCEPT ![u] = "sending"]
                  /\ attempt' = [attempt EXCEPT ![u] = 1]
                  /\ UNCHANGED status
               \/ /\ task' = [task EXCEPT ![u] = "returning"]
                  /\ status' = [status EXCEPT ![u] = "FAILED"]
                  /\ UNCHANGED attempt
         \/ slot' = [slot EXCEPT ![u] = "queued"] /\ UNCHANGED <<task, attempt, status>>
  <2>1. CASE Limiter!StartNow(u) /\ Begin(u)
    BY <1>3, <1>4, <2>1, Begun, SlotStarted DEF IInv
  <2>2. CASE /\ Limiter!Enqueue(u)
             /\ UNCHANGED <<breaker, task, attempt, tripped, reportVars>>
    <3>1. Counted'
      BY <2>2 DEF IInv, Counted, Having, reportVars
    <3>2. /\ Pooled!IInv' /\ slot' = [slot EXCEPT ![u] = "queued"]
      BY <1>3, <2>2, SlotQueued DEF IInv
    <3> QED
      BY <2>2, <3>1, <3>2 DEF IInv, Typed, reportVars
  <2> QED
    BY <1>1, <2>1, <2>2
<1>6. Typed'
  <2>1. /\ status' \in [Upload -> Statuses] /\ task' \in [Upload -> Tasks]
        /\ attempt' \in [Upload -> 0..MaxRetries + 1]
    BY <1>3, <1>4, <1>5 DEF Statuses, Tasks
  <2> QED
    BY <2>1, <1>1, <1>3, <1>5 DEF IInv, Typed, Phases, s3Vars
<1>7. Coupled'
  BY <1>2, <1>3, <1>4, <1>5 DEF IInv, Coupled
<1>8. Told'
  BY <1>2, <1>3, <1>4, <1>5 DEF IInv, Told
<1>9. Sampling'
  BY <1>1 DEF Sampling
<1>10. ToReport'
  <2>1. \A v \in Upload : v \in Elements(todo') <=> slot'[v] = "idle" /\ status'[v] = "none"
    BY <1>1, <1>2, <1>3, <1>4, <1>5
  <2>2. CASE Len(todo) = 1
    <3>1. Elements(todo') = {}
      BY <1>1, <1>3, <2>2, NoElements
    <3> QED
      BY <3>1, <2>1, <2>2, <1>1 DEF ToReport
  <2>3. CASE Len(todo) # 1
    BY <2>1, <2>3, <1>1, <1>3 DEF ToReport
  <2> QED
    BY <2>2, <2>3
<1>11. Backed'
  BY <1>1, <1>4, <1>5 DEF IInv, Backed, s3Vars
<1>12. Gated'
  BY <1>1 DEF IInv, Gated, GatesOpen
<1>13. Contained'
  BY <1>1, <1>4, <1>5, ContainedKept
<1> QED
  BY <1>5, <1>6, <1>7, <1>8, <1>9, <1>10, <1>11, <1>12, <1>13 DEF IInv

(* A task that waited in the queue starts.                                 *)
LEMMA StepResumeTask == ASSUME IInv, NEW u \in Upload, ResumeTask(u) PROVE IInv'
<1>1. /\ phase = "bulk"
      /\ UNCHANGED <<options, phase, sample, probing, todo, certificate, s3Vars>>
      /\ Limiter!Resume(u) /\ Begin(u)
  BY DEF ResumeTask, Bulk
<1>2. /\ status \in [Upload -> Statuses] /\ task \in [Upload -> Tasks]
      /\ attempt \in [Upload -> 0..MaxRetries + 1] /\ 1 \in 0..MaxRetries + 1
      /\ slot \in [Upload -> {"idle", "queued", "woken", "running", "fulfilled", "rejected"}]
  BY PoolTyped, LimitAssumption DEF IInv, Typed
<1>3. Pooled!IInv' /\ slot[u] = "woken" /\ slot' = [slot EXCEPT ![u] = "running"]
  BY <1>1, SlotResumed DEF IInv
<1>4. status[u] = "none"
  BY <1>3 DEF IInv, Told
<1>5. /\ BreakerSound(breaker') /\ tripped' \in BOOLEAN
      /\ tally' \in [Reported -> Nat] /\ Counted'
      /\ \/ /\ task' = [task EXCEPT ![u] = "sending"]
            /\ attempt' = [attempt EXCEPT ![u] = 1]
            /\ UNCHANGED status
         \/ /\ task' = [task EXCEPT ![u] = "returning"]
            /\ status' = [status EXCEPT ![u] = "FAILED"]
            /\ UNCHANGED attempt
  BY <1>1, <1>4, Begun
<1>6. Typed'
  <2>1. /\ status' \in [Upload -> Statuses] /\ task' \in [Upload -> Tasks]
        /\ attempt' \in [Upload -> 0..MaxRetries + 1]
    BY <1>2, <1>5 DEF Statuses, Tasks
  <2> QED
    BY <2>1, <1>1, <1>5 DEF IInv, Typed, s3Vars
<1>7. Coupled'
  BY <1>2, <1>3, <1>5 DEF IInv, Coupled
<1>8. Told'
  BY <1>2, <1>3, <1>4, <1>5 DEF IInv, Told
<1>9. Sampling' /\ ToReport'
  BY <1>1, <1>2, <1>3, <1>5 DEF IInv, Sampling, ToReport
<1>10. Backed'
  BY <1>1, <1>2, <1>4, <1>5 DEF IInv, Backed, s3Vars
<1>11. Gated'
  BY <1>1 DEF IInv, Gated, GatesOpen, s3Vars
<1>12. Contained'
  BY <1>1, <1>2, <1>4, <1>5, ContainedKept
<1> QED
  BY <1>3, <1>5, <1>6, <1>7, <1>8, <1>9, <1>10, <1>11, <1>12 DEF IInv

(* A task the breaker refused gives its slot back.                         *)
LEMMA StepReturnRefused == ASSUME IInv, NEW u \in Upload, ReturnRefused(u) PROVE IInv'
<1>1. /\ phase = "bulk" /\ task[u] = "returning" /\ Leave(u)
      /\ UNCHANGED <<options, phase, sample, probing, todo, certificate, s3Vars,
                     breaker, attempt, tripped, reportVars>>
  BY DEF ReturnRefused, Bulk
<1>2. /\ Pooled!IInv'
      /\ slot[u] = "running" /\ slot'[u] = "fulfilled"
      /\ \A v \in Upload \ {u} :
           slot'[v] = slot[v] \/ (slot[v] = "queued" /\ slot'[v] = "woken")
      /\ task' = [task EXCEPT ![u] = "settled"] /\ task \in [Upload -> Tasks]
  BY <1>1, SlotLeft DEF IInv, Typed
<1>3. Typed'
  BY <1>1, <1>2 DEF IInv, Typed, Tasks, reportVars, s3Vars
<1>4. Coupled'
  BY <1>1, <1>2 DEF IInv, Coupled
<1>5. Told'
  BY <1>1, <1>2 DEF IInv, Told, reportVars
<1>6. Sampling' /\ ToReport'
  BY <1>1, <1>2 DEF IInv, Sampling, ToReport, reportVars
<1>7. Counted'
  BY <1>1 DEF IInv, Counted, Having, reportVars
<1>8. Backed'
  BY <1>1 DEF IInv, Backed, s3Vars, reportVars
<1>9. Gated'
  BY <1>1 DEF IInv, Gated, GatesOpen, s3Vars
<1>10. Contained'
  BY <1>1, ContainedKept DEF reportVars
<1> QED
  BY <1>2, <1>3, <1>4, <1>5, <1>6, <1>7, <1>8, <1>9, <1>10 DEF IInv

(* A task that waits for its answer gets one it reports, and leaves.       *)
LEMMA Settles ==
  ASSUME IInv, NEW u \in Upload, NEW s \in Reported,
         Bulk, task[u] = "sending", Report(u, s), Leave(u),
         BreakerSound(breaker'), tripped' \in BOOLEAN, UNCHANGED attempt,
         \/ u \in alive /\ Removed(u)
         \/ s # "ABORTED" /\ UNCHANGED s3Vars
  PROVE  IInv'
<1>1. /\ phase = "bulk"
      /\ UNCHANGED <<options, phase, sample, probing, todo, certificate>>
  BY DEF Bulk
<1>2. /\ Pooled!IInv'
      /\ slot[u] = "running" /\ slot'[u] = "fulfilled"
      /\ \A v \in Upload \ {u} :
           slot'[v] = slot[v] \/ (slot[v] = "queued" /\ slot'[v] = "woken")
      /\ task' = [task EXCEPT ![u] = "settled"] /\ task \in [Upload -> Tasks]
  BY SlotLeft DEF IInv, Typed
<1>3. status[u] = "none" /\ s # "none" /\ status \in [Upload -> Statuses]
  BY DEF IInv, Told, Reported, Typed
<1>4. /\ status' = [status EXCEPT ![u] = s] /\ status' \in [Upload -> Statuses]
      /\ tally' \in [Reported -> Nat] /\ Counted'
  BY <1>3, ReportCounted DEF IInv
<1>5. Typed'
  BY <1>1, <1>2, <1>4 DEF IInv, Typed, Tasks, Removed, s3Vars
<1>6. Coupled'
  BY <1>1, <1>2 DEF IInv, Coupled
<1>7. Told'
  BY <1>1, <1>2, <1>3, <1>4 DEF IInv, Told
<1>8. Sampling' /\ ToReport'
  BY <1>1, <1>2, <1>3, <1>4 DEF IInv, Sampling, ToReport
<1>9. Backed'
  BY <1>1, <1>3, <1>4 DEF IInv, Backed, Removed, s3Vars
<1>10. Gated'
  BY <1>1 DEF IInv, Gated, GatesOpen
<1>11. Contained'
  BY <1>1, <1>3, <1>4, ContainedKept
<1> QED
  BY <1>2, <1>4, <1>5, <1>6, <1>7, <1>8, <1>9, <1>10, <1>11 DEF IInv

(* withRetry repeats: the task stays in its slot and says nothing.         *)
LEMMA StepRetry ==
  ASSUME IInv, NEW u \in Upload, NEW classes, AnswerSlowDown(u, classes) \/ Resend(u)
  PROVE  IInv'
<1>1. /\ phase = "bulk"
      /\ UNCHANGED <<options, phase, sample, probing, todo, certificate,
                     breaker, limiterVars, tripped, reportVars, s3Vars>>
  BY DEF AnswerSlowDown, Resend, Bulk
<1>2. /\ attempt' \in [Upload -> 0..MaxRetries + 1] /\ task' \in [Upload -> Tasks]
      /\ task[u] \in {"sending", "backoff"} /\ task'[u] \in {"sending", "backoff"}
      /\ task'[u] = "backoff" => attempt'[u] <= MaxRetries
      /\ \A v \in Upload \ {u} : task'[v] = task[v] /\ attempt'[v] = attempt[v]
  <2>1. /\ task \in [Upload -> Tasks] /\ attempt \in [Upload -> 0..MaxRetries + 1]
        /\ MaxRetries \in Nat
    BY LimitAssumption DEF IInv, Typed
  <2>2. CASE AnswerSlowDown(u, classes)
    BY <2>1, <2>2 DEF AnswerSlowDown, Tasks
  <2>3. CASE Resend(u)
    <3>1. /\ task[u] = "backoff" /\ task' = [task EXCEPT ![u] = "sending"]
          /\ attempt' = [attempt EXCEPT ![u] = @ + 1]
      BY <2>3 DEF Resend
    <3>2. attempt[u] <= MaxRetries /\ attempt[u] \in 0..MaxRetries + 1
      BY <3>1, <2>1 DEF IInv, Coupled
    <3>3. attempt[u] + 1 \in 0..MaxRetries + 1
      BY <3>2, <2>1
    <3> QED
      BY <3>1, <3>3, <2>1 DEF Tasks
  <2> QED
    BY <2>2, <2>3
<1>3. Typed'
  BY <1>1, <1>2 DEF IInv, Typed, reportVars, s3Vars
<1>4. Pooled!IInv'
  BY <1>1, PoolIdle DEF IInv
<1>5. Coupled'
  <2> SUFFICES ASSUME NEW v \in Upload
               PROVE  /\ task'[v] \in {"sending", "backoff", "returning"} <=> slot'[v] = "running"
                      /\ task'[v] = "settled" <=> slot'[v] = "fulfilled"
                      /\ slot'[v] # "rejected"
                      /\ task'[v] = "backoff" => attempt'[v] <= MaxRetries
    BY DEF Coupled
  <2>1. CASE v = u
    BY <2>1, <1>1, <1>2 DEF IInv, Coupled, limiterVars
  <2>2. CASE v # u
    BY <2>2, <1>1, <1>2 DEF IInv, Coupled, limiterVars
  <2> QED
    BY <2>1, <2>2
<1>6. Told'
  <2> SUFFICES ASSUME NEW v \in Upload
               PROVE  /\ task'[v] \in {"sending", "backoff"} \/ slot'[v] \in {"queued", "woken"}
                           => status'[v] = "none"
                      /\ task'[v] \in {"returning", "settled"} => status'[v] # "none"
    BY DEF Told
  <2>1. CASE v = u
    BY <2>1, <1>1, <1>2 DEF IInv, Told, limiterVars, reportVars
  <2>2. CASE v # u
    BY <2>2, <1>1, <1>2 DEF IInv, Told, limiterVars, reportVars
  <2> QED
    BY <2>1, <2>2
<1>7. Sampling' /\ ToReport'
  BY <1>1 DEF IInv, Sampling, ToReport, limiterVars, reportVars
<1>8. Counted'
  BY <1>1 DEF IInv, Counted, Having, reportVars
<1>9. Backed'
  BY <1>1 DEF IInv, Backed, s3Vars, reportVars
<1>10. Gated'
  BY <1>1 DEF IInv, Gated, GatesOpen, s3Vars
<1>11. Contained'
  BY <1>1, ContainedKept DEF reportVars
<1> QED
  BY <1>3, <1>4, <1>5, <1>6, <1>7, <1>8, <1>9, <1>10, <1>11 DEF IInv

-----------------------------------------------------------------------------

(* Every answer to a request: the canary's, the end of a task, or a retry. *)
LEMMA StepAnswer ==
  ASSUME IInv, NEW u \in Upload, Answer(u)
  PROVE  IInv'
<1>1. BreakerSound(breaker) /\ tripped \in BOOLEAN
  BY DEF IInv, Typed
<1>2. /\ "ABORTED" \in Verified /\ "SKIPPED_ALREADY_ABORTED" \in Verified
      /\ "ABORTED" \in Reported /\ "SKIPPED_ALREADY_ABORTED" \in Reported
      /\ "FAILED" \in Reported
  BY DEF Verified, Reported, Statuses
<1>3. CASE CanaryAborted(u)
  BY <1>2, <1>3, CanaryOutcome DEF CanaryAborted
<1>4. ASSUME NEW lost \in BOOLEAN, CanaryGone(u, lost) PROVE IInv'
  <2>1. \/ u \in alive /\ Removed(u)
        \/ UNCHANGED s3Vars
    BY <1>4 DEF CanaryGone
  <2> QED
    BY <2>1, <1>2, <1>4, CanaryOutcome DEF CanaryGone
<1>5. CASE AnswerAborted(u)
  <2>1. /\ Bulk /\ task[u] = "sending" /\ u \in alive /\ Removed(u)
        /\ breaker' = Succeeded(breaker) /\ Report(u, "ABORTED") /\ Leave(u)
        /\ UNCHANGED <<attempt, tripped>>
    BY <1>5 DEF AnswerAborted
  <2>2. BreakerSound(breaker')
    BY <1>1, <2>1, SucceededSound
  <2> QED
    BY <2>1, <2>2, <1>1, <1>2, Settles
<1>6. ASSUME NEW lost \in BOOLEAN, AnswerGone(u, lost) PROVE IInv'
  <2>1. /\ Bulk /\ task[u] = "sending"
        /\ (u \in alive /\ Removed(u)) \/ UNCHANGED s3Vars
        /\ Report(u, "SKIPPED_ALREADY_ABORTED") /\ Leave(u)
        /\ UNCHANGED <<breaker, attempt, tripped>>
    BY <1>6 DEF AnswerGone
  <2> QED
    BY <2>1, <1>1, <1>2, Settles
<1>7. ASSUME NEW classes \in ErrorClasses, AnswerSlowDown(u, classes) PROVE IInv'
  BY <1>7, StepRetry
<1>8. ASSUME NEW classes \in ErrorClasses, NEW lost \in BOOLEAN, CanaryRefused(u, classes, lost)
      PROVE  IInv'
  <2>1. /\ CanaryStep(u) /\ FailRest(u) /\ phase' = "certify" /\ UNCHANGED <<sample, probing>>
        /\ UNCHANGED s3Vars \/ (u \in alive /\ Removed(u))
        /\ \E jitter \in Jitters : breaker' = Failed(breaker, classes, jitter)
    BY <1>8 DEF CanaryRefused
  <2>2. BreakerSound(breaker')
    BY <1>1, <2>1, FailedSound
  <2>3. /\ phase = "canary" /\ ~probing /\ u = Head(sample)
        /\ UNCHANGED <<options, todo, limiterVars, task, attempt, tripped, certificate>>
    BY <2>1 DEF CanaryStep
  <2> QED
    BY <2>1, <2>2, <2>3, CanaryFails
<1>9. ASSUME NEW classes \in ErrorClasses, NEW lost \in BOOLEAN, AnswerError(u, classes, lost)
      PROVE  IInv'
  <2>1. /\ Bulk /\ task[u] = "sending"
        /\ (u \in alive /\ Removed(u)) \/ UNCHANGED s3Vars
        /\ \E jitter \in Jitters : breaker' = Refresh(Failed(breaker, classes, jitter))
        /\ tripped' = (tripped \/ breaker'.state = "OPEN")
        /\ Report(u, "FAILED") /\ Leave(u) /\ UNCHANGED attempt
    BY <1>9 DEF AnswerError
  <2>2. BreakerSound(breaker')
    BY <1>1, <2>1, FailedSound, RefreshSound
  <2>3. tripped' \in BOOLEAN
    BY <2>1
  <2> QED
    BY <2>1, <2>2, <2>3, <1>2, Settles
<1> QED
  BY <1>3, <1>4, <1>5, <1>6, <1>7, <1>8, <1>9 DEF Answer

(* A HeadObject that fails in another way fails the canary.                *)
LEMMA StepProbeError ==
  ASSUME IInv, NEW classes, ProbeError(classes)
  PROVE  IInv'
<1>1. /\ phase = "canary" /\ FailRest(Head(sample)) /\ phase' = "certify"
      /\ UNCHANGED <<options, limiterVars, task, attempt, tripped, certificate, s3Vars,
                     sample, probing, todo>>
      /\ \E jitter \in Jitters : breaker' = Failed(breaker, classes, jitter)
  BY DEF ProbeError, CanaryProbe
<1>2. BreakerSound(breaker')
  BY <1>1, FailedSound DEF IInv, Typed
<1> QED
  BY <1>1, <1>2, CanaryFails

(* Every step keeps the invariant.                                         *)
LEMMA NextIInv == IInv /\ [Next]_vars => IInv'
<1> SUFFICES ASSUME IInv, [Next]_vars PROVE IInv'
  OBVIOUS
<1>1. BreakerSound(breaker)
  BY DEF IInv, Typed
<1>2. CASE Run
  BY <1>2, StepRefuseRun, StepEnterRun, StepLaunch, StepAllSettled, StepCertify DEF Run
<1>3. CASE ProbeAnswer
  BY <1>3, StepProbeExpected, StepProbeError DEF ProbeAnswer
<1>4. ASSUME NEW u \in Upload,
             Answer(u) \/ ResumeTask(u) \/ ReturnRefused(u) \/ Resend(u)
      PROVE  IInv'
  BY <1>4, StepAnswer, StepResumeTask, StepReturnRefused, StepRetry
<1>5. ASSUME NEW u \in Upload, Vanish(u) PROVE IInv'
  BY <1>1, <1>5, StepIdle DEF Vanish
<1>6. CASE Tick
  <2>1. BreakerSound(breaker')
    BY <1>1, <1>6, AgedSound DEF Tick
  <2> QED
    BY <2>1, <1>6, StepIdle DEF Tick, s3Vars
<1>7. CASE UNCHANGED vars
  BY <1>1, <1>7, StepIdle DEF vars, s3Vars
<1> QED
  BY <1>2, <1>3, <1>4, <1>5, <1>6, <1>7 DEF Next

(* A run of executeAbortPlan keeps the inductive invariant, whatever S3    *)
(* answers, in whatever order tasks get their slots and whoever else       *)
(* completes or aborts the uploads.                                        *)
THEOREM AbortInvariant == Spec => []IInv
  BY InitIInv, NextIInv, PTL DEF Spec

(* The types that the runs check follow from the invariant.                *)
LEMMA TypesHold == IInv => TypeOK
<1> SUFFICES ASSUME IInv PROVE TypeOK
  OBVIOUS
<1>1. Limiter!TypeOK
  BY PoolTyped DEF IInv
<1>2. breaker \in BreakerType
  BY DEF IInv, Typed, BreakerSound, BreakerTyped
<1>3. tally \in [Reported -> 0..Cardinality(Upload)]
  <2>1. \A s \in Reported : tally[s] \in 0..Cardinality(Upload)
    BY HavingFinite, PlanFacts DEF IInv, Counted
  <2> QED
    BY <2>1 DEF IInv, Typed
<1> QED
  BY <1>1, <1>2, <1>3 DEF IInv, Typed, TypeOK

(* What executeAbortPlan returns is true: every upload of the plan is      *)
(* reported once and the counters add up to the plan, an upload reported   *)
(* ABORTED is one S3 lost through this run, and the certificate            *)
(* (abort.ts:417-438) lists exactly these.                                 *)
THEOREM AbortReportSound == Spec => []ReportSound
<1>1. IInv => ReportSound
  <2> SUFFICES ASSUME IInv PROVE ReportSound
    OBVIOUS
  <2>1. TypeOK
    BY TypesHold
  <2>2. ReportAddsUp
    BY DEF ReportAddsUp, IInv, Counted, ToReport, Having
  <2>3. CertificateSound
    BY DEF CertificateSound, IInv, Backed, Having
  <2> QED
    BY <2>1, <2>2, <2>3 DEF ReportSound
<1> QED
  BY <1>1, AbortInvariant, PTL

(* A request is out only from a task with a slot, and a task sends no more *)
(* than its retries allow.                                                 *)
LEMMA RequestsKept ==
  ASSUME IInv
  PROVE  RequestsBounded
<1>1. /\ Cardinality(Pooled!Holders) <= Limit /\ IsFiniteSet(Pooled!Holders)
      /\ Cardinality(Pooled!Holders) \in Nat
  <2>1. Pooled!CountExact /\ Pooled!TypeOK
    BY DEF IInv, Pooled!IInv
  <2>2. Pooled!Holders \in SUBSET Upload
    BY DEF Pooled!Holders
  <2>3. IsFiniteSet(Pooled!Holders)
    BY <2>2, PlanFacts, FS_Subset
  <2> QED
    BY <2>1, <2>3, FS_CardinalityType, PoolCardinality, LimitAssumption
       DEF Pooled!CountExact, Pooled!TypeOK
<1>2. InFlight \in SUBSET Pooled!Holders
  BY DEF InFlight, Pooled!Holders, IInv, Coupled
<1>3. IsFiniteSet(InFlight) /\ Cardinality(InFlight) <= Cardinality(Pooled!Holders)
  BY <1>1, <1>2, FS_Subset
<1> QED
  BY <1>1, <1>3, FS_CardinalityType, LimitAssumption DEF RequestsBounded

(* What a run may do to a bucket is bounded by all its gates at once:      *)
(* without them nothing is removed and, unless bypassed, no more than the  *)
(* ceiling of the inventory; until every canary is verified nothing        *)
(* outside the sample is touched; no more requests are out than there are  *)
(* slots.                                                                  *)
THEOREM AbortHarmBounded == Spec => []HarmBounded
<1>1. IInv => HarmBounded
  <2> SUFFICES ASSUME IInv PROVE HarmBounded
    OBVIOUS
  <2>1. options \in [confirm : BOOLEAN, wasabi : BOOLEAN, force : BOOLEAN,
                     inventory : Nat, bypass : BOOLEAN, skipCanary : BOOLEAN]
    BY OptionsAssumption DEF IInv, Typed
  <2>2. destroyed # {} => GatesOpen
    BY DEF IInv, Gated
  <2>3. /\ destroyed \in SUBSET Upload /\ IsFiniteSet(destroyed)
        /\ Cardinality(destroyed) \in Nat /\ Cardinality(destroyed) <= Len(Plan)
        /\ destroyed = {} => Cardinality(destroyed) = 0
    <3>1. destroyed \in SUBSET Upload
      BY DEF IInv, Typed
    <3>2. IsFiniteSet(destroyed) /\ Cardinality(destroyed) <= Cardinality(Upload)
      BY <3>1, PlanFacts, FS_Subset
    <3>3. Cardinality(destroyed) \in Nat
      BY <3>2, FS_CardinalityType
    <3> QED
      BY <3>1, <3>2, <3>3, PlanFacts, FS_EmptySet
  <2>4. destroyed # {} => options.confirm
    BY <2>2 DEF GatesOpen
  <2>5. options.wasabi /\ ~options.force => destroyed \cap Young = {}
    BY <2>2 DEF GatesOpen
  <2>6. ~options.bypass =>
          IF options.inventory > 0
          THEN 100 * Cardinality(destroyed) <= MaxPercent * options.inventory
          ELSE Cardinality(destroyed) <= MaxAbsoluteFallback
    <3>1. options.inventory \in Nat /\ options.bypass \in BOOLEAN /\ Len(Plan) \in Nat
      BY <2>1, PlanFacts
    <3>2. destroyed # {} => WithinCeiling(Len(Plan), options.inventory, options.bypass)
      BY <2>2 DEF GatesOpen
    <3> QED
      BY <2>3, <3>1, <3>2, CeilingKept
  <2>7. CanaryContained
    BY DEF IInv, Contained
  <2> QED
    BY <2>4, <2>5, <2>6, <2>7, RequestsKept DEF HarmBounded, GatesBoundHarm
<1> QED
  BY <1>1, AbortInvariant, PTL

(* After a trip was seen no task that was not sending begins to.           *)
LEMMA NoNewRequest ==
  ASSUME IInv, Next, tripped, NEW v \in Upload, task'[v] \in {"sending", "backoff"}
  PROVE  task[v] \in {"sending", "backoff"}
<1>1. task \in [Upload -> Tasks]
  BY DEF IInv, Typed
<1>2. ASSUME NEW u \in Upload, Begin(u) PROVE task[v] \in {"sending", "backoff"}
  <2>1. task' = [task EXCEPT ![u] = "returning"]
    BY <1>2 DEF Begin
  <2> QED
    BY <1>1, <2>1
<1>3. ASSUME NEW u \in Upload, Leave(u) PROVE task[v] \in {"sending", "backoff"}
  BY <1>1, <1>3 DEF Leave
<1>4. CASE UNCHANGED task
  BY <1>4
<1>5. CASE Run
  <2>1. CASE Launch
    <3>1. Head(todo) \in Upload
      <4>1. todo \in Seq(Upload) /\ todo # <<>>
        BY <2>1 DEF IInv, Typed, ToReport, Launch
      <4> QED
        BY <4>1, HeadTailProperties
    <3>2. Begin(Head(todo)) \/ UNCHANGED task
      BY <2>1 DEF Launch
    <3> QED
      BY <3>1, <3>2, <1>2, <1>4
  <2>2. CASE ~Launch
    BY <2>2, <1>4, <1>5 DEF Run, RefuseRun, EnterRun, AllSettled, Certify
  <2> QED
    BY <2>1, <2>2
<1>6. CASE ProbeAnswer \/ Tick
  BY <1>4, <1>6 DEF ProbeAnswer, ProbeExpected, ProbeError, CanaryProbe, Tick
<1>7. ASSUME NEW u \in Upload, Answer(u) PROVE task[v] \in {"sending", "backoff"}
  <2>1. CASE CanaryAborted(u) \/ \E lost \in BOOLEAN : CanaryGone(u, lost)
    BY <2>1, <1>4 DEF CanaryAborted, CanaryGone, CanaryStep
  <2>2. ASSUME NEW classes \in ErrorClasses, NEW lost \in BOOLEAN, CanaryRefused(u, classes, lost)
        PROVE  task[v] \in {"sending", "backoff"}
    BY <2>2, <1>4 DEF CanaryRefused, CanaryStep
  <2>3. CASE AnswerAborted(u) \/ \E lost \in BOOLEAN : AnswerGone(u, lost)
    BY <2>3, <1>3 DEF AnswerAborted, AnswerGone
  <2>4. ASSUME NEW classes \in ErrorClasses, NEW lost \in BOOLEAN, AnswerError(u, classes, lost)
        PROVE  task[v] \in {"sending", "backoff"}
    BY <2>4, <1>3 DEF AnswerError
  <2>5. ASSUME NEW classes \in ErrorClasses, AnswerSlowDown(u, classes)
        PROVE  task[v] \in {"sending", "backoff"}
    BY <2>5, <1>1 DEF AnswerSlowDown
  <2> QED
    BY <1>7, <2>1, <2>2, <2>3, <2>4, <2>5 DEF Answer
<1>8. ASSUME NEW u \in Upload, ResumeTask(u) \/ ReturnRefused(u) \/ Resend(u) \/ Vanish(u)
      PROVE  task[v] \in {"sending", "backoff"}
  <2>1. CASE ResumeTask(u)
    BY <2>1, <1>2 DEF ResumeTask
  <2>2. CASE ReturnRefused(u)
    BY <2>2, <1>3 DEF ReturnRefused
  <2>3. CASE Resend(u) \/ Vanish(u)
    BY <2>3, <1>1 DEF Resend, Vanish
  <2> QED
    BY <1>8, <2>1, <2>2, <2>3
<1> QED
  BY <1>5, <1>6, <1>7, <1>8 DEF Next

(* Once a task has seen the breaker OPEN (abort.ts:332-333) no upload      *)
(* outside those in flight is ever requested, even if the cooldown ends or *)
(* a late success closes the breaker before the queue has drained.         *)
THEOREM AbortTripLatches == Spec => TripLatches
<1>1. ASSUME IInv, Next, tripped
      PROVE  {u \in Upload : task'[u] \in {"sending", "backoff"}} \subseteq InFlight
  BY <1>1, NoNewRequest DEF InFlight
<1>2. IInv /\ [Next]_vars =>
        [tripped => {u \in Upload : task'[u] \in {"sending", "backoff"}} \subseteq InFlight]_vars
  BY <1>1
<1> QED
  BY <1>2, AbortInvariant, PTL DEF Spec, TripLatches

-----------------------------------------------------------------------------

(* Between the gates and the certificate a step settles verdicts and never *)
(* takes one back.                                                         *)
LEMMA StepsSettle ==
  ASSUME IInv, Next, ~RefuseRun, ~Certify
  PROVE  \/ /\ phase # "over" /\ phase' # "over" /\ UNCHANGED certificate
            /\ \A u \in Upload : status[u] # "none" => status'[u] = status[u]
            /\ status' \in [Upload -> Statuses]
         \/ UNCHANGED <<status, certificate, phase>>
<1> DEFINE Goal == \/ /\ phase # "over" /\ phase' # "over" /\ UNCHANGED certificate
                      /\ \A u \in Upload : status[u] # "none" => status'[u] = status[u]
                      /\ status' \in [Upload -> Statuses]
                   \/ UNCHANGED <<status, certificate, phase>>
<1> SUFFICES Goal
  OBVIOUS
<1>1. IInv'
  BY NextIInv
<1>2. status \in [Upload -> Statuses] /\ status' \in [Upload -> Statuses]
  BY <1>1 DEF IInv, Typed
<1>3. ASSUME NEW u \in Upload, NEW s, Report(u, s), status[u] = "none", phase # "over",
             phase' # "over", UNCHANGED certificate
      PROVE  Goal
  BY <1>2, <1>3 DEF Report
<1>4. ASSUME NEW u, FailRest(u), phase = "canary", phase' = "certify", UNCHANGED certificate
      PROVE  Goal
  BY <1>2, <1>4 DEF FailRest
<1>5. ASSUME UNCHANGED <<status, certificate>>, phase # "over", phase' # "over" PROVE Goal
  BY <1>2, <1>5
<1>6. ASSUME NEW u \in Upload, Begin(u), status[u] = "none", phase # "over",
             phase' # "over", UNCHANGED certificate
      PROVE  Goal
  BY <1>3, <1>5, <1>6 DEF Begin, reportVars
<1> HIDE DEF Goal
<1>7. CASE Run
  <2>1. CASE EnterRun
    BY <2>1, <1>5 DEF EnterRun, Hand, reportVars
  <2>2. CASE AllSettled
    BY <2>2, <1>5 DEF AllSettled, reportVars
  <2>3. CASE Launch
    <3>1. /\ todo \in Seq(Upload) /\ todo # <<>>
          /\ \A u \in Upload : u \in Elements(todo) => status[u] = "none"
      BY <2>3 DEF IInv, Typed, ToReport, Launch
    <3>2. Head(todo) \in Upload /\ Head(todo) \in Elements(todo)
      <4>1. Distinct(todo)
        BY <2>3 DEF IInv, ToReport, Launch
      <4> QED
        BY <3>1, <4>1, TailSound
    <3>3. Begin(Head(todo)) \/ UNCHANGED status
      BY <2>3 DEF Launch, reportVars
    <3>4. phase = "launch" /\ phase' \in {"launch", "bulk"} /\ UNCHANGED certificate
      BY <2>3 DEF Launch
    <3> QED
      BY <3>1, <3>2, <3>3, <3>4, <1>5, <1>6
  <2> QED
    BY <1>7, <2>1, <2>2, <2>3 DEF Run
<1>8. CASE ProbeAnswer
  <2>1. CASE ProbeExpected
    BY <2>1, <1>5 DEF ProbeExpected, CanaryProbe, Hand, reportVars
  <2>2. ASSUME NEW classes, ProbeError(classes) PROVE Goal
    BY <2>2, <1>4 DEF ProbeError, CanaryProbe
  <2> QED
    BY <1>8, <2>1, <2>2 DEF ProbeAnswer
<1>9. CASE Tick
  <2>1. UNCHANGED <<status, certificate, phase>>
    BY <1>9 DEF Tick, reportVars
  <2> QED
    BY <2>1 DEF Goal
<1>10. ASSUME NEW u \in Upload, Answer(u) PROVE Goal
  <2>1. phase = "canary" /\ ~probing /\ u = Head(sample) => status[u] = "none"
    BY HeadOfSample
  <2>2. task[u] = "sending" => status[u] = "none"
    BY DEF IInv, Told
  <2>3. CASE CanaryAborted(u) \/ \E lost \in BOOLEAN : CanaryGone(u, lost)
    BY <2>1, <2>3, <1>3 DEF CanaryAborted, CanaryGone, CanaryStep
  <2>4. ASSUME NEW classes \in ErrorClasses, NEW lost \in BOOLEAN, CanaryRefused(u, classes, lost)
        PROVE  Goal
    BY <2>4, <1>4 DEF CanaryRefused, CanaryStep
  <2>5. CASE AnswerAborted(u) \/ \E lost \in BOOLEAN : AnswerGone(u, lost)
    BY <2>2, <2>5, <1>3 DEF AnswerAborted, AnswerGone, Bulk
  <2>6. ASSUME NEW classes \in ErrorClasses, NEW lost \in BOOLEAN, AnswerError(u, classes, lost)
        PROVE  Goal
    BY <2>2, <2>6, <1>3 DEF AnswerError, Bulk
  <2>7. ASSUME NEW classes \in ErrorClasses, AnswerSlowDown(u, classes) PROVE Goal
    BY <2>7, <1>5 DEF AnswerSlowDown, Bulk, reportVars
  <2> QED
    BY <1>10, <2>3, <2>4, <2>5, <2>6, <2>7 DEF Answer
<1>11. ASSUME NEW u \in Upload, ResumeTask(u) \/ ReturnRefused(u) \/ Resend(u) \/ Vanish(u)
       PROVE  Goal
  <2>1. CASE ResumeTask(u)
    <3>1. status[u] = "none"
      BY <2>1, SlotResumed DEF IInv, Told, ResumeTask
    <3> QED
      BY <2>1, <3>1, <1>6 DEF ResumeTask, Bulk
  <2>2. CASE ReturnRefused(u) \/ Resend(u) \/ Vanish(u)
    BY <2>2, <1>5 DEF ReturnRefused, Resend, Vanish, Bulk, reportVars
  <2> QED
    BY <1>11, <2>1, <2>2
<1> QED
  BY <1>7, <1>8, <1>9, <1>10, <1>11 DEF Next

(* What a status says to the abstract run.                                 *)
LEMMA VerdictFacts ==
  ASSUME NEW s \in Statuses
  PROVE  /\ VerdictOf(s) \in {"pending", "destroyed", "skipped", "failed"}
         /\ VerdictOf(s) = "pending" <=> s = "none"
         /\ VerdictOf(s) = "destroyed" <=> s = "ABORTED"
  BY DEF Statuses, VerdictOf

(* executeAbortPlan implements the abstract destructive run: an upload     *)
(* gets one verdict and keeps it; the run ends refused, with nothing       *)
(* judged, or with every upload judged and, if a certificate could be      *)
(* written, exactly the destroyed ones on it.                              *)
THEOREM AbortImplementsDestructiveRun == Spec => RunRefined
<1> DEFINE verdict == [u \in Upload |-> VerdictOf(status[u])]
<1>1. Init => Abstract!RunInit
  BY DEF Init, Abstract!RunInit, VerdictOf
<1>2. ASSUME IInv, [Next]_vars
      PROVE  [Abstract!RunNext]_(Abstract!runVars)
  <2>1. /\ status \in [Upload -> Statuses] /\ status' \in [Upload -> Statuses]
    BY <1>2, NextIInv DEF IInv, Typed
  <2>2. /\ \A u \in Upload : /\ verdict[u] = "pending" <=> status[u] = "none"
                             /\ verdict[u] = "destroyed" <=> status[u] = "ABORTED"
        /\ \A u \in Upload : verdict'[u] = VerdictOf(status'[u])
        /\ verdict' \in [Upload -> {"destroyed", "skipped", "failed"} \cup {"pending"}]
    BY <2>1, VerdictFacts
  <2>3. CASE RefuseRun
    <3>1. phase = "gates" /\ phase' = "over" /\ UNCHANGED <<status, certificate>>
      BY <2>3 DEF RefuseRun, reportVars
    <3>2. \A u \in Upload : status[u] = "none"
      BY <1>2, <3>1 DEF IInv, ToReport
    <3> QED
      BY <2>2, <3>1, <3>2 DEF Abstract!RunNext, Abstract!Refuse
  <2>4. CASE Certify
    <3>1. /\ phase = "certify" /\ phase' = "over" /\ UNCHANGED status
          /\ certificate' \in {{}, {u \in Upload : status[u] = "ABORTED"}}
      BY <2>4 DEF Certify, reportVars
    <3>2. \A u \in Upload : status[u] # "none"
      BY <1>2, <3>1 DEF IInv, ToReport
    <3>3. {u \in Upload : status[u] = "ABORTED"} = {u \in Upload : verdict[u] = "destroyed"}
      BY <2>2
    <3> QED
      BY <2>2, <3>1, <3>2, <3>3 DEF Abstract!RunNext, Abstract!Conclude
  <2>5. CASE Next /\ ~RefuseRun /\ ~Certify
    <3>1. CASE UNCHANGED <<status, certificate, phase>>
      BY <3>1 DEF Abstract!runVars
    <3>2. CASE /\ phase # "over" /\ phase' # "over" /\ UNCHANGED certificate
               /\ \A u \in Upload : status[u] # "none" => status'[u] = status[u]
      <4>1. \A u \in Upload : verdict[u] # "pending" => verdict'[u] = verdict[u]
        BY <2>2, <3>2
      <4> QED
        BY <2>2, <3>2, <4>1
           DEF Abstract!RunNext, Abstract!Settle, Abstract!Verdicts
    <3> QED
      BY <1>2, <2>5, <3>1, <3>2, StepsSettle
  <2>6. CASE UNCHANGED vars
    BY <2>6 DEF vars, reportVars, Abstract!runVars
  <2> QED
    BY <1>2, <2>3, <2>4, <2>5, <2>6
<1> QED
  BY <1>1, <1>2, AbortInvariant, PTL DEF Spec, RunRefined, Abstract!RunSpec
=============================================================================
