------------------------ MODULE VersionExecutorProofs ------------------------
(***************************************************************************)
(* What a version deletion may do and may claim, for every plan, batch     *)
(* size, breaker and answer of S3: HarmBounded, BulkReportSound and        *)
(* OpenStopsBatches follow from the inductive invariant IInv.              *)
(*                                                                         *)
(* BulkReportSound is not inductive: that the next answer keeps it depends *)
(* on what has not been asked yet.  Accounted adds that the versions left, *)
(* of the batch that is out and of the rest of the plan, are all different *)
(* and counted, named and destroyed nowhere; Sampling and Concluded carry  *)
(* what the canary learned up to the point where the bulk starts from it.  *)
(* CanaryContained needs the same two: outside the sample nothing is       *)
(* touched before the last probe, and by then the sample is gone.          *)
(*                                                                         *)
(* The second part is about the listings that the plan is made from and    *)
(* the rehydrator works on, for every bucket, page size and writer:        *)
(* ListingExact and OnlyMarkersUncovered follow from ScanIInv.  A listing  *)
(* in progress is exact because what is not listed is ahead of the marker  *)
(* and what is listed is behind it; a plan in progress because a version   *)
(* that was not the latest has a newer one above it, until a client or a   *)
(* popped marker takes that one away and the key is noted as uncovered.    *)
(***************************************************************************)
EXTENDS VersionExecutor, BucketScan, CommonTheorems

(* The types; the breaker with the facts its own steps rest on.            *)
Typed ==
  /\ options \in Options
  /\ phase \in Phases
  /\ gate \in {"none", "skipped", "verified", "failed"}
  /\ BreakerSound(breaker)
  /\ pending \in SUBSET Version /\ attempt \in 0..MaxRetries + 1
  /\ probes \in Seq(Version) /\ remaining \in Seq(Version)
  /\ deleted \in Nat /\ failed \in Nat /\ failedSet \in SUBSET Version
  /\ certificate \in SUBSET Version
  /\ alive \in SUBSET Version /\ destroyed \in SUBSET (Version \ alive)

(* Nothing was touched before the gates were open.                         *)
Gated == phase \notin {"gates", "refused"} \/ destroyed # {} => GatesOpen

(* Versions that are gone, or that the canary's probe could not tell so.   *)
Lost == (Version \ alive) \cup (CanarySet \cap Unversioned)

(* Until the canary is through, only the sample was touched, nothing was   *)
(* reported, and what was probed is gone.                                  *)
Sampling ==
  gate = "none" =>
    /\ phase \in {"gates", "refused", "canary", "probe", "threw"}
    /\ remaining = Plan /\ deleted = 0 /\ failed = 0 /\ failedSet = {}
    /\ destroyed \subseteq CanarySet
    /\ phase \in {"gates", "refused"} => destroyed = {}
    /\ phase \in {"canary", "probe"} => Plan # <<>> /\ pending \subseteq CanarySet
    /\ phase = "probe" => probes # <<>> /\ Distinct(probes) /\ CanarySet \ Elements(probes) \subseteq Lost

(* How the canary ended, and what that says of the sample.                 *)
Concluded ==
  /\ gate = "failed" => destroyed \subseteq CanarySet /\ phase \in {"certify", "over"}
  /\ gate = "verified" => CanarySet \subseteq Lost
  /\ gate = "skipped" => options.skipCanary \/ Plan = <<>>
  /\ gate \in {"verified", "skipped"} => phase \in {"loop", "batch", "certify", "threw", "over"}

(* The canary is through, or was never due.                                *)
Bulk == gate \in {"verified", "skipped"}

(* The versions the bulk has not dealt with.                               *)
Left == (IF phase = "batch" THEN pending ELSE {}) \cup Elements(remaining)

(* While there are such: each is counted, and named, nowhere yet.          *)
Accounted ==
  Bulk /\ phase \in {"loop", "batch"} =>
    /\ Distinct(remaining)
    /\ phase = "batch" => pending \cap Elements(remaining) = {}
    /\ Left \cap (failedSet \cup destroyed) = {}
    /\ deleted <= Cardinality(Lost \ Left)
    /\ deleted + failed + Cardinality(Left) <= Len(Plan)

(* A batch is out only while the breaker was not seen OPEN.                *)
Admitted == phase = "batch" => breaker.state # "OPEN"

(* The inductive invariant.                                                *)
IInv == Typed /\ Gated /\ Sampling /\ Concluded /\ Accounted /\ BulkReportSound /\ Admitted

-----------------------------------------------------------------------------
(* The canary gate counts as everybody else.                               *)
LEMMA CanaryCardinality ==
  ASSUME NEW S
  PROVE  Canary!Cardinality(S) = Cardinality(S)
  BY DEF Canary!Cardinality, Cardinality

(* The plan names every version once, so there are no more than it is long. *)
LEMMA PlanFacts ==
  /\ Len(Plan) \in Nat /\ DOMAIN Plan = 1..Len(Plan)
  /\ \A i \in 1..Len(Plan) : Plan[i] \in Version /\ Modified[Plan[i]] \in Nat
  /\ IsFiniteSet(1..Len(Plan)) /\ Cardinality(1..Len(Plan)) = Len(Plan)
  /\ IsFiniteSet(Version) /\ Cardinality(Version) \in Nat /\ Cardinality(Version) <= Len(Plan)
<1>1. Len(Plan) \in Nat /\ DOMAIN Plan = 1..Len(Plan) /\ Plan \in [1..Len(Plan) -> Version]
  BY PlanAssumption, LenProperties
<1> DEFINE n == Len(Plan)
<1>2. IsFiniteSet(1..n) /\ Cardinality(1..n) = n
  <2> HIDE DEF n
  <2>1. n \in Int /\ 1 \in Int /\ n \in Nat
    BY <1>1 DEF n
  <2> QED
    BY <2>1, FS_Interval
<1>3. Plan \in Surjection(1..n, Version)
  BY <1>1, PlanAssumption DEF Surjection
<1>4. IsFiniteSet(Version) /\ Cardinality(Version) <= Cardinality(1..n)
  BY <1>2, <1>3, FS_Surjection
<1> QED
  BY <1>1, <1>2, <1>4, FS_CardinalityType, PlanAssumption

(* The positions of the plan, ranked by age.                               *)
LEMMA SampleRanked ==
  /\ \A i \in 1..Len(Plan) : Canary!RankOf(i) = AgeRank(Plan, Modified, Len(Plan), i)
  /\ Canary!SampleSize \in 0..Len(Plan)
  /\ Plan # <<>> => Canary!SampleSize # 0
<1>1. ASSUME NEW i \in 1..Len(Plan)
      PROVE  Canary!RankOf(i) = AgeRank(Plan, Modified, Len(Plan), i)
  BY PlanFacts, CanaryCardinality DEF Canary!RankOf, Canary!Older, AgeRank
<1>2. Plan # <<>> => Len(Plan) # 0
  BY EmptySeq, PlanAssumption
<1>3. Canary!SampleSize \in 0..Len(Plan) /\ (Plan # <<>> => Canary!SampleSize # 0)
  BY <1>2, PlanFacts, BatchAssumption DEF Canary!SampleSize
<1> QED
  BY <1>1, <1>3

(* The sample is the oldest versions, each once.                            *)
LEMMA SampleSound ==
  /\ Canary!Sample \in Seq(Version)
  /\ Distinct(Canary!Sample)
  /\ CanarySet = Elements(Canary!Sample) /\ CanarySet \in SUBSET Version
  /\ \A i \in 1..Len(Plan) : Canary!InSample(Plan[i]) <=> Plan[i] \in CanarySet
  /\ Plan # <<>> => Canary!Sample # <<>>
<1> DEFINE n == Len(Plan)
           m == Canary!SampleSize
           at == [k \in 1..m |-> CHOOSE i \in DOMAIN Plan : Canary!RankOf(i) = k]
           rank == [i \in 1..n |-> Canary!RankOf(i)]
           s == Canary!Sample
<1>1. /\ n \in Nat /\ Plan \in [1..n -> Version] /\ DOMAIN Plan = 1..n
      /\ \A i, j \in 1..n : Plan[i] = Plan[j] => i = j
      /\ Modified \in [Version -> Nat]
  BY PlanFacts, PlanAssumption
<1>2. /\ \A i, j \in 1..n : rank[i] = rank[j] => i = j
      /\ \A k \in 1..n : \E i \in 1..n : Canary!RankOf(i) = k
  <2> DEFINE a(i) == AgeRank(Plan, Modified, n, i)
  <2>1. \A i \in 1..n : rank[i] = a(i) /\ Canary!RankOf(i) = a(i)
    BY SampleRanked
  <2>2. /\ \A i, j \in 1..n : a(i) = a(j) => i = j
        /\ \A k \in 1..n : \E i \in 1..n : a(i) = k
    <3>1. n \in Nat /\ Plan \in [1..n -> Version] /\ Modified \in [Version -> Nat]
      BY <1>1
    <3> HIDE DEF n
    <3>2. \A i, j \in 1..n : AgeRank(Plan, Modified, n, i) = AgeRank(Plan, Modified, n, j) => i = j
      BY <3>1, AgeRanked
    <3>3. \A k \in 1..n : \E i \in 1..n : AgeRank(Plan, Modified, n, i) = k
      BY <3>1, AgeRanked
    <3> QED
      BY <3>2, <3>3
  <2> HIDE DEF a, n, rank
  <2> QED
    BY <2>1, <2>2
<1>3. m \in 0..n
  BY SampleRanked
<1>4. \A k \in 1..m : at[k] \in 1..n /\ rank[at[k]] = k
  <2> SUFFICES ASSUME NEW k \in 1..m
               PROVE  at[k] \in 1..n /\ rank[at[k]] = k
    OBVIOUS
  <2>1. k \in 1..n
    <3> HIDE DEF m, n
    <3> QED BY <1>1, <1>3
  <2>2. \E i \in DOMAIN Plan : Canary!RankOf(i) = k
    BY <2>1, <1>1, <1>2
  <2>3. at[k] \in DOMAIN Plan /\ Canary!RankOf(at[k]) = k
    BY <2>2, Zenon
  <2> QED
    BY <2>3, <1>1
<1>5. s = [k \in 1..m |-> Plan[at[k]]]
  <2>1. \A k \in 1..m : at[k] = CHOOSE i \in DOMAIN Plan : Canary!RankOf(i) = k
    OBVIOUS
  <2> QED
    BY <2>1 DEF Canary!Sample
<1>6. s \in Seq(Version) /\ Len(s) = m /\ Distinct(s)
  <2>1. m \in Nat /\ 1..n \in SUBSET (1..n)
    <3> HIDE DEF n, m
    <3> QED BY <1>1, <1>3
  <2>2. Ranking(rank, at, m, 1..n) /\ OneToOne(Plan, 1..n)
    BY <1>1, <1>2, <1>4 DEF Ranking, OneToOne
  <2>3. s = InOrder(Plan, at, m)
    BY <1>5 DEF InOrder
  <2> HIDE DEF n, m, at, rank, s
  <2> QED
    BY <1>1, <2>1, <2>2, <2>3, Listed
<1>7. /\ CanarySet = Elements(s) /\ CanarySet \in SUBSET Version
      /\ \A i \in 1..n : Canary!InSample(Plan[i]) <=> Plan[i] \in CanarySet
  <2>1. DOMAIN s = 1..m /\ \A i \in 1..m : s[i] \in Version
    <3> HIDE DEF s, m
    <3> QED BY <1>6, ElementOfSeq, LenProperties
  <2>2. CanarySet = {s[i] : i \in 1..m}
    BY <2>1 DEF CanarySet, SetOf
  <2>3. Elements(s) = {s[i] : i \in 1..m}
    <3> HIDE DEF s, m
    <3> QED BY <1>6 DEF Elements
  <2>4. \A v : Canary!InSample(v) <=> v \in {s[i] : i \in 1..m}
    BY DEF Canary!InSample
  <2> HIDE DEF s, m
  <2> QED
    BY <2>1, <2>2, <2>3, <2>4
<1>8. Plan # <<>> => s # <<>>
  <2> HIDE DEF s, m
  <2>1. m = 0 <=> s = <<>>
    BY <1>6, EmptySeq
  <2> QED
    BY <2>1, SampleRanked DEF m
<1> QED
  BY <1>6, <1>7, <1>8

(* The others are the versions outside the sample, each once.               *)
LEMMA OthersSound ==
  /\ Canary!Others \in Seq(Version)
  /\ Distinct(Canary!Others)
  /\ \A u \in Version : u \notin CanarySet <=> u \in Elements(Canary!Others)
<1> DEFINE n == Len(Plan)
           S == Canary!Rest
           m == Cardinality(S)
           at == [k \in 1..m |-> CHOOSE i \in S : Canary!PlaceOf(i) = k]
           rank == [i \in S |-> Canary!PlaceOf(i)]
           s == Canary!Others
<1>1. /\ n \in Nat /\ Plan \in [1..n -> Version]
      /\ \A i, j \in 1..n : Plan[i] = Plan[j] => i = j
  BY PlanFacts, PlanAssumption
<1>2. S \in SUBSET (1..n) /\ \A i \in 1..n : i \in S <=> Plan[i] \notin CanarySet
  BY PlanFacts, SampleSound DEF Canary!Rest
<1>3. \A i \in S : Canary!PlaceOf(i) = PlaceRank(S, i)
  BY CanaryCardinality DEF Canary!PlaceOf, PlaceRank
<1>4. /\ m \in Nat
      /\ \A i \in S : PlaceRank(S, i) \in 1..m
      /\ \A i, j \in S : PlaceRank(S, i) = PlaceRank(S, j) => i = j
      /\ \A k \in 1..m : \E i \in S : PlaceRank(S, i) = k
  <2> HIDE DEF n, S
  <2> QED
    BY <1>1, <1>2, PlaceRanked
<1>5. \A k \in 1..m : at[k] \in S /\ rank[at[k]] = k
  <2> SUFFICES ASSUME NEW k \in 1..m
               PROVE  at[k] \in S /\ rank[at[k]] = k
    OBVIOUS
  <2>1. \E i \in S : Canary!PlaceOf(i) = k
    <3> HIDE DEF S, m
    <3> QED BY <1>3, <1>4
  <2>2. at[k] \in S /\ Canary!PlaceOf(at[k]) = k
    BY <2>1, Zenon
  <2> QED
    BY <2>2
<1>6. s = [k \in 1..m |-> Plan[at[k]]]
  <2>1. \A k \in 1..m : at[k] = CHOOSE i \in S : Canary!PlaceOf(i) = k
    OBVIOUS
  <2> QED
    BY <2>1, CanaryCardinality DEF Canary!Others
<1>7. \A i \in S : rank[i] \in 1..m
  <2> HIDE DEF m
  <2> QED
    BY <1>3, <1>4
<1>8. \A i, j \in S : rank[i] = rank[j] => i = j
  BY <1>3, <1>4
<1> HIDE DEF n, S, m, at, rank, s
<1>9. s \in Seq(Version) /\ Distinct(s) /\ Lists(s, Plan, rank, m, S)
  <2>1. Ranking(rank, at, m, S) /\ OneToOne(Plan, 1..n) /\ s = InOrder(Plan, at, m)
    BY <1>1, <1>5, <1>6, <1>8 DEF Ranking, OneToOne, InOrder
  <2>2. n \in Nat /\ Plan \in [1..n -> Version] /\ S \in SUBSET (1..n) /\ m \in Nat
    BY <1>1, <1>2, <1>4
  <2> QED
    BY <2>1, <2>2, Listed
<1>10. ASSUME NEW u \in Version PROVE u \notin CanarySet <=> u \in Elements(s)
  <2>1. PICK i \in 1..n : Plan[i] = u
    BY PlanAssumption DEF n
  <2>2. u \in Elements(s) <=> i \in S
    BY <2>1, <1>1, <1>2, <1>7, <1>9 DEF Lists
  <2> QED
    BY <2>1, <2>2, <1>2
<1> QED
  BY <1>9, <1>10 DEF s

-----------------------------------------------------------------------------
(* Sets that share nothing add up.                                         *)
LEMMA DisjointUnion ==
  ASSUME NEW S, IsFiniteSet(S), NEW T, IsFiniteSet(T), S \cap T = {}
  PROVE  /\ IsFiniteSet(S \cup T)
         /\ Cardinality(S \cup T) = Cardinality(S) + Cardinality(T)
         /\ Cardinality(S) \in Nat /\ Cardinality(T) \in Nat
<1>1. Cardinality(S) \in Nat /\ Cardinality(T) \in Nat /\ Cardinality(S \cap T) = 0
  BY FS_CardinalityType, FS_EmptySet
<1>2. IsFiniteSet(S \cup T)
      /\ Cardinality(S \cup T) = Cardinality(S) + Cardinality(T) - Cardinality(S \cap T)
  BY FS_Union
<1> QED
  BY <1>1, <1>2

(* Versions are finitely many.                                             *)
LEMMA VersionsFinite ==
  ASSUME NEW S \in SUBSET Version
  PROVE  /\ IsFiniteSet(S) /\ Cardinality(S) \in Nat
         /\ Cardinality(S) <= Cardinality(Version) /\ Cardinality(S) <= Len(Plan)
         /\ \A T \in SUBSET S : Cardinality(T) \in Nat /\ Cardinality(T) <= Cardinality(S)
<1>1. IsFiniteSet(S) /\ Cardinality(S) <= Cardinality(Version)
  BY PlanFacts, FS_Subset
<1>2. \A T \in SUBSET S : IsFiniteSet(T) /\ Cardinality(T) <= Cardinality(S)
  BY <1>1, FS_Subset
<1>3. Cardinality(S) \in Nat /\ \A T \in SUBSET S : Cardinality(T) \in Nat
  BY <1>1, <1>2, FS_CardinalityType
<1> QED
  BY <1>1, <1>2, <1>3, PlanFacts

(* The plan lists every version once.                                      *)
LEMMA PlanListed == Distinct(Plan) /\ Elements(Plan) = Version
<1>1. \A i \in 1..Len(Plan) : Plan[i] \in Version
  BY PlanFacts
<1>2. Distinct(Plan)
  BY PlanAssumption DEF Distinct
<1>3. \A v \in Version : v \in Elements(Plan)
  BY PlanAssumption DEF Elements
<1>4. \A v \in Elements(Plan) : v \in Version
  BY <1>1 DEF Elements
<1> QED
  BY <1>2, <1>3, <1>4

-----------------------------------------------------------------------------
(* A call that has not passed the gates.                                   *)
LEMMA InitIInv == Init => IInv
<1> SUFFICES ASSUME Init PROVE IInv
  OBVIOUS
<1>1. BreakerSound(breaker)
  BY NewBreakerSound, BatchAssumption DEF Init
<1>2. Typed
  <2>1. <<>> \in Seq(Version) /\ Plan \in Seq(Version) /\ 0 \in 0..MaxRetries + 1
    BY PlanAssumption, BatchAssumption, EmptySeq
  <2> QED
    BY <1>1, <2>1 DEF Init, Typed, Phases
<1> QED
  BY <1>2 DEF Init, IInv, Gated, Sampling, Concluded, Accounted, Bulk, BulkReportSound, Admitted

(* What the phases before the bulk have in common.                         *)
LEMMA Early ==
  ASSUME IInv, phase \in {"gates", "canary", "probe"}
  PROVE  /\ gate = "none" /\ remaining = Plan /\ deleted = 0 /\ failed = 0 /\ failedSet = {}
         /\ destroyed \subseteq CanarySet /\ certificate \subseteq Version
         /\ phase = "gates" => destroyed = {}
         /\ phase # "gates" => Plan # <<>> /\ pending \subseteq CanarySet
BY DEF IInv, Typed, Concluded, Sampling

(* A closed gate touches nothing.                                          *)
LEMMA StepRefuseRun == ASSUME IInv, RefuseRun PROVE IInv'
<1>1. gate = "none" /\ phase = "gates" /\ phase' = "refused"
  BY Early DEF RefuseRun
<1> QED
  BY <1>1 DEF RefuseRun, s3Vars, reportVars, IInv, Typed, Gated, GatesOpen, Sampling, Concluded,
              Accounted, Bulk, BulkReportSound, Admitted, Phases, Ended, Lost

(* The gates open: the sample is asked for, or the bulk has the whole plan *)
(* before it.                                                              *)
LEMMA StepEnterRun == ASSUME IInv, EnterRun PROVE IInv'
<1>1. /\ gate = "none" /\ remaining = Plan /\ deleted = 0 /\ failed = 0 /\ failedSet = {}
      /\ destroyed = {} /\ phase = "gates"
  BY Early DEF EnterRun
<1>2. CASE options.skipCanary \/ Plan = <<>>
  <2>1. phase' = "loop" /\ gate' = "skipped"
    BY <1>2 DEF EnterRun
  <2>2. Left' = Version
    BY <1>1, <2>1, PlanListed DEF EnterRun, Left
  <2>3. Cardinality(Lost' \ Left') \in Nat /\ Cardinality(Left') \in Nat
    <3>1. Lost' \ Left' \in SUBSET Version
      BY <2>2, SampleSound DEF Lost
    <3> QED
      BY <2>2, <3>1, VersionsFinite
  <2>4. Accounted'
    BY <1>1, <2>1, <2>2, <2>3, PlanListed, PlanFacts DEF EnterRun, Accounted, Bulk, reportVars, s3Vars
  <2>5. BulkReportSound'
    <3>1. Cardinality((Version \ alive') \cup (CanarySet \cap Unversioned)) \in Nat
      BY SampleSound, VersionsFinite
    <3> QED
      BY <1>1, <3>1, PlanFacts DEF EnterRun, BulkReportSound, reportVars, s3Vars
  <2> QED
    BY <1>1, <1>2, <2>1, <2>4, <2>5
    DEF EnterRun, s3Vars, reportVars, IInv, Typed, Gated, GatesOpen, Sampling, Concluded,
        Admitted, Phases, Lost
<1>3. CASE ~(options.skipCanary \/ Plan = <<>>)
  <2>1. phase' = "canary" /\ gate' = "none" /\ pending' = CanarySet
    BY <1>1, <1>3 DEF EnterRun
  <2> QED
    BY <1>1, <1>3, <2>1, SampleSound
    DEF EnterRun, s3Vars, reportVars, IInv, Typed, Gated, GatesOpen, Sampling, Concluded,
        Accounted, Bulk, BulkReportSound, Admitted, Phases, Waiting, Lost
<1> QED
  BY <1>2, <1>3

(* A step of the canary that is not its end.                               *)
LEMMA CanaryGoesOn ==
  ASSUME IInv, phase \in {"canary", "probe"}, phase' \in {"canary", "probe"},
         UNCHANGED <<options, gate, remaining, reportVars, certificate>>,
         BreakerSound(breaker'),
         alive' \in SUBSET alive, destroyed' \in SUBSET (Version \ alive'),
         destroyed' \subseteq destroyed \cup CanarySet,
         pending' \subseteq pending, attempt' \in 0..MaxRetries + 1,
         probes' \in Seq(Version),
         phase' = "probe" => probes' # <<>> /\ Distinct(probes') /\ CanarySet \ Elements(probes') \subseteq Lost'
  PROVE  IInv'
<1>1. /\ gate = "none" /\ remaining = Plan /\ deleted = 0 /\ failed = 0 /\ failedSet = {}
      /\ destroyed \subseteq CanarySet /\ Plan # <<>> /\ pending \subseteq CanarySet
  BY Early
<1>2. Typed'
  BY DEF IInv, Typed, Phases, Waiting, reportVars
<1>3. Gated'
  BY DEF IInv, Gated, GatesOpen
<1>4. Sampling'
  BY <1>1 DEF Sampling, reportVars
<1> QED
  BY <1>1, <1>2, <1>3, <1>4
  DEF IInv, Concluded, Accounted, Bulk, BulkReportSound, Admitted

(* What an answer removes.                                                 *)
LEMMA Removed ==
  ASSUME IInv, NEW gone \in SUBSET Version, Remove(gone)
  PROVE  /\ alive' = alive \ gone /\ alive' \in SUBSET alive
         /\ destroyed' \in SUBSET (Version \ alive')
         /\ destroyed' \subseteq destroyed \cup gone
         /\ Lost \subseteq Lost' /\ gone \subseteq Lost'
BY DEF Remove, IInv, Typed, Lost

(* What S3 can say of the keys of a request.                               *)
LEMMA AnswerFacts ==
  ASSUME IInv, NEW codes \in Answers
  PROVE  /\ DOMAIN codes \in SUBSET pending /\ pending \in SUBSET Version
         /\ DOMAIN codes \in SUBSET Version /\ pending \ DOMAIN codes \in SUBSET Version
         /\ \A them : Having(codes, them) \in SUBSET (DOMAIN codes)
         /\ Cardinality(DOMAIN codes) \in Nat
<1>1. pending \in SUBSET Version
  BY DEF IInv, Typed
<1>2. DOMAIN codes \in SUBSET pending
  BY DEF Answers
<1>3. DOMAIN codes \in SUBSET Version /\ Cardinality(DOMAIN codes) \in Nat
  BY <1>1, <1>2, VersionsFinite
<1> QED
  BY <1>1, <1>2, <1>3 DEF Having

(* recordBatchResult keeps the breaker sound, whatever the answer.         *)
LEMMA HeardSound ==
  ASSUME IInv, NEW codes \in Answers, NEW keys \in Nat, Heard(keys, codes)
  PROVE  BreakerSound(breaker')
<1>1. BreakerSound(breaker) /\ Cardinality(DOMAIN codes) \in Nat
  BY AnswerFacts DEF IInv, Typed
<1> QED
  BY <1>1, BatchDoneSound DEF Heard

(* The end of a canary that failed.                                        *)
LEMMA CanaryFails ==
  ASSUME IInv, phase \in {"canary", "probe"}, phase' = "certify", gate' = "failed",
         UNCHANGED <<options, pending, attempt, remaining, certificate>>,
         BreakerSound(breaker'), probes' \in Seq(Version),
         deleted' \in Nat, failed' \in Nat, failedSet' \in SUBSET Version,
         alive' \in SUBSET alive, destroyed' \in SUBSET (Version \ alive'),
         destroyed' \subseteq destroyed \cup CanarySet
  PROVE  IInv'
<1>1. destroyed \subseteq CanarySet
  BY Early
<1>2. Typed'
  BY DEF IInv, Typed, Phases, Waiting
<1>3. Gated'
  BY DEF IInv, Gated, GatesOpen
<1> QED
  BY <1>1, <1>2, <1>3
  DEF IInv, Sampling, Concluded, Accounted, Bulk, BulkReportSound, Admitted

(* A canary that failed without outcomes reports only versions of the plan. *)
LEMMA BlindFailure ==
  ASSUME IInv, phase \in {"canary", "probe"}, FailCanaryBlind
  PROVE  /\ phase' = "certify" /\ gate' = "failed"
         /\ deleted' \in Nat /\ failed' \in Nat /\ failedSet' \in SUBSET Version
BY PlanFacts DEF FailCanaryBlind, IInv, Typed

(* A throttled part of the sample is asked for again.                      *)
LEMMA StepCanaryRepeat ==
  ASSUME IInv, NEW codes \in Answers, CanaryRepeat(codes)
  PROVE  IInv'
<1>1. /\ phase = "canary" /\ pending \subseteq CanarySet
      /\ DOMAIN codes \in SUBSET pending /\ pending \ DOMAIN codes \in SUBSET Version
      /\ Slowed(codes) \in SUBSET (DOMAIN codes)
  BY Early, AnswerFacts DEF CanaryRepeat, CanaryAwaits, Slowed
<1>2. /\ alive' \in SUBSET alive /\ destroyed' \in SUBSET (Version \ alive')
      /\ destroyed' \subseteq destroyed \cup CanarySet
  BY <1>1, Removed DEF CanaryRepeat, Applied
<1>3. attempt' \in 0..MaxRetries + 1
  BY BatchAssumption DEF CanaryRepeat, IInv, Typed
<1> QED
  BY <1>1, <1>2, <1>3, CanaryGoesOn DEF CanaryRepeat, CanaryAwaits, reportVars, IInv, Typed

(* The sample is answered: probed if no key failed, else the canary fails.  *)
LEMMA StepCanaryDeleted ==
  ASSUME IInv, NEW codes \in Answers, CanaryDeleted(codes)
  PROVE  IInv'
<1>1. /\ phase = "canary" /\ pending \subseteq CanarySet /\ Plan # <<>>
      /\ DOMAIN codes \in SUBSET pending /\ pending \ DOMAIN codes \in SUBSET Version
      /\ DOMAIN codes \in SUBSET Version
  BY Early, AnswerFacts DEF CanaryDeleted, CanaryAwaits
<1>2. /\ alive' \in SUBSET alive /\ destroyed' \in SUBSET (Version \ alive')
      /\ destroyed' \subseteq destroyed \cup CanarySet
  BY <1>1, Removed DEF CanaryDeleted, Applied
<1>3. CASE DOMAIN codes = {}
  <2>1. probes' = Canary!Sample /\ phase' = "probe"
    BY <1>3 DEF CanaryDeleted
  <2> QED
    BY <1>1, <1>2, <1>3, <2>1, SampleSound, CanaryGoesOn
    DEF CanaryDeleted, CanaryAwaits, reportVars, IInv, Typed
<1>4. CASE DOMAIN codes # {}
  <2>1. BreakerSound(breaker')
    <3>1. Cardinality(CanarySet) \in Nat
      BY SampleSound, VersionsFinite
    <3> QED
      BY <1>4, <3>1, HeardSound DEF CanaryDeleted
  <2>2. deleted' \in Nat /\ failed' \in Nat /\ failedSet' \in SUBSET Version
    <3>1. failedSet' \in SUBSET Version
      BY <1>1, <1>4 DEF CanaryDeleted, FailCanary
    <3>2. CanarySet \ DOMAIN codes \in SUBSET Version
      BY SampleSound
    <3>3. Cardinality(failedSet') \in Nat /\ Cardinality(CanarySet \ DOMAIN codes) \in Nat
      BY <3>1, <3>2, VersionsFinite
    <3> QED
      BY <1>4, <3>1, <3>3 DEF CanaryDeleted, FailCanary, IInv, Typed
  <2> QED
    BY <1>1, <1>2, <1>4, <2>1, <2>2, CanaryFails
    DEF CanaryDeleted, CanaryAwaits, FailCanary, IInv, Typed
<1> QED
  BY <1>3, <1>4

(* A run that an exception leaves.                                         *)
LEMMA RunThrows ==
  ASSUME IInv, phase \in {"canary", "batch"}, phase' = "threw",
         NEW gone \in SUBSET pending, Remove(gone),
         UNCHANGED <<options, gate, breaker, pending, attempt, probes, remaining,
                     reportVars, certificate>>
  PROVE  IInv'
<1>1. /\ gone \in SUBSET Version /\ pending \in SUBSET Version
      /\ alive' \in SUBSET alive /\ destroyed' \in SUBSET (Version \ alive')
      /\ destroyed' \subseteq destroyed \cup gone /\ Lost \subseteq Lost'
  BY Removed DEF IInv, Typed
<1>2. Typed'
  BY <1>1 DEF IInv, Typed, Phases, Ended, reportVars
<1>3. Gated'
  BY DEF IInv, Gated, GatesOpen
<1>4. CASE phase = "canary"
  <2>1. /\ gate = "none" /\ remaining = Plan /\ deleted = 0 /\ failed = 0 /\ failedSet = {}
        /\ destroyed \subseteq CanarySet /\ pending \subseteq CanarySet
    BY <1>4, Early
  <2> QED
    BY <1>1, <1>2, <1>3, <2>1
    DEF IInv, Sampling, Concluded, Accounted, Bulk, BulkReportSound, Admitted, reportVars
<1>5. CASE phase = "batch"
  <2>1. Bulk
    BY <1>5 DEF IInv, Typed, Sampling, Concluded, Bulk
  <2>2. /\ Cardinality(Lost) \in Nat /\ Cardinality(Lost') \in Nat
        /\ Cardinality(Lost) <= Cardinality(Lost')
    <3>1. Lost' \in SUBSET Version
      BY SampleSound DEF Lost
    <3> QED
      BY <1>1, <3>1, VersionsFinite
  <2>3. failedSet \cap destroyed' = {}
    BY <1>1, <1>5, <2>1 DEF IInv, Accounted, BulkReportSound, Bulk, Left
  <2>4. BulkReportSound'
    BY <2>1, <2>2, <2>3 DEF IInv, Typed, BulkReportSound, Bulk, Lost, reportVars
  <2> QED
    BY <1>1, <1>2, <1>3, <2>1, <2>4
    DEF IInv, Sampling, Concluded, Accounted, Bulk, Admitted
<1> QED
  BY <1>4, <1>5

(* DeleteObjects of the sample throws.                                     *)
LEMMA StepCanaryThrows ==
  ASSUME IInv, NEW classes, NEW gone \in SUBSET pending, CanaryThrows(classes, gone)
  PROVE  IInv'
<1>1. phase = "canary" /\ pending \subseteq CanarySet /\ gone \in SUBSET Version
  BY Early DEF CanaryThrows, CanaryAwaits, IInv, Typed
<1>2. CASE attempt = 0
  <2>1. BreakerSound(breaker')
    BY <1>2, FailedSound DEF CanaryThrows, IInv, Typed
  <2>2. /\ alive' \in SUBSET alive /\ destroyed' \in SUBSET (Version \ alive')
        /\ destroyed' \subseteq destroyed \cup CanarySet
    BY <1>1, Removed DEF CanaryThrows
  <2> QED
    BY <1>1, <1>2, <2>1, <2>2, BlindFailure, CanaryFails
    DEF CanaryThrows, CanaryAwaits, IInv, Typed
<1>3. CASE attempt # 0
  BY <1>1, <1>3, RunThrows DEF CanaryThrows, CanaryAwaits
<1> QED
  BY <1>2, <1>3

(* A probe fails, or finds the object.                                     *)
LEMMA StepProbeFails ==
  ASSUME IInv, NEW classes, ProbeFails(classes)
  PROVE  IInv'
<1>1. phase = "probe" /\ BreakerSound(breaker')
  BY FailedSound DEF ProbeFails, CanaryAwaits, IInv, Typed
<1> QED
  BY <1>1, BlindFailure, CanaryFails DEF ProbeFails, CanaryAwaits, IInv, Typed, s3Vars

(* A probe finds nothing; after the last one the bulk has the others before *)
(* it, and the sample counts as deleted.                                   *)
LEMMA StepProbeGone == ASSUME IInv, ProbeGone PROVE IInv'
<1> DEFINE h == Head(probes)
<1>1. /\ phase = "probe" /\ gate = "none" /\ remaining = Plan /\ Plan # <<>>
      /\ deleted = 0 /\ failed = 0 /\ failedSet = {}
      /\ destroyed \subseteq CanarySet /\ pending \subseteq CanarySet
  BY Early DEF ProbeGone, CanaryAwaits
<1>2. /\ probes \in Seq(Version) /\ probes # <<>> /\ Distinct(probes)
      /\ CanarySet \ Elements(probes) \subseteq Lost
  BY <1>1 DEF IInv, Typed, Sampling
<1>3. /\ Tail(probes) \in Seq(Version) /\ Distinct(Tail(probes)) /\ h \in Version
      /\ \A u : u \in Elements(Tail(probes)) <=> u \in Elements(probes) /\ u # h
      /\ Tail(probes) = <<>> <=> Len(probes) = 1
  BY <1>2, TailSound
<1>4. Lost' = Lost /\ (h \in CanarySet => h \in Lost)
  BY <1>3 DEF ProbeGone, MayLook, s3Vars, Lost
<1>5. CanarySet \ Elements(Tail(probes)) \subseteq Lost
  BY <1>2, <1>3, <1>4
<1>6. CASE Len(probes) # 1
  BY <1>1, <1>3, <1>4, <1>5, <1>6, CanaryGoesOn
  DEF ProbeGone, CanaryAwaits, reportVars, s3Vars, IInv, Typed
<1>7. CASE Len(probes) = 1
  <2>1. /\ phase' = "loop" /\ gate' = "verified" /\ remaining' = Canary!Others
        /\ deleted' = deleted + Cardinality(CanarySet) /\ breaker' = Succeeded(breaker)
    BY <1>7 DEF ProbeGone, PassCanary
  <2>2. CanarySet \subseteq Lost
    <3>1. Elements(Tail(probes)) = {}
      BY <1>3, <1>7, NoElements
    <3> QED
      BY <1>5, <3>1
  <2>3. Left' = Version \ CanarySet /\ Canary!Others \in Seq(Version) /\ Distinct(Canary!Others)
    <3>1. \A i \in 1..Len(Canary!Others) : Canary!Others[i] \in Version
      BY OthersSound, ElementOfSeq
    <3>2. Elements(Canary!Others) \subseteq Version
      BY <3>1 DEF Elements
    <3> QED
      BY <2>1, <3>2, OthersSound DEF Left
  <2>4. /\ Cardinality(CanarySet) <= Cardinality(Lost \ Left') /\ Cardinality(CanarySet) \in Nat
        /\ Cardinality(CanarySet) <= Cardinality(Lost)
        /\ Cardinality(CanarySet) + Cardinality(Left') = Cardinality(Version)
        /\ Cardinality(CanarySet) <= Len(Plan) /\ Cardinality(Version) <= Len(Plan)
    <3>1. Lost \in SUBSET Version /\ CanarySet \in SUBSET Version
      BY SampleSound DEF Lost
    <3>2. /\ Lost \ Left' \in SUBSET Version /\ CanarySet \in SUBSET (Lost \ Left')
          /\ CanarySet \in SUBSET Lost
      BY <2>2, <2>3, <3>1
    <3>3. /\ IsFiniteSet(CanarySet) /\ IsFiniteSet(Version \ CanarySet)
          /\ Version = CanarySet \cup (Version \ CanarySet)
      BY <3>1, VersionsFinite
    <3>4. Cardinality(Version) = Cardinality(CanarySet) + Cardinality(Version \ CanarySet)
      BY <3>3, DisjointUnion
    <3> QED
      BY <2>3, <3>1, <3>2, <3>4, VersionsFinite, PlanFacts
  <2>5. Typed'
    BY <1>3, <2>1, <2>3, <2>4, SucceededSound
    DEF ProbeGone, CanaryAwaits, s3Vars, IInv, Typed, Phases
  <2>6. Accounted'
    BY <1>1, <1>4, <2>1, <2>3, <2>4, PlanFacts DEF ProbeGone, s3Vars, Accounted, Bulk
  <2>7. BulkReportSound'
    BY <1>1, <1>4, <2>1, <2>4, PlanFacts DEF ProbeGone, s3Vars, BulkReportSound, Lost
  <2> QED
    BY <1>1, <1>4, <2>1, <2>2, <2>5, <2>6, <2>7
    DEF ProbeGone, CanaryAwaits, s3Vars, IInv, Gated, GatesOpen, Sampling, Concluded, Admitted
<1> QED
  BY <1>6, <1>7

-----------------------------------------------------------------------------
(* What the phases of the bulk have in common.                             *)
LEMMA Late ==
  ASSUME IInv, phase \in {"loop", "batch"}
  PROVE  /\ Bulk /\ gate \in {"verified", "skipped"} /\ Distinct(remaining)
         /\ remaining \in Seq(Version) /\ Elements(remaining) \in SUBSET Version
         /\ phase = "batch" => pending \cap Elements(remaining) = {}
         /\ Left \in SUBSET Version /\ Left \cap (failedSet \cup destroyed) = {}
         /\ Lost \in SUBSET Version
         /\ deleted <= Cardinality(Lost \ Left)
         /\ deleted + failed + Cardinality(Left) <= Len(Plan)
         /\ deleted \in Nat /\ failed \in Nat /\ Len(Plan) \in Nat
         /\ Cardinality(Left) \in Nat /\ Cardinality(Lost \ Left) \in Nat
         /\ BreakerSound(breaker) /\ breaker \in BreakerType
<1>1. Bulk /\ gate \in {"verified", "skipped"}
  BY DEF IInv, Typed, Sampling, Concluded, Bulk
<1>2. remaining \in Seq(Version) /\ pending \in SUBSET Version
  BY DEF IInv, Typed
<1>3. \A i \in 1..Len(remaining) : remaining[i] \in Version
  BY <1>2, ElementOfSeq
<1>4. Elements(remaining) \in SUBSET Version
  BY <1>3 DEF Elements
<1>5. Left \in SUBSET Version
  BY <1>2, <1>4 DEF Left
<1>6. Lost \in SUBSET Version
  BY SampleSound DEF Lost
<1>7. Cardinality(Left) \in Nat /\ Cardinality(Lost \ Left) \in Nat
  BY <1>5, <1>6, VersionsFinite
<1> QED
  BY <1>1, <1>2, <1>4, <1>5, <1>6, <1>7, PlanFacts
  DEF IInv, Typed, Accounted, BreakerSound, BreakerTyped

(* A step of the bulk, or to its end, that leaves every count alone.       *)
LEMMA BulkGoesOn ==
  ASSUME IInv, phase \in {"loop", "batch"}, phase' \in {"loop", "batch", "certify"},
         UNCHANGED <<options, gate, probes, certificate>>,
         BreakerSound(breaker'), pending' \in SUBSET Version, attempt' \in 0..MaxRetries + 1,
         remaining' \in Seq(Version),
         alive' \in SUBSET alive, destroyed' \in SUBSET (Version \ alive'),
         deleted' \in Nat, failed' \in Nat, failedSet' \in SUBSET Version,
         Accounted', BulkReportSound', Admitted'
  PROVE  IInv'
<1>1. Bulk
  BY Late
<1>2. Typed'
  BY DEF IInv, Typed, Phases, Waiting
<1>3. Gated'
  BY DEF IInv, Gated, GatesOpen
<1>4. Lost \subseteq Lost'
  BY DEF IInv, Typed, Lost
<1> QED
  BY <1>1, <1>2, <1>3, <1>4 DEF IInv, Sampling, Concluded, Bulk

(* The plan is done.                                                       *)
LEMMA StepEndLoop == ASSUME IInv, EndLoop PROVE IInv'
<1>1. phase = "loop" /\ phase' = "certify"
  BY DEF EndLoop, LoopHead
<1>2. Accounted' /\ Admitted' /\ BulkReportSound'
  BY <1>1 DEF EndLoop, LoopHead, s3Vars, IInv, Accounted, Admitted, BulkReportSound
<1> QED
  BY <1>1, <1>2, BulkGoesOn DEF EndLoop, LoopHead, s3Vars, IInv, Typed

(* The next keys leave the rest of the plan for the batch.                 *)
LEMMA StepStartBatch == ASSUME IInv, StartBatch PROVE IInv'
<1> DEFINE n == Len(remaining)
           c == Chunk
<1>1. phase = "loop" /\ phase' = "batch"
  BY DEF StartBatch, LoopHead
<1>2. c \in 1..n
  <2>1. n \in Nat /\ n # 0
    BY <1>1, Late, EmptySeq DEF StartBatch
  <2> QED
    BY <2>1, BatchAssumption DEF Chunk
<1>3. /\ remaining' \in Seq(Version) /\ Distinct(remaining')
      /\ pending' \in SUBSET Version /\ pending' \cap Elements(remaining') = {}
      /\ pending' \cup Elements(remaining') = Elements(remaining)
  <2> DEFINE a == SubSeq(remaining, 1, c)
             b == SubSeq(remaining, c + 1, n)
  <2>1. remaining \in Seq(Version) /\ Distinct(remaining) /\ c \in 0..n
    BY <1>1, <1>2, Late
  <2>2. /\ a \in Seq(Version) /\ b \in Seq(Version) /\ Distinct(b)
        /\ Elements(a) \cap Elements(b) = {} /\ Elements(a) \cup Elements(b) = Elements(remaining)
    <3> HIDE DEF c
    <3> QED
      BY <2>1, SplitSound
  <2>3. pending' = SetOf(a) /\ remaining' = b
    BY DEF StartBatch
  <2> HIDE DEF a, b
  <2>4. SetOf(a) = Elements(a) /\ Elements(a) \in SUBSET Version
    BY <2>2, ElementsCounted DEF SetOf
  <2> QED
    BY <2>2, <2>3, <2>4
<1>4. Left' = Left
  BY <1>1, <1>3 DEF Left
<1>5. BreakerSound(breaker') /\ Admitted'
  BY <1>1, Late, RefreshSound, AskedNotOpen DEF StartBatch, Admitted
<1>6. Accounted'
  BY <1>1, <1>3, <1>4, Late DEF StartBatch, LoopHead, s3Vars, Accounted, Lost
<1>7. BulkReportSound'
  BY DEF StartBatch, LoopHead, s3Vars, IInv, BulkReportSound
<1>8. attempt' \in 0..MaxRetries + 1
  BY BatchAssumption DEF StartBatch
<1> QED
  BY <1>1, <1>3, <1>5, <1>6, <1>7, <1>8, BulkGoesOn
  DEF StartBatch, LoopHead, s3Vars, IInv, Typed

(* An OPEN breaker: one failure stands for all that is left.               *)
LEMMA StepRefuseBatch == ASSUME IInv, RefuseBatch PROVE IInv'
<1> DEFINE h == Head(remaining)
<1>1. phase = "loop" /\ phase' = "certify" /\ remaining # <<>>
  BY DEF RefuseBatch, LoopHead
<1>2. h \in Version /\ h \in Left
  BY <1>1, Late, TailSound DEF Left
<1>3. Cardinality(Left) # 0
  <2>1. IsFiniteSet(Left)
    BY <1>1, Late, VersionsFinite
  <2> QED
    BY <1>2, <2>1, FS_EmptySet
<1>4. Accounted' /\ Admitted'
  BY <1>1 DEF Accounted, Admitted
<1>5. BulkReportSound'
  <2>1. failedSet' \cap destroyed' = {}
    BY <1>1, <1>2, Late DEF RefuseBatch, LoopHead, s3Vars, IInv, BulkReportSound
  <2>2. deleted' + failed' <= Len(Plan)
    BY <1>1, <1>3, Late DEF RefuseBatch, LoopHead
  <2> QED
    BY <1>1, <2>1, <2>2, Late DEF RefuseBatch, LoopHead, s3Vars, IInv, BulkReportSound
<1>6. BreakerSound(breaker')
  BY <1>1, Late, RefreshSound DEF RefuseBatch
<1> QED
  BY <1>1, <1>2, <1>4, <1>5, <1>6, BulkGoesOn
  DEF RefuseBatch, LoopHead, s3Vars, IInv, Typed

(* An answer splits the keys it was asked of: gone, failed for good, and   *)
(* to be sent again.                                                       *)
LEMMA AnswerSplits ==
  ASSUME IInv, NEW codes \in Answers
  PROVE  /\ StillTransient(codes) \in SUBSET (DOMAIN codes)
         /\ Cardinality(pending) = Cardinality(pending \ DOMAIN codes)
              + Cardinality(DOMAIN codes \ StillTransient(codes))
              + Cardinality(StillTransient(codes))
         /\ Cardinality(pending \ DOMAIN codes) \in Nat
         /\ Cardinality(DOMAIN codes \ StillTransient(codes)) \in Nat
         /\ Cardinality(StillTransient(codes)) \in Nat
<1> DEFINE D == DOMAIN codes
           T == StillTransient(codes)
<1>1. D \in SUBSET pending /\ D \in SUBSET Version /\ pending \in SUBSET Version
  BY AnswerFacts
<1>2. T \in SUBSET D
  BY AnswerFacts DEF StillTransient
<1> HIDE DEF D, T
<1>3. /\ IsFiniteSet(pending \ D) /\ IsFiniteSet(D) /\ IsFiniteSet(D \ T) /\ IsFiniteSet(T)
  BY <1>1, <1>2, VersionsFinite
<1>4. /\ pending = (pending \ D) \cup D /\ (pending \ D) \cap D = {}
      /\ D = (D \ T) \cup T /\ (D \ T) \cap T = {}
  BY <1>1, <1>2
<1>5. /\ Cardinality(pending) = Cardinality(pending \ D) + Cardinality(D)
      /\ Cardinality(pending \ D) \in Nat
  BY <1>3, <1>4, DisjointUnion
<1>6. /\ Cardinality(D) = Cardinality(D \ T) + Cardinality(T)
      /\ Cardinality(D \ T) \in Nat /\ Cardinality(T) \in Nat
  BY <1>3, <1>4, DisjointUnion
<1> QED
  BY <1>2, <1>5, <1>6 DEF D, T

(* Each key of the batch becomes a deletion, a failure, or a key of the    *)
(* next request: L is what is left then.                                   *)
LEMMA StepBatchAnswer ==
  ASSUME IInv, NEW codes \in Answers, BatchAnswer(codes)
  PROVE  IInv'
<1> DEFINE D == DOMAIN codes
           T == StillTransient(codes)
           R == Elements(remaining)
           L == T \cup R
<1>1. /\ phase = "batch" /\ phase' \in {"loop", "batch", "certify"}
      /\ phase' = "batch" => pending' = T /\ T # {} /\ attempt' = attempt + 1 /\ ~GivesUp(breaker')
      /\ phase' # "batch" => pending' = pending /\ attempt' = attempt
      /\ phase' = "loop" => T = {}
      /\ deleted' = deleted + Cardinality(pending \ D)
      /\ failed' = failed + Cardinality(D \ T)
      /\ failedSet' = failedSet \cup (D \ T)
      /\ UNCHANGED <<options, gate, probes, remaining, certificate>>
      /\ Remove(pending \ D) /\ Heard(Cardinality(pending), codes)
  BY DEF BatchAnswer, DeletedBy, Applied
<1>2. /\ pending \in SUBSET Version /\ D \in SUBSET pending /\ T \in SUBSET D
      /\ pending \cap R = {} /\ R \in SUBSET Version /\ Left = pending \cup R
  BY <1>1, Late, AnswerFacts, AnswerSplits DEF Left
<1>3. /\ Cardinality(pending) = Cardinality(pending \ D) + Cardinality(D \ T) + Cardinality(T)
      /\ Cardinality(pending \ D) \in Nat /\ Cardinality(D \ T) \in Nat /\ Cardinality(T) \in Nat
  BY AnswerSplits
<1>4. /\ alive' = alive \ (pending \ D) /\ alive' \in SUBSET alive
      /\ destroyed' \in SUBSET (Version \ alive')
      /\ destroyed' \subseteq destroyed \cup (pending \ D)
      /\ Lost \subseteq Lost' /\ pending \ D \subseteq Lost'
  <2>1. pending \ D \in SUBSET Version
    BY <1>2
  <2> QED
    BY <1>1, <2>1, Removed
<1>5. phase' # "certify" => Left' = L
  BY <1>1 DEF Left
<1> HIDE DEF D, T, R
<1>6. /\ Cardinality(Left) = Cardinality(pending) + Cardinality(R)
      /\ Cardinality(L) = Cardinality(T) + Cardinality(R)
      /\ Cardinality(R) \in Nat
  <2>1. IsFiniteSet(pending) /\ IsFiniteSet(R) /\ IsFiniteSet(T) /\ T \cap R = {}
    BY <1>2, VersionsFinite
  <2> QED
    BY <1>2, <2>1, DisjointUnion
<1>7. /\ Cardinality(Lost \ Left) + Cardinality(pending \ D) <= Cardinality(Lost' \ L)
      /\ Cardinality(Lost' \ L) <= Cardinality(Lost')
      /\ Cardinality(Lost' \ L) \in Nat /\ Cardinality(Lost') \in Nat
  <2>1. Lost' \in SUBSET Version /\ Lost \in SUBSET Version
    BY SampleSound DEF Lost
  <2> DEFINE A == Lost \ Left
             B == pending \ D
  <2>2. A \in SUBSET Version /\ B \in SUBSET Version /\ A \cap B = {}
    BY <1>2, <2>1
  <2>3. Cardinality(A \cup B) = Cardinality(A) + Cardinality(B)
    <3> HIDE DEF A, B
    <3>1. IsFiniteSet(A) /\ IsFiniteSet(B)
      BY <2>2, VersionsFinite
    <3> QED
      BY <2>2, <3>1, DisjointUnion
  <2>4. A \cup B \in SUBSET (Lost' \ L) /\ Lost' \ L \in SUBSET Lost' /\ Lost' \ L \in SUBSET Version
    BY <1>2, <1>4, <2>1
  <2> HIDE DEF A, B, L
  <2>5. Cardinality(A \cup B) <= Cardinality(Lost' \ L) /\ Cardinality(Lost' \ L) \in Nat
    BY <2>4, VersionsFinite
  <2>6. Cardinality(Lost' \ L) <= Cardinality(Lost') /\ Cardinality(Lost') \in Nat
    BY <2>1, <2>4, VersionsFinite
  <2> QED
    BY <2>3, <2>5, <2>6 DEF A, B
<1>8. /\ Left \cap (failedSet \cup destroyed) = {} /\ Distinct(remaining) /\ Bulk
      /\ deleted <= Cardinality(Lost \ Left)
      /\ deleted + failed + Cardinality(Left) <= Len(Plan)
      /\ deleted \in Nat /\ failed \in Nat /\ Len(Plan) \in Nat
      /\ Cardinality(Lost \ Left) \in Nat
  BY <1>1, Late
<1>9. failedSet \cap destroyed = {} /\ failedSet \in SUBSET Version
  BY <1>8 DEF IInv, Typed, Bulk, BulkReportSound
<1>10. /\ deleted' <= Cardinality(Lost' \ L) /\ deleted' <= Cardinality(Lost')
       /\ deleted' + failed' + Cardinality(L) <= Len(Plan)
       /\ deleted' + failed' <= Len(Plan)
       /\ deleted' \in Nat /\ failed' \in Nat
  <2> HIDE DEF L
  <2> DEFINE g == Cardinality(pending \ D)
             f == Cardinality(D \ T)
             t == Cardinality(T)
             r == Cardinality(R)
             k == Cardinality(L)
             m == Cardinality(Lost \ Left)
             x == Cardinality(Lost' \ L)
             y == Cardinality(Lost')
             z == Cardinality(Left)
             n == Len(Plan)
  <2>1. /\ g \in Nat /\ f \in Nat /\ t \in Nat /\ r \in Nat /\ n \in Nat
        /\ m \in Nat /\ x \in Nat /\ y \in Nat
        /\ z = (g + f + t) + r /\ k = t + r /\ m + g <= x /\ x <= y
        /\ deleted' = deleted + g /\ failed' = failed + f
        /\ deleted <= m /\ deleted + failed + z <= n
        /\ deleted \in Nat /\ failed \in Nat
    BY <1>1, <1>3, <1>6, <1>7, <1>8
  <2> HIDE DEF g, f, t, r, k, m, x, y, z, n
  <2>2. /\ deleted' <= x /\ deleted' <= y
        /\ deleted' + failed' + k <= n /\ deleted' + failed' <= n
        /\ deleted' \in Nat /\ failed' \in Nat
    BY <2>1
  <2> QED
    BY <2>2 DEF k, x, y, n
<1>11. L \cap (failedSet' \cup destroyed') = {} /\ failedSet' \cap destroyed' = {}
  BY <1>1, <1>2, <1>4, <1>8, <1>9
<1>12. BulkReportSound'
  BY <1>10, <1>11 DEF BulkReportSound, Lost
<1>13. Accounted'
  <2>1. phase' = "batch" => pending' \cap Elements(remaining') = {}
    BY <1>1, <1>2 DEF R
  <2> QED
    BY <1>1, <1>5, <1>8, <1>10, <1>11, <2>1 DEF Accounted
<1>14. BreakerSound(breaker') /\ Admitted'
  <2>1. BreakerSound(breaker) /\ breaker.state # "OPEN"
    BY <1>1 DEF IInv, Typed, Admitted
  <2>2. Cardinality(pending) \in Nat /\ Cardinality(DOMAIN codes) \in Nat
    BY <1>2, AnswerFacts, VersionsFinite
  <2>3. PICK jitter \in Jitters :
          breaker' = BatchDone(breaker, Cardinality(pending), Cardinality(DOMAIN codes),
                               ClassesOf(codes), jitter)
    BY <1>1 DEF Heard
  <2>4. breaker'.state = "OPEN" => GivesUp(breaker')
    BY <2>1, <2>2, <2>3, BatchDoneOpens DEF GivesUp
  <2> QED
    BY <1>1, <2>1, <2>2, <2>3, <2>4, BatchDoneSound DEF Admitted
<1>15. attempt' \in 0..MaxRetries + 1
  <2>1. T # {} => attempt <= MaxRetries
    BY DEF T, StillTransient
  <2> QED
    BY <1>1, <2>1, BatchAssumption DEF IInv, Typed
<1>16. pending' \in SUBSET Version /\ failedSet' \in SUBSET Version /\ remaining' \in Seq(Version)
  BY <1>1, <1>2, <1>9, Late
<1> QED
  BY <1>1, <1>4, <1>10, <1>12, <1>13, <1>14, <1>15, <1>16, BulkGoesOn

(* DeleteObjects of a batch throws.                                        *)
LEMMA StepBatchThrows ==
  ASSUME IInv, NEW gone \in SUBSET pending, BatchThrows(gone)
  PROVE  IInv'
BY RunThrows DEF BatchThrows

(* The certificate names versions of the plan.                             *)
LEMMA StepCertify == ASSUME IInv, Certify PROVE IInv'
<1>1. Ledger \in SUBSET Version
  BY PlanFacts DEF Ledger, Unnamed
<1>2. phase = "certify" /\ phase' = "over" /\ certificate' \in SUBSET Version
  BY <1>1 DEF Certify
<1> QED
  BY <1>2 DEF Certify, reportVars, s3Vars, IInv, Typed, Gated, GatesOpen, Sampling, Concluded,
              Accounted, Bulk, BulkReportSound, Admitted, Phases, Ended, Lost

(* Another client can only make more versions lost.                        *)
LEMMA StepVanish == ASSUME IInv, NEW v \in Version, Vanish(v) PROVE IInv'
<1>1. /\ phase \in {"canary", "probe", "batch"} /\ alive' = alive \ {v}
      /\ UNCHANGED <<options, phase, gate, breaker, pending, attempt, probes,
                     remaining, reportVars, certificate, destroyed>>
  BY DEF Vanish, Waiting
<1>2. alive' \in SUBSET alive /\ destroyed' \in SUBSET (Version \ alive') /\ Lost \subseteq Lost'
  BY <1>1 DEF IInv, Typed, Lost
<1>3. CASE phase # "batch"
  BY <1>1, <1>2, <1>3, CanaryGoesOn DEF reportVars, IInv, Typed, Sampling, Concluded
<1>4. CASE phase = "batch"
  <2>1. /\ Lost \ Left \in SUBSET (Lost' \ Left) /\ Lost' \ Left \in SUBSET Version
        /\ Lost \in SUBSET Lost' /\ Lost' \in SUBSET Version
    BY <1>2, SampleSound DEF Lost
  <2>2. /\ Cardinality(Lost \ Left) <= Cardinality(Lost' \ Left)
        /\ Cardinality(Lost) <= Cardinality(Lost')
        /\ Cardinality(Lost' \ Left) \in Nat /\ Cardinality(Lost') \in Nat
        /\ Cardinality(Lost) \in Nat
    BY <2>1, VersionsFinite
  <2>3. Left' = Left
    BY <1>1 DEF Left
  <2>4. Accounted'
    BY <1>1, <1>4, <2>2, <2>3, Late DEF Accounted, reportVars
  <2>5. BulkReportSound'
    BY <1>1, <1>4, <2>2, Late DEF IInv, BulkReportSound, Lost, reportVars
  <2> QED
    BY <1>1, <1>2, <1>4, <2>4, <2>5, BulkGoesOn DEF IInv, Typed, Admitted, reportVars
<1> QED
  BY <1>3, <1>4

(* Time changes no state of the breaker.                                   *)
LEMMA StepTick == ASSUME IInv, Tick PROVE IInv'
<1>1. BreakerSound(breaker') /\ breaker'.state = breaker.state
  <2>1. breaker \in BreakerType
    BY DEF IInv, Typed, BreakerSound, BreakerTyped
  <2> QED
    BY <2>1, AgedSound DEF Tick, Aged, BreakerType, IInv, Typed
<1> QED
  BY <1>1 DEF Tick, reportVars, s3Vars, IInv, Typed, Gated, GatesOpen, Sampling, Concluded,
              Accounted, Bulk, BulkReportSound, Admitted, Lost, Left

(* Nor does nothing at all.                                                *)
LEMMA StepStutter == ASSUME IInv, UNCHANGED vars PROVE IInv'
BY DEF vars, reportVars, s3Vars, IInv, Typed, Gated, GatesOpen, Sampling, Concluded,
       Accounted, Bulk, BulkReportSound, Admitted, Lost, Left

(* Every state of a run satisfies the inductive invariant.                 *)
THEOREM VersionInvariant == Spec => []IInv
<1>1. ASSUME IInv, [Next]_vars PROVE IInv'
  <2>1. CASE RefuseRun BY <1>1, <2>1, StepRefuseRun
  <2>2. CASE EnterRun BY <1>1, <2>2, StepEnterRun
  <2>3. CASE EndLoop BY <1>1, <2>3, StepEndLoop
  <2>4. CASE StartBatch BY <1>1, <2>4, StepStartBatch
  <2>5. CASE RefuseBatch BY <1>1, <2>5, StepRefuseBatch
  <2>6. ASSUME NEW codes \in Answers, CanaryRepeat(codes) PROVE IInv'
    BY <1>1, <2>6, StepCanaryRepeat
  <2>7. ASSUME NEW codes \in Answers, CanaryDeleted(codes) PROVE IInv'
    BY <1>1, <2>7, StepCanaryDeleted
  <2>8. ASSUME NEW codes \in Answers, BatchAnswer(codes) PROVE IInv'
    BY <1>1, <2>8, StepBatchAnswer
  <2>9. ASSUME NEW gone \in SUBSET pending, BatchThrows(gone) PROVE IInv'
    BY <1>1, <2>9, StepBatchThrows
  <2>10. ASSUME NEW gone \in SUBSET pending, NEW classes \in ErrorClasses,
                CanaryThrows(classes, gone)
         PROVE  IInv'
    BY <1>1, <2>10, StepCanaryThrows
  <2>11. CASE ProbeGone BY <1>1, <2>11, StepProbeGone
  <2>12. CASE ProbeFound BY <1>1, <2>12, StepProbeFails DEF ProbeFound
  <2>13. ASSUME NEW classes \in ErrorClasses, ProbeFails(classes) PROVE IInv'
    BY <1>1, <2>13, StepProbeFails
  <2>14. CASE Certify BY <1>1, <2>14, StepCertify
  <2>15. ASSUME NEW v \in Version, Vanish(v) PROVE IInv'
    BY <1>1, <2>15, StepVanish
  <2>16. CASE Tick BY <1>1, <2>16, StepTick
  <2>17. CASE UNCHANGED vars BY <1>1, <2>17, StepStutter
  <2> QED
    BY <1>1, <2>1, <2>2, <2>3, <2>4, <2>5, <2>6, <2>7, <2>8, <2>9, <2>10, <2>11, <2>12,
       <2>13, <2>14, <2>15, <2>16, <2>17
    DEF Next, Run, S3Answers
<1> QED
  BY <1>1, InitIInv, PTL DEF Spec

(* A run whose canary passed or was skipped reports no deletion that did   *)
(* not happen, no failure of a version it removed, and nothing twice.      *)
THEOREM VersionBulkReportSound == Spec => []BulkReportSound
<1>1. IInv => BulkReportSound
  BY DEF IInv
<1> QED
  BY <1>1, VersionInvariant, PTL

(* A run removes nothing its gates do not allow, and nothing outside the   *)
(* sample before the sample is gone from S3.                               *)
THEOREM VersionHarmBounded == Spec => []HarmBounded
<1>1. ASSUME IInv PROVE TypeOK
  BY <1>1 DEF IInv, Typed, TypeOK, BreakerSound, BreakerTyped
<1>2. ASSUME IInv PROVE GatesBoundHarm
  <2>1. destroyed \in SUBSET Version /\ options \in Options
    BY <1>2 DEF IInv, Typed
  <2>2. destroyed # {} => GatesOpen
    BY <1>2 DEF IInv, Gated
  <2>3. IsFiniteSet(destroyed) /\ Cardinality(destroyed) <= Len(Plan) /\ Len(Plan) \in Nat
    BY <2>1, VersionsFinite, PlanFacts
  <2>4. options.inventory \in Nat /\ options.bypass \in BOOLEAN
    BY <2>1, BatchAssumption
  <2>5. ~options.bypass =>
          IF options.inventory > 0
          THEN 100 * Cardinality(destroyed) <= MaxPercent * options.inventory
          ELSE Cardinality(destroyed) <= MaxAbsoluteFallback
    <3>1. destroyed # {} => WithinCeiling(Len(Plan), options.inventory, options.bypass)
      BY <2>2 DEF GatesOpen
    <3> QED
      BY <2>3, <2>4, <3>1, CeilingKept
  <2>6. destroyed # {} => options.confirm
    BY <2>2 DEF GatesOpen
  <2>7. options.wasabi /\ ~options.force => destroyed \cap Young = {}
    BY <2>2 DEF GatesOpen
  <2> QED
    BY <2>5, <2>6, <2>7 DEF GatesBoundHarm
<1>3. ASSUME IInv PROVE CanaryContained
  <2>1. SUFFICES ASSUME ~options.skipCanary, ~(destroyed \subseteq CanarySet)
                 PROVE  (CanarySet \ Unversioned) \cap alive = {}
    BY DEF CanaryContained
  <2>2. gate # "skipped"
    <3>1. Plan = <<>> => Version = {}
      BY PlanAssumption
    <3>2. destroyed # {} /\ destroyed \subseteq Version
      BY <1>3, <2>1 DEF IInv, Typed
    <3> QED
      BY <1>3, <2>1, <3>1, <3>2 DEF IInv, Concluded
  <2>3. gate = "verified"
    BY <1>3, <2>1, <2>2 DEF IInv, Typed, Sampling, Concluded
  <2> QED
    BY <1>3, <2>3 DEF IInv, Concluded, Lost
<1>4. IInv => HarmBounded
  BY <1>1, <1>2, <1>3 DEF HarmBounded
<1> QED
  BY <1>4, VersionInvariant, PTL

(* No request of the bulk is sent while the breaker is OPEN.               *)
THEOREM VersionOpenStopsBatches == Spec => OpenStopsBatches
<1> DEFINE Stops == phase' = "batch" /\ (phase # "batch" \/ attempt' # attempt) => breaker'.state # "OPEN"
<1>1. ASSUME IInv, IInv' PROVE Stops
  BY <1>1 DEF IInv, Admitted
<1> HIDE DEF Stops
<1>2. ASSUME IInv, IInv' PROVE [Stops]_vars
  BY <1>1, <1>2
<1>3. Spec => [][Stops]_vars
  BY <1>2, VersionInvariant, PTL
<1> QED
  BY <1>3 DEF OpenStopsBatches, Stops

-----------------------------------------------------------------------------
(* The listings.                                                           *)
EntryType == [key : Key, id : Nat, data : BOOLEAN]
FlagType == [entry : EntryType, latest : BOOLEAN]
ListedIn(all) == {f.entry : f \in AllFlagged(all)}

ScanTyped ==
  /\ kind \in Kinds /\ gives \in BOOLEAN /\ scanWrites \in Nat
  /\ scanning \in {"listing", "working", "done", "failed"}
  /\ entries \in SUBSET EntryType /\ IsFiniteSet(entries)
  /\ marker \in EntryType \union {Start}
  /\ pages \in Seq(SUBSET FlagType)

\* an id is given once
IdsApart ==
  /\ \A e \in entries : e.id <= NewestOld + scanWrites
  /\ \A e, f \in entries : e.key = f.key /\ e.id = f.id => e = f

\* what is there and not yet listed is still to come
StableAhead ==
  scanning = "listing" => stable \subseteq entries /\ stable \subseteq ListedIn(pages) \union Ahead

StableListed == scanning = "working" => stable \subseteq ListedIn(pages)

\* where the provider gives markers, what is listed does not come again
ListedBehind ==
  scanning = "listing" /\ gives = TRUE =>
    IF marker = Start THEN pages = << >> ELSE \A e \in ListedIn(pages) : ~Before(marker, e)

PagesApart ==
  gives = TRUE => \A i, j \in DOMAIN pages :
    i # j => \A f \in pages[i], g \in pages[j] : f.entry # g.entry

CountsAll ==
  scanning = "working" /\ kind = "uploads" =>
    \A e \in ListedIn(pages) : Old(e) => e \in todo \/ \E r \in done : r.entry = e

\* a version that was not the latest has a newer one above it, or had
OutOfDate ==
  \A f \in AllFlagged(pages) : f.entry.data = TRUE /\ f.latest = FALSE =>
    \/ f.entry.key \in uncovered
    \/ \E g \in entries : g.key = f.entry.key /\ g.id > f.entry.id

PlanSound ==
  scanning = "working" =>
    /\ kind # "uploads" => todo \subseteq EntryType
    /\ kind = "versions" => \A e \in todo : e.data = TRUE =>
         \E f \in AllFlagged(pages) : f.entry = e /\ f.latest = FALSE
    /\ kind = "rehydrate" => \A e \in todo : e.data = FALSE

ScanIInv ==
  /\ ScanTyped /\ IdsApart /\ StableAhead /\ StableListed /\ ListedBehind /\ PagesApart
  /\ CountsAll /\ OutOfDate /\ PlanSound

(* A finite set that is strictly ordered has an element with none after it.*)
LEMMA TopElement ==
  ASSUME NEW S, IsFiniteSet(S), S # {}, NEW R,
         \A e \in S : <<e, e>> \notin R,
         \A e, f, g \in S : <<e, f>> \in R /\ <<f, g>> \in R => <<e, g>> \in R
  PROVE  \E e \in S : \A f \in S : <<e, f>> \notin R
<1> DEFINE After(e) == {f \in S : <<e, f>> \in R}
           All == {After(e) : e \in S}
<1>1. All \subseteq FiniteSubsetsOf(S) /\ All # {}
  <2>1. \A e : After(e) \in SUBSET S
    OBVIOUS
  <2>2. \A e : IsFiniteSet(After(e))
    <3> HIDE DEF After
    <3> QED
      BY <2>1, FS_Subset
  <2>3. \A e \in S : After(e) \in FiniteSubsetsOf(S)
    BY <2>1, <2>2 DEF FiniteSubsetsOf
  <2> HIDE DEF After
  <2> QED
    BY <2>3
<1>2. PICK x \in All : \A y \in All : y \subseteq x => y = x
  <2> HIDE DEF All
  <2> QED
    BY <1>1, MinimalSet
<1>3. PICK e \in S : x = After(e)
  BY <1>2
<1>4. ASSUME NEW f \in S, <<e, f>> \in R PROVE FALSE
  <2>1. After(f) \subseteq After(e) /\ After(f) \in All
    BY <1>4
  <2>2. After(f) = After(e)
    BY <1>2, <1>3, <2>1
  <2>3. f \in After(e) /\ f \notin After(f)
    BY <1>4
  <2> QED
    BY <2>2, <2>3
<1> QED
  BY <1>4

(* S3's order is a strict one, and total between entries with two ids.     *)
LEMMA BeforeOrder ==
  ASSUME NEW e \in EntryType \union {Start}, NEW f \in EntryType \union {Start},
         NEW g \in EntryType \union {Start}
  PROVE  /\ ~Before(e, e)
         /\ Before(e, f) /\ Before(f, g) => Before(e, g)
         /\ e.key # f.key \/ e.id # f.id => Before(e, f) \/ Before(f, e)
<1>1. \A d \in EntryType \union {Start} : d.key \in Nat /\ d.id \in Nat
  <2>1. Key \subseteq Nat
    BY ScanAssumption
  <2>2. \A d \in EntryType : d.key \in Nat /\ d.id \in Nat
    BY <2>1 DEF EntryType
  <2>3. Start.key \in Nat /\ Start.id \in Nat
    BY DEF Start
  <2> QED
    BY <2>2, <2>3
<1>2. /\ e.key \in Nat /\ f.key \in Nat /\ g.key \in Nat
      /\ e.id \in Nat /\ f.id \in Nat /\ g.id \in Nat
  BY <1>1
<1> QED
  BY <1>2 DEF Before

(* Two entries of the bucket are in one order or the other.                *)
LEMMA EntriesOrdered ==
  ASSUME ScanTyped, IdsApart, NEW e \in entries, NEW f \in entries
  PROVE  /\ e = f \/ Before(e, f) \/ Before(f, e)
         /\ ~Before(e, e) /\ ~(Before(e, f) /\ Before(f, e))
<1>1. e \in EntryType /\ f \in EntryType
  BY DEF ScanTyped
<1>2. e.key = f.key /\ e.id = f.id => e = f
  BY DEF IdsApart
<1> QED
  BY <1>1, <1>2, BeforeOrder

(* Of some entries of the bucket one is listed first, and one last.        *)
LEMMA FirstAndLast ==
  ASSUME ScanTyped, IdsApart, NEW S, S \subseteq entries, S # {}
  PROVE  /\ \E e \in S : \A f \in S : ~Before(f, e)
         /\ Last(S) \in S /\ \A e \in S : e = Last(S) \/ Before(e, Last(S))
<1>1. IsFiniteSet(S) /\ S \subseteq EntryType
  BY FS_Subset DEF ScanTyped
<1> DEFINE R == {p \in S \X S : Before(p[1], p[2])}
           Q == {p \in S \X S : Before(p[2], p[1])}
<1>2. \A e, f \in S : /\ <<e, f>> \in R <=> Before(e, f)
                      /\ <<e, f>> \in Q <=> Before(f, e)
  OBVIOUS
<1>3. /\ \A e \in S : ~Before(e, e)
      /\ \A e, f, g \in S : Before(e, f) /\ Before(f, g) => Before(e, g)
  BY <1>1, BeforeOrder
<1> HIDE DEF R, Q
<1>4. PICK l \in S : \A f \in S : <<l, f>> \notin R
  <2>1. /\ \A e \in S : <<e, e>> \notin R
        /\ \A e, f, g \in S : <<e, f>> \in R /\ <<f, g>> \in R => <<e, g>> \in R
    BY <1>2, <1>3
  <2> QED
    BY <1>1, <2>1, TopElement
<1>5. PICK h \in S : \A f \in S : <<h, f>> \notin Q
  <2>1. /\ \A e \in S : <<e, e>> \notin Q
        /\ \A e, f, g \in S : <<e, f>> \in Q /\ <<f, g>> \in Q => <<e, g>> \in Q
    BY <1>2, <1>3
  <2> QED
    BY <1>1, <2>1, TopElement
<1>6. \A f \in S \ {l} : Before(f, l)
  BY <1>2, <1>4, EntriesOrdered
<1>7. Last(S) \in S /\ \A f \in S \ {Last(S)} : Before(f, Last(S))
  BY <1>6 DEF Last
<1> QED
  BY <1>2, <1>5, <1>7

(* The newest of some entries exists.                                      *)
LEMMA NewestOf ==
  ASSUME ScanTyped, NEW S, S \subseteq entries, S # {}
  PROVE  Newest(S) \in S /\ \A f \in S : f.id <= Newest(S).id
<1>1. IsFiniteSet(S) /\ \A e \in S : e.id \in Nat
  BY FS_Subset DEF ScanTyped, EntryType
<1> DEFINE R == {p \in S \X S : p[1].id < p[2].id}
<1>2. \A e, f \in S : <<e, f>> \in R <=> e.id < f.id
  OBVIOUS
<1> HIDE DEF R
<1>3. PICK l \in S : \A f \in S : <<l, f>> \notin R
  <2>1. /\ \A e \in S : <<e, e>> \notin R
        /\ \A e, f, g \in S : <<e, f>> \in R /\ <<f, g>> \in R => <<e, g>> \in R
    BY <1>1, <1>2
  <2> QED
    BY <1>1, <2>1, TopElement
<1>4. ASSUME NEW f \in S PROVE f.id <= l.id
  <2>1. f.id \in Nat /\ l.id \in Nat /\ ~(l.id < f.id)
    BY <1>1, <1>2, <1>3
  <2> QED
    BY <2>1
<1> QED
  BY <1>4 DEF Newest

(* A page is the first of what is ahead, and has something of it.          *)
LEMMA PageFirst ==
  ASSUME ScanTyped, IdsApart
  PROVE  /\ Page \subseteq Ahead /\ Ahead \subseteq entries
         /\ Ahead # {} => Page # {}
         /\ \A e \in Ahead \ Page, f \in Page : Before(f, e)
<1> DEFINE Earlier(e) == {f \in Ahead : Before(f, e)}
<1>1. Ahead \subseteq entries /\ IsFiniteSet(Ahead) /\ Ahead \subseteq EntryType
  BY FS_Subset DEF Ahead, ScanTyped
<1>2. \A e : IsFiniteSet(Earlier(e)) /\ Cardinality(Earlier(e)) \in Nat
  <2>1. \A e : Earlier(e) \in SUBSET Ahead
    OBVIOUS
  <2> HIDE DEF Earlier
  <2> QED
    BY <1>1, <2>1, FS_Subset, FS_CardinalityType
<1>3. Page = {e \in Ahead : Cardinality(Earlier(e)) < PageSize}
  BY DEF Page
<1>4. ASSUME Ahead # {} PROVE Page # {}
  <2>1. PICK e \in Ahead : \A f \in Ahead : ~Before(f, e)
    BY <1>1, <1>4, FirstAndLast
  <2>2. Earlier(e) = {}
    BY <2>1
  <2>3. Cardinality(Earlier(e)) = 0
    BY <2>2, FS_EmptySet
  <2> HIDE DEF Earlier
  <2> QED
    BY <1>3, <2>3, ScanAssumption
<1>5. ASSUME NEW e \in Ahead \ Page, NEW f \in Page PROVE Before(f, e)
  <2>1. SUFFICES ASSUME Before(e, f) PROVE FALSE
    BY <1>1, <1>3, <1>5, EntriesOrdered
  <2>2. Earlier(e) \in SUBSET Earlier(f)
    BY <1>1, <1>3, <2>1, BeforeOrder
  <2> HIDE DEF Earlier
  <2>3. Cardinality(Earlier(e)) <= Cardinality(Earlier(f))
    BY <1>2, <2>2, FS_Subset
  <2> QED
    BY <1>2, <1>3, <2>3, ScanAssumption
<1> QED
  BY <1>1, <1>3, <1>4, <1>5

(* The next marker is of the page, its last where the provider gives it.   *)
LEMMA NextMarkerOf ==
  ASSUME ScanTyped, IdsApart, NEW page, page \subseteq entries, page # {}
  PROVE  /\ NextMarker(page) \in page
         /\ NextMarker(page) = Last(page) \/ Before(NextMarker(page), Last(page))
         /\ gives = TRUE => NextMarker(page) = Last(page)
<1> DEFINE versions == {e \in page : e.data}
           markers == page \ versions
<1>1. NextMarker(page) = Last(page)
        \/ (versions # {} /\ NextMarker(page) = Last(versions))
        \/ (markers # {} /\ NextMarker(page) = Last(markers))
  BY DEF NextMarker
<1>2. gives = TRUE => NextMarker(page) = Last(page)
  BY DEF NextMarker
<1>3. versions \subseteq page /\ markers \subseteq page
  OBVIOUS
<1> HIDE DEF versions, markers
<1>4. NextMarker(page) \in page
  BY <1>1, <1>3, FirstAndLast
<1> QED
  BY <1>2, <1>4, FirstAndLast

LEMMA InitScan == ScanInit => ScanIInv
<1> SUFFICES ASSUME ScanInit PROVE ScanIInv
  OBVIOUS
<1>1. /\ IsFiniteSet(entries) /\ entries \subseteq [key : Key, id : 1..NewestOld, data : BOOLEAN]
      /\ \A e, f \in entries : e.key = f.key /\ e.id = f.id => e = f
  BY ScanAssumption DEF ScanInit
<1>2. entries \subseteq EntryType /\ \A e \in entries : e.id \in 1..NewestOld
  BY <1>1 DEF EntryType
<1>3. pages = << >> /\ AllFlagged(pages) = {} /\ ListedIn(pages) = {}
  BY DEF ScanInit, AllFlagged, ListedIn
<1>4. ScanTyped
  BY <1>1, <1>2 DEF ScanInit, ScanTyped
<1>5. IdsApart
  BY <1>1, <1>2, ScanAssumption DEF ScanInit, IdsApart
<1>6. StableAhead /\ StableListed
  BY DEF ScanInit, StableAhead, StableListed, Ahead
<1>7. ListedBehind /\ PagesApart
  BY <1>3 DEF ScanInit, ListedBehind, PagesApart
<1>8. CountsAll /\ OutOfDate /\ PlanSound
  BY <1>3 DEF ScanInit, CountsAll, OutOfDate, PlanSound
<1> QED
  BY <1>4, <1>5, <1>6, <1>7, <1>8 DEF ScanIInv

(* What is listed after one more page.                                     *)
LEMMA PageAdded ==
  ASSUME ScanTyped, NEW P, P \subseteq FlagType, pages' = Append(pages, P)
  PROVE  /\ pages' \in Seq(SUBSET FlagType)
         /\ AllFlagged(pages') = AllFlagged(pages) \union P
         /\ ListedIn(pages') = ListedIn(pages) \union {f.entry : f \in P}
         /\ \A i \in DOMAIN pages' :
              \/ i \in DOMAIN pages /\ pages'[i] = pages[i]
              \/ i = Len(pages) + 1 /\ pages'[i] = P
<1>1. pages \in Seq(SUBSET FlagType) /\ Len(pages) \in Nat /\ DOMAIN pages = 1..Len(pages)
  BY DEF ScanTyped
<1>2. /\ pages' \in Seq(SUBSET FlagType) /\ DOMAIN pages' = 1..Len(pages) + 1
      /\ \A i \in 1..Len(pages) : pages'[i] = pages[i]
      /\ pages'[Len(pages) + 1] = P
  BY <1>1
<1>3. \A i : i \in DOMAIN pages' <=> i \in DOMAIN pages \/ i = Len(pages) + 1
  BY <1>1, <1>2
<1>4. AllFlagged(pages') = AllFlagged(pages) \union P
  <2>1. \A f : f \in AllFlagged(pages') <=> \E i \in DOMAIN pages' : f \in pages'[i]
    BY DEF AllFlagged
  <2>2. \A f : f \in AllFlagged(pages) <=> \E i \in DOMAIN pages : f \in pages[i]
    BY DEF AllFlagged
  <2> QED
    BY <1>1, <1>2, <1>3, <2>1, <2>2
<1>5. ListedIn(pages') = ListedIn(pages) \union {f.entry : f \in P}
  BY <1>4 DEF ListedIn
<1> QED
  BY <1>1, <1>2, <1>3, <1>4, <1>5

(* What the scanner keeps of a page.                                       *)
LEMMA FlaggedSound ==
  ASSUME ScanTyped, NEW page, page \subseteq entries
  PROVE  /\ Flagged(page) \subseteq FlagType
         /\ {f.entry : f \in Flagged(page)} = page
         /\ \A f \in Flagged(page) : f.latest = FALSE =>
              \E g \in entries : g.key = f.entry.key /\ g.id > f.entry.id
<1>1. page \subseteq EntryType /\ \A e \in entries : e.id \in Nat
  BY DEF ScanTyped, EntryType
<1>2. \A e : Latest(e) \in BOOLEAN
  BY DEF Latest
<1>3. Flagged(page) \subseteq FlagType /\ {f.entry : f \in Flagged(page)} = page
  <2> DEFINE flag(e) == [entry |-> e, latest |-> Latest(e)]
  <2>1. \A e \in page : flag(e) \in FlagType /\ flag(e).entry = e
    BY <1>1, <1>2 DEF FlagType
  <2>2. Flagged(page) = {flag(e) : e \in page}
    BY DEF Flagged
  <2> HIDE DEF flag
  <2> QED
    BY <2>1, <2>2
<1>4. ASSUME NEW e \in page, ~Latest(e)
      PROVE  \E g \in entries : g.key = e.key /\ g.id > e.id
  BY <1>1, <1>4 DEF Latest, OfKey
<1>5. ASSUME NEW f \in Flagged(page), f.latest = FALSE
      PROVE  \E g \in entries : g.key = f.entry.key /\ g.id > f.entry.id
  <2>1. PICK e \in page : f = [entry |-> e, latest |-> Latest(e)]
    BY DEF Flagged
  <2>2. f.entry = e /\ ~Latest(e)
    BY <1>2, <1>5, <2>1
  <2> QED
    BY <1>4, <2>2
<1> QED
  BY <1>3, <1>5

(* What a plan holds is what was listed, as it was listed.                 *)
LEMMA WorkSound ==
  ASSUME NEW all, AllFlagged(all) \subseteq FlagType, NEW work \in Work(all), kind \in Kinds
  PROVE  /\ kind = "uploads" => \A e \in ListedIn(all) : Old(e) => e \in work
         /\ work \subseteq EntryType
         /\ kind = "versions" => \A e \in work : e.data = TRUE =>
              \E f \in AllFlagged(all) : f.entry = e /\ f.latest = FALSE
         /\ kind = "rehydrate" => \A e \in work : e.data = FALSE
<1>1. \A f \in AllFlagged(all) : f.entry \in EntryType /\ f.latest \in BOOLEAN /\ f.entry.data \in BOOLEAN
  BY DEF FlagType, EntryType
<1>2. CASE kind = "uploads"
  <2>1. PICK olderThan \in BOOLEAN : work = Candidates(all, olderThan)
    BY <1>2 DEF Work
  <2> QED
    BY <1>1, <1>2, <2>1 DEF Candidates, InAge, ListedIn
<1>3. CASE kind = "versions"
  <2>1. PICK olderThan \in BOOLEAN : work = Planned(all, olderThan)
    BY <1>3 DEF Work
  <2>2. ASSUME NEW e \in work
        PROVE  /\ e \in EntryType
               /\ e.data = TRUE => \E f \in AllFlagged(all) : f.entry = e /\ f.latest = FALSE
    <3>1. PICK f \in AllFlagged(all) :
            f.entry = e /\ (IF f.entry.data THEN ~f.latest /\ InAge(f.entry, olderThan) ELSE f.latest)
      BY <2>1 DEF Planned
    <3> QED
      BY <1>1, <3>1
  <2> QED
    BY <1>3, <2>2
<1>4. CASE kind = "rehydrate"
  <2>1. PICK olderThan \in BOOLEAN : work = Tombstones(all, olderThan)
    BY <1>4 DEF Work
  <2>2. ASSUME NEW e \in work
        PROVE  e \in EntryType /\ e.data = FALSE
    <3>1. PICK f \in AllFlagged(all) : f.entry = e /\ ~f.entry.data
      BY <2>1 DEF Tombstones
    <3> QED
      BY <1>1, <3>1
  <2> QED
    BY <1>4, <2>2
<1> QED
  BY <1>2, <1>3, <1>4 DEF Kinds

LEMMA ListedTyped ==
  ASSUME ScanTyped
  PROVE  AllFlagged(pages) \subseteq FlagType /\ ListedIn(pages) \subseteq EntryType
<1>1. \A i \in DOMAIN pages : pages[i] \subseteq FlagType
  BY DEF ScanTyped
<1>2. AllFlagged(pages) \subseteq FlagType
  BY <1>1 DEF AllFlagged
<1> QED
  BY <1>2 DEF ListedIn, FlagType

(* After a page that is not the last one, the marker is after what was     *)
(* listed, if the provider gives it, and before all that was not.          *)
LEMMA MarkerPassed ==
  ASSUME ScanIInv, scanning = "listing", Page # Ahead
  PROVE  /\ NextMarker(Page) \in entries /\ NextMarker(Page) # Start
         /\ \A e \in Ahead : e \in Page \/ Before(NextMarker(Page), e)
         /\ gives = TRUE => \A e \in ListedIn(pages) \union Page : ~Before(NextMarker(Page), e)
<1> USE DEF ScanIInv
<1> DEFINE m == NextMarker(Page)
<1>1. /\ Page \subseteq Ahead /\ Ahead \subseteq entries /\ Page # {}
      /\ \A e \in Ahead \ Page, f \in Page : Before(f, e)
  BY PageFirst
<1>2. m \in Page /\ m \in EntryType /\ (gives = TRUE => m = Last(Page))
  BY <1>1, NextMarkerOf DEF ScanTyped
<1>3. m # Start
  BY <1>2, ScanAssumption DEF EntryType, Start
<1>4. ASSUME gives = TRUE, NEW e \in Page PROVE ~Before(m, e)
  <2>1. e = m \/ Before(e, m)
    BY <1>1, <1>2, <1>4, FirstAndLast
  <2> QED
    BY <1>1, <1>2, <2>1, EntriesOrdered
<1>5. ASSUME gives = TRUE, NEW e \in ListedIn(pages), Before(m, e) PROVE FALSE
  <2>1. e \in EntryType
    BY DEF ScanTyped, ListedIn, AllFlagged, FlagType
  <2>2. marker # Start
    BY <1>5 DEF ListedBehind, ListedIn, AllFlagged
  <2>3. Before(marker, m)
    BY <1>1, <1>2, <2>2 DEF Ahead
  <2>4. Before(marker, e)
    BY <1>2, <1>5, <2>1, <2>3, BeforeOrder DEF ScanTyped
  <2> QED
    BY <1>5, <2>2, <2>4 DEF ListedBehind
<1> QED
  BY <1>1, <1>2, <1>3, <1>4, <1>5

(* A page shows nothing again that was listed, if the provider gives       *)
(* markers.                                                                *)
LEMMA PageIsNew ==
  ASSUME ScanIInv, scanning = "listing", gives = TRUE, NEW e \in Page
  PROVE  e \notin ListedIn(pages)
<1>1. e \in Ahead
  BY DEF Page
<1>2. CASE marker = Start
  BY <1>2 DEF ScanIInv, ListedBehind, ListedIn, AllFlagged
<1>3. CASE marker # Start
  BY <1>1, <1>3 DEF ScanIInv, ListedBehind, Ahead
<1> QED
  BY <1>2, <1>3

LEMMA ListStep ==
  ASSUME ScanIInv, List
  PROVE  ScanIInv'
<1>1. /\ scanning = "listing" /\ pages' = Append(pages, Flagged(Page))
      /\ \/ Page = Ahead /\ scanning' = "working" /\ todo' \in Work(pages') /\ marker' = marker
         \/ Page # Ahead /\ marker' = NextMarker(Page) /\ scanning' = scanning /\ todo' = todo
      /\ UNCHANGED <<entries, kind, gives, done, scanWrites, stable, uncovered>>
  BY DEF List
<1>2. /\ Page \subseteq Ahead /\ Ahead \subseteq entries /\ Page \subseteq EntryType
      /\ Flagged(Page) \subseteq FlagType /\ {f.entry : f \in Flagged(Page)} = Page
      /\ \A f \in Flagged(Page) : f.latest = FALSE =>
           \E g \in entries : g.key = f.entry.key /\ g.id > f.entry.id
  BY PageFirst, FlaggedSound DEF ScanIInv, ScanTyped
<1>3. /\ pages' \in Seq(SUBSET FlagType)
      /\ AllFlagged(pages') = AllFlagged(pages) \union Flagged(Page)
      /\ ListedIn(pages') = ListedIn(pages) \union Page
      /\ \A i \in DOMAIN pages' :
           \/ i \in DOMAIN pages /\ pages'[i] = pages[i]
           \/ i = Len(pages) + 1 /\ pages'[i] = Flagged(Page)
  BY <1>1, <1>2, PageAdded DEF ScanIInv
<1>4. /\ NextMarker(Page) \in EntryType \/ Page = Ahead
      /\ AllFlagged(pages') \subseteq FlagType
  <2>1. NextMarker(Page) \in entries \/ Page = Ahead
    BY <1>1, MarkerPassed
  <2>2. AllFlagged(pages) \subseteq FlagType
    BY ListedTyped DEF ScanIInv
  <2> QED
    BY <1>2, <1>3, <2>1, <2>2 DEF ScanIInv, ScanTyped
<1>5. ScanTyped'
  BY <1>1, <1>3, <1>4 DEF ScanIInv, ScanTyped
<1>6. IdsApart'
  BY <1>1 DEF ScanIInv, IdsApart
<1>7. StableAhead'
  <2>1. SUFFICES ASSUME scanning' = "listing"
                 PROVE  /\ stable' \subseteq entries'
                        /\ stable' \subseteq ListedIn(pages)' \union Ahead'
    BY DEF StableAhead
  <2>2. Page # Ahead /\ marker' = NextMarker(Page)
    BY <1>1, <2>1
  <2>3. \A e \in Ahead : e \in Page \/ Before(marker', e)
    BY <1>1, <2>2, MarkerPassed
  <2>4. \A e : e \in entries /\ Before(marker', e) => e \in Ahead'
    BY <1>1 DEF Ahead, Before
  <2>5. stable \subseteq entries /\ stable \subseteq ListedIn(pages) \union Ahead
    BY <1>1 DEF ScanIInv, StableAhead
  <2>6. stable' = stable /\ entries' = entries /\ ListedIn(pages)' = ListedIn(pages) \union Page
    BY <1>1, <1>3
  <2> QED
    BY <1>2, <2>3, <2>4, <2>5, <2>6
<1>8. StableListed'
  BY <1>1, <1>3 DEF ScanIInv, StableAhead, StableListed
<1>9. ListedBehind'
  <2>1. SUFFICES ASSUME scanning' = "listing", gives = TRUE
                 PROVE  marker' # Start /\ \A e \in ListedIn(pages') : ~Before(marker, e)'
    BY <1>1 DEF ListedBehind
  <2>2. Page # Ahead /\ marker' = NextMarker(Page)
    BY <1>1, <2>1
  <2>3. \A e : Before(marker, e)' <=> Before(marker', e)
    BY <1>1 DEF Before
  <2>4. \A e \in ListedIn(pages) \union Page : ~Before(marker', e)
    BY <1>1, <2>1, <2>2, MarkerPassed
  <2>5. marker' # Start
    BY <1>1, <2>2, MarkerPassed
  <2> QED
    BY <1>3, <2>3, <2>4, <2>5
<1>10. PagesApart'
  <2>1. SUFFICES ASSUME gives = TRUE, NEW i \in DOMAIN pages', NEW j \in DOMAIN pages', i # j,
                        NEW f \in pages'[i], NEW g \in pages'[j]
                 PROVE  f.entry # g.entry
    BY <1>1 DEF PagesApart
  <2>2. \A k \in DOMAIN pages : \A h \in pages[k] : h.entry \in ListedIn(pages)
    BY DEF ListedIn, AllFlagged
  <2>3. \A h \in Flagged(Page) : h.entry \in Page /\ h.entry \notin ListedIn(pages)
    BY <1>1, <1>2, <2>1, PageIsNew
  <2>4. CASE i \in DOMAIN pages /\ j \in DOMAIN pages
    <3>1. pages'[i] = pages[i] /\ pages'[j] = pages[j]
      BY <1>3, <2>4 DEF ScanIInv, ScanTyped
    <3> QED
      BY <2>1, <2>4, <3>1 DEF ScanIInv, PagesApart
  <2>5. CASE i \notin DOMAIN pages
    <3>1. pages'[i] = Flagged(Page) /\ i = Len(pages) + 1
      BY <1>3, <2>5
    <3>2. j \in DOMAIN pages /\ pages'[j] = pages[j]
      BY <1>3, <2>1, <3>1
    <3> QED
      BY <2>2, <2>3, <3>1, <3>2
  <2>6. CASE j \notin DOMAIN pages
    <3>1. pages'[j] = Flagged(Page) /\ j = Len(pages) + 1
      BY <1>3, <2>6
    <3>2. i \in DOMAIN pages /\ pages'[i] = pages[i]
      BY <1>3, <2>1, <3>1
    <3> QED
      BY <2>2, <2>3, <3>1, <3>2
  <2> QED
    BY <2>4, <2>5, <2>6
<1>11. scanning' = "working" =>
         /\ kind = "uploads" => \A e \in ListedIn(pages') : Old(e) => e \in todo'
         /\ todo' \subseteq EntryType
         /\ kind = "versions" => \A e \in todo' : e.data = TRUE =>
              \E f \in AllFlagged(pages') : f.entry = e /\ f.latest = FALSE
         /\ kind = "rehydrate" => \A e \in todo' : e.data = FALSE
  <2> SUFFICES ASSUME scanning' = "working"
               PROVE  /\ kind = "uploads" => \A e \in ListedIn(pages') : Old(e) => e \in todo'
                      /\ todo' \subseteq EntryType
                      /\ kind = "versions" => \A e \in todo' : e.data = TRUE =>
                           \E f \in AllFlagged(pages') : f.entry = e /\ f.latest = FALSE
                      /\ kind = "rehydrate" => \A e \in todo' : e.data = FALSE
    OBVIOUS
  <2>1. todo' \in Work(pages') /\ kind \in Kinds
    BY <1>1 DEF ScanIInv, ScanTyped
  <2> QED
    BY <1>4, <2>1, WorkSound
<1>12. CountsAll'
  BY <1>1, <1>11 DEF CountsAll
<1>13. OutOfDate'
  BY <1>1, <1>2, <1>3 DEF ScanIInv, OutOfDate
<1>14. PlanSound'
  BY <1>1, <1>11 DEF PlanSound
<1> QED
  BY <1>5, <1>6, <1>7, <1>8, <1>9, <1>10, <1>12, <1>13, <1>14 DEF ScanIInv

(* While nothing is listed, what was listed stays as it is.                *)
LEMMA ListingRests ==
  ASSUME ScanIInv, UNCHANGED <<kind, gives, marker, pages>>,
         scanning' = scanning \/ scanning' \notin {"listing", "working"},
         stable' \subseteq stable,
         scanning' = "listing" => stable' \subseteq entries'
  PROVE  StableAhead' /\ StableListed' /\ ListedBehind' /\ PagesApart'
<1>1. StableAhead'
  <2>1. SUFFICES ASSUME scanning' = "listing"
                 PROVE  stable' \subseteq ListedIn(pages)' \union Ahead'
    BY DEF StableAhead
  <2>2. \A e \in Ahead : e \in entries' => e \in Ahead'
    BY DEF Ahead, Before
  <2>3. stable \subseteq ListedIn(pages) \union Ahead
    BY <2>1 DEF ScanIInv, StableAhead
  <2>4. ListedIn(pages)' = ListedIn(pages)
    OBVIOUS
  <2> QED
    BY <2>1, <2>2, <2>3, <2>4
<1>2. StableListed'
  BY DEF ScanIInv, StableListed
<1>3. ListedBehind'
  BY DEF ScanIInv, ListedBehind, Before
<1>4. PagesApart'
  BY DEF ScanIInv, PagesApart
<1> QED
  BY <1>1, <1>2, <1>3, <1>4

(* A version that is out of date stays so while what is deleted leaves a   *)
(* newer one, or uncovers its key.                                         *)
LEMMA OutOfDateRests ==
  ASSUME ScanIInv, pages' = pages, uncovered \subseteq uncovered',
         \A g \in entries : g \in entries' \/ g.key \in uncovered'
           \/ \E h \in entries : h \in entries' /\ h.key = g.key /\ h.id > g.id
  PROVE  OutOfDate'
<1>1. SUFFICES ASSUME NEW f \in AllFlagged(pages), f.entry.data = TRUE, f.latest = FALSE
               PROVE  \/ f.entry.key \in uncovered'
                      \/ \E g \in entries' : g.key = f.entry.key /\ g.id > f.entry.id
  BY DEF OutOfDate
<1>2. CASE f.entry.key \in uncovered
  BY <1>2
<1>3. CASE \E g \in entries : g.key = f.entry.key /\ g.id > f.entry.id
  <2>1. PICK g \in entries : g.key = f.entry.key /\ g.id > f.entry.id
    BY <1>3
  <2>2. CASE g \in entries' \/ g.key \in uncovered'
    BY <2>1, <2>2
  <2>3. CASE \E h \in entries : h \in entries' /\ h.key = g.key /\ h.id > g.id
    <3>1. PICK h \in entries : h \in entries' /\ h.key = g.key /\ h.id > g.id
      BY <2>3
    <3>2. \A e \in EntryType : e.id \in Nat
      BY DEF EntryType
    <3>3. f.entry \in EntryType /\ g \in EntryType /\ h \in EntryType
      BY <2>1, <3>1, ListedTyped DEF ScanIInv, ScanTyped, FlagType
    <3>4. f.entry.id \in Nat /\ g.id \in Nat /\ h.id \in Nat
      BY <3>2, <3>3
    <3>5. h.id > f.entry.id /\ h.key = f.entry.key
      BY <2>1, <3>1, <3>4
    <3> QED
      BY <3>1, <3>5
  <2> QED
    BY <2>1, <2>2, <2>3
<1> QED
  BY <1>1, <1>2, <1>3 DEF ScanIInv, OutOfDate

(* What the guardian's own steps on a finished listing leave to be shown.  *)
LEMMA DeletedStep ==
  ASSUME ScanIInv, scanning = "working", kind # "uploads",
         UNCHANGED <<kind, gives, scanning, marker, pages, scanWrites, stable>>,
         todo' \subseteq todo, NEW batch, batch \subseteq todo,
         kind = "versions" => \A e, f \in batch : e = f,
         \/ Gone(batch)
         \/ UNCHANGED <<entries, done, uncovered>>
  PROVE  ScanIInv'
<1>1. entries' \subseteq entries /\ IsFiniteSet(entries')
  BY FS_Subset DEF ScanIInv, ScanTyped, Gone
<1>2. ScanTyped' /\ IdsApart'
  BY <1>1 DEF ScanIInv, ScanTyped, IdsApart
<1>3. StableAhead' /\ StableListed' /\ ListedBehind' /\ PagesApart'
  BY ListingRests
<1>4. OutOfDate'
  <2>1. CASE UNCHANGED <<entries, done, uncovered>>
    BY <2>1, OutOfDateRests
  <2>2. ASSUME Gone(batch), NEW g \in entries, g \in batch
        PROVE  g.key \in uncovered' \/ \E h \in entries : h \in entries' /\ h.key = g.key /\ h.id > g.id
    <3>1. entries' = entries \ batch
          /\ uncovered' = uncovered \union {e.key : e \in {f \in batch : ~f.data}}
      BY <2>2 DEF Gone
    <3>2. g \in EntryType /\ g.data \in BOOLEAN /\ g.id \in Nat /\ g \in todo
      BY <2>2 DEF ScanIInv, ScanTyped, EntryType
    <3>3. CASE g.data = FALSE
      BY <2>2, <3>1, <3>3
    <3>4. CASE g.data = TRUE
      <4>1. kind = "versions"
        BY <3>2, <3>4 DEF ScanIInv, PlanSound, ScanTyped, Kinds
      <4>2. PICK f \in AllFlagged(pages) : f.entry = g /\ f.latest = FALSE
        BY <3>2, <3>4, <4>1 DEF ScanIInv, PlanSound
      <4>3. CASE g.key \in uncovered
        BY <3>1, <4>3
      <4>4. CASE \E h \in entries : h.key = g.key /\ h.id > g.id
        <5>1. PICK h \in entries : h.key = g.key /\ h.id > g.id
          BY <4>4
        <5>2. h # g
          BY <3>2, <5>1
        <5>3. h \in entries'
          BY <2>2, <3>1, <4>1, <5>2
        <5> QED
          BY <5>1, <5>3
      <4> QED
        BY <3>4, <4>2, <4>3, <4>4 DEF ScanIInv, OutOfDate
    <3> QED
      BY <3>2, <3>3, <3>4
  <2>3. CASE Gone(batch)
    <3>1. entries' = entries \ batch /\ uncovered \subseteq uncovered'
      BY <2>3 DEF Gone
    <3> QED
      BY <2>2, <2>3, <3>1, OutOfDateRests
  <2> QED
    BY <2>1, <2>3
<1>5. CountsAll' /\ PlanSound'
  BY DEF ScanIInv, CountsAll, PlanSound
<1> QED
  BY <1>2, <1>3, <1>4, <1>5 DEF ScanIInv

LEMMA CountPartsStep ==
  ASSUME ScanIInv, CountParts
  PROVE  ScanIInv'
<1>1. PICK e \in todo :
        /\ todo' = todo \ {e}
        /\ done' = done \union {[entry |-> e, bytes |-> IF e \in entries THEN 1 ELSE 0]}
  BY DEF CountParts
<1>2. /\ scanning = "working" /\ kind = "uploads"
      /\ UNCHANGED <<entries, kind, gives, scanning, marker, pages, scanWrites, stable, uncovered>>
  BY DEF CountParts
<1>3. ScanTyped' /\ IdsApart'
  BY <1>2 DEF ScanIInv, ScanTyped, IdsApart
<1>4. StableAhead' /\ StableListed' /\ ListedBehind' /\ PagesApart'
  BY <1>2, ListingRests
<1>5. OutOfDate'
  BY <1>2, OutOfDateRests
<1>6. CountsAll'
  <2>1. SUFFICES ASSUME NEW f \in ListedIn(pages), Old(f)
                 PROVE  f \in todo' \/ \E r \in done' : r.entry = f
    BY <1>2 DEF CountsAll, ListedIn, AllFlagged, Old
  <2>2. f \in todo \/ \E r \in done : r.entry = f
    BY <1>2, <2>1 DEF ScanIInv, CountsAll
  <2>3. \E r \in done' : r.entry = e
    <3> DEFINE counted == [entry |-> e, bytes |-> IF e \in entries THEN 1 ELSE 0]
    <3>1. counted.entry = e /\ counted \in done'
      BY <1>1
    <3> QED
      BY <3>1
  <2> QED
    BY <1>1, <2>2, <2>3
<1>7. PlanSound'
  BY <1>2 DEF PlanSound
<1> QED
  BY <1>3, <1>4, <1>5, <1>6, <1>7 DEF ScanIInv

LEMMA FinishStep ==
  ASSUME ScanIInv, Finish
  PROVE  ScanIInv'
<1>1. /\ scanning' \in {"done", "failed"}
      /\ UNCHANGED <<entries, kind, gives, marker, pages, todo, done, scanWrites, stable, uncovered>>
  BY DEF Finish
<1>2. ScanTyped' /\ IdsApart'
  BY <1>1 DEF ScanIInv, ScanTyped, IdsApart
<1>3. StableAhead' /\ StableListed' /\ ListedBehind' /\ PagesApart'
  BY <1>1, ListingRests
<1>4. OutOfDate'
  BY <1>1, OutOfDateRests
<1>5. CountsAll' /\ PlanSound'
  BY <1>1 DEF CountsAll, PlanSound
<1> QED
  BY <1>2, <1>3, <1>4, <1>5 DEF ScanIInv

(* Another client writes: an entry has an id of its own.                   *)
LEMMA PutStep ==
  ASSUME ScanIInv, Put
  PROVE  ScanIInv'
<1>1. PICK k \in Key, data \in BOOLEAN :
        entries' = entries \union {[key |-> k, id |-> NewestOld + scanWrites', data |-> data]}
  BY DEF Put
<1>2. /\ scanWrites' = scanWrites + 1
      /\ UNCHANGED <<kind, gives, scanning, marker, pages, todo, done, stable, uncovered>>
  BY DEF Put, Writes
<1> DEFINE new == [key |-> k, id |-> NewestOld + scanWrites', data |-> data]
<1>3. scanWrites \in Nat /\ NewestOld \in Nat
  BY ScanAssumption DEF ScanIInv, ScanTyped
<1>4. new \in EntryType /\ new.id = NewestOld + scanWrites + 1
  BY <1>2, <1>3 DEF EntryType
<1>5. entries' = entries \union {new} /\ \A e \in entries : e.id \in Nat /\ e.id <= NewestOld + scanWrites
  BY <1>1 DEF ScanIInv, ScanTyped, EntryType, IdsApart
<1> HIDE DEF new
<1>6. ScanTyped'
  <2>1. IsFiniteSet(entries')
    BY <1>5, FS_AddElement DEF ScanIInv, ScanTyped
  <2> QED
    BY <1>2, <1>3, <1>4, <1>5, <2>1 DEF ScanIInv, ScanTyped
<1>7. IdsApart'
  <2>1. \A e \in entries' : e.id <= NewestOld + scanWrites'
    BY <1>2, <1>3, <1>4, <1>5
  <2>2. \A e \in entries : e.id # new.id
    BY <1>3, <1>4, <1>5
  <2> QED
    BY <1>5, <2>1, <2>2 DEF ScanIInv, IdsApart
<1>8. StableAhead' /\ StableListed' /\ ListedBehind' /\ PagesApart'
  BY <1>2, <1>5, ListingRests DEF ScanIInv, StableAhead
<1>9. OutOfDate'
  BY <1>2, <1>5, OutOfDateRests
<1>10. CountsAll' /\ PlanSound'
  BY <1>2 DEF ScanIInv, CountsAll, PlanSound
<1> QED
  BY <1>6, <1>7, <1>8, <1>9, <1>10 DEF ScanIInv

LEMMA RemoveEntryStep ==
  ASSUME ScanIInv, RemoveEntry
  PROVE  ScanIInv'
<1>1. PICK e \in entries : /\ entries' = entries \ {e} /\ stable' = stable \ {e}
                           /\ uncovered' = uncovered \union {e.key}
  BY DEF RemoveEntry
<1>2. /\ scanWrites' = scanWrites + 1
      /\ UNCHANGED <<kind, gives, scanning, marker, pages, todo, done>>
  BY DEF RemoveEntry, Writes
<1>3. ScanTyped' /\ IdsApart'
  <2>1. entries' \subseteq entries /\ IsFiniteSet(entries') /\ scanWrites' \in Nat
    BY <1>1, <1>2, FS_Subset DEF ScanIInv, ScanTyped
  <2>2. \A f \in entries : f.id \in Nat
    BY DEF ScanIInv, ScanTyped, EntryType
  <2>3. \A f \in entries' : f.id <= NewestOld + scanWrites'
    BY <1>2, <2>1, <2>2, ScanAssumption DEF ScanIInv, ScanTyped, IdsApart
  <2> QED
    BY <1>2, <2>1, <2>3 DEF ScanIInv, ScanTyped, IdsApart
<1>4. StableAhead' /\ StableListed' /\ ListedBehind' /\ PagesApart'
  BY <1>1, <1>2, ListingRests DEF ScanIInv, StableAhead
<1>5. OutOfDate'
  BY <1>1, <1>2, OutOfDateRests
<1>6. CountsAll' /\ PlanSound'
  BY <1>2 DEF ScanIInv, CountsAll, PlanSound
<1> QED
  BY <1>3, <1>4, <1>5, <1>6 DEF ScanIInv

(* One entry of a plan, or a batch of delete markers, is deleted or not.   *)
LEMMA DeletingStep ==
  ASSUME DeletePlanned \/ PopMarkers
  PROVE  /\ scanning = "working" /\ kind \in {"versions", "rehydrate"} /\ todo' \subseteq todo
         /\ UNCHANGED <<kind, gives, scanning, marker, pages, scanWrites, stable>>
         /\ \E batch \in SUBSET todo :
              /\ kind = "versions" => \A e, f \in batch : e = f
              /\ Gone(batch) \/ UNCHANGED <<entries, done, uncovered>>
<1>1. CASE DeletePlanned
  <2>1. PICK e \in todo : todo' = todo \ {e} /\ (Gone({e}) \/ UNCHANGED <<entries, done, uncovered>>)
    BY <1>1 DEF DeletePlanned
  <2>2. {e} \in SUBSET todo /\ \A f, g \in {e} : f = g
    OBVIOUS
  <2> QED
    BY <1>1, <2>1, <2>2 DEF DeletePlanned
<1>2. CASE PopMarkers
  <2>1. PICK popped \in SUBSET Batch : Gone(popped)
    BY <1>2 DEF PopMarkers
  <2>2. popped \in SUBSET todo
    BY DEF Batch
  <2>3. kind = "rehydrate" /\ todo' \subseteq todo
    BY <1>2 DEF PopMarkers
  <2> QED
    BY <1>2, <2>1, <2>2, <2>3 DEF PopMarkers
<1> QED
  BY <1>1, <1>2

(* Whatever other clients write between pages and under a plan, what the   *)
(* listing keeps and the plan holds stays true of the bucket.              *)
THEOREM ScanInvariant == ScanSpec => []ScanIInv
<1>1. ScanIInv /\ [ScanNext]_scanVars => ScanIInv'
  <2> SUFFICES ASSUME ScanIInv, [ScanNext]_scanVars PROVE ScanIInv'
    OBVIOUS
  <2>1. CASE DeletePlanned \/ PopMarkers
    <3>1. PICK batch \in SUBSET todo :
            /\ kind = "versions" => \A e, f \in batch : e = f
            /\ Gone(batch) \/ UNCHANGED <<entries, done, uncovered>>
      BY <2>1, DeletingStep
    <3>2. /\ scanning = "working" /\ kind # "uploads" /\ todo' \subseteq todo
          /\ UNCHANGED <<kind, gives, scanning, marker, pages, scanWrites, stable>>
      BY <2>1, DeletingStep
    <3> QED
      BY <3>1, <3>2, DeletedStep
  <2>2. CASE UNCHANGED scanVars
    <3>1. ScanTyped' /\ IdsApart'
      BY <2>2 DEF scanVars, ScanIInv, ScanTyped, IdsApart
    <3>2. StableAhead' /\ StableListed' /\ ListedBehind' /\ PagesApart'
      BY <2>2, ListingRests DEF scanVars, ScanIInv, StableAhead
    <3>3. OutOfDate'
      BY <2>2, OutOfDateRests DEF scanVars
    <3>4. CountsAll' /\ PlanSound'
      BY <2>2 DEF scanVars, ScanIInv, CountsAll, PlanSound
    <3> QED
      BY <3>1, <3>2, <3>3, <3>4 DEF ScanIInv
  <2> QED
    BY <2>1, <2>2, ListStep, CountPartsStep, FinishStep, PutStep, RemoveEntryStep
       DEF ScanNext, Guardian
<1> QED
  BY <1>1, InitScan, PTL DEF ScanSpec

(* The listings of the three scanners miss nothing that was there all      *)
(* along, and repeat nothing where the provider gives markers.             *)
THEOREM ScanListingExact == ScanSpec => []ListingExact
<1>1. ScanIInv => ListingExact
  <2> SUFFICES ASSUME ScanIInv PROVE ListingExact
    OBVIOUS
  <2>1. ASSUME scanning = "working", todo = {}, kind = "uploads", NEW e \in stable, Old(e)
        PROVE  \E r \in done : r.entry = e
    BY <2>1 DEF ScanIInv, StableListed, CountsAll
  <2>2. scanning = "working" => stable \subseteq {f.entry : f \in AllFlagged(pages)} \union done
    BY DEF ScanIInv, StableListed, ListedIn
  <2>3. gives => gives = TRUE
    BY DEF ScanIInv, ScanTyped
  <2> QED
    BY <2>1, <2>2, <2>3 DEF ListingExact, ScanIInv, PagesApart
<1> QED
  BY <1>1, ScanInvariant, PTL

(* A key whose newest entry stays shows what it showed.                    *)
LEMMA ShownStays ==
  ASSUME ScanTyped, IdsApart, ScanTyped', NEW k, entries' \subseteq entries, OfKey(k) # {},
         Newest(OfKey(k)) \in entries'
  PROVE  Shows(k)' = Shows(k)
<1> DEFINE N == Newest(OfKey(k))
           S == OfKey(k)
           T == {e \in entries' : e.key = k}
<1>1. N \in S /\ \A f \in S : f.id <= N.id
  BY NewestOf DEF OfKey
<1>2. N \in T /\ T \subseteq S
  BY <1>1 DEF OfKey
<1>3. \A e \in S : (\A f \in T : f.id <= e.id) => e = N
  <2>1. SUFFICES ASSUME NEW e \in S, N.id <= e.id PROVE e = N
    BY <1>2
  <2>2. e \in entries /\ N \in entries /\ e.key = N.key
    BY <1>1 DEF OfKey
  <2>3. e.id \in Nat /\ N.id \in Nat
    BY <2>2 DEF ScanTyped, EntryType
  <2>4. e.id = N.id
    BY <1>1, <2>1, <2>3
  <2> QED
    BY <2>2, <2>4 DEF IdsApart
<1>4. Newest(T) = N
  <2>1. \A f \in T : f.id <= N.id
    BY <1>1, <1>2
  <2> HIDE DEF N, S, T
  <2>2. Newest(T) \in T /\ \A f \in T : f.id <= Newest(T).id
    BY <1>2, <2>1 DEF Newest
  <2> QED
    BY <1>2, <1>3, <2>2
<1>5. Shows(k)' = IF T = {} THEN Start ELSE Newest(T)
  BY DEF Shows, OfKey, Newest
<1> QED
  BY <1>2, <1>4, <1>5 DEF Shows

(* No step of the guardian takes from a key a data version that it shows,  *)
(* unless another client or a popped marker had uncovered the key.         *)
THEOREM ScanOnlyMarkersUncovered == ScanSpec => OnlyMarkersUncovered
<1>1. ASSUME ScanIInv, ScanIInv', [ScanNext]_scanVars
      PROVE  Guardian => \A k \in Key : Shows(k)' = Shows(k) \/ ~Shows(k).data \/ k \in uncovered
  <2> SUFFICES ASSUME Guardian, NEW k \in Key, Shows(k).data, k \notin uncovered
               PROVE  Shows(k)' = Shows(k)
    OBVIOUS
  <2>1. CASE entries' = entries
    BY <2>1 DEF Shows, OfKey, Newest
  <2>2. CASE (DeletePlanned \/ PopMarkers) /\ entries' # entries
    <3>1. PICK batch \in SUBSET todo :
            /\ kind = "versions" => \A e, f \in batch : e = f
            /\ Gone(batch) \/ UNCHANGED <<entries, done, uncovered>>
      BY <2>2, DeletingStep
    <3>2. entries' = entries \ batch
      BY <2>2, <3>1 DEF Gone
    <3>3. scanning = "working" /\ kind \in {"versions", "rehydrate"}
      BY <2>2, DeletingStep
    <3>4. OfKey(k) # {} /\ Shows(k) = Newest(OfKey(k))
      BY DEF Shows, Start
    <3>5. /\ Shows(k) \in entries /\ Shows(k).key = k /\ Shows(k).data = TRUE
          /\ \A f \in entries : f.key = k => f.id <= Shows(k).id
      <4>1. Shows(k) \in OfKey(k) /\ \A f \in OfKey(k) : f.id <= Shows(k).id
        BY <3>4, <1>1, NewestOf DEF OfKey, ScanIInv
      <4>2. Shows(k).data \in BOOLEAN
        BY <1>1, <4>1 DEF OfKey, ScanIInv, ScanTyped, EntryType
      <4> QED
        BY <4>1, <4>2 DEF OfKey
    <3>6. Shows(k) \notin batch
      <4>1. SUFFICES ASSUME Shows(k) \in todo PROVE FALSE
        OBVIOUS
      <4>2. kind = "versions"
        BY <1>1, <3>3, <3>5, <4>1 DEF ScanIInv, PlanSound
      <4>3. PICK f \in AllFlagged(pages) : f.entry = Shows(k) /\ f.latest = FALSE
        BY <1>1, <3>3, <3>5, <4>1, <4>2 DEF ScanIInv, PlanSound
      <4>4. PICK g \in entries : g.key = k /\ g.id > Shows(k).id
        BY <1>1, <3>5, <4>3 DEF ScanIInv, OutOfDate
      <4>5. g.id \in Nat /\ Shows(k).id \in Nat
        BY <1>1, <3>5 DEF ScanIInv, ScanTyped, EntryType
      <4> QED
        BY <3>5, <4>4, <4>5
    <3> QED
      BY <1>1, <3>2, <3>4, <3>5, <3>6, ShownStays DEF ScanIInv
  <2>3. List \/ CountParts \/ Finish => entries' = entries
    BY DEF List, CountParts, Finish
  <2> QED
    BY <2>1, <2>2, <2>3 DEF Guardian
<1> QED
  BY <1>1, ScanInvariant, PTL DEF OnlyMarkersUncovered, ScanSpec
=============================================================================
