---------------------------- MODULE SweepProofs ----------------------------
(***************************************************************************)
(* The theorems about FleetSweep and AccountSweep.                         *)
(*                                                                         *)
(* A sweep of buckets never loses one nor reports one twice, because every *)
(* listed bucket is at one place (Apart) and all places together are the   *)
(* listing (Covered).  What a crash costs is found by counting in advance: *)
(* Extra are the audits that will have been in vain if every result on its *)
(* way to S3 arrives, and a crash adds to it the results in the chain,     *)
(* which SlotBound says are no more than the slots. That the other steps   *)
(* add nothing needs the list in memory to be the one in S3 (Synced): a    *)
(* bucket that is audited is in neither.                                   *)
(*                                                                         *)
(* A sweep of accounts: whoever waits, waits for a request that is out and *)
(* for its own role (Answerable), and as long as nobody clears the pool a  *)
(* request that is out is the one the pool has registered (Registered).    *)
(*                                                                         *)
(* CommonTheorems brings the constants of the breaker with it; no          *)
(* statement here is about them.                                           *)
(***************************************************************************)
EXTENDS FleetSweep, AccountSweep, CommonTheorems

\* what a result can say
Verdicts == Outcomes \cup {"SKIPPED_EXCLUDED", "SKIPPED_REGION"}
Results == [bucket : Bucket, status : Verdicts]

(* The types.                                                              *)
Typed ==
  /\ pc \in {"off", "loading", "resolving", "auditing", "done"} /\ uri \in BOOLEAN
  /\ listing \in Seq(Bucket) /\ discovered \in Seq(Bucket) /\ queue \in Seq(Bucket)
  /\ completed \in Seq(Results) /\ chain \in Seq(Results)
  /\ reported \in Seq(Results) /\ saved \in Seq(Results)
  /\ running \in SUBSET Bucket /\ audits \in [Bucket -> Nat]
  /\ crashes \in Nat /\ unsaved \in BOOLEAN

(* What rests between two phases; only a checkpoint needs saves.           *)
Resting ==
  /\ pc # "auditing" => running = {} /\ chain = <<>>
  /\ pc = "loading" => queue = <<>> /\ completed = <<>> /\ reported = <<>>
  /\ pc \in {"auditing", "done"} => listing = <<>>
  /\ pc = "done" => queue = <<>>
  /\ ~uri => chain = <<>>

(* A bucket is at one place at a time: still to be looked at, queued,      *)
(* being audited, or its result known.                                     *)
Apart ==
  pc # "off" =>
    /\ Distinct(listing) /\ Distinct(queue)
    /\ Elements(listing) \cap Elements(queue) = {}
    /\ Elements(queue) \cap running = {}
    /\ (Elements(queue) \cup running) \cap (Buckets(chain) \cup Buckets(completed)) = {}

(* And none is lost on its way into the report.                            *)
Covered ==
  pc # "off" =>
    /\ Len(reported) + Len(chain) + Cardinality(running) + Len(queue) + Len(listing) = Len(discovered)
    /\ Buckets(reported) \cup Buckets(chain) \cup running \cup Elements(queue) \cup Elements(listing)
         = Elements(discovered)

(* An audit keeps its slot until its result is saved.                      *)
SlotBound == Cardinality(running) + Len(chain) <= Concurrency

(* The list in memory is the one in S3.                                    *)
Synced == uri /\ ~unsaved /\ pc \in {"resolving", "auditing"} => completed = saved

(* The buckets whose last audit will not be repeated, unless a crash takes *)
(* the chain; the audits beyond are the cost of crashes.                   *)
Kept == Buckets(saved) \cup Buckets(chain)
Extra == [b \in Bucket |-> IF b \in Kept THEN audits[b] - 1 ELSE audits[b]]

(* What the crashes so far have cost, counted as if none were to come.     *)
Costed ==
  uri /\ ~unsaved =>
    /\ \A b \in Kept : audits[b] > 0
    /\ SumFunctionOnSet(Extra, Bucket) <= Concurrency * crashes

(* The inductive invariant.                                                *)
IInv == Typed /\ Resting /\ Apart /\ Covered /\ SlotBound /\ Synced /\ Costed

-----------------------------------------------------------------------------
(* The buckets of a list of results are no more than it is long.           *)
LEMMA BucketsCounted ==
  ASSUME NEW r \in Seq(Results)
  PROVE  /\ Buckets(r) = {x.bucket : x \in Elements(r)} /\ Buckets(r) \in SUBSET Bucket
         /\ IsFiniteSet(Buckets(r)) /\ Cardinality(Buckets(r)) \in Nat
         /\ Cardinality(Buckets(r)) <= Len(r)
<1>1. /\ Elements(r) \in SUBSET Results /\ Elements(r) = {r[i] : i \in DOMAIN r}
      /\ IsFiniteSet(Elements(r)) /\ Cardinality(Elements(r)) <= Len(r)
      /\ Cardinality(Elements(r)) \in Nat /\ Len(r) \in Nat
  BY ElementsCounted
<1>2. Buckets(r) = {x.bucket : x \in Elements(r)}
  BY <1>1 DEF Buckets
<1>3. Buckets(r) \in SUBSET Bucket
  BY <1>1, <1>2 DEF Results
<1> DEFINE f == [x \in Elements(r) |-> x.bucket]
<1>4. f \in Surjection(Elements(r), Buckets(r))
  BY <1>2 DEF Surjection
<1>5. IsFiniteSet(Buckets(r)) /\ Cardinality(Buckets(r)) <= Cardinality(Elements(r))
  <2> HIDE DEF f
  <2> QED
    BY <1>1, <1>4, FS_Surjection
<1>6. Cardinality(Buckets(r)) \in Nat
  BY <1>5, FS_CardinalityType
<1> DEFINE k == Cardinality(Buckets(r))
           m == Cardinality(Elements(r))
           n == Len(r)
<1>7. k <= n
  <2>1. k \in Nat /\ m \in Nat /\ n \in Nat /\ k <= m /\ m <= n
    BY <1>1, <1>5, <1>6
  <2> HIDE DEF k, m, n
  <2> QED
    BY <2>1
<1> QED
  BY <1>2, <1>3, <1>5, <1>6, <1>7

(* A result is pushed.                                                     *)
LEMMA BucketsPushed ==
  ASSUME NEW r \in Seq(Results), NEW x \in Results
  PROVE  /\ Append(r, x) \in Seq(Results) /\ Len(Append(r, x)) = Len(r) + 1
         /\ Buckets(Append(r, x)) = Buckets(r) \cup {x.bucket}
<1>1. /\ Append(r, x) \in Seq(Results) /\ Len(Append(r, x)) = Len(r) + 1
      /\ Elements(Append(r, x)) = Elements(r) \cup {x}
  BY AppendSound
<1>2. /\ Buckets(Append(r, x)) = {y.bucket : y \in Elements(Append(r, x))}
      /\ Buckets(r) = {y.bucket : y \in Elements(r)}
  BY <1>1, BucketsCounted
<1> QED
  BY <1>1, <1>2

(* The first result is taken off, and its bucket may be in it again.       *)
LEMMA BucketsShifted ==
  ASSUME NEW r \in Seq(Results), r # <<>>
  PROVE  /\ Tail(r) \in Seq(Results) /\ Len(Tail(r)) = Len(r) - 1 /\ Len(r) \in Nat \ {0}
         /\ Head(r) \in Results /\ Buckets(r) = {Head(r).bucket} \cup Buckets(Tail(r))
<1>1. /\ Tail(r) \in Seq(Results) /\ Head(r) \in Results /\ Len(Tail(r)) = Len(r) - 1
      /\ Len(r) \in Nat \ {0} /\ Elements(r) = {Head(r)} \cup Elements(Tail(r))
  BY ShiftSound
<1>2. /\ Buckets(Tail(r)) = {y.bucket : y \in Elements(Tail(r))}
      /\ Buckets(r) = {y.bucket : y \in Elements(r)}
  BY <1>1, BucketsCounted
<1> QED
  BY <1>1, <1>2

(* Empty lists and sets count nothing.                                     *)
LEMMA Nothing ==
  /\ <<>> \in Seq(Bucket) /\ <<>> \in Seq(Results) /\ Len(<<>>) = 0
  /\ Elements(<<>>) = {} /\ Buckets(<<>>) = {} /\ Distinct(<<>>)
  /\ {} \in SUBSET Bucket /\ Cardinality({}) = 0
<1>1. <<>> \in Seq(Bucket) /\ <<>> \in Seq(Results) /\ Len(<<>>) = 0
  BY EmptySeq
<1>2. Elements(<<>>) = {} /\ Distinct(<<>>)
  BY <1>1 DEF Elements, Distinct
<1>3. Buckets(<<>>) = {}
  BY <1>1, <1>2, BucketsCounted
<1> QED
  BY <1>1, <1>2, <1>3, FS_EmptySet

(* Sets of buckets are finite.                                             *)
LEMMA BucketsFinite ==
  ASSUME NEW S \in SUBSET Bucket
  PROVE  IsFiniteSet(S) /\ Cardinality(S) \in Nat
BY FleetAssumption, FS_Subset, FS_CardinalityType

(* The Map of the checkpoint knows the buckets in it.                      *)
LEMMA EntrySound ==
  ASSUME completed \in Seq(Results), NEW b, InCheckpoint(b)
  PROVE  Entry(b) \in Results /\ Entry(b).bucket = b
<1> DEFINE I == {i \in DOMAIN completed : completed[i].bucket = b}
           n == Len(completed)
<1>1. n \in Nat /\ DOMAIN completed = 1..n /\ \A i \in 1..n : completed[i] \in Results
  BY ElementOfSeq, LenProperties
<1>2. I # {}
  BY DEF InCheckpoint, Buckets
<1>3. I \subseteq Nat /\ IsFiniteSet(I)
  <2>1. IsFiniteSet(1..n)
    <3>1. n \in Int /\ 1 \in Int
      BY <1>1
    <3> HIDE DEF n
    <3> QED
      BY <3>1, FS_Interval
  <2>2. I \subseteq 1..n
    BY <1>1
  <2>3. 1..n \subseteq Nat
    <3> HIDE DEF n
    <3> QED OBVIOUS
  <2> HIDE DEF n, I
  <2> QED
    BY <2>1, <2>2, <2>3, FS_Subset
<1> HIDE DEF I
<1>4. \E x \in I : \A y \in I : x >= y
  BY <1>2, <1>3, LastExists
<1>5. Max(I) \in I
  BY <1>4 DEF Max
<1>6. Entry(b) = completed[Max(I)]
  BY DEF Entry, I
<1> QED
  BY <1>1, <1>5, <1>6 DEF I

(* The first of the queue get slots, beside those that have one.           *)
LEMMA Serves ==
  ASSUME queue \in Seq(Bucket), Distinct(queue), NEW n \in Nat,
         NEW rest \in SUBSET Bucket, Elements(queue) \cap rest = {},
         running' = rest \cup ToSet(SubSeq(queue, 1, Served(n))),
         queue' = SubSeq(queue, Served(n) + 1, Len(queue))
  PROVE  /\ queue' \in Seq(Bucket) /\ Distinct(queue') /\ running' \in SUBSET Bucket
         /\ running' \cup Elements(queue') = rest \cup Elements(queue)
         /\ Elements(queue') \cap running' = {}
         /\ Cardinality(running') + Len(queue') = Cardinality(rest) + Len(queue)
         /\ Cardinality(running') <= Cardinality(rest) + n
         /\ Cardinality(running') \in Nat /\ Cardinality(rest) \in Nat
         /\ Len(queue) \in Nat /\ Len(queue') \in Nat
<1> DEFINE c == Served(n)
           a == SubSeq(queue, 1, c)
           b == SubSeq(queue, c + 1, Len(queue))
           l == Len(queue)
<1>1. l \in Nat
  BY LenProperties
<1>2. c \in 0..l /\ c <= n
  <2> HIDE DEF l
  <2>1. c = IF n < l THEN n ELSE l
    BY DEF Served, l
  <2> HIDE DEF c
  <2> QED
    BY <1>1, <2>1
<1>3. /\ a \in Seq(Bucket) /\ Len(a) = c /\ Distinct(a)
      /\ b \in Seq(Bucket) /\ Len(b) = l - c /\ Distinct(b)
      /\ Elements(a) \cap Elements(b) = {} /\ Elements(a) \cup Elements(b) = Elements(queue)
  <2> HIDE DEF c
  <2> QED
    BY <1>2, SplitSound
<1>4. running' = rest \cup ToSet(a) /\ queue' = b
  OBVIOUS
<1> HIDE DEF a, b, c
<1>5. /\ ToSet(a) = Elements(a) /\ Elements(a) \in SUBSET Bucket
      /\ Cardinality(Elements(a)) = c /\ Cardinality(Elements(a)) \in Nat
  BY <1>3, ElementsCounted DEF ToSet
<1>6. rest \cap Elements(a) = {}
  BY <1>3
<1>7. /\ Cardinality(running') = Cardinality(rest) + Cardinality(Elements(a))
      /\ Cardinality(rest) \in Nat
  <2>1. IsFiniteSet(rest) /\ IsFiniteSet(Elements(a))
    BY <1>5, BucketsFinite
  <2>2. Cardinality(rest) \in Nat /\ Cardinality(rest \cap Elements(a)) = 0
    BY <1>6, <2>1, FS_CardinalityType, FS_EmptySet
  <2>3. Cardinality(rest \cup Elements(a)) =
          Cardinality(rest) + Cardinality(Elements(a)) - Cardinality(rest \cap Elements(a))
    BY <2>1, FS_Union
  <2>4. running' = rest \cup Elements(a)
    BY <1>4, <1>5
  <2>5. Cardinality(running') = Cardinality(rest \cup Elements(a))
    BY <2>4, Zenon
  <2> DEFINE y == Cardinality(rest)
             z == Cardinality(Elements(a))
             i == Cardinality(rest \cap Elements(a))
             u == Cardinality(rest \cup Elements(a))
  <2>6. Cardinality(running') = u /\ u = (y + z) - i /\ i = 0 /\ y \in Nat /\ z \in Nat
    BY <1>5, <2>2, <2>3, <2>5
  <2> HIDE DEF y, z, i, u
  <2>7. Cardinality(running') = y + z /\ y \in Nat
    BY <2>6
  <2> QED
    BY <2>7 DEF y, z
<1>8. /\ running' \in SUBSET Bucket /\ Elements(b) \cap running' = {}
      /\ running' \cup Elements(b) = rest \cup Elements(queue)
  BY <1>3, <1>4, <1>5
<1>9. /\ Cardinality(running') + Len(b) = Cardinality(rest) + l
      /\ Cardinality(running') <= Cardinality(rest) + n /\ Cardinality(running') \in Nat
      /\ Len(b) \in Nat
  <2> DEFINE x == Cardinality(running')
             y == Cardinality(rest)
             z == Len(b)
  <2>1. x = y + c /\ y \in Nat /\ z = l - c
    BY <1>3, <1>5, <1>7
  <2> HIDE DEF x, y, z, l
  <2>2. x + z = y + l /\ x <= y + n /\ x \in Nat /\ z \in Nat
    BY <1>1, <1>2, <2>1
  <2> QED
    BY <2>2 DEF x, y, z
<1> QED
  BY <1>1, <1>3, <1>4, <1>7, <1>8, <1>9 DEF l

(* What neither audits nor saves nor crashes costs nothing.                *)
LEMMA CostKept ==
  ASSUME Costed, UNCHANGED <<uri, saved, audits, crashes>>, ~unsaved' => ~unsaved,
         Buckets(chain') = Buckets(chain)
  PROVE  Costed'
<1>1. Kept' = Kept
  BY DEF Kept
<1>2. Extra' = Extra
  BY <1>1 DEF Extra
<1> QED
  BY <1>1, <1>2 DEF Costed

(* Nothing has been audited, nothing is kept.                              *)
LEMMA InitIInv == Init => IInv
<1> SUFFICES ASSUME Init PROVE IInv
  OBVIOUS
<1> USE Nothing DEF Init
<1>1. Typed
  BY DEF Typed
<1>2. Resting /\ Apart /\ Covered /\ Synced
  BY DEF Resting, Apart, Covered, Synced
<1>3. SlotBound
  BY FleetAssumption DEF SlotBound
<1>4. Costed
  <2>1. Kept = {}
    BY DEF Kept
  <2>2. \A b \in Bucket : Extra[b] = 0
    BY <2>1 DEF Extra
  <2>3. SumFunctionOnSet(Extra, Bucket) = SumFunctionOnSet(Extra, {})
    BY <2>2, FleetAssumption, SumOfNonzero
  <2>4. SumFunctionOnSet(Extra, Bucket) = 0
    BY <2>3, SumEmpty
  <2>5. 0 <= Concurrency * crashes
    BY FleetAssumption
  <2> QED
    BY <2>1, <2>4, <2>5 DEF Costed
<1> QED
  BY <1>1, <1>2, <1>3, <1>4 DEF IInv

(* A new sweep lists every bucket once and starts with empty hands.        *)
LEMMA BeginSweepKeeps == IInv /\ BeginSweep => IInv'
<1> SUFFICES ASSUME IInv, BeginSweep PROVE IInv'
  OBVIOUS
<1> USE Nothing
<1>1. Typed /\ Resting /\ Costed
  BY DEF IInv
<1>2. PICK answer \in Listings : listing' = answer /\ discovered' = answer
  BY DEF BeginSweep
<1>3. /\ pc' \in {"loading", "resolving"} /\ pc \in {"off", "done"}
      /\ (pc' = "resolving" => ~uri)
      /\ completed' = <<>> /\ queue' = <<>> /\ running' = {} /\ chain' = <<>>
      /\ reported' = <<>> /\ UNCHANGED <<uri, saved, audits, crashes, unsaved>>
  BY DEF BeginSweep, Forget
<1>4. answer \in Seq(Bucket) /\ Distinct(answer)
  <2>1. answer \in Seq(Bucket) /\ IsInjective(answer)
    BY FleetAssumption
  <2>2. DOMAIN answer = 1..Len(answer)
    BY <2>1, LenProperties
  <2> QED
    BY <2>1, <2>2 DEF IsInjective, Distinct
<1>5. Typed'
  BY <1>1, <1>2, <1>3, <1>4 DEF Typed
<1>6. Resting'
  BY <1>3 DEF Resting
<1>7. Apart'
  BY <1>2, <1>3, <1>4 DEF Apart
<1>8. Covered'
  <2>1. Len(answer) \in Nat
    BY <1>4, LenProperties
  <2>2. 0 + 0 + 0 + 0 + Len(answer) = Len(answer)
    BY <2>1
  <2> QED
    BY <1>2, <1>3, <2>2 DEF Covered
<1>9. SlotBound'
  BY <1>3, FleetAssumption DEF SlotBound
<1>10. Synced'
  BY <1>3 DEF Synced
<1>11. Costed'
  <2>1. Buckets(chain) = {}
    BY <1>1, <1>3 DEF Resting
  <2> QED
    BY <1>1, <1>3, <2>1, CostKept
<1> QED
  BY <1>5, <1>6, <1>7, <1>8, <1>9, <1>10, <1>11 DEF IInv

(* A sweep that cannot list ends before it began.                          *)
LEMMA ListFailsKeeps == IInv /\ ListFails => IInv'
<1> SUFFICES ASSUME IInv, ListFails PROVE IInv'
  OBVIOUS
<1>1. /\ pc' = "off" /\ pc \in {"off", "done"}
      /\ UNCHANGED <<uri, listing, discovered, completed, queue, running, chain, reported,
                     saved, audits, crashes, unsaved>>
  BY DEF ListFails, sweepVars
<1>2. Typed' /\ Resting' /\ Apart' /\ Covered' /\ SlotBound' /\ Synced'
  BY <1>1 DEF IInv, Typed, Resting, Apart, Covered, SlotBound, Synced
<1>3. Costed'
  BY <1>1, CostKept DEF IInv
<1> QED
  BY <1>2, <1>3 DEF IInv

(* What is read is what is in S3, or nothing and the history knows.        *)
LEMMA LoadCheckpointKeeps == IInv /\ LoadCheckpoint => IInv'
<1> SUFFICES ASSUME IInv, LoadCheckpoint PROVE IInv'
  OBVIOUS
<1> USE Nothing
<1>1. Typed /\ Resting /\ Apart /\ Covered /\ SlotBound /\ Costed
  BY DEF IInv
<1>2. /\ pc = "loading" /\ pc' = "resolving"
      /\ (completed' = saved /\ unsaved' = unsaved) \/ (completed' = <<>> /\ unsaved' = TRUE)
      /\ UNCHANGED <<uri, listing, discovered, queue, running, chain, reported,
                     saved, audits, crashes>>
  BY DEF LoadCheckpoint
<1>3. queue = <<>> /\ running = {} /\ chain = <<>>
  BY <1>1, <1>2 DEF Resting
<1>4. Typed' /\ Resting'
  BY <1>1, <1>2, <1>3 DEF Typed, Resting
<1>5. Apart'
  BY <1>1, <1>2, <1>3 DEF Apart
<1>6. Covered' /\ SlotBound' /\ Synced'
  BY <1>1, <1>2 DEF Covered, SlotBound, Synced
<1>7. Costed'
  BY <1>1, <1>2, CostKept
<1> QED
  BY <1>4, <1>5, <1>6, <1>7 DEF IInv

(* The first of the listing is reported or queued.                         *)
LEMMA ResolveKeeps == IInv /\ Resolve => IInv'
<1> SUFFICES ASSUME IInv, Resolve PROVE IInv'
  OBVIOUS
<1> DEFINE b == Head(listing)
<1>1. Typed /\ Resting /\ Apart /\ Covered /\ SlotBound /\ Synced /\ Costed
  BY DEF IInv
<1>2. /\ pc = "resolving" /\ listing # <<>> /\ listing' = Tail(listing)
      /\ UNCHANGED <<pc, uri, discovered, completed, running, chain,
                     saved, audits, crashes, unsaved>>
  BY DEF Resolve
<1>3. \/ \E x \in Results : x.bucket = b /\ reported' = Append(reported, x) /\ queue' = queue
      \/ ~InCheckpoint(b) /\ queue' = Append(queue, b) /\ reported' = reported
  <2>1. listing \in Seq(Bucket) /\ completed \in Seq(Results)
    BY <1>1 DEF Typed
  <2>2. b \in Bucket
    BY <1>2, <2>1, ShiftSound
  <2>3. ASSUME InCheckpoint(b) PROVE Entry(b) \in Results /\ Entry(b).bucket = b
    BY <2>1, <2>3, EntrySound
  <2>4. /\ Result(b, "SKIPPED_EXCLUDED") \in Results /\ Result(b, "SKIPPED_REGION") \in Results
        /\ Result(b, "SKIPPED_EXCLUDED").bucket = b /\ Result(b, "SKIPPED_REGION").bucket = b
    BY <2>2 DEF Result, Results, Verdicts
  <2>5. \/ InCheckpoint(b) /\ Report(Entry(b))
        \/ Report(Result(b, "SKIPPED_EXCLUDED")) \/ Report(Result(b, "SKIPPED_REGION"))
        \/ ~InCheckpoint(b) /\ queue' = Append(queue, b) /\ UNCHANGED reported
    BY DEF Resolve
  <2> HIDE DEF b
  <2> QED
    BY <2>3, <2>4, <2>5 DEF Report
<1>4. /\ listing \in Seq(Bucket) /\ queue \in Seq(Bucket) /\ reported \in Seq(Results)
      /\ Distinct(listing) /\ Distinct(queue) /\ running = {} /\ chain = <<>>
      /\ Elements(listing) \cap Elements(queue) = {}
      /\ Elements(queue) \cap (Buckets(chain) \cup Buckets(completed)) = {}
  BY <1>1, <1>2 DEF Typed, Apart, Resting
<1>5. /\ listing' \in Seq(Bucket) /\ Distinct(listing') /\ b \in Bucket /\ b \in Elements(listing)
      /\ \A u : u \in Elements(listing') <=> u \in Elements(listing) /\ u # b
      /\ Len(listing') = Len(listing) - 1 /\ Len(listing) \in Nat \ {0}
      /\ Elements(listing) = {b} \cup Elements(listing')
  BY <1>2, <1>4, TailSound, ShiftSound
<1>6. b \notin Elements(queue)
  BY <1>4, <1>5
<1>7. /\ queue' \in Seq(Bucket) /\ reported' \in Seq(Results) /\ Distinct(queue')
      /\ Elements(queue') \cap Elements(listing') = {}
      /\ Elements(queue') \cap Buckets(completed) = {}
      /\ Len(reported') + Len(queue') = Len(reported) + Len(queue) + 1
      /\ Len(reported') \in Nat /\ Len(queue') \in Nat
      /\ Len(reported) \in Nat /\ Len(queue) \in Nat
      /\ Buckets(reported') \cup Elements(queue') = Buckets(reported) \cup Elements(queue) \cup {b}
  <2> HIDE DEF b
  <2>1. Len(reported) \in Nat /\ Len(queue) \in Nat
    BY <1>4, LenProperties
  <2>2. CASE \E x \in Results : x.bucket = b /\ reported' = Append(reported, x) /\ queue' = queue
    <3>1. PICK x \in Results : x.bucket = b /\ reported' = Append(reported, x) /\ queue' = queue
      BY <2>2
    <3>2. /\ reported' \in Seq(Results) /\ Len(reported') = Len(reported) + 1
          /\ Buckets(reported') = Buckets(reported) \cup {b}
      BY <1>4, <3>1, BucketsPushed
    <3>3. /\ Distinct(queue') /\ Elements(queue') \cap Elements(listing') = {}
          /\ Elements(queue') \cap Buckets(completed) = {}
      BY <1>4, <1>5, <3>1
    <3>4. Buckets(reported') \cup Elements(queue') = Buckets(reported) \cup Elements(queue) \cup {b}
      BY <3>1, <3>2
    <3>5. /\ Len(reported') + Len(queue') = Len(reported) + Len(queue) + 1
          /\ Len(reported') \in Nat /\ Len(queue') \in Nat
      BY <2>1, <3>1, <3>2
    <3> QED
      BY <1>4, <2>1, <3>1, <3>2, <3>3, <3>4, <3>5
  <2>3. CASE ~InCheckpoint(b) /\ queue' = Append(queue, b) /\ reported' = reported
    <3>1. /\ queue' \in Seq(Bucket) /\ Len(queue') = Len(queue) + 1
          /\ Elements(queue') = Elements(queue) \cup {b} /\ Distinct(queue')
      BY <1>4, <1>5, <1>6, <2>3, AppendSound
    <3>2. /\ Elements(queue') \cap Elements(listing') = {}
          /\ Elements(queue') \cap Buckets(completed) = {}
      BY <1>4, <1>5, <2>3, <3>1 DEF InCheckpoint
    <3>3. Buckets(reported') \cup Elements(queue') = Buckets(reported) \cup Elements(queue) \cup {b}
      BY <2>3, <3>1
    <3>4. /\ Len(reported') + Len(queue') = Len(reported) + Len(queue) + 1
          /\ Len(reported') \in Nat /\ Len(queue') \in Nat
      BY <2>1, <2>3, <3>1
    <3> QED
      BY <1>4, <2>1, <2>3, <3>1, <3>2, <3>3, <3>4
  <2> QED
    BY <1>3, <2>2, <2>3
<1> HIDE DEF b
<1>8. Typed' /\ Resting'
  BY <1>1, <1>2, <1>5, <1>7 DEF Typed, Resting
<1>9. Apart'
  BY <1>2, <1>4, <1>5, <1>7, Nothing DEF Apart
<1>10. Covered'
  <2>1. /\ Len(reported) + Len(chain) + Cardinality(running) + Len(queue) + Len(listing) = Len(discovered)
        /\ Buckets(reported) \cup Buckets(chain) \cup running \cup Elements(queue) \cup Elements(listing)
             = Elements(discovered)
    BY <1>1, <1>2 DEF Covered
  <2> DEFINE r == Len(reported)
             q == Len(queue)
             l == Len(listing)
             s == Len(reported')
             p == Len(queue')
             k == Len(listing')
  <2>2. r + 0 + 0 + q + l = Len(discovered)
    BY <1>4, <2>1, Nothing
  <2>3. /\ s + p = r + q + 1 /\ k = l - 1 /\ l \in Nat /\ r \in Nat /\ q \in Nat
        /\ s \in Nat /\ p \in Nat
    BY <1>5, <1>7
  <2>4. s + 0 + 0 + p + k = Len(discovered)
    <3> HIDE DEF r, q, l, s, p, k
    <3> QED
      BY <2>2, <2>3
  <2>5. Len(reported') + Len(chain') + Cardinality(running') + Len(queue') + Len(listing') = Len(discovered')
    BY <1>2, <1>4, <2>4, Nothing
  <2>6. Buckets(reported') \cup Buckets(chain') \cup running' \cup Elements(queue') \cup Elements(listing')
             = Elements(discovered')
    <3> HIDE DEF r, q, l, s, p, k
    <3>1. Buckets(reported) \cup Elements(queue) \cup Elements(listing) = Elements(discovered)
      BY <1>4, <2>1, Nothing
    <3>2. Buckets(reported') \cup Elements(queue') \cup Elements(listing') = Elements(discovered)
      BY <1>5, <1>7, <3>1
    <3> QED
      BY <1>2, <1>4, <3>2, Nothing
  <2> QED
    BY <2>5, <2>6 DEF Covered
<1>11. SlotBound' /\ Synced'
  BY <1>1, <1>2 DEF SlotBound, Synced
<1>12. Costed'
  BY <1>1, <1>2, CostKept
<1> QED
  BY <1>8, <1>9, <1>10, <1>11, <1>12 DEF IInv

(* The first of the queue get the slots.                                   *)
LEMMA DispatchKeeps == IInv /\ Dispatch => IInv'
<1> SUFFICES ASSUME IInv, Dispatch PROVE IInv'
  OBVIOUS
<1>1. Typed /\ Resting /\ Apart /\ Covered /\ SlotBound /\ Synced /\ Costed
  BY DEF IInv
<1>2. /\ pc = "resolving" /\ listing = <<>> /\ pc' = "auditing"
      /\ running' = {} \cup ToSet(SubSeq(queue, 1, Served(Concurrency)))
      /\ queue' = SubSeq(queue, Served(Concurrency) + 1, Len(queue))
      /\ UNCHANGED <<uri, listing, discovered, completed, chain, reported,
                     saved, audits, crashes, unsaved>>
  BY DEF Dispatch
<1>3. running = {} /\ chain = <<>> /\ queue \in Seq(Bucket) /\ Distinct(queue)
  BY <1>1, <1>2 DEF Resting, Typed, Apart
<1>4. /\ queue' \in Seq(Bucket) /\ Distinct(queue') /\ running' \in SUBSET Bucket
      /\ running' \cup Elements(queue') = Elements(queue)
      /\ Elements(queue') \cap running' = {}
      /\ Cardinality(running') + Len(queue') = 0 + Len(queue)
      /\ Cardinality(running') <= 0 + Concurrency
      /\ Cardinality(running') \in Nat /\ Len(queue) \in Nat /\ Len(queue') \in Nat
  <2>1. Concurrency \in Nat /\ {} \in SUBSET Bucket /\ Elements(queue) \cap {} = {}
    BY FleetAssumption
  <2>2. /\ queue' \in Seq(Bucket) /\ Distinct(queue') /\ running' \in SUBSET Bucket
        /\ running' \cup Elements(queue') = {} \cup Elements(queue)
        /\ Elements(queue') \cap running' = {}
        /\ Cardinality(running') + Len(queue') = Cardinality({}) + Len(queue)
        /\ Cardinality(running') <= Cardinality({}) + Concurrency
        /\ Cardinality(running') \in Nat /\ Len(queue) \in Nat /\ Len(queue') \in Nat
    BY <1>2, <1>3, <2>1, Serves
  <2> QED
    BY <2>2, Nothing
<1>5. Typed' /\ Resting'
  BY <1>1, <1>2, <1>3, <1>4 DEF Typed, Resting
<1>6. Apart'
  BY <1>1, <1>2, <1>3, <1>4, Nothing DEF Apart
<1>7. Covered' /\ SlotBound'
  <2>1. /\ Len(reported) + Len(chain) + Cardinality(running) + Len(queue) + Len(listing) = Len(discovered)
        /\ Buckets(reported) \cup Buckets(chain) \cup running \cup Elements(queue) \cup Elements(listing)
             = Elements(discovered)
    BY <1>1, <1>2 DEF Covered
  <2> DEFINE r == Len(reported)
             q == Len(queue)
             p == Len(queue')
             k == Cardinality(running')
  <2>2. r + 0 + 0 + q + 0 = Len(discovered)
    BY <1>2, <1>3, <2>1, Nothing
  <2>3. k + p = 0 + q /\ k <= 0 + Concurrency /\ k \in Nat /\ p \in Nat /\ q \in Nat /\ r \in Nat
    BY <1>1, <1>4, LenProperties DEF Typed
  <2>4. r + 0 + k + p + 0 = Len(discovered) /\ k + 0 <= Concurrency
    <3> HIDE DEF r, q, p, k
    <3> QED
      BY <2>2, <2>3, FleetAssumption
  <2>5. /\ Len(reported') + Len(chain') + Cardinality(running') + Len(queue') + Len(listing') = Len(discovered')
        /\ Cardinality(running') + Len(chain') <= Concurrency
    BY <1>2, <1>3, <2>4, Nothing
  <2>6. Buckets(reported') \cup Buckets(chain') \cup running' \cup Elements(queue') \cup Elements(listing')
             = Elements(discovered')
    <3> HIDE DEF r, q, p, k
    <3> QED
      BY <1>2, <1>3, <1>4, <2>1
  <2> QED
    BY <2>5, <2>6 DEF Covered, SlotBound
<1>8. Synced'
  BY <1>1, <1>2 DEF Synced
<1>9. Costed'
  BY <1>1, <1>2, CostKept
<1> QED
  BY <1>5, <1>6, <1>7, <1>8, <1>9 DEF IInv

(* A bucket that leaves its slot.                                          *)
LEMMA SlotLeft ==
  ASSUME NEW S \in SUBSET Bucket, NEW b \in S
  PROVE  /\ S \ {b} \in SUBSET Bucket /\ Cardinality(S) \in Nat
         /\ Cardinality(S \ {b}) = Cardinality(S) - 1 /\ Cardinality(S \ {b}) \in Nat
<1>1. IsFiniteSet(S) /\ Cardinality(S) \in Nat
  BY BucketsFinite
<1>2. Cardinality(S \ {b}) = Cardinality(S) - 1
  BY <1>1, FS_RemoveElement
<1>3. S \ {b} \in SUBSET Bucket
  OBVIOUS
<1>4. Cardinality(S \ {b}) \in Nat
  BY <1>3, BucketsFinite
<1> QED
  BY <1>1, <1>2, <1>3, <1>4

(* The result of an audit waits for its save, or is reported at once.      *)
LEMMA AuditKeeps ==
  ASSUME IInv, NEW b \in Bucket, NEW verdict \in Outcomes, Audit(b, verdict)
  PROVE  IInv'
<1> DEFINE x == Result(b, verdict)
<1>1. Typed /\ Resting /\ Apart /\ Covered /\ SlotBound /\ Synced /\ Costed
  BY DEF IInv
<1>2. /\ b \in running /\ audits' = [audits EXCEPT ![b] = @ + 1]
      /\ UNCHANGED <<pc, uri, listing, discovered, completed, saved, crashes, unsaved>>
  BY DEF Audit
<1>3. x \in Results /\ x.bucket = b
  BY DEF Results, Verdicts, Result
<1>4. /\ pc = "auditing" /\ queue \in Seq(Bucket) /\ Distinct(queue) /\ b \notin Elements(queue)
      /\ chain \in Seq(Results) /\ reported \in Seq(Results) /\ listing = <<>>
      /\ running \in SUBSET Bucket /\ Elements(queue) \cap running = {}
      /\ (Elements(queue) \cup running) \cap (Buckets(chain) \cup Buckets(completed)) = {}
  BY <1>1, <1>2 DEF Typed, Resting, Apart
<1>5. /\ running \ {b} \in SUBSET Bucket /\ Cardinality(running) \in Nat
      /\ Cardinality(running \ {b}) = Cardinality(running) - 1
      /\ Cardinality(running \ {b}) \in Nat
  BY <1>2, <1>4, SlotLeft
<1>6. /\ Len(reported) + Len(chain) + Cardinality(running) + Len(queue) + Len(listing) = Len(discovered)
      /\ Buckets(reported) \cup Buckets(chain) \cup running \cup Elements(queue) \cup Elements(listing)
           = Elements(discovered)
      /\ Cardinality(running) + Len(chain) <= Concurrency
  BY <1>1, <1>4 DEF Covered, SlotBound
<1>7. /\ Len(reported) \in Nat /\ Len(chain) \in Nat /\ Len(queue) \in Nat /\ Len(listing) \in Nat
      /\ Len(discovered) \in Nat
  BY <1>1, LenProperties DEF Typed
<1>8. audits' \in [Bucket -> Nat] /\ audits'[b] = audits[b] + 1 /\ audits[b] \in Nat
      /\ \A c \in Bucket : c # b => audits'[c] = audits[c]
  BY <1>1, <1>2 DEF Typed
<1> DEFINE r == Len(reported)
           c == Len(chain)
           k == Cardinality(running)
           q == Len(queue)
           l == Len(listing)
           d == Len(discovered)
<1>9. /\ r + c + k + q + l = d /\ k + c <= Concurrency /\ k \in Nat /\ r \in Nat /\ c \in Nat
      /\ q \in Nat /\ l \in Nat /\ d \in Nat
  BY <1>5, <1>6, <1>7
<1> HIDE DEF x
<1>10. CASE uri
  <2>1. running' = running \ {b} /\ chain' = Append(chain, x) /\ queue' = queue /\ reported' = reported
    BY <1>10 DEF Audit, x
  <2>2. /\ chain' \in Seq(Results) /\ Len(chain') = Len(chain) + 1
        /\ Buckets(chain') = Buckets(chain) \cup {b}
    BY <1>3, <1>4, <2>1, BucketsPushed
  <2>3. Cardinality(running') = Cardinality(running) - 1
    BY <1>5, <2>1
  <2>4. Typed' /\ Resting'
    BY <1>1, <1>2, <1>4, <1>5, <1>8, <1>10, <2>1, <2>2 DEF Typed, Resting
  <2>5. Apart'
    BY <1>1, <1>2, <1>4, <2>1, <2>2 DEF Apart
  <2>6. Covered' /\ SlotBound'
    <3>1. /\ r + (c + 1) + (k - 1) + q + l = d /\ (k - 1) + (c + 1) <= Concurrency
      <4> HIDE DEF r, c, k, q, l, d
      <4> QED
        BY <1>9, FleetAssumption
    <3>2. /\ Len(reported') + Len(chain') + Cardinality(running') + Len(queue') + Len(listing') = Len(discovered')
          /\ Cardinality(running') + Len(chain') <= Concurrency
      BY <1>2, <2>1, <2>2, <2>3, <3>1
    <3>3. Buckets(reported') \cup Buckets(chain') \cup running' \cup Elements(queue') \cup Elements(listing')
             = Elements(discovered')
      <4> HIDE DEF r, c, k, q, l, d
      <4> QED
        BY <1>2, <1>6, <2>1, <2>2
    <3> QED
      BY <3>2, <3>3 DEF Covered, SlotBound
  <2>7. Synced'
    BY <1>1, <1>2 DEF Synced
  <2>8. Costed'
    <3> HIDE DEF r, c, k, q, l, d
    <3> SUFFICES ASSUME ~unsaved PROVE Costed'
      BY <1>2 DEF Costed
    <3>1. Kept = Buckets(completed) \cup Buckets(chain) /\ b \notin Kept
      BY <1>1, <1>2, <1>4, <1>10 DEF Synced, Kept
    <3>2. Kept' = Kept \cup {b}
      BY <1>2, <2>2 DEF Kept
    <3>3. Extra' = Extra
      <4>1. \A a \in Bucket : (IF a \in Kept' THEN audits'[a] - 1 ELSE audits'[a])
                                = (IF a \in Kept THEN audits[a] - 1 ELSE audits[a])
        BY <1>8, <3>1, <3>2
      <4> QED
        BY <4>1 DEF Extra
    <3>4. /\ \A a \in Kept : audits[a] > 0
          /\ SumFunctionOnSet(Extra, Bucket) <= Concurrency * crashes
      BY <1>1, <1>10 DEF Costed
    <3>5. Kept' \subseteq Bucket
      BY <2>4, BucketsCounted DEF Typed, Kept
    <3>6. \A a \in Kept' : audits'[a] > 0
      BY <1>8, <3>2, <3>4, <3>5
    <3> QED
      BY <1>2, <3>3, <3>4, <3>6 DEF Costed
  <2> QED
    BY <2>4, <2>5, <2>6, <2>7, <2>8 DEF IInv
<1>11. CASE ~uri
  <2>1. /\ running' = (running \ {b}) \cup ToSet(SubSeq(queue, 1, Served(1)))
        /\ queue' = SubSeq(queue, Served(1) + 1, Len(queue))
        /\ reported' = Append(reported, x) /\ chain' = chain
    BY <1>11 DEF Audit, HandOver, x
  <2>2. /\ queue' \in Seq(Bucket) /\ Distinct(queue') /\ running' \in SUBSET Bucket
        /\ running' \cup Elements(queue') = (running \ {b}) \cup Elements(queue)
        /\ Elements(queue') \cap running' = {}
        /\ Cardinality(running') + Len(queue') = Cardinality(running \ {b}) + Len(queue)
        /\ Cardinality(running') <= Cardinality(running \ {b}) + 1
        /\ Cardinality(running') \in Nat /\ Len(queue') \in Nat
    <3>1. 1 \in Nat /\ Elements(queue) \cap (running \ {b}) = {}
      BY <1>4
    <3> QED
      BY <1>4, <1>5, <2>1, <3>1, Serves
  <2>3. /\ reported' \in Seq(Results) /\ Len(reported') = Len(reported) + 1
        /\ Buckets(reported') = Buckets(reported) \cup {b}
    BY <1>3, <1>4, <2>1, BucketsPushed
  <2>4. Typed' /\ Resting'
    BY <1>1, <1>2, <1>4, <1>8, <1>11, <2>1, <2>2, <2>3 DEF Typed, Resting
  <2>5. Apart'
    <3>1. (Elements(queue') \cup running') \cap (Buckets(chain') \cup Buckets(completed')) = {}
      BY <1>2, <1>4, <2>1, <2>2
    <3> QED
      BY <1>2, <1>4, <2>2, <3>1, Nothing DEF Apart
  <2>6. Covered' /\ SlotBound'
    <3> DEFINE m == Cardinality(running')
               p == Len(queue')
    <3>1. m + p = (k - 1) + q /\ m <= (k - 1) + 1 /\ m \in Nat /\ p \in Nat
      BY <1>5, <2>2
    <3>2. (r + 1) + c + m + p + l = d /\ m + c <= Concurrency
      <4> HIDE DEF r, c, k, q, l, d, m, p
      <4> QED
        BY <1>9, <3>1, FleetAssumption
    <3>3. /\ Len(reported') + Len(chain') + Cardinality(running') + Len(queue') + Len(listing') = Len(discovered')
          /\ Cardinality(running') + Len(chain') <= Concurrency
      BY <1>2, <2>1, <2>3, <3>2
    <3>4. Buckets(reported') \cup Buckets(chain') \cup running' \cup Elements(queue') \cup Elements(listing')
             = Elements(discovered')
      <4> HIDE DEF r, c, k, q, l, d, m, p
      <4> QED
        BY <1>2, <1>6, <2>1, <2>2, <2>3
    <3> QED
      BY <3>3, <3>4 DEF Covered, SlotBound
  <2>7. Synced' /\ Costed'
    BY <1>2, <1>11 DEF Synced, Costed
  <2> QED
    BY <2>4, <2>5, <2>6, <2>7 DEF IInv
<1> QED
  BY <1>10, <1>11

(* The first of the chain is known, in S3 too unless the history says so,  *)
(* and its slot goes on.                                                   *)
LEMMA SaveKeeps == IInv /\ Save => IInv'
<1> SUFFICES ASSUME IInv, Save PROVE IInv'
  OBVIOUS
<1> DEFINE x == Head(chain)
<1>1. Typed /\ Resting /\ Apart /\ Covered /\ SlotBound /\ Synced /\ Costed
  BY DEF IInv
<1>2. /\ pc = "auditing" /\ chain # <<>> /\ chain' = Tail(chain)
      /\ completed' = Append(completed, x) /\ reported' = Append(reported, x)
      /\ (saved' = completed' /\ unsaved' = unsaved) \/ (unsaved' = TRUE /\ saved' = saved)
      /\ running' = running \cup ToSet(SubSeq(queue, 1, Served(1)))
      /\ queue' = SubSeq(queue, Served(1) + 1, Len(queue))
      /\ UNCHANGED <<pc, uri, listing, discovered, audits, crashes>>
  BY DEF Save, HandOver
<1>3. /\ uri /\ queue \in Seq(Bucket) /\ Distinct(queue) /\ listing = <<>>
      /\ chain \in Seq(Results) /\ reported \in Seq(Results) /\ completed \in Seq(Results)
      /\ running \in SUBSET Bucket /\ Elements(queue) \cap running = {}
      /\ (Elements(queue) \cup running) \cap (Buckets(chain) \cup Buckets(completed)) = {}
  BY <1>1, <1>2 DEF Typed, Resting, Apart
<1>4. /\ chain' \in Seq(Results) /\ Len(chain') = Len(chain) - 1 /\ Len(chain) \in Nat \ {0}
      /\ x \in Results /\ Buckets(chain) = {x.bucket} \cup Buckets(chain')
  BY <1>2, <1>3, BucketsShifted
<1>5. /\ completed' \in Seq(Results) /\ Buckets(completed') = Buckets(completed) \cup {x.bucket}
      /\ reported' \in Seq(Results) /\ Buckets(reported') = Buckets(reported) \cup {x.bucket}
      /\ Len(reported') = Len(reported) + 1
  <2> HIDE DEF x
  <2> QED
    BY <1>2, <1>3, <1>4, BucketsPushed
<1> HIDE DEF x
<1>6. /\ queue' \in Seq(Bucket) /\ Distinct(queue') /\ running' \in SUBSET Bucket
      /\ running' \cup Elements(queue') = running \cup Elements(queue)
      /\ Elements(queue') \cap running' = {}
      /\ Cardinality(running') + Len(queue') = Cardinality(running) + Len(queue)
      /\ Cardinality(running') <= Cardinality(running) + 1
      /\ Cardinality(running') \in Nat /\ Cardinality(running) \in Nat
      /\ Len(queue) \in Nat /\ Len(queue') \in Nat
  <2>1. 1 \in Nat
    OBVIOUS
  <2> QED
    BY <1>2, <1>3, <2>1, Serves
<1>7. Typed' /\ Resting'
  BY <1>1, <1>2, <1>3, <1>4, <1>5, <1>6 DEF Typed, Resting
<1>8. Apart'
  <2>1. (Elements(queue') \cup running') \cap (Buckets(chain') \cup Buckets(completed')) = {}
    BY <1>3, <1>4, <1>5, <1>6
  <2> QED
    BY <1>2, <1>3, <1>6, <2>1, Nothing DEF Apart
<1>9. Covered' /\ SlotBound'
  <2>1. /\ Len(reported) + Len(chain) + Cardinality(running) + Len(queue) + Len(listing) = Len(discovered)
        /\ Buckets(reported) \cup Buckets(chain) \cup running \cup Elements(queue) \cup Elements(listing)
             = Elements(discovered)
        /\ Cardinality(running) + Len(chain) <= Concurrency
    BY <1>1, <1>2 DEF Covered, SlotBound
  <2> DEFINE r == Len(reported)
             c == Len(chain)
             k == Cardinality(running)
             q == Len(queue)
             l == Len(listing)
             d == Len(discovered)
             m == Cardinality(running')
             p == Len(queue')
  <2>2. /\ r + c + k + q + l = d /\ k + c <= Concurrency /\ k \in Nat /\ r \in Nat
        /\ c \in Nat \ {0} /\ q \in Nat /\ l \in Nat /\ d \in Nat
        /\ m + p = k + q /\ m <= k + 1 /\ m \in Nat /\ p \in Nat
    BY <1>1, <1>4, <1>6, <2>1, LenProperties DEF Typed
  <2>3. (r + 1) + (c - 1) + m + p + l = d /\ m + (c - 1) <= Concurrency
    <3> HIDE DEF r, c, k, q, l, d, m, p
    <3> QED
      BY <2>2, FleetAssumption
  <2>4. /\ Len(reported') + Len(chain') + Cardinality(running') + Len(queue') + Len(listing') = Len(discovered')
        /\ Cardinality(running') + Len(chain') <= Concurrency
    BY <1>2, <1>4, <1>5, <2>3
  <2>5. Buckets(reported') \cup Buckets(chain') \cup running' \cup Elements(queue') \cup Elements(listing')
           = Elements(discovered')
    <3> HIDE DEF r, c, k, q, l, d, m, p
    <3> QED
      BY <1>2, <1>4, <1>5, <1>6, <2>1
  <2> QED
    BY <2>4, <2>5 DEF Covered, SlotBound
<1>10. Synced'
  <2>1. ~unsaved' => saved' = completed'
    BY <1>2
  <2> QED
    BY <2>1 DEF Synced
<1>11. Costed'
  <2> SUFFICES ASSUME ~unsaved' PROVE Costed'
    BY DEF Costed
  <2>1. saved' = completed' /\ ~unsaved
    BY <1>2
  <2>2. saved = completed
    BY <1>1, <1>2, <1>3, <2>1 DEF Synced
  <2>3. Kept' = Kept
    BY <1>4, <1>5, <2>1, <2>2 DEF Kept
  <2>4. Extra' = Extra
    BY <1>2, <2>3 DEF Extra
  <2> QED
    BY <1>1, <1>2, <2>1, <2>3, <2>4 DEF Costed
<1> QED
  BY <1>7, <1>8, <1>9, <1>10, <1>11 DEF IInv

(* The sweep that has nothing left is done, and all is in its report.      *)
LEMMA FinishKeeps == IInv /\ Finish => IInv'
<1> SUFFICES ASSUME IInv, Finish PROVE IInv'
  OBVIOUS
<1>1. /\ pc = "auditing" /\ pc' = "done" /\ queue = <<>> /\ running = {} /\ chain = <<>>
      /\ UNCHANGED <<uri, listing, discovered, completed, queue, running, chain, reported,
                     saved, audits, crashes, unsaved>>
  BY DEF Finish, sweepVars
<1>2. Typed' /\ Resting' /\ Apart' /\ Covered' /\ SlotBound' /\ Synced'
  BY <1>1 DEF IInv, Typed, Resting, Apart, Covered, SlotBound, Synced
<1>3. Costed'
  BY <1>1, CostKept DEF IInv
<1> QED
  BY <1>2, <1>3 DEF IInv

(* A crash takes the chain: one audit more for each of its slots.          *)
LEMMA CrashKeeps == IInv /\ Crash => IInv'
<1> SUFFICES ASSUME IInv, Crash PROVE IInv'
  OBVIOUS
<1> USE Nothing
<1>1. Typed /\ SlotBound /\ Costed
  BY DEF IInv
<1>2. /\ pc' = "off" /\ crashes' = crashes + 1 /\ listing' = <<>> /\ discovered' = <<>>
      /\ completed' = <<>> /\ queue' = <<>> /\ running' = {} /\ chain' = <<>>
      /\ reported' = <<>> /\ UNCHANGED <<uri, saved, audits, unsaved>>
  BY DEF Crash, Forget
<1>3. Typed'
  BY <1>1, <1>2 DEF Typed
<1>4. Resting' /\ Apart' /\ Covered' /\ Synced'
  BY <1>2 DEF Resting, Apart, Covered, Synced
<1>5. SlotBound'
  BY <1>2, FleetAssumption DEF SlotBound
<1>6. Costed'
  <2> SUFFICES ASSUME uri, ~unsaved PROVE Costed'
    BY <1>2 DEF Costed
  <2> DEFINE A == Buckets(chain) \ Buckets(saved)
             d == [b \in Bucket |-> IF b \in A THEN 1 ELSE 0]
  <2>1. /\ \A b \in Kept : audits[b] > 0
        /\ SumFunctionOnSet(Extra, Bucket) <= Concurrency * crashes
    BY <1>1 DEF Costed
  <2>2. /\ chain \in Seq(Results) /\ saved \in Seq(Results) /\ audits \in [Bucket -> Nat]
        /\ crashes \in Nat /\ running \in SUBSET Bucket
    BY <1>1 DEF Typed
  <2>3. /\ Buckets(chain) \in SUBSET Bucket /\ IsFiniteSet(Buckets(chain))
        /\ Cardinality(Buckets(chain)) \in Nat /\ Cardinality(Buckets(chain)) <= Len(chain)
    BY <2>2, BucketsCounted
  <2>4. Kept' = Buckets(saved) /\ Kept' \subseteq Kept
    BY <1>2 DEF Kept
  <2>5. Extra \in [Bucket -> Int] /\ Extra' \in [Bucket -> Int] /\ d \in [Bucket -> Int]
    BY <1>2, <2>2 DEF Extra
  <2>6. \A b \in Bucket : Extra'[b] = Extra[b] + d[b]
    <3>1. ASSUME NEW b \in Bucket PROVE Extra'[b] = Extra[b] + d[b]
      <4>1. /\ Extra'[b] = IF b \in Buckets(saved) THEN audits[b] - 1 ELSE audits[b]
            /\ Extra[b] = IF b \in Kept THEN audits[b] - 1 ELSE audits[b]
        BY <1>2, <2>4 DEF Extra
      <4>2. audits[b] \in Nat
        BY <2>2
      <4> QED
        BY <4>1, <4>2 DEF Kept
    <3> QED
      BY <3>1
  <2>7. SumFunctionOnSet(Extra', Bucket) = SumFunctionOnSet(Extra, Bucket) + SumFunctionOnSet(d, Bucket)
    <3> DEFINE f == Extra
               g == Extra'
    <3>1. f \in [Bucket -> Int] /\ g \in [Bucket -> Int] /\ d \in [Bucket -> Int]
      BY <2>5
    <3>2. \A b \in Bucket : g[b] = f[b] + d[b]
      BY <2>6
    <3>3. IsFiniteSet(Bucket)
      BY FleetAssumption
    <3> HIDE DEF f, g, d
    <3>4. SumFunctionOnSet(g, Bucket) = SumFunctionOnSet(f, Bucket) + SumFunctionOnSet(d, Bucket)
      <4>1. Adds(g, f, d, Bucket)
        BY <3>1, <3>2 DEF Adds
      <4> QED
        BY <3>3, <4>1, SumAdded
    <3> QED
      BY <3>4 DEF f, g
  <2>8. SumFunctionOnSet(d, Bucket) = SumFunctionOnSet(d, A)
    <3>1. /\ \A b \in Bucket : d[b] \in Int
          /\ A \subseteq Bucket /\ \A b \in Bucket \ A : d[b] = 0
      BY <2>3
    <3> HIDE DEF d, A
    <3> QED
      BY <3>1, FleetAssumption, SumOfNonzero
  <2>9. IsFiniteSet(A) /\ Cardinality(A) \in Nat /\ Cardinality(A) <= Cardinality(Buckets(chain))
    <3>1. A \subseteq Buckets(chain)
      OBVIOUS
    <3> HIDE DEF A
    <3> QED
      BY <2>3, <3>1, FS_Subset, FS_CardinalityType
  <2>10. SumFunctionOnSet(d, A) \in 0..1 * Cardinality(A)
    <3>1. 1 \in Nat /\ \A b \in A : d[b] \in 0..1
      BY <2>3
    <3> HIDE DEF d, A
    <3> QED
      BY <2>9, <3>1, SumBounds
  <2>11. SumFunctionOnSet(Extra, Bucket) \in Int
    BY <2>5, FleetAssumption, SumIsInt
  <2> DEFINE e == SumFunctionOnSet(Extra, Bucket)
             s == SumFunctionOnSet(d, A)
             a == Cardinality(A)
             n == Cardinality(Buckets(chain))
             l == Len(chain)
             k == Cardinality(running)
  <2>12. /\ e <= Concurrency * crashes /\ e \in Int /\ s \in 0..1 * a /\ a \in Nat /\ n \in Nat
         /\ a <= n /\ n <= l /\ l \in Nat /\ k \in Nat /\ k + l <= Concurrency
    BY <1>1, <2>1, <2>2, <2>3, <2>9, <2>10, <2>11, BucketsFinite, LenProperties DEF SlotBound
  <2>13. e + s <= Concurrency * (crashes + 1)
    <3> HIDE DEF e, s, a, n, l, k
    <3>1. s <= Concurrency /\ s \in Nat
      BY <2>12, FleetAssumption
    <3>2. Concurrency * (crashes + 1) = Concurrency * crashes + Concurrency
      BY <2>2, FleetAssumption
    <3>3. Concurrency * crashes \in Nat /\ Concurrency \in Nat
      BY <2>2, FleetAssumption
    <3> DEFINE cc == Concurrency * crashes
    <3> HIDE DEF cc
    <3>4. e + s <= cc + Concurrency
      BY <2>12, <3>1, <3>3 DEF cc
    <3> QED
      BY <3>2, <3>4 DEF cc
  <2>14. SumFunctionOnSet(Extra', Bucket) <= Concurrency * crashes'
    BY <1>2, <2>7, <2>8, <2>13
  <2>15. \A b \in Kept' : audits'[b] > 0
    BY <1>2, <2>1, <2>4
  <2> HIDE DEF d, A
  <2> QED
    BY <2>14, <2>15 DEF Costed
<1> QED
  BY <1>3, <1>4, <1>5, <1>6 DEF IInv

(* Every step keeps it, whatever is listed, read, audited or lost.         *)
LEMMA NextIInv == IInv /\ [Next]_vars => IInv'
<1> SUFFICES ASSUME IInv, [Next]_vars PROVE IInv'
  OBVIOUS
<1>1. CASE BeginSweep
  BY <1>1, BeginSweepKeeps
<1>2. CASE ListFails
  BY <1>2, ListFailsKeeps
<1>3. CASE Work
  <2>1. CASE LoadCheckpoint
    BY <2>1, LoadCheckpointKeeps
  <2>2. CASE Resolve
    BY <2>2, ResolveKeeps
  <2>3. CASE Dispatch
    BY <2>3, DispatchKeeps
  <2>4. CASE Save
    BY <2>4, SaveKeeps
  <2>5. CASE Finish
    BY <2>5, FinishKeeps
  <2>6. ASSUME NEW b \in Bucket, NEW verdict \in Outcomes, Audit(b, verdict) PROVE IInv'
    BY <2>6, AuditKeeps
  <2> QED
    BY <1>3, <2>1, <2>2, <2>3, <2>4, <2>5, <2>6 DEF Work
<1>4. CASE Crash
  BY <1>4, CrashKeeps
<1>5. CASE UNCHANGED vars
  <2>1. UNCHANGED <<pc, uri, listing, discovered, completed, queue, running, chain, reported,
                    saved, audits, crashes, unsaved>>
    BY <1>5 DEF vars, sweepVars
  <2>2. Typed' /\ Resting' /\ Apart' /\ Covered' /\ SlotBound' /\ Synced'
    BY <2>1 DEF IInv, Typed, Resting, Apart, Covered, SlotBound, Synced
  <2>3. Costed'
    BY <2>1, CostKept DEF IInv
  <2> QED
    BY <2>2, <2>3 DEF IInv
<1> QED
  BY <1>1, <1>2, <1>3, <1>4, <1>5 DEF Next

(* The inductive invariant, for every list, every concurrency and every    *)
(* number of sweeps and crashes.                                           *)
THEOREM FleetInvariant == Spec => []IInv
<1>1. Init => IInv
  BY InitIInv
<1>2. IInv /\ [Next]_vars => IInv'
  BY NextIInv
<1> QED
  BY <1>1, <1>2, PTL DEF Spec

-----------------------------------------------------------------------------
(* The report of a finished sweep is complete and names no bucket twice:   *)
(* the counts of Covered are all in reported when the rest is empty.       *)
THEOREM FleetReportCoversListing == Spec => []ReportCoversListing
<1>1. ASSUME IInv PROVE ReportCoversListing
  <2> SUFFICES ASSUME pc = "done"
               PROVE  Len(reported) = Len(discovered) /\ Buckets(reported) = ToSet(discovered)
    BY DEF ReportCoversListing
  <2> USE Nothing
  <2>1. running = {} /\ chain = <<>> /\ listing = <<>> /\ queue = <<>>
    BY <1>1 DEF IInv, Resting
  <2>2. reported \in Seq(Results) /\ discovered \in Seq(Bucket)
    BY <1>1 DEF IInv, Typed
  <2>3. /\ Len(reported) + Len(chain) + Cardinality(running) + Len(queue) + Len(listing) = Len(discovered)
        /\ Buckets(reported) \cup Buckets(chain) \cup running \cup Elements(queue) \cup Elements(listing)
             = Elements(discovered)
    BY <1>1 DEF IInv, Covered
  <2>4. Elements(discovered) = ToSet(discovered)
    BY <2>2, ElementsCounted DEF ToSet
  <2>5. Buckets(reported) = Elements(discovered)
    BY <2>1, <2>3
  <2>6. Len(reported) = Len(discovered)
    <3> DEFINE r == Len(reported)
    <3>1. r \in Nat /\ r + 0 + 0 + 0 + 0 = Len(discovered)
      BY <2>1, <2>2, <2>3, LenProperties
    <3> HIDE DEF r
    <3>2. r = Len(discovered)
      BY <3>1
    <3> QED
      BY <3>2 DEF r
  <2> QED
    BY <2>4, <2>5, <2>6
<1> QED
  BY <1>1, FleetInvariant, PTL

(* What a bucket was audited too often is no more than its share of Extra. *)
THEOREM FleetCrashCostsSlots == Spec => []CrashCostsSlots
<1>1. ASSUME IInv PROVE CrashCostsSlots
  <2> DEFINE f == [b \in Bucket |-> Repeated(b)]
             d == [b \in Bucket |-> Extra[b] - Repeated(b)]
  <2> SUFFICES ASSUME uri, ~unsaved
               PROVE  SumFunctionOnSet(f, Bucket) <= Concurrency * crashes
    BY DEF CrashCostsSlots
  <2>1. audits \in [Bucket -> Nat] /\ crashes \in Nat
    BY <1>1 DEF IInv, Typed
  <2>2. /\ \A b \in Kept : audits[b] > 0
        /\ SumFunctionOnSet(Extra, Bucket) <= Concurrency * crashes
    BY <1>1 DEF IInv, Costed
  <2>3. \A b \in Bucket : Extra[b] \in Int /\ Repeated(b) \in Int /\ Extra[b] - Repeated(b) \in 0..1
    <3>1. ASSUME NEW b \in Bucket
          PROVE  Extra[b] \in Int /\ Repeated(b) \in Int /\ Extra[b] - Repeated(b) \in 0..1
      <4>1. Extra[b] = IF b \in Kept THEN audits[b] - 1 ELSE audits[b]
        BY DEF Extra
      <4>2. audits[b] \in Nat /\ (b \in Kept => audits[b] > 0)
        BY <2>1, <2>2
      <4> QED
        BY <4>1, <4>2 DEF Repeated
    <3> QED
      BY <3>1
  <2>4. Adds(Extra, f, d, Bucket)
    BY <2>3 DEF Adds, Extra
  <2>5. \A b \in Bucket : d[b] \in 0..1 /\ f[b] \in Int
    BY <2>3
  <2> HIDE DEF f, d
  <2>6. SumFunctionOnSet(Extra, Bucket) = SumFunctionOnSet(f, Bucket) + SumFunctionOnSet(d, Bucket)
    BY <2>4, FleetAssumption, SumAdded
  <2>7. SumFunctionOnSet(d, Bucket) \in 0..1 * Cardinality(Bucket)
    BY <2>5, FleetAssumption, SumBounds
  <2>8. SumFunctionOnSet(f, Bucket) \in Int /\ Cardinality(Bucket) \in Nat
    BY <2>5, FleetAssumption, SumIsInt, FS_CardinalityType
  <2>9. Concurrency * crashes \in Nat
    BY <2>1, FleetAssumption
  <2> DEFINE e == SumFunctionOnSet(Extra, Bucket)
             s == SumFunctionOnSet(f, Bucket)
             t == SumFunctionOnSet(d, Bucket)
             n == Cardinality(Bucket)
             c == Concurrency * crashes
  <2>10. e = s + t /\ t \in 0..1 * n /\ s \in Int /\ n \in Nat /\ c \in Nat /\ e <= c
    BY <2>2, <2>6, <2>7, <2>8, <2>9
  <2> HIDE DEF e, s, t, n, c
  <2>11. s <= c
    BY <2>10
  <2> QED
    BY <2>11 DEF s, c
<1> QED
  BY <1>1, FleetInvariant, PTL

(* Only a save changes what is in S3, and what it writes is what is there  *)
(* with one result more: the two lists are the same, by Synced.            *)
THEOREM FleetCheckpointGrows == Spec => CheckpointGrows
<1>1. ASSUME IInv, [Next]_vars PROVE [unsaved' \/ IsPrefix(saved, saved')]_saved
  <2> SUFFICES ASSUME saved' # saved, ~unsaved' PROVE IsPrefix(saved, saved')
    OBVIOUS
  <2>1. Save
    BY <1>1 DEF Next, Work, BeginSweep, ListFails, LoadCheckpoint, Resolve, Dispatch, Audit,
                Finish, Crash, vars, sweepVars
  <2>2. pc = "auditing" /\ chain # <<>> /\ uri /\ ~unsaved
    BY <1>1, <2>1 DEF Save, IInv, Resting
  <2>3. /\ saved \in Seq(Results) /\ chain \in Seq(Results) /\ saved = completed
    BY <1>1, <2>2 DEF IInv, Typed, Synced
  <2>4. saved' = Append(saved, Head(chain)) /\ Head(chain) \in Results
    BY <2>1, <2>2, <2>3, BucketsShifted DEF Save
  <2> DEFINE x == Head(chain)
             n == Len(saved)
             t == Append(saved, x)
  <2> HIDE DEF x
  <2>5. /\ n \in Nat /\ Len(t) = n + 1 /\ t \in Seq(Results)
        /\ \A i \in 1..n : t[i] = saved[i]
    BY <2>3, <2>4, AppendProperties, LenProperties DEF x
  <2>6. SubSeq(saved, 1, n) = SubSeq(t, 1, n)
    BY <2>3, <2>5
  <2> QED
    BY <2>4, <2>5, <2>6 DEF IsPrefix, x
<1> QED
  BY <1>1, FleetInvariant, PTL DEF Spec, CheckpointGrows

-----------------------------------------------------------------------------
(* The sweep of accounts: where a call can be.                             *)
Stages  == {"queued", "asking", "joined", "sweeping", "done", "rejected"}
Pending == {"asking", "joined"}

(* Types.                                                                  *)
AccountTyped ==
  /\ phase \in {"listing", "sweeping", "done", "failed"}
  /\ pages \in Seq(Seq(Account)) /\ targets \in Seq(Account) /\ Len(targets) <= MaxEntries
  /\ stage \in [Call -> Stages] /\ waits \in [Call -> Call \cup {None}]
  /\ tries \in [Call -> 0..MaxRetries]
  /\ held \in [Call -> Session \cup {None}] /\ status \in [Call -> Statuses \cup {None}]
  /\ cache \in [Keys -> Session \cup {None}] /\ inFlight \in [Keys -> Call \cup {None}]
  /\ now \in Nat /\ role \in Roles

(* Whoever waits, waits for a request that is out and for its own role.    *)
Answerable ==
  \A c \in Target : stage[c] \in Pending =>
    /\ stage[c] = "asking" => waits[c] = c
    /\ waits[c] \in Target /\ stage[waits[c]] = "asking" /\ targets[waits[c]] = targets[c]

(* What the pool has registered is out; a request that is out is           *)
(* registered, unless the pool was cleared or destroyed under it.          *)
Registered ==
  /\ \A k \in Keys : inFlight[k] # None =>
       /\ inFlight[k] \in Target /\ stage[inFlight[k]] = "asking"
       /\ Key(targets[inFlight[k]]) = k
  /\ ~cleared /\ ~destroyed =>
       \A c \in Target : stage[c] = "asking" => inFlight[Key(targets[c])] = c

(* A session in the cache is for the role it is kept under, whichever      *)
(* sweep it was obtained for.                                              *)
OwnSessions ==
  \A a \in Account, name \in Roles :
    cache[<<a, name>>] # None =>
      cache[<<a, name>>].account = IF name = None THEN a ELSE name

(* What the results say, and what a sweep that has ended may not leave.    *)
Told ==
  /\ phase = "listing" =>
       pages # << >> /\ \A c \in Call : stage[c] = "queued" /\ status[c] = None
  /\ phase = "failed" => threw \/ pages # << >>
  /\ phase = "done" => \A c \in Target : stage[c] = "done"
  /\ \A c \in Target :
       /\ stage[c] = "done" => status[c] # None
       /\ status[c] = "SKIPPED_ASSUME_ROLE_FAILED" => targets[c] \in denied

AccountIInv == AccountTyped /\ Answerable /\ Registered /\ OwnSessions /\ Told

(* A call of the list is one of the calls there can be, for an account.    *)
LEMMA TargetFacts ==
  AccountTyped => /\ Target \subseteq Call
                  /\ \A c \in Target :
                       /\ targets[c] \in Account /\ RoleAccount(targets[c]) \in Account
                       /\ Key(targets[c]) \in Keys
  BY SweepAssumption DEF AccountTyped, Target, Call, RoleAccount, Key, Keys

(* Types.                                                                  *)
LEMMA NextAccountTyped == AccountTyped /\ Told /\ [AccountNext]_accountVars => AccountTyped'
<1> SUFFICES ASSUME AccountTyped, Told, [AccountNext]_accountVars PROVE AccountTyped'
  OBVIOUS
<1> USE SweepAssumption, TargetFacts DEF AccountTyped
<1>1. CASE ReadPage
  <2>1. Head(pages) \in Seq(Account) /\ Tail(pages) \in Seq(Seq(Account))
    BY <1>1 DEF ReadPage
  <2>2. Filtered(Head(pages), Account \ (Inactive \cup ExcludedAccounts)) \in Seq(Account)
    BY <2>1, FilterSound
  <2>3. targets' \in Seq(Account) /\ Len(targets') <= MaxEntries
    BY <1>1, <2>2 DEF ReadPage
  <2> QED
    BY <1>1, <2>1, <2>3 DEF ReadPage, callVars, pool
<1>2. CASE ListingFails
  BY <1>2 DEF ListingFails, callVars, pool
<1>3. CASE ReportAccounts
  BY <1>3 DEF ReportAccounts, callVars, pool
<1>4. CASE Clear
  BY <1>4 DEF Clear, callVars
<1>5. CASE NextRound
  BY <1>5 DEF NextRound, NoCalls, pool, Stages
<1>6. CASE Tick
  BY <1>6 DEF Tick, callVars, pool
<1>7. ASSUME NEW c \in Target, StartThrows(c) PROVE AccountTyped'
  BY <1>7 DEF StartThrows, Reject, pool, Stages
<1>8. ASSUME NEW c \in Target, AssumeDestroyed(c) PROVE AccountTyped'
  BY <1>8 DEF AssumeDestroyed, pool, Stages, Statuses
<1>9. ASSUME NEW c \in Target, AssumeCached(c) PROVE AccountTyped'
  BY <1>9 DEF AssumeCached, Usable, pool, Stages
<1>10. ASSUME NEW c \in Target, AssumeJoin(c) PROVE AccountTyped'
  BY <1>10 DEF AssumeJoin, pool, Stages
<1>11. ASSUME NEW c \in Target, AssumeAsk(c) PROVE AccountTyped'
  BY <1>11 DEF AssumeAsk, Stages
<1>12. ASSUME NEW c \in Target, ThrottledAsk(c) PROVE AccountTyped'
  BY <1>12 DEF ThrottledAsk, pool
<1>13. ASSUME NEW c \in Target, NEW lifetime \in Lifetimes, Assumed(c, lifetime)
       PROVE  AccountTyped'
  <2> DEFINE session == [account |-> RoleAccount(targets[c]), until |-> now + lifetime]
  <2>1. session \in Session
    BY DEF Session
  <2>2. /\ cache' = [cache EXCEPT ![Key(targets[c])] = session]
        /\ held' = [d \in Call |-> IF d \in Waiting(c) THEN session ELSE held[d]]
    BY <1>13 DEF Assumed
  <2> HIDE DEF session
  <2> QED
    BY <1>13, <2>1, <2>2 DEF Assumed, Resumed, Stages
<1>14. ASSUME NEW c \in Target, NotAssumed(c) PROVE AccountTyped'
  BY <1>14 DEF NotAssumed, Resumed, Stages, Statuses
<1>15. ASSUME NEW c \in Target, NEW outcome \in Endings, Swept(c, outcome) PROVE AccountTyped'
  <2>1. /\ UNCHANGED <<pages, targets, role, waits, tries, now>>
        /\ status' = [status EXCEPT ![c] = outcome] /\ held' = [held EXCEPT ![c] = None]
    BY <1>15 DEF Swept
  <2>2. outcome \in Statuses /\ "done" \in Stages /\ "rejected" \in Stages
    BY DEF Statuses, Stages
  <2>3. CASE stage' = [stage EXCEPT ![c] = "done"] /\ UNCHANGED <<phase, pool, threw>>
    BY <2>1, <2>2, <2>3 DEF pool
  <2>4. CASE Reject(c)
    BY <2>1, <2>2, <2>4 DEF Reject, pool
  <2> QED
    BY <1>15, <2>3, <2>4 DEF Swept
<1>16. CASE UNCHANGED accountVars
  BY <1>16 DEF accountVars, callVars, pool
<1> QED
  BY <1>1, <1>2, <1>3, <1>4, <1>5, <1>6, <1>7, <1>8, <1>9, <1>10, <1>11, <1>12, <1>13, <1>14, <1>15, <1>16
  DEF AccountNext, Progress

(* Requests, those who wait for them and what the pool has registered.     *)
LEMMA NextAnswerable ==
  AccountIInv /\ [AccountNext]_accountVars => Answerable' /\ Registered'
<1> SUFFICES ASSUME AccountIInv, [AccountNext]_accountVars PROVE Answerable' /\ Registered'
  OBVIOUS
<1>0. /\ AccountTyped /\ Answerable /\ Registered /\ Told
      /\ Target \subseteq Call
      /\ \A c \in Target : targets[c] \in Account /\ Key(targets[c]) \in Keys
      /\ None \notin Call
  BY TargetFacts, SweepAssumption DEF AccountIInv, Call
<1>a. Target' \subseteq Call
  <2>1. AccountTyped'
    BY <1>0, NextAccountTyped
  <2> QED
    BY <2>1, SweepAssumption DEF AccountTyped, Target, Call
<1> USE <1>0 DEF Answerable, Registered, AccountTyped, Pending, Key
<1>1. CASE ReadPage
  <2>1. \A c \in Call : stage[c] = "queued" /\ stage'[c] = "queued"
    BY <1>1 DEF ReadPage, Told, callVars
  <2>2. \A k \in Keys : inFlight[k] = None
    BY <2>1
  <2> QED
    BY <1>1, <1>a, <2>1, <2>2 DEF ReadPage, pool
<1>2. CASE ListingFails
  <2>1. \A c \in Call : stage[c] = "queued"
    BY <1>2 DEF ListingFails, Told
  <2>2. \A k \in Keys : inFlight[k] = None
    BY <2>1
  <2>3. Target' = {}
    BY <1>2 DEF ListingFails, Target
  <2> QED
    BY <1>2, <2>2, <2>3 DEF ListingFails, pool
<1>3. CASE ReportAccounts
  BY <1>3 DEF ReportAccounts, callVars, pool, Target
<1>4. CASE Clear
  BY <1>4 DEF Clear, callVars, Target
<1>5. CASE NextRound
  <2>1. \A c \in Target : stage[c] # "asking"
    BY <1>5 DEF NextRound, Settled
  <2>2. \A k \in Keys : inFlight[k] = None
    BY <2>1
  <2>3. Target' = {}
    BY <1>5 DEF NextRound, Target
  <2> QED
    BY <1>5, <2>2, <2>3 DEF NextRound, pool
<1>6. CASE Tick
  BY <1>6 DEF Tick, callVars, pool, Target
<1>7. ASSUME NEW c \in Target, StartThrows(c) PROVE Answerable' /\ Registered'
  BY <1>7 DEF StartThrows, Startable, Reject, pool, Target
<1>8. ASSUME NEW c \in Target, AssumeDestroyed(c) PROVE Answerable' /\ Registered'
  BY <1>8 DEF AssumeDestroyed, Startable, pool, Target
<1>9. ASSUME NEW c \in Target, AssumeCached(c) PROVE Answerable' /\ Registered'
  BY <1>9 DEF AssumeCached, Startable, pool, Target
<1>10. ASSUME NEW c \in Target, AssumeJoin(c) PROVE Answerable' /\ Registered'
  BY <1>10 DEF AssumeJoin, Startable, pool, Target
<1>11. ASSUME NEW c \in Target, AssumeAsk(c) PROVE Answerable' /\ Registered'
  BY <1>11 DEF AssumeAsk, Startable, Target
<1>12. ASSUME NEW c \in Target, ThrottledAsk(c) PROVE Answerable' /\ Registered'
  BY <1>12 DEF ThrottledAsk, pool, Target
<1>13. ASSUME NEW c \in Target, NEW lifetime \in Lifetimes, Assumed(c, lifetime)
       PROVE  Answerable' /\ Registered'
  BY <1>13 DEF Assumed, Resumed, Waiting, Target
<1>14. ASSUME NEW c \in Target, NotAssumed(c) PROVE Answerable' /\ Registered'
  BY <1>14 DEF NotAssumed, Resumed, Waiting, Target
<1>15. ASSUME NEW c \in Target, NEW outcome \in Endings, Swept(c, outcome)
       PROVE Answerable' /\ Registered'
  BY <1>15 DEF Swept, Reject, pool, Target
<1>16. CASE UNCHANGED accountVars
  BY <1>16 DEF accountVars, callVars, pool, Target
<1> QED
  BY <1>1, <1>2, <1>3, <1>4, <1>5, <1>6, <1>7, <1>8, <1>9, <1>10, <1>11, <1>12, <1>13, <1>14, <1>15, <1>16
  DEF AccountNext, Progress

(* The cache keeps of each role a session of its own.                      *)
LEMMA NextOwnSessions ==
  AccountTyped /\ OwnSessions /\ [AccountNext]_accountVars => OwnSessions'
<1> SUFFICES ASSUME AccountTyped, OwnSessions, [AccountNext]_accountVars PROVE OwnSessions'
  OBVIOUS
<1> USE DEF OwnSessions, AccountTyped
<1>1. CASE cache' = cache
  BY <1>1
<1>2. CASE cache' = [k \in Keys |-> None]
  BY <1>2 DEF Keys
<1>3. ASSUME NEW c \in Target, NEW lifetime \in Lifetimes, Assumed(c, lifetime)
      PROVE  OwnSessions'
  <2> DEFINE session == [account |-> RoleAccount(targets[c]), until |-> now + lifetime]
  <2>1. /\ session.account = RoleAccount(targets[c])
        /\ cache' = [cache EXCEPT ![Key(targets[c])] = session]
    BY <1>3 DEF Assumed
  <2> HIDE DEF session
  <2> QED
    BY <2>1 DEF Key, Keys, RoleAccount
<1> QED
  BY <1>1, <1>2, <1>3 DEF AccountNext, Progress, ReadPage, ListingFails, ReportAccounts, Clear,
     NextRound, Tick, StartThrows, AssumeDestroyed, AssumeCached, AssumeJoin, AssumeAsk,
     ThrottledAsk, NotAssumed, Swept, Reject, accountVars, pool

(* What the results say.                                                   *)
LEMMA NextTold == AccountIInv /\ [AccountNext]_accountVars => Told'
<1> SUFFICES ASSUME AccountIInv, [AccountNext]_accountVars PROVE Told'
  OBVIOUS
<1>0. /\ AccountTyped /\ Answerable /\ Told
      /\ Target \subseteq Call /\ None \notin Statuses
  BY TargetFacts, SweepAssumption DEF AccountIInv
<1>a. Target' \subseteq Call
  <2>1. AccountTyped'
    BY <1>0, NextAccountTyped
  <2> QED
    BY <2>1, SweepAssumption DEF AccountTyped, Target, Call
<1> USE <1>0 DEF Told, AccountTyped
<1>1. CASE ReadPage
  <2>1. \A c \in Call : stage'[c] = "queued" /\ status'[c] = None
    BY <1>1 DEF ReadPage, callVars
  <2>2. phase' \in {"listing", "sweeping"} /\ (phase' = "listing" => pages' # << >>)
    BY <1>1 DEF ReadPage
  <2>3. None # "SKIPPED_ASSUME_ROLE_FAILED"
    BY DEF Statuses
  <2> QED
    BY <1>a, <2>1, <2>2, <2>3
<1>2. CASE ListingFails
  BY <1>2 DEF ListingFails, callVars, Target
<1>3. CASE ReportAccounts
  BY <1>3 DEF ReportAccounts, callVars, Target
<1>4. CASE Clear
  BY <1>4 DEF Clear, callVars, Target
<1>5. CASE NextRound
  BY <1>5, SweepAssumption DEF NextRound, NoCalls, Target
<1>6. CASE Tick
  BY <1>6 DEF Tick, callVars, Target
<1>7. ASSUME NEW c \in Target, StartThrows(c) PROVE Told'
  BY <1>7 DEF StartThrows, Startable, Reject, Target
<1>8. ASSUME NEW c \in Target, AssumeDestroyed(c) PROVE Told'
  BY <1>8, SweepAssumption DEF AssumeDestroyed, Startable, Target, Statuses
<1>9. ASSUME NEW c \in Target, AssumeCached(c) PROVE Told'
  BY <1>9 DEF AssumeCached, Startable, Target
<1>10. ASSUME NEW c \in Target, AssumeJoin(c) PROVE Told'
  BY <1>10 DEF AssumeJoin, Startable, Target
<1>11. ASSUME NEW c \in Target, AssumeAsk(c) PROVE Told'
  BY <1>11 DEF AssumeAsk, Startable, Target
<1>12. ASSUME NEW c \in Target, ThrottledAsk(c) PROVE Told'
  BY <1>12 DEF ThrottledAsk, Target
<1>13. ASSUME NEW c \in Target, NEW lifetime \in Lifetimes, Assumed(c, lifetime)
       PROVE  Told'
  BY <1>13 DEF Assumed, Waiting, Target
<1>14. ASSUME NEW c \in Target, NotAssumed(c) PROVE Told'
  <2>1. \A d \in Waiting(c) : targets[d] = targets[c]
    BY DEF Waiting, Answerable, Pending
  <2> QED
    BY <1>14, <2>1 DEF NotAssumed, Waiting, Target, Statuses
<1>15. ASSUME NEW c \in Target, NEW outcome \in Endings, Swept(c, outcome) PROVE Told'
  BY <1>15 DEF Swept, Reject, Target, Endings, Statuses
<1>16. CASE UNCHANGED accountVars
  BY <1>16 DEF accountVars, callVars, Target
<1> QED
  BY <1>1, <1>2, <1>3, <1>4, <1>5, <1>6, <1>7, <1>8, <1>9, <1>10, <1>11, <1>12, <1>13, <1>14, <1>15, <1>16
  DEF AccountNext, Progress

(* The initial state.                                                      *)
LEMMA InitAccountIInv == AccountInit => AccountIInv
<1> SUFFICES ASSUME AccountInit PROVE AccountIInv
  OBVIOUS
<1> USE SweepAssumption DEF AccountInit
<1>1. AccountTyped
  BY DEF AccountTyped, Stages
<1>2. Target = {}
  BY DEF Target
<1> QED
  BY <1>1, <1>2 DEF AccountIInv, Answerable, Registered, OwnSessions, Told, Keys

(* The inductive invariant of the sweep and its pool.                      *)
THEOREM AccountInvariant == AccountSpec => []AccountIInv
<1>1. AccountIInv /\ [AccountNext]_accountVars => AccountIInv'
  BY NextAccountTyped, NextAnswerable, NextOwnSessions, NextTold DEF AccountIInv
<1> QED
  BY <1>1, InitAccountIInv, PTL DEF AccountSpec

(* Calls for one role share a request, unless clear() or destroy() came    *)
(* between.                                                                *)
THEOREM AccountOneRequestPerRole == AccountSpec => []OneRequestPerRole
<1>1. AccountIInv => OneRequestPerRole
  <2> SUFFICES ASSUME AccountIInv, ~cleared /\ ~destroyed, NEW c \in Target, NEW d \in Target,
                      stage[c] = "asking", stage[d] = "asking", targets[c] = targets[d]
               PROVE  c = d
    BY DEF OneRequestPerRole
  <2> QED
    BY DEF AccountIInv, Registered
<1> QED
  BY <1>1, AccountInvariant, PTL

(* A sweep fails as a whole only through the listing or a callback, and    *)
(* skips an account for its role only if that role could not be assumed.   *)
THEOREM AccountFaultsIsolated == AccountSpec => []FaultsIsolated
<1>1. AccountIInv => FaultsIsolated
  BY DEF AccountIInv, Told, FaultsIsolated
<1> QED
  BY <1>1, AccountInvariant, PTL

(* A sweep begins with a session of the role it has named for its account, *)
(* and with one that outlasts the refresh window if it is out of the cache.*)
THEOREM AccountRoleCredentials == AccountSpec => RoleCredentials
<1> DEFINE Granted(c) == /\ held'[c].account = RoleAccount(targets[c])
                         /\ stage[c] = "queued" => held'[c].until - now > RefreshWindow
           Begins(c) == stage'[c] = "sweeping" /\ stage[c] # "sweeping"
<1>1. ASSUME AccountIInv, [AccountNext]_accountVars
      PROVE  [\A c \in Target : Begins(c) => Granted(c)]_accountVars
  <2> SUFFICES ASSUME AccountNext, NEW c \in Target, Begins(c) PROVE Granted(c)
    BY <1>1
  <2>0. /\ AccountTyped /\ Answerable /\ OwnSessions
        /\ Target \subseteq Call /\ targets[c] \in Account
    BY <1>1, TargetFacts DEF AccountIInv
  <2> USE <2>0 DEF AccountTyped
  <2>1. ASSUME NEW d \in Target, AssumeCached(d) PROVE Granted(c)
    <3>1. d = c
      BY <2>1 DEF AssumeCached
    <3>2. /\ held'[c] = cache[Key(targets[c])] /\ cache[Key(targets[c])] # None
          /\ cache[Key(targets[c])].until - now > RefreshWindow
      BY <2>1, <3>1 DEF AssumeCached, Usable
    <3>3. cache[<<targets[c], role>>].account = IF role = None THEN targets[c] ELSE role
      BY <3>2 DEF OwnSessions, Key
    <3> QED
      BY <3>2, <3>3 DEF Key, RoleAccount
  <2>2. ASSUME NEW d \in Target, NEW lifetime \in Lifetimes, Assumed(d, lifetime)
        PROVE  Granted(c)
    <3> DEFINE session == [account |-> RoleAccount(targets[d]), until |-> now + lifetime]
    <3>1. c \in Waiting(d)
      BY <2>2 DEF Assumed
    <3>2. targets[d] = targets[c] /\ stage[c] # "queued"
      BY <3>1 DEF Waiting, Answerable, Pending
    <3>3. held'[c] = session
      BY <2>2, <3>1 DEF Assumed
    <3> QED
      BY <3>2, <3>3
  <2> QED
    BY <2>1, <2>2 DEF AccountNext, Progress, ReadPage, ListingFails, ReportAccounts, Clear,
       NextRound, NoCalls, Tick, StartThrows, AssumeDestroyed, AssumeJoin, AssumeAsk,
       ThrottledAsk, NotAssumed, Swept, Reject, callVars
<1> QED
  BY <1>1, AccountInvariant, PTL DEF AccountSpec, RoleCredentials

=============================================================================
