--------------------------- MODULE CommonTheorems ---------------------------
(***************************************************************************)
(* What the proofs of several components rest on.                          *)
(*                                                                         *)
(* Sums.  The community module defines SumFunctionOnSet by recursion along *)
(* CHOOSE; these lemmas give what a proof needs: any element can be split  *)
(* off, the sum is bounded by its terms, it follows an update of one term, *)
(* and it does not depend on the names of the indices.  Each is proved     *)
(* over a minimal counterexample, a subset of the indices                  *)
(* (FS_StrictSubsetOrderingWellFounded), because the library's induction   *)
(* rule takes an operator the provers cannot fill in.                      *)
(*                                                                         *)
(* Lists.  A list that takes the items of a plan in the order of a rank    *)
(* has them all, each once: the sample of the canary gate and the others.  *)
(*                                                                         *)
(* The ceiling.  What it says of a part of the plan it let through.        *)
(*                                                                         *)
(* The breaker.  What every method preserves, whoever calls it and in      *)
(* whatever order: RingSound and BreakerSound.  A method builds its result *)
(* in steps, and between counting a throttle and tripping the record is    *)
(* only BreakerTyped; Trip makes it sound again.                           *)
(***************************************************************************)
EXTENDS Breaker, MutationBudget, Selection, SequenceTheorems, FiniteSetTheorems, TLAPS

-----------------------------------------------------------------------------
Picked(s) == CHOOSE x \in s : TRUE

\* the table of all partial sums, as MapThenFoldSet recurses over it
IsTable(f, T, h) ==
  h = [s \in SUBSET T |->
         IF s = {} THEN 0 ELSE f[Picked(s)] + h[s \ {Picked(s)}]]

(* A nonempty collection of finite sets has a minimal member.              *)
LEMMA MinimalSet ==
  ASSUME NEW S, NEW T, T \subseteq FiniteSubsetsOf(S), T # {}
  PROVE \E x \in T : \A y \in T : y \subseteq x => y = x
<1>1. IsWellFoundedOn(StrictSubsetOrdering(S), FiniteSubsetsOf(S))
  BY FS_StrictSubsetOrderingWellFounded
<1>2. \E x \in T : \A y \in T : ~ (<<y, x>> \in StrictSubsetOrdering(S))
  BY <1>1, WFMin, Zenon
<1> QED
  BY <1>2 DEF StrictSubsetOrdering, FiniteSubsetsOf

(* The sum reads the table it chooses.                                     *)
LEMMA SumTable ==
  ASSUME NEW f, NEW S
  PROVE SumFunctionOnSet(f, S) = (CHOOSE h : IsTable(f, S, h))[S]
BY DEF SumFunctionOnSet, FoldFunctionOnSet, MapThenFoldSet, IsTable, Picked

(* Two tables agree on every finite set that both have.                    *)
LEMMA TablesAgree ==
  ASSUME NEW f, NEW A, NEW B, NEW g, NEW h, IsTable(f, A, g), IsTable(f, B, h),
         NEW s, s \subseteq A, s \subseteq B, IsFiniteSet(s)
  PROVE g[s] = h[s]
<1> DEFINE Bad == {t \in SUBSET s : g[t] # h[t]}
<1>1. SUFFICES ASSUME Bad # {} PROVE FALSE
  OBVIOUS
<1>2. Bad \subseteq FiniteSubsetsOf(s)
  BY FS_Subset DEF FiniteSubsetsOf
<1>3. PICK t \in Bad : \A u \in Bad : u \subseteq t => u = t
  <2> HIDE DEF Bad
  <2> QED
    BY <1>1, <1>2, MinimalSet
<1>4. g[t] = IF t = {} THEN 0 ELSE f[Picked(t)] + g[t \ {Picked(t)}]
  <2>1. t \in SUBSET A
    OBVIOUS
  <2> QED
    BY <2>1 DEF IsTable
<1>5. h[t] = IF t = {} THEN 0 ELSE f[Picked(t)] + h[t \ {Picked(t)}]
  <2>1. t \in SUBSET B
    OBVIOUS
  <2> QED
    BY <2>1 DEF IsTable
<1>6. t # {} => g[t \ {Picked(t)}] = h[t \ {Picked(t)}]
  <2>1. ASSUME t # {} PROVE Picked(t) \in t
    BY <2>1 DEF Picked
  <2> QED
    BY <1>3, <2>1
<1> QED
  BY <1>4, <1>5, <1>6

(* Every finite set has a table.                                           *)
LEMMA TableExists ==
  ASSUME NEW f, NEW S, IsFiniteSet(S)
  PROVE \E h : IsTable(f, S, h)
<1> DEFINE Has(t) == \E h : IsTable(f, t, h)
           Bad == {t \in SUBSET S : ~Has(t)}
<1> SUFFICES ASSUME Bad # {} PROVE FALSE
  OBVIOUS
<1>1. Bad \subseteq FiniteSubsetsOf(S)
  BY FS_Subset DEF FiniteSubsetsOf
<1>2. PICK T \in Bad : \A u \in Bad : u \subseteq T => u = T
  <2> HIDE DEF Bad
  <2> QED
    BY <1>1, MinimalSet
<1> DEFINE table(t) == CHOOSE h : IsTable(f, t, h)
           h == [s \in SUBSET T |->
                   IF s = {} THEN 0
                   ELSE f[Picked(s)] + table(s \ {Picked(s)})[s \ {Picked(s)}]]
<1>3. \A t : t \subseteq T /\ t # T => IsTable(f, t, table(t))
  <2>1. ASSUME NEW t, t \subseteq T, t # T PROVE IsTable(f, t, table(t))
    <3>1. Has(t)
      BY <1>2, <2>1
    <3> QED
      BY <3>1
  <2> QED
    BY <2>1
<1>4. \A s \in SUBSET T : s # {} => Picked(s) \in s
  BY DEF Picked
<1>5. \A s \in SUBSET T : s # T => h[s] = table(s)[s]
  <2>1. SUFFICES ASSUME NEW s \in SUBSET T, s # T PROVE h[s] = table(s)[s]
    BY Zenon
  <2>2. IsTable(f, s, table(s))
    BY <1>3, <2>1
  <2>3. CASE s = {}
    <3>1. h[s] = 0
      BY <2>3
    <3>2. table(s)[s] = 0
      <4> HIDE DEF table
      <4> QED
        BY <2>2, <2>3 DEF IsTable
    <3> QED
      BY <3>1, <3>2
  <2>4. CASE s # {}
    <3> DEFINE r == s \ {Picked(s)}
    <3>1. r \subseteq T /\ r # T /\ r \subseteq s
      BY <1>4, <2>1, <2>4
    <3>2. IsTable(f, r, table(r))
      BY <1>3, <3>1
    <3>3. IsFiniteSet(r)
      BY <1>1, FS_Subset, <3>1 DEF FiniteSubsetsOf
    <3>4. table(r)[r] = table(s)[r]
      <4> HIDE DEF table, r
      <4> QED
        BY <2>2, <3>1, <3>2, <3>3, TablesAgree
    <3>5. table(s)[s] = f[Picked(s)] + table(s)[r]
      <4> HIDE DEF table
      <4> QED
        BY <2>2, <2>4 DEF IsTable
    <3>6. h[s] = f[Picked(s)] + table(r)[r]
      BY <2>4
    <3> QED
      BY <3>4, <3>5, <3>6
  <2> QED
    BY <2>3, <2>4
<1>6. IsTable(f, T, h)
  <2>1. \A s \in SUBSET T : s # {} =>
          table(s \ {Picked(s)})[s \ {Picked(s)}] = h[s \ {Picked(s)}]
    <3>1. ASSUME NEW s \in SUBSET T, s # {}
          PROVE  table(s \ {Picked(s)})[s \ {Picked(s)}] = h[s \ {Picked(s)}]
      <4>1. s \ {Picked(s)} \in SUBSET T /\ s \ {Picked(s)} # T
        BY <1>4, <3>1
      <4> HIDE DEF h, table
      <4> QED
        BY <1>5, <4>1
    <3> QED
      BY <3>1
  <2> DEFINE step == [s \in SUBSET T |->
                        IF s = {} THEN 0 ELSE f[Picked(s)] + h[s \ {Picked(s)}]]
  <2>2. \A s \in SUBSET T : h[s] = step[s]
    <3>1. SUFFICES ASSUME NEW s \in SUBSET T PROVE h[s] = step[s]
      BY Zenon
    <3>2. CASE s = {}
      BY <3>2
    <3>3. CASE s # {}
      <4>1. h[s] = f[Picked(s)] + table(s \ {Picked(s)})[s \ {Picked(s)}]
        BY <3>3
      <4>2. step[s] = f[Picked(s)] + h[s \ {Picked(s)}]
        <5> HIDE DEF h
        <5> QED
          BY <3>3
      <4> QED
        <5> HIDE DEF h, step, table
        <5> QED
          BY <2>1, <3>3, <4>1, <4>2
    <3> QED
      BY <3>2, <3>3
  <2>3. h = step
    <3>1. h = [s \in SUBSET T |-> h[s]]
      OBVIOUS
    <3>2. step = [s \in SUBSET T |-> step[s]]
      <4> HIDE DEF h
      <4> QED
        BY Zenon
    <3> HIDE DEF h, step
    <3> QED
      BY <2>2, <3>1, <3>2, Zenon
  <2> QED
    <3> HIDE DEF h
    <3> QED
      BY <2>3 DEF IsTable
<1> QED
  BY <1>6

(* The empty sum.                                                          *)
LEMMA SumEmpty == ASSUME NEW f PROVE SumFunctionOnSet(f, {}) = 0
<1>1. PICK h : IsTable(f, {}, h)
  BY TableExists, FS_EmptySet
<1>2. IsTable(f, {}, CHOOSE g : IsTable(f, {}, g))
  BY <1>1
<1> QED
  BY <1>2, SumTable DEF IsTable

(* The recursion along the chosen element.                                 *)
LEMMA SumPicked ==
  ASSUME NEW f, NEW S, IsFiniteSet(S), S # {}
  PROVE /\ Picked(S) \in S
        /\ SumFunctionOnSet(f, S) =
             f[Picked(S)] + SumFunctionOnSet(f, S \ {Picked(S)})
<1> DEFINE table(t) == CHOOSE h : IsTable(f, t, h)
           r == S \ {Picked(S)}
<1>1. Picked(S) \in S
  BY DEF Picked
<1>2. IsFiniteSet(r)
  BY FS_Subset
<1>3. IsTable(f, S, table(S))
  BY TableExists
<1>4. IsTable(f, r, table(r))
  <2> HIDE DEF r
  <2> QED
    BY <1>2, TableExists
<1>5. SumFunctionOnSet(f, S) = table(S)[S] /\ SumFunctionOnSet(f, r) = table(r)[r]
  BY SumTable
<1>6. table(S)[S] = f[Picked(S)] + table(S)[r]
  <2> HIDE DEF table
  <2> QED
    BY <1>3 DEF IsTable
<1>7. table(S)[r] = table(r)[r]
  <2>1. r \subseteq S
    OBVIOUS
  <2> HIDE DEF table, r
  <2> QED
    BY <1>2, <1>3, <1>4, <2>1, TablesAgree
<1> QED
  BY <1>1, <1>5, <1>6, <1>7

(* A sum of integers is an integer.                                        *)
LEMMA SumIsInt ==
  ASSUME NEW f, NEW S, IsFiniteSet(S), \A x \in S : f[x] \in Int
  PROVE SumFunctionOnSet(f, S) \in Int
<1> DEFINE Bad == {t \in SUBSET S : SumFunctionOnSet(f, t) \notin Int}
<1> SUFFICES ASSUME Bad # {} PROVE FALSE
  OBVIOUS
<1>1. Bad \subseteq FiniteSubsetsOf(S)
  BY FS_Subset DEF FiniteSubsetsOf
<1>2. PICK t \in Bad : \A u \in Bad : u \subseteq t => u = t
  <2> HIDE DEF Bad
  <2> QED
    BY <1>1, MinimalSet
<1>3. t # {}
  BY SumEmpty
<1>4. IsFiniteSet(t)
  BY <1>1 DEF FiniteSubsetsOf
<1>5. Picked(t) \in t /\ SumFunctionOnSet(f, t) =
        f[Picked(t)] + SumFunctionOnSet(f, t \ {Picked(t)})
  BY <1>3, <1>4, SumPicked
<1>6. t \ {Picked(t)} \notin Bad
  <2> HIDE DEF Bad
  <2> QED
    BY <1>2, <1>5
<1> QED
  BY <1>5, <1>6

(* Any term can be split off, not only the chosen one.                     *)
LEMMA SumSplit ==
  ASSUME NEW f, NEW S, IsFiniteSet(S), \A x \in S : f[x] \in Int, NEW x \in S
  PROVE SumFunctionOnSet(f, S) = f[x] + SumFunctionOnSet(f, S \ {x})
<1> DEFINE Split(t, y) ==
             SumFunctionOnSet(f, t) = f[y] + SumFunctionOnSet(f, t \ {y})
           Bad == {t \in SUBSET S : \E y \in t : ~Split(t, y)}
<1> SUFFICES ASSUME Bad # {} PROVE FALSE
  OBVIOUS
<1>1. Bad \subseteq FiniteSubsetsOf(S)
  BY FS_Subset DEF FiniteSubsetsOf
<1>2. PICK t \in Bad : \A u \in Bad : u \subseteq t => u = t
  <2> HIDE DEF Bad
  <2> QED
    BY <1>1, MinimalSet
<1>3. PICK y \in t : ~Split(t, y)
  OBVIOUS
<1>4. IsFiniteSet(t) /\ t \subseteq S
  BY <1>1 DEF FiniteSubsetsOf
<1>5. Picked(t) \in t /\ Split(t, Picked(t))
  BY <1>3, <1>4, SumPicked
<1>6. y # Picked(t)
  BY <1>3, <1>5
<1> DEFINE z == Picked(t)
<1>7. Split(t \ {z}, y) /\ Split(t \ {y}, z)
  <2>1. t \ {z} \notin Bad /\ t \ {y} \notin Bad
    <3>1. z \in t /\ y \in t
      BY <1>5
    <3> HIDE DEF Bad, z
    <3> QED
      BY <1>2, <3>1
  <2>2. t \ {z} \in SUBSET S /\ y \in t \ {z}
    BY <1>4, <1>6
  <2>3. t \ {y} \in SUBSET S /\ z \in t \ {y}
    BY <1>4, <1>5, <1>6
  <2> HIDE DEF z, Split
  <2> QED
    BY <2>1, <2>2, <2>3
<1>8. (t \ {z}) \ {y} = (t \ {y}) \ {z}
  OBVIOUS
<1>9. /\ SumFunctionOnSet(f, t \ {y}) \in Int
      /\ SumFunctionOnSet(f, t \ {z}) \in Int
      /\ SumFunctionOnSet(f, (t \ {y}) \ {z}) \in Int
  <2>1. IsFiniteSet(t \ {y}) /\ IsFiniteSet(t \ {z}) /\ IsFiniteSet((t \ {y}) \ {z})
    BY <1>4, FS_Subset
  <2> QED
    BY <1>4, <2>1, SumIsInt
<1>10. f[y] \in Int /\ f[z] \in Int
  BY <1>4, <1>5
<1> QED
  <2>1. Split(t, z)
    BY <1>5
  <2>2. SumFunctionOnSet(f, t) = f[y] + SumFunctionOnSet(f, t \ {y})
    <3> DEFINE both == SumFunctionOnSet(f, (t \ {y}) \ {z})
               sumY == SumFunctionOnSet(f, t \ {y})
               sumZ == SumFunctionOnSet(f, t \ {z})
    <3>1. sumZ = f[y] + both
      BY <1>7, <1>8
    <3>2. sumY = f[z] + both
      BY <1>7
    <3>3. SumFunctionOnSet(f, t) = f[z] + sumZ
      BY <2>1
    <3>4. both \in Int /\ sumY \in Int /\ sumZ \in Int
      BY <1>9
    <3> HIDE DEF both, sumY, sumZ, z, Bad
    <3>5. SumFunctionOnSet(f, t) = f[y] + sumY
      BY <1>10, <3>1, <3>2, <3>3, <3>4
    <3> QED
      BY <3>5 DEF sumY
  <2> QED
    BY <1>3, <2>2

(* The sum of terms between 0 and k is between 0 and k for each.           *)
LEMMA SumBounds ==
  ASSUME NEW f, NEW S, IsFiniteSet(S), NEW k \in Nat, \A x \in S : f[x] \in 0..k
  PROVE SumFunctionOnSet(f, S) \in 0..k * Cardinality(S)
<1> DEFINE Bad == {t \in SUBSET S : SumFunctionOnSet(f, t) \notin 0..k * Cardinality(t)}
<1> SUFFICES ASSUME Bad # {} PROVE FALSE
  OBVIOUS
<1>1. Bad \subseteq FiniteSubsetsOf(S)
  BY FS_Subset DEF FiniteSubsetsOf
<1>2. PICK t \in Bad : \A u \in Bad : u \subseteq t => u = t
  <2>1. Bad # {}
    OBVIOUS
  <2> HIDE DEF Bad
  <2> QED
    BY <1>1, <2>1, MinimalSet
<1>3. IsFiniteSet(t) /\ t \subseteq S
  BY <1>1 DEF FiniteSubsetsOf
<1>4. t # {}
  <2>1. k * 0 = 0
    OBVIOUS
  <2> QED
    BY <2>1, SumEmpty, FS_EmptySet
<1> DEFINE y == Picked(t)
           r == t \ {y}
<1>5. y \in t /\ SumFunctionOnSet(f, t) = f[y] + SumFunctionOnSet(f, r)
  BY <1>3, <1>4, SumPicked
<1>6. SumFunctionOnSet(f, r) \in 0..k * Cardinality(r)
  <2>1. r \subseteq t /\ r # t
    BY <1>5
  <2>2. r \notin Bad
    <3> HIDE DEF Bad, r
    <3> QED
      BY <1>2, <2>1
  <2> QED
    BY <2>1, <2>2, <1>3
<1>7. Cardinality(r) = Cardinality(t) - 1 /\ Cardinality(t) \in Nat /\ Cardinality(r) \in Nat
  BY <1>3, <1>5, FS_RemoveElement, FS_CardinalityType, FS_Subset
<1>8. k * Cardinality(t) = k * Cardinality(r) + k /\ k * Cardinality(r) \in Nat
  <2> HIDE DEF r
  <2> QED
    BY <1>7
<1>9. f[y] \in 0..k
  BY <1>3, <1>5
<1>10. SumFunctionOnSet(f, t) \in 0..k * Cardinality(t)
  <2> HIDE DEF r, y
  <2> QED
    BY <1>5, <1>6, <1>8, <1>9
<1> QED
  BY <1>10

(* Sums of the same terms under other names: h renames the indices.        *)
LEMMA SumRenamed ==
  ASSUME NEW f, NEW g, NEW h, NEW A, NEW B, IsFiniteSet(A), h \in [A -> B],
         \A a, b \in A : h[a] = h[b] => a = b,
         \A b \in B : \E a \in A : h[a] = b,
         \A a \in A : f[a] \in Int /\ f[a] = g[h[a]]
  PROVE SumFunctionOnSet(f, A) = SumFunctionOnSet(g, B)
<1> DEFINE Image(t) == {h[a] : a \in t}
           Bad == {t \in SUBSET A : SumFunctionOnSet(f, t) # SumFunctionOnSet(g, Image(t))}
<1> SUFFICES Bad = {}
  <2>1. A \in SUBSET A /\ Image(A) = B
    OBVIOUS
  <2> HIDE DEF Image
  <2> QED
    BY <2>1
<1> SUFFICES ASSUME Bad # {} PROVE FALSE
  OBVIOUS
<1>1. Bad \subseteq FiniteSubsetsOf(A)
  BY FS_Subset DEF FiniteSubsetsOf
<1>2. PICK t \in Bad : \A u \in Bad : u \subseteq t => u = t
  <2> HIDE DEF Bad
  <2> QED
    BY <1>1, MinimalSet
<1>3. IsFiniteSet(t) /\ t \subseteq A
  BY <1>1 DEF FiniteSubsetsOf
<1>4. t # {}
  <2>1. Image({}) = {}
    OBVIOUS
  <2> HIDE DEF Image
  <2> QED
    BY <2>1, SumEmpty
<1> DEFINE y == Picked(t)
           r == t \ {y}
<1>5. y \in t /\ SumFunctionOnSet(f, t) = f[y] + SumFunctionOnSet(f, r)
  BY <1>3, <1>4, SumPicked
<1>6. SumFunctionOnSet(f, r) = SumFunctionOnSet(g, Image(r))
  <2>1. r \subseteq t /\ r # t
    BY <1>5
  <2>2. r \notin Bad
    <3> HIDE DEF Bad, r
    <3> QED
      BY <1>2, <2>1
  <2>3. r \in SUBSET A
    BY <2>1, <1>3
  <2> HIDE DEF r, Image
  <2> QED
    BY <2>2, <2>3
<1>7. IsFiniteSet(Image(t))
  <2> DEFINE k == [a \in t |-> h[a]]
  <2>1. k \in Surjection(t, Image(t))
    BY DEF Surjection
  <2> HIDE DEF k, Image
  <2> QED
    BY <1>3, <2>1, FS_Surjection
<1>8. h[y] \in Image(t) /\ Image(r) = Image(t) \ {h[y]}
  <2>1. \A a \in t : h[a] = h[y] <=> a = y
    BY <1>3, <1>5
  <2> QED
    BY <1>5, <2>1
<1>9. \A b \in Image(t) : g[b] \in Int
  BY <1>3
<1>10. SumFunctionOnSet(g, Image(t)) = g[h[y]] + SumFunctionOnSet(g, Image(r))
  <2> HIDE DEF Image, y, r
  <2> QED
    BY <1>7, <1>8, <1>9, SumSplit
<1>11. f[y] = g[h[y]]
  BY <1>3, <1>5
<1>12. SumFunctionOnSet(f, t) = SumFunctionOnSet(g, Image(t))
  <2> HIDE DEF Image, y, r
  <2> QED
    BY <1>5, <1>6, <1>10, <1>11
<1> QED
  BY <1>12

(* The sum depends on the terms in the set only.                           *)
LEMMA SumSame ==
  ASSUME NEW f, NEW g, NEW S, IsFiniteSet(S), \A x \in S : f[x] \in Int /\ f[x] = g[x]
  PROVE SumFunctionOnSet(f, S) = SumFunctionOnSet(g, S)
<1> DEFINE id == [x \in S |-> x]
<1>1. id \in [S -> S] /\ \A x \in S : id[x] = x
  OBVIOUS
<1> HIDE DEF id
<1> QED
  BY <1>1, SumRenamed

(* Setting one term changes the sum by the difference.                     *)
LEMMA SumUpdated ==
  ASSUME NEW S, IsFiniteSet(S), NEW f \in [S -> Int], NEW x \in S, NEW v \in Int
  PROVE SumFunctionOnSet([f EXCEPT ![x] = v], S) =
          (SumFunctionOnSet(f, S) - f[x]) + v
<1> DEFINE g == [f EXCEPT ![x] = v]
           r == S \ {x}
<1>1. g \in [S -> Int] /\ g[x] = v /\ \A y \in r : g[y] = f[y]
  OBVIOUS
<1>2. IsFiniteSet(r) /\ r \subseteq S
  BY FS_Subset
<1> HIDE DEF g
<1>3. SumFunctionOnSet(g, S) = v + SumFunctionOnSet(g, r)
  BY <1>1, SumSplit
<1>4. SumFunctionOnSet(f, S) = f[x] + SumFunctionOnSet(f, r)
  BY SumSplit
<1>5. SumFunctionOnSet(f, r) = SumFunctionOnSet(g, r)
  <2> HIDE DEF r
  <2> QED
    BY <1>1, <1>2, SumSame
<1>6. SumFunctionOnSet(f, r) \in Int /\ f[x] \in Int
  <2> HIDE DEF r
  <2> QED
    BY <1>2, SumIsInt
<1> QED
  BY <1>3, <1>4, <1>5, <1>6 DEF g

(* Terms that are 0 may be left out.                                       *)
LEMMA SumOfNonzero ==
  ASSUME NEW S, IsFiniteSet(S), NEW f, \A x \in S : f[x] \in Int,
         NEW A, A \subseteq S, \A x \in S \ A : f[x] = 0
  PROVE SumFunctionOnSet(f, S) = SumFunctionOnSet(f, A)
<1> DEFINE Between == {t \in SUBSET S : A \subseteq t}
           Bad == {t \in Between : SumFunctionOnSet(f, t) # SumFunctionOnSet(f, A)}
<1> SUFFICES ASSUME Bad # {} PROVE FALSE
  OBVIOUS
<1>1. Bad \subseteq FiniteSubsetsOf(S)
  BY FS_Subset DEF FiniteSubsetsOf
<1>2. PICK t \in Bad : \A u \in Bad : u \subseteq t => u = t
  <2> HIDE DEF Bad
  <2> QED
    BY <1>1, MinimalSet
<1>3. PICK x \in t : x \notin A
  OBVIOUS
<1>4. IsFiniteSet(t) /\ t \subseteq S /\ A \subseteq t
  BY <1>1 DEF FiniteSubsetsOf
<1>5. SumFunctionOnSet(f, t) = f[x] + SumFunctionOnSet(f, t \ {x})
  <2>1. \A y \in t : f[y] \in Int
    BY <1>4
  <2> QED
    BY <1>4, <2>1, SumSplit
<1>6. t \ {x} \notin Bad /\ t \ {x} \in Between
  <2>1. t \ {x} \in Between
    BY <1>3, <1>4
  <2> HIDE DEF Bad
  <2> QED
    BY <1>2, <2>1
<1>7. f[x] = 0 /\ SumFunctionOnSet(f, t \ {x}) \in Int
  <2>1. IsFiniteSet(t \ {x}) /\ \A y \in t \ {x} : f[y] \in Int
    BY <1>4, FS_Subset
  <2>2. f[x] = 0
    BY <1>3, <1>4
  <2> QED
    BY <2>1, <2>2, SumIsInt
<1> QED
  BY <1>5, <1>6, <1>7

\* g has the terms of f and d together
Adds(g, f, d, S) ==
  /\ f \in [S -> Int] /\ d \in [S -> Int] /\ g \in [S -> Int]
  /\ \A x \in S : g[x] = f[x] + d[x]

(* A sum of sums.                                                          *)
LEMMA SumAdded ==
  ASSUME NEW S, IsFiniteSet(S), NEW f, NEW d, NEW g, Adds(g, f, d, S)
  PROVE SumFunctionOnSet(g, S) = SumFunctionOnSet(f, S) + SumFunctionOnSet(d, S)
<1> DEFINE Splits(t) == SumFunctionOnSet(g, t) = SumFunctionOnSet(f, t) + SumFunctionOnSet(d, t)
           Bad == {t \in SUBSET S : ~Splits(t)}
<1>0. /\ f \in [S -> Int] /\ d \in [S -> Int] /\ g \in [S -> Int]
      /\ \A x \in S : g[x] = f[x] + d[x]
  BY DEF Adds
<1> SUFFICES ASSUME Bad # {} PROVE FALSE
  OBVIOUS
<1>1. Bad \subseteq FiniteSubsetsOf(S)
  BY FS_Subset DEF FiniteSubsetsOf
<1>2. PICK t \in Bad : \A u \in Bad : u \subseteq t => u = t
  <2> HIDE DEF Bad
  <2> QED
    BY <1>1, MinimalSet
<1>3. IsFiniteSet(t) /\ t \subseteq S
  BY <1>1 DEF FiniteSubsetsOf
<1>4. t # {}
  <2>1. SumFunctionOnSet(g, {}) = 0 /\ SumFunctionOnSet(f, {}) = 0 /\ SumFunctionOnSet(d, {}) = 0
    BY SumEmpty
  <2> QED
    BY <2>1
<1> DEFINE y == Picked(t)
           r == t \ {y}
<1>5. /\ y \in t /\ SumFunctionOnSet(g, t) = g[y] + SumFunctionOnSet(g, r)
      /\ SumFunctionOnSet(f, t) = f[y] + SumFunctionOnSet(f, r)
      /\ SumFunctionOnSet(d, t) = d[y] + SumFunctionOnSet(d, r)
  BY <1>3, <1>4, SumPicked
<1>6. Splits(r)
  <2>1. r \subseteq t /\ r # t /\ r \in SUBSET S
    BY <1>3, <1>5
  <2>2. r \notin Bad
    <3> HIDE DEF Bad, r
    <3> QED
      BY <1>2, <2>1
  <2> HIDE DEF Splits, r
  <2> QED
    BY <2>1, <2>2
<1>7. /\ SumFunctionOnSet(g, r) \in Int /\ SumFunctionOnSet(f, r) \in Int
      /\ SumFunctionOnSet(d, r) \in Int /\ g[y] = f[y] + d[y] /\ f[y] \in Int /\ d[y] \in Int
  <2>1. IsFiniteSet(r) /\ r \subseteq S
    BY <1>3, FS_Subset
  <2>2. \A x \in r : f[x] \in Int /\ g[x] \in Int /\ d[x] \in Int
    BY <1>0, <2>1
  <2> HIDE DEF r
  <2>3. /\ SumFunctionOnSet(g, r) \in Int /\ SumFunctionOnSet(f, r) \in Int
        /\ SumFunctionOnSet(d, r) \in Int
    BY <2>1, <2>2, SumIsInt
  <2> QED
    BY <1>0, <1>3, <1>5, <2>3
<1>8. Splits(t)
  <2> DEFINE gr == SumFunctionOnSet(g, r)
             fr == SumFunctionOnSet(f, r)
             dr == SumFunctionOnSet(d, r)
  <2>1. /\ gr = fr + dr /\ gr \in Int /\ fr \in Int /\ dr \in Int
        /\ SumFunctionOnSet(g, t) = g[y] + gr
        /\ SumFunctionOnSet(f, t) = f[y] + fr
        /\ SumFunctionOnSet(d, t) = d[y] + dr
    BY <1>5, <1>6, <1>7
  <2> HIDE DEF gr, fr, dr, y
  <2> QED
    BY <1>7, <2>1
<1> QED
  BY <1>8

-----------------------------------------------------------------------------
(* The members of a list, and that it names none of them twice.            *)
Elements(s) == {s[i] : i \in 1..Len(s)}
Distinct(s) == \A i, j \in 1..Len(s) : s[i] = s[j] => i = j

(* A strict total order on a finite set ranks its elements 1, 2, 3...      *)
LEMMA Ranks ==
  ASSUME NEW S, IsFiniteSet(S), NEW R,
         \A x \in S : <<x, x>> \notin R,
         \A x, y, z \in S : <<x, y>> \in R /\ <<y, z>> \in R => <<x, z>> \in R,
         \A x, y \in S : x = y \/ <<x, y>> \in R \/ <<y, x>> \in R
  PROVE  /\ \A x, y \in S :
              Cardinality({z \in S : <<z, x>> \in R}) = Cardinality({z \in S : <<z, y>> \in R})
                => x = y
         /\ \A k \in 1..Cardinality(S) :
              \E x \in S : Cardinality({z \in S : <<z, x>> \in R}) + 1 = k
         /\ \A x \in S : Cardinality({z \in S : <<z, x>> \in R}) + 1 \in 1..Cardinality(S)
<1> DEFINE Below(x) == {z \in S : <<z, x>> \in R}
           n == Cardinality(S)
           T == 1..n
           f == [x \in S |-> Cardinality(Below(x)) + 1]
<1>1. n \in Nat /\ IsFiniteSet(T) /\ Cardinality(T) = n
  <2>1. n \in Nat
    BY FS_CardinalityType
  <2>2. n \in Int /\ 1 \in Int
    BY <2>1
  <2> QED
    BY <2>1, <2>2, FS_Interval
<1>2. \A x \in S : /\ IsFiniteSet(Below(x)) /\ Cardinality(Below(x)) \in Nat
                   /\ Cardinality(Below(x)) <= n - 1
  <2> SUFFICES ASSUME NEW x \in S
               PROVE  /\ IsFiniteSet(Below(x)) /\ Cardinality(Below(x)) \in Nat
                      /\ Cardinality(Below(x)) <= n - 1
    OBVIOUS
  <2>1. IsFiniteSet(S \ {x}) /\ Cardinality(S \ {x}) = n - 1
    BY FS_RemoveElement
  <2>2. Below(x) \in SUBSET (S \ {x})
    OBVIOUS
  <2> HIDE DEF Below
  <2>3. IsFiniteSet(Below(x)) /\ Cardinality(Below(x)) <= Cardinality(S \ {x})
    BY <2>1, <2>2, FS_Subset
  <2> QED
    BY <2>1, <2>3, FS_CardinalityType
<1>3. \A x, y \in S : <<x, y>> \in R => Cardinality(Below(x)) < Cardinality(Below(y))
  <2> SUFFICES ASSUME NEW x \in S, NEW y \in S, <<x, y>> \in R
               PROVE  Cardinality(Below(x)) < Cardinality(Below(y))
    OBVIOUS
  <2> DEFINE B == Below(x) \cup {x}
  <2>1. B \in SUBSET Below(y) /\ x \notin Below(x)
    OBVIOUS
  <2> HIDE DEF Below
  <2>2. Cardinality(B) = Cardinality(Below(x)) + 1
    BY <1>2, <2>1, FS_AddElement
  <2> HIDE DEF B
  <2>3. Cardinality(B) <= Cardinality(Below(y))
    BY <1>2, <2>1, FS_Subset
  <2> QED
    BY <1>2, <2>2, <2>3
<1>4. \A x, y \in S : Cardinality(Below(x)) = Cardinality(Below(y)) => x = y
  <2> SUFFICES ASSUME NEW x \in S, NEW y \in S, Cardinality(Below(x)) = Cardinality(Below(y)), x # y
               PROVE  FALSE
    OBVIOUS
  <2> HIDE DEF Below
  <2>1. CASE <<x, y>> \in R
    BY <2>1, <1>2, <1>3
  <2>2. CASE <<y, x>> \in R
    BY <2>2, <1>2, <1>3
  <2> QED
    BY <2>1, <2>2
<1>5. f \in Surjection(S, T)
  <2> HIDE DEF Below, n
  <2>1. \A x \in S : f[x] \in T
    BY <1>1, <1>2
  <2>2. \A x, y \in S : f[x] = f[y] => x = y
    BY <1>2, <1>4
  <2>3. f \in Injection(S, T)
    BY <2>1, <2>2 DEF Injection, IsInjective
  <2> HIDE DEF f, T
  <2>4. Cardinality(S) = Cardinality(T)
    BY <1>1 DEF n
  <2> QED
    BY <1>1, <2>3, <2>4, FS_Injection
<1>6. \A k \in T : \E x \in S : Cardinality(Below(x)) + 1 = k
  <2> HIDE DEF Below, T
  <2> QED
    BY <1>5 DEF Surjection
<1>7. \A x \in S : Cardinality(Below(x)) + 1 \in T
  <2> HIDE DEF Below, n
  <2> QED
    BY <1>1, <1>2
<1> QED
  BY <1>4, <1>6, <1>7

(* Ranks by age, equal ages in the order of the plan.                      *)
AgeRank(plan, born, n, i) ==
  Cardinality({j \in 1..n : \/ born[plan[j]] < born[plan[i]]
                            \/ born[plan[j]] = born[plan[i]] /\ j < i}) + 1

(* The ranks by age are 1..n, each taken once.                             *)
LEMMA AgeRanked ==
  ASSUME NEW Item, NEW n \in Nat, NEW plan \in [1..n -> Item], NEW born \in [Item -> Nat]
  PROVE  /\ \A i \in 1..n : AgeRank(plan, born, n, i) \in 1..n
         /\ \A i, j \in 1..n : AgeRank(plan, born, n, i) = AgeRank(plan, born, n, j) => i = j
         /\ \A k \in 1..n : \E i \in 1..n : AgeRank(plan, born, n, i) = k
<1> DEFINE S == 1..n
           R == {p \in S \X S : \/ born[plan[p[1]]] < born[plan[p[2]]]
                                \/ born[plan[p[1]]] = born[plan[p[2]]] /\ p[1] < p[2]}
<1>1. \A x, y \in S : <<x, y>> \in R <=> \/ born[plan[x]] < born[plan[y]]
                                         \/ born[plan[x]] = born[plan[y]] /\ x < y
  OBVIOUS
<1>2. \A x \in S : AgeRank(plan, born, n, x) = Cardinality({z \in S : <<z, x>> \in R}) + 1
  <2> SUFFICES ASSUME NEW x \in S
               PROVE  AgeRank(plan, born, n, x) = Cardinality({z \in S : <<z, x>> \in R}) + 1
    OBVIOUS
  <2>1. {z \in S : <<z, x>> \in R} =
          {z \in 1..n : \/ born[plan[z]] < born[plan[x]]
                        \/ born[plan[z]] = born[plan[x]] /\ z < x}
    BY <1>1
  <2> HIDE DEF R
  <2> QED
    BY <2>1 DEF AgeRank
<1>3. IsFiniteSet(S) /\ Cardinality(S) = n
  <2>1. n \in Int /\ 1 \in Int
    OBVIOUS
  <2> QED
    BY <2>1, FS_Interval
<1> HIDE DEF R
<1>4. \A x \in S : <<x, x>> \notin R
  BY <1>1
<1>5. \A x, y, z \in S : <<x, y>> \in R /\ <<y, z>> \in R => <<x, z>> \in R
  BY <1>1
<1>6. \A x, y \in S : x = y \/ <<x, y>> \in R \/ <<y, x>> \in R
  <2> SUFFICES ASSUME NEW x \in S, NEW y \in S, <<x, y>> \notin R, <<y, x>> \notin R
               PROVE  x = y
    OBVIOUS
  <2>1. \A a, b, c, d \in Nat :
          ~(a < b) /\ ~(b < a) /\ (a = b => ~(c < d) /\ ~(d < c)) => c = d
    OBVIOUS
  <2>2. /\ born[plan[x]] \in Nat /\ born[plan[y]] \in Nat
        /\ x \in Nat /\ y \in Nat
    OBVIOUS
  <2> QED
    BY <2>1, <2>2, <1>1
<1> HIDE DEF S
<1>7. /\ \A x, y \in S :
           Cardinality({z \in S : <<z, x>> \in R}) = Cardinality({z \in S : <<z, y>> \in R})
             => x = y
      /\ \A k \in 1..Cardinality(S) :
           \E x \in S : Cardinality({z \in S : <<z, x>> \in R}) + 1 = k
      /\ \A x \in S : Cardinality({z \in S : <<z, x>> \in R}) + 1 \in 1..Cardinality(S)
  BY <1>3, <1>4, <1>5, <1>6, Ranks
<1>8. \A x \in S : Cardinality({z \in S : <<z, x>> \in R}) \in Nat
  <2> SUFFICES ASSUME NEW x \in S
               PROVE  Cardinality({z \in S : <<z, x>> \in R}) \in Nat
    OBVIOUS
  <2> DEFINE B == {z \in S : <<z, x>> \in R}
  <2>1. B \in SUBSET S
    OBVIOUS
  <2> HIDE DEF B
  <2>2. Cardinality(B) \in Nat
    BY <2>1, <1>3, FS_Subset, FS_CardinalityType
  <2> QED
    BY <2>2 DEF B
<1> DEFINE c(x) == Cardinality({z \in S : <<z, x>> \in R})
           a(x) == AgeRank(plan, born, n, x)
<1>9. \A x \in S : a(x) = c(x) + 1 /\ c(x) \in Nat
  BY <1>2, <1>8
<1>10. /\ \A x, y \in S : c(x) = c(y) => x = y
       /\ \A k \in 1..n : \E x \in S : c(x) + 1 = k
       /\ \A x \in S : c(x) + 1 \in 1..n
  BY <1>3, <1>7
<1> HIDE DEF a, c
<1>11. /\ \A i \in S : a(i) \in 1..n
       /\ \A i, j \in S : a(i) = a(j) => i = j
       /\ \A k \in 1..n : \E i \in S : a(i) = k
  BY <1>9, <1>10
<1> QED
  BY <1>11 DEF a, S

(* The places within a set of positions are 1..|S|, each taken once.       *)
LEMMA PlaceRanked ==
  ASSUME NEW n \in Nat, NEW S \in SUBSET (1..n)
  PROVE  /\ IsFiniteSet(S) /\ Cardinality(S) \in Nat
         /\ \A i \in S : PlaceRank(S, i) \in 1..Cardinality(S)
         /\ \A i, j \in S : PlaceRank(S, i) = PlaceRank(S, j) => i = j
         /\ \A k \in 1..Cardinality(S) : \E i \in S : PlaceRank(S, i) = k
<1> DEFINE R == {p \in S \X S : p[1] < p[2]}
           m == Cardinality(S)
<1>1. \A x, y \in S : <<x, y>> \in R <=> x < y
  OBVIOUS
<1>2. \A i \in S : PlaceRank(S, i) = Cardinality({z \in S : <<z, i>> \in R}) + 1
  <2> SUFFICES ASSUME NEW i \in S
               PROVE  PlaceRank(S, i) = Cardinality({z \in S : <<z, i>> \in R}) + 1
    OBVIOUS
  <2>1. {z \in S : <<z, i>> \in R} = {j \in S : j < i}
    BY <1>1
  <2> HIDE DEF R
  <2> QED
    BY <2>1 DEF PlaceRank
<1>3. IsFiniteSet(S) /\ m \in Nat
  <2> DEFINE D == 1..n
  <2>1. IsFiniteSet(D) /\ S \in SUBSET D
    <3>1. n \in Int /\ 1 \in Int
      OBVIOUS
    <3> QED
      BY <3>1, FS_Interval
  <2> HIDE DEF D
  <2>2. IsFiniteSet(S)
    BY <2>1, FS_Subset
  <2> QED
    BY <2>2, FS_CardinalityType
<1>4. \A i \in S : i \in Nat
  OBVIOUS
<1> HIDE DEF R
<1>5. \A x \in S : <<x, x>> \notin R
  BY <1>1, <1>4
<1>6. \A x, y, z \in S : <<x, y>> \in R /\ <<y, z>> \in R => <<x, z>> \in R
  BY <1>1, <1>4
<1>7. \A x, y \in S : x = y \/ <<x, y>> \in R \/ <<y, x>> \in R
  <2> SUFFICES ASSUME NEW x \in S, NEW y \in S, <<x, y>> \notin R, <<y, x>> \notin R
               PROVE  x = y
    OBVIOUS
  <2>1. x \in Nat /\ y \in Nat
    BY <1>4
  <2>2. ~(x < y) /\ ~(y < x)
    BY <1>1
  <2> QED
    BY <2>1, <2>2
<1>8. /\ \A x, y \in S :
           Cardinality({z \in S : <<z, x>> \in R}) = Cardinality({z \in S : <<z, y>> \in R})
             => x = y
      /\ \A k \in 1..m :
           \E x \in S : Cardinality({z \in S : <<z, x>> \in R}) + 1 = k
      /\ \A x \in S : Cardinality({z \in S : <<z, x>> \in R}) + 1 \in 1..m
  BY <1>3, <1>5, <1>6, <1>7, Ranks
<1>9. \A x \in S : Cardinality({z \in S : <<z, x>> \in R}) \in Nat
  <2> SUFFICES ASSUME NEW x \in S
               PROVE  Cardinality({z \in S : <<z, x>> \in R}) \in Nat
    OBVIOUS
  <2> DEFINE B == {z \in S : <<z, x>> \in R}
  <2>1. B \in SUBSET S
    OBVIOUS
  <2> HIDE DEF B
  <2>2. Cardinality(B) \in Nat
    BY <2>1, <1>3, FS_Subset, FS_CardinalityType
  <2> QED
    BY <2>2 DEF B
<1> DEFINE c(x) == Cardinality({z \in S : <<z, x>> \in R})
           a(x) == PlaceRank(S, x)
<1>10. \A x \in S : a(x) = c(x) + 1 /\ c(x) \in Nat
  BY <1>2, <1>9
<1>11. /\ \A x, y \in S : c(x) = c(y) => x = y
       /\ \A k \in 1..m : \E x \in S : c(x) + 1 = k
       /\ \A x \in S : c(x) + 1 \in 1..m
  BY <1>8
<1> HIDE DEF a, c, m
<1>12. /\ \A i \in S : a(i) \in 1..m
       /\ \A i, j \in S : a(i) = a(j) => i = j
       /\ \A k \in 1..m : \E i \in S : a(i) = k
  BY <1>10, <1>11
<1> QED
  BY <1>3, <1>12 DEF a, m

(* The items of a plan, or of a part of it, in the order of their ranks.   *)
OneToOne(f, S)        == \A i, j \in S : f[i] = f[j] => i = j
Ranking(rank, at, m, S) == OneToOne(rank, S) /\ \A k \in 1..m : at[k] \in S /\ rank[at[k]] = k
InOrder(plan, at, m)  == [k \in 1..m |-> plan[at[k]]]
Lists(s, plan, rank, m, S) ==
  \A u : u \in Elements(s) <=> \E i \in S : rank[i] \in 1..m /\ plan[i] = u

(* A list in the order of a rank has every item of its positions, once.    *)
LEMMA Listed ==
  ASSUME NEW Item, NEW n \in Nat, NEW plan \in [1..n -> Item], OneToOne(plan, 1..n),
         NEW S \in SUBSET (1..n), NEW m \in Nat, NEW rank, NEW at, Ranking(rank, at, m, S)
  PROVE  /\ InOrder(plan, at, m) \in Seq(Item) /\ Len(InOrder(plan, at, m)) = m
         /\ Distinct(InOrder(plan, at, m))
         /\ Lists(InOrder(plan, at, m), plan, rank, m, S)
<1> DEFINE s == InOrder(plan, at, m)
<1>0. /\ \A i, j \in 1..n : plan[i] = plan[j] => i = j
      /\ \A i, j \in S : rank[i] = rank[j] => i = j
      /\ \A k \in 1..m : at[k] \in S /\ rank[at[k]] = k
  BY DEF OneToOne, Ranking
<1>1. \A k \in 1..m : s[k] = plan[at[k]] /\ at[k] \in 1..n
  BY <1>0 DEF InOrder
<1>2. s \in Seq(Item) /\ Len(s) = m
  <2>1. s \in [1..m -> Item]
    BY <1>1, <1>0 DEF InOrder
  <2>2. s \in Seq(Item) /\ DOMAIN s = 1..m
    BY <2>1
  <2> QED
    BY <2>2, LenProperties
<1> HIDE DEF s
<1>3. Distinct(s)
  <2> SUFFICES ASSUME NEW i \in 1..m, NEW j \in 1..m, s[i] = s[j]
               PROVE  i = j
    BY <1>2 DEF Distinct
  <2>1. at[i] = at[j]
    BY <1>0, <1>1
  <2> QED
    BY <1>0, <2>1
<1>4. \A u : u \in Elements(s) <=> \E i \in S : rank[i] \in 1..m /\ plan[i] = u
  <2> SUFFICES ASSUME NEW u
               PROVE  u \in Elements(s) <=> \E i \in S : rank[i] \in 1..m /\ plan[i] = u
    OBVIOUS
  <2>1. ASSUME u \in Elements(s) PROVE \E i \in S : rank[i] \in 1..m /\ plan[i] = u
    <3>1. PICK k \in 1..m : s[k] = u
      BY <2>1, <1>2 DEF Elements
    <3>2. at[k] \in S /\ rank[at[k]] \in 1..m /\ plan[at[k]] = u
      BY <3>1, <1>0, <1>1
    <3> QED
      BY <3>2
  <2>2. ASSUME NEW i \in S, rank[i] \in 1..m, plan[i] = u PROVE u \in Elements(s)
    <3>1. at[rank[i]] = i
      BY <2>2, <1>0
    <3>2. s[rank[i]] = u
      BY <2>2, <3>1, <1>1
    <3> QED
      BY <2>2, <3>2, <1>2 DEF Elements
  <2> QED
    BY <2>1, <2>2
<1> QED
  <2>1. Lists(s, plan, rank, m, S)
    BY <1>4 DEF Lists
  <2> QED
    BY <1>2, <1>3, <2>1 DEF s

(* filter() keeps the order, and of every item as many as there are.       *)
LEMMA FilterSound ==
  ASSUME NEW Item, NEW s \in Seq(Item), NEW S
  PROVE  /\ Filtered(s, S) \in Seq(Item) /\ Len(Filtered(s, S)) <= Len(s)
         /\ Elements(Filtered(s, S)) = Elements(s) \cap S
         /\ Distinct(s) => Distinct(Filtered(s, S))
<1> DEFINE P     == Places(s, S)
           m     == Cardinality(P)
           at(k) == CHOOSE i \in P : PlaceRank(P, i) = k
           f     == Filtered(s, S)
           n     == Len(s)
<1>1. /\ n \in Nat /\ DOMAIN s = 1..n /\ P \in SUBSET (1..n)
      /\ \A i \in 1..n : s[i] \in Item /\ (i \in P <=> s[i] \in S)
  BY DEF Places
<1>2. f = [k \in 1..m |-> s[at(k)]]
  BY DEF Filtered
<1> HIDE DEF f
<1>3. /\ IsFiniteSet(P) /\ m \in Nat
      /\ \A i \in P : PlaceRank(P, i) \in 1..m
      /\ \A i, j \in P : PlaceRank(P, i) = PlaceRank(P, j) => i = j
      /\ \A k \in 1..m : \E i \in P : PlaceRank(P, i) = k
  <2> HIDE DEF P
  <2> QED
    BY <1>1, PlaceRanked
<1>4. m <= n
  <2> DEFINE D == 1..n
  <2>1. IsFiniteSet(D) /\ Cardinality(D) = n /\ P \in SUBSET D
    <3>1. n \in Int /\ 1 \in Int
      BY <1>1
    <3> HIDE DEF n, P
    <3> QED
      BY <1>1, <3>1, FS_Interval
  <2> HIDE DEF P, n, D
  <2> QED
    BY <2>1, FS_Subset
<1>5. \A k \in 1..m : at(k) \in P /\ PlaceRank(P, at(k)) = k
  <2> HIDE DEF P, m
  <2> QED
    BY <1>3
<1> HIDE DEF at
<1>6. \A i \in P : at(PlaceRank(P, i)) = i
  <2> HIDE DEF P, m
  <2> QED
    BY <1>3, <1>5
<1>7. \A k \in 1..m : f[k] = s[at(k)] /\ at(k) \in 1..n /\ s[at(k)] \in Item \cap S
  <2> HIDE DEF P, m, n
  <2> QED
    BY <1>1, <1>2, <1>5
<1>8. f \in Seq(Item) /\ Len(f) = m
  <2>1. f \in [1..m -> Item]
    <3> HIDE DEF P, m
    <3> QED
      BY <1>2, <1>7
  <2> HIDE DEF P, m
  <2>2. f \in Seq(Item) /\ DOMAIN f = 1..m
    BY <1>3, <2>1
  <2> QED
    BY <1>3, <2>2, LenProperties
<1> HIDE DEF P, m
<1>9. Elements(f) = Elements(s) \cap S
  <2>1. Elements(f) = {f[k] : k \in 1..m} /\ Elements(s) = {s[i] : i \in 1..n}
    BY <1>8 DEF Elements
  <2> HIDE DEF n
  <2>2. \A u : u \in Elements(f) => u \in Elements(s) \cap S
    BY <1>7, <2>1
  <2>3. ASSUME NEW u, u \in Elements(s) \cap S PROVE u \in Elements(f)
    <3>1. PICK i \in 1..n : s[i] = u
      BY <2>1, <2>3
    <3>2. i \in P
      BY <1>1, <2>3, <3>1
    <3>3. f[PlaceRank(P, i)] = u
      BY <1>3, <1>6, <1>7, <3>1, <3>2
    <3> QED
      BY <1>3, <2>1, <3>2, <3>3
  <2> QED
    BY <2>2, <2>3
<1>10. ASSUME Distinct(s) PROVE Distinct(f)
  <2>1. \A i, j \in 1..n : s[i] = s[j] => i = j
    BY <1>10 DEF Distinct
  <2> HIDE DEF n
  <2>2. \A k, l \in 1..m : f[k] = f[l] => k = l
    BY <1>5, <1>7, <2>1
  <2> QED
    BY <1>8, <2>2 DEF Distinct
<1> QED
  BY <1>4, <1>8, <1>9, <1>10 DEF f

(* shift() on a list that names nothing twice.                             *)
LEMMA TailSound ==
  ASSUME NEW Item, NEW s \in Seq(Item), s # <<>>, Distinct(s)
  PROVE  /\ Tail(s) \in Seq(Item) /\ Distinct(Tail(s))
         /\ Head(s) \in Item /\ Head(s) \in Elements(s)
         /\ \A u : u \in Elements(Tail(s)) <=> u \in Elements(s) /\ u # Head(s)
         /\ Tail(s) = <<>> <=> Len(s) = 1
<1> DEFINE n == Len(s)
           t == Tail(s)
<1>1. /\ n \in Nat \ {0} /\ Head(s) = s[1] /\ Head(s) \in Item
      /\ t \in Seq(Item) /\ Len(t) = n - 1
      /\ \A i \in 1..n - 1 : t[i] = s[i + 1]
  BY EmptySeq, HeadTailProperties
<1>2. Distinct(t)
  <2> HIDE DEF t
  <2> SUFFICES ASSUME NEW i \in 1..Len(t), NEW j \in 1..Len(t), t[i] = t[j]
               PROVE  i = j
    BY DEF Distinct
  <2> HIDE DEF n
  <2>1. /\ i + 1 \in 1..n /\ j + 1 \in 1..n /\ s[i + 1] = s[j + 1]
        /\ i \in Nat /\ j \in Nat
    BY <1>1
  <2>2. i + 1 = j + 1
    BY <2>1 DEF Distinct, n
  <2> QED
    BY <2>1, <2>2
<1>3. Head(s) \in Elements(s)
  BY <1>1 DEF Elements
<1>4. \A u : u \in Elements(t) <=> u \in Elements(s) /\ u # Head(s)
  <2> SUFFICES ASSUME NEW u
               PROVE  u \in Elements(t) <=> u \in Elements(s) /\ u # Head(s)
    OBVIOUS
  <2> HIDE DEF t, n
  <2>1. ASSUME u \in Elements(t) PROVE u \in Elements(s) /\ u # Head(s)
    <3>1. PICK i \in 1..n - 1 : t[i] = u
      BY <2>1, <1>1 DEF Elements
    <3>2. s[i + 1] = u /\ i + 1 \in 1..n /\ i + 1 # 1 /\ 1 \in 1..n
      BY <3>1, <1>1
    <3>3. s[i + 1] # s[1]
      BY <3>2 DEF Distinct, n
    <3> QED
      BY <3>2, <3>3, <1>1 DEF Elements, n
  <2>2. ASSUME u \in Elements(s), u # Head(s) PROVE u \in Elements(t)
    <3>1. PICK i \in 1..n : s[i] = u
      BY <2>2 DEF Elements, n
    <3>2. i # 1
      BY <3>1, <2>2, <1>1
    <3>3. i - 1 \in 1..n - 1 /\ (i - 1) + 1 = i
      BY <3>2, <1>1
    <3>4. t[i - 1] = u
      BY <3>1, <3>3, <1>1
    <3> QED
      BY <3>3, <3>4, <1>1 DEF Elements
  <2> QED
    BY <2>1, <2>2
<1>5. t = <<>> <=> n = 1
  <2>1. t = <<>> <=> Len(t) = 0
    <3> HIDE DEF t
    <3> QED BY <1>1, EmptySeq
  <2> QED
    BY <2>1, <1>1
<1> QED
  BY <1>1, <1>2, <1>3, <1>4, <1>5

(* An empty list is one without members.                                   *)
LEMMA NoElements ==
  ASSUME NEW Item, NEW s \in Seq(Item)
  PROVE  s = <<>> <=> Elements(s) = {}
<1>1. s = <<>> <=> Len(s) = 0
  BY EmptySeq
<1>2. Len(s) \in Nat
  OBVIOUS
<1>3. ASSUME Len(s) # 0 PROVE Elements(s) # {}
  <2>1. 1 \in 1..Len(s)
    BY <1>2, <1>3
  <2>2. s[1] \in Elements(s)
    BY <2>1 DEF Elements
  <2> QED
    BY <2>2
<1>4. ASSUME Len(s) = 0 PROVE Elements(s) = {}
  BY <1>4 DEF Elements
<1> QED
  BY <1>1, <1>3, <1>4

(* The members of a list: its length counts them, or more than them.       *)
LEMMA ElementsCounted ==
  ASSUME NEW Item, NEW s \in Seq(Item)
  PROVE  /\ Elements(s) \in SUBSET Item /\ Elements(s) = {s[i] : i \in DOMAIN s}
         /\ IsFiniteSet(Elements(s)) /\ Cardinality(Elements(s)) \in Nat
         /\ Len(s) \in Nat /\ Cardinality(Elements(s)) <= Len(s)
         /\ Distinct(s) => Cardinality(Elements(s)) = Len(s)
<1> DEFINE n == Len(s)
           f == [i \in 1..n |-> s[i]]
<1>1. n \in Nat /\ DOMAIN s = 1..n /\ \A i \in 1..n : s[i] \in Item
  BY ElementOfSeq, LenProperties
<1>2. Elements(s) \in SUBSET Item /\ Elements(s) = {s[i] : i \in DOMAIN s}
  <2> HIDE DEF n
  <2>1. Elements(s) = {s[i] : i \in 1..n}
    BY DEF Elements, n
  <2> QED
    BY <1>1, <2>1
<1>3. IsFiniteSet(1..n) /\ Cardinality(1..n) = n
  <2>1. n \in Int /\ 1 \in Int
    BY <1>1
  <2> HIDE DEF n
  <2> QED
    BY <1>1, <2>1, FS_Interval
<1>4. f \in Surjection(1..n, Elements(s))
  BY DEF Surjection, Elements
<1>5. IsFiniteSet(Elements(s)) /\ Cardinality(Elements(s)) <= n
  <2> HIDE DEF n, f
  <2> QED
    BY <1>3, <1>4, FS_Surjection
<1>6. ASSUME Distinct(s) PROVE Cardinality(Elements(s)) = n
  <2>1. f \in Injection(1..n, Elements(s))
    <3>1. f \in [1..n -> Elements(s)] /\ \A i, j \in 1..n : f[i] = f[j] => i = j
      BY <1>4, <1>6 DEF Surjection, Distinct
    <3> HIDE DEF n, f
    <3> QED
      BY <3>1 DEF Injection, IsInjective
  <2>2. f \in Bijection(1..n, Elements(s))
    BY <1>4, <2>1 DEF Bijection
  <2> HIDE DEF n, f
  <2> QED
    BY <1>3, <2>2, FS_Bijection DEF ExistsBijection
<1> QED
  BY <1>1, <1>2, <1>5, <1>6, FS_CardinalityType

(* push().                                                                 *)
LEMMA AppendSound ==
  ASSUME NEW Item, NEW s \in Seq(Item), NEW x \in Item
  PROVE  /\ Append(s, x) \in Seq(Item) /\ Len(Append(s, x)) = Len(s) + 1
         /\ Elements(Append(s, x)) = Elements(s) \cup {x}
         /\ Distinct(s) /\ x \notin Elements(s) => Distinct(Append(s, x))
<1> DEFINE n == Len(s)
           a == Append(s, x)
<1>1. /\ n \in Nat /\ a \in Seq(Item) /\ Len(a) = n + 1 /\ a[n + 1] = x
      /\ \A i \in 1..n : a[i] = s[i]
  BY AppendProperties
<1> HIDE DEF a
<1>2. \A i \in 1..n + 1 : i \in 1..n \/ i = n + 1
  <2> HIDE DEF n
  <2> QED BY <1>1
<1>3. n + 1 \in 1..n + 1 /\ \A i \in 1..n : i \in 1..n + 1 /\ i # n + 1
  <2> HIDE DEF n
  <2> QED BY <1>1
<1>4. Elements(a) = Elements(s) \cup {x}
  <2>1. Elements(s) = {s[i] : i \in 1..n} /\ Elements(a) = {a[i] : i \in 1..n + 1}
    BY <1>1 DEF Elements
  <2> HIDE DEF n
  <2>2. \A v : v \in Elements(a) => v \in Elements(s) \cup {x}
    BY <1>1, <1>2, <2>1
  <2>3. \A v : v \in Elements(s) \cup {x} => v \in Elements(a)
    BY <1>1, <1>3, <2>1
  <2> QED
    BY <2>2, <2>3
<1>5. ASSUME Distinct(s), x \notin Elements(s) PROVE Distinct(a)
  <2>1. \A i, j \in 1..n : s[i] = s[j] => i = j
    BY <1>5 DEF Distinct
  <2>2. \A i \in 1..n : s[i] # x
    BY <1>5 DEF Elements
  <2> HIDE DEF n
  <2>3. \A i, j \in 1..n + 1 : a[i] = a[j] => i = j
    BY <1>1, <1>2, <2>1, <2>2
  <2> QED
    BY <1>1, <2>3 DEF Distinct
<1> QED
  BY <1>1, <1>4, <1>5 DEF a

(* concat().                                                               *)
LEMMA ConcatSound ==
  ASSUME NEW Item, NEW s \in Seq(Item), NEW t \in Seq(Item)
  PROVE  /\ s \o t \in Seq(Item) /\ Len(s \o t) = Len(s) + Len(t)
         /\ Elements(s \o t) = Elements(s) \cup Elements(t)
         /\ Distinct(s) /\ Distinct(t) /\ Elements(s) \cap Elements(t) = {} => Distinct(s \o t)
<1> DEFINE m == Len(s)
           n == Len(t)
           c == s \o t
<1>1. /\ m \in Nat /\ n \in Nat /\ c \in Seq(Item) /\ Len(c) = m + n
      /\ \A i \in 1..m + n : c[i] = IF i <= m THEN s[i] ELSE t[i - m]
  BY ConcatProperties
<1> HIDE DEF c
<1>2. /\ Elements(s) = {s[i] : i \in 1..m} /\ Elements(t) = {t[i] : i \in 1..n}
      /\ Elements(c) = {c[i] : i \in 1..m + n}
  BY <1>1 DEF Elements
<1>3. Distinct(s) /\ Distinct(t) =>
        (\A i, j \in 1..m : s[i] = s[j] => i = j) /\ (\A i, j \in 1..n : t[i] = t[j] => i = j)
  BY DEF Distinct
<1> HIDE DEF m, n
<1>4. \A i \in 1..m + n : (i <= m /\ i \in 1..m) \/ (~(i <= m) /\ i - m \in 1..n)
  BY <1>1
<1>5. /\ \A i \in 1..m : i \in 1..m + n /\ c[i] = s[i]
      /\ \A i \in 1..n : i + m \in 1..m + n /\ c[i + m] = t[i]
  <2>1. \A i \in 1..m : i \in 1..m + n /\ i <= m
    BY <1>1
  <2>2. \A i \in 1..n : i + m \in 1..m + n /\ ~(i + m <= m) /\ (i + m) - m = i
    BY <1>1
  <2> QED
    BY <1>1, <2>1, <2>2
<1>6. Elements(c) = Elements(s) \cup Elements(t)
  <2>1. \A u : u \in Elements(c) => u \in Elements(s) \cup Elements(t)
    BY <1>1, <1>2, <1>4
  <2>2. \A u : u \in Elements(s) \cup Elements(t) => u \in Elements(c)
    BY <1>2, <1>5
  <2> QED
    BY <2>1, <2>2
<1>7. ASSUME Distinct(s), Distinct(t), Elements(s) \cap Elements(t) = {}
      PROVE  Distinct(c)
  <2> SUFFICES ASSUME NEW i \in 1..m + n, NEW j \in 1..m + n, c[i] = c[j]
               PROVE  i = j
    BY <1>1 DEF Distinct
  <2>1. CASE i <= m /\ j <= m
    BY <1>1, <1>3, <1>4, <1>7, <2>1
  <2>2. CASE ~(i <= m) /\ ~(j <= m)
    <3>1. i - m = j - m
      BY <1>1, <1>3, <1>4, <1>7, <2>2
    <3> QED
      BY <1>1, <3>1
  <2>3. \A k \in 1..m, l \in 1..n : s[k] # t[l]
    BY <1>2, <1>7
  <2> QED
    BY <1>1, <1>4, <2>1, <2>2, <2>3
<1> QED
  BY <1>1, <1>6, <1>7 DEF c, m, n

(* shift() on any list.                                                    *)
LEMMA ShiftSound ==
  ASSUME NEW Item, NEW s \in Seq(Item), s # <<>>
  PROVE  /\ Tail(s) \in Seq(Item) /\ Head(s) \in Item /\ Len(Tail(s)) = Len(s) - 1
         /\ Len(s) \in Nat \ {0}
         /\ Elements(s) = {Head(s)} \cup Elements(Tail(s))
<1> DEFINE n == Len(s)
           t == Tail(s)
<1>1. /\ n \in Nat \ {0} /\ Head(s) = s[1] /\ Head(s) \in Item
      /\ t \in Seq(Item) /\ Len(t) = n - 1
      /\ \A i \in 1..n - 1 : t[i] = s[i + 1]
  BY EmptySeq, HeadTailProperties
<1> HIDE DEF t
<1>2. Elements(s) = {s[i] : i \in 1..n} /\ Elements(t) = {t[i] : i \in 1..n - 1}
  BY <1>1 DEF Elements
<1> HIDE DEF n
<1>3. \A i \in 1..n - 1 : i + 1 \in 1..n
  BY <1>1
<1>4. 1 \in 1..n /\ \A i \in 1..n : i = 1 \/ (i - 1 \in 1..n - 1 /\ (i - 1) + 1 = i)
  BY <1>1
<1>5. \A v : v \in {Head(s)} \cup Elements(t) => v \in Elements(s)
  BY <1>1, <1>2, <1>3, <1>4
<1>6. \A v : v \in Elements(s) => v \in {Head(s)} \cup Elements(t)
  <2> SUFFICES ASSUME NEW i \in 1..n
               PROVE  s[i] \in {Head(s)} \cup Elements(t)
    BY <1>2
  <2>1. i # 1 => t[i - 1] = s[i]
    BY <1>1, <1>4
  <2> QED
    BY <1>1, <1>2, <1>4, <2>1
<1> QED
  BY <1>1, <1>5, <1>6 DEF n, t

(* slice(0, c) and what is left after it.                                  *)
LEMMA SplitSound ==
  ASSUME NEW Item, NEW s \in Seq(Item), Distinct(s), NEW c \in 0..Len(s)
  PROVE  /\ SubSeq(s, 1, c) \in Seq(Item) /\ Len(SubSeq(s, 1, c)) = c
         /\ Distinct(SubSeq(s, 1, c))
         /\ SubSeq(s, c + 1, Len(s)) \in Seq(Item)
         /\ Len(SubSeq(s, c + 1, Len(s))) = Len(s) - c
         /\ Distinct(SubSeq(s, c + 1, Len(s)))
         /\ Elements(SubSeq(s, 1, c)) \cap Elements(SubSeq(s, c + 1, Len(s))) = {}
         /\ Elements(SubSeq(s, 1, c)) \cup Elements(SubSeq(s, c + 1, Len(s))) = Elements(s)
<1> DEFINE n == Len(s)
           a == SubSeq(s, 1, c)
           b == SubSeq(s, c + 1, n)
<1>1. n \in Nat /\ c \in Nat /\ c <= n /\ \A i \in 1..n : s[i] \in Item
  BY ElementOfSeq
<1>2. a \in Seq(Item) /\ Len(a) = c /\ \A i \in 1..c : a[i] = s[i]
  <2> HIDE DEF n
  <2>1. \A i \in 1..c : s[i] \in Item
    BY <1>1
  <2>2. 1 \in Int /\ c \in Int
    BY <1>1
  <2>3. /\ a \in Seq(Item) /\ Len(a) = IF 1 <= c THEN c - 1 + 1 ELSE 0
        /\ \A i \in 1..c - 1 + 1 : a[i] = s[1 + i - 1]
    BY <2>1, <2>2, SubSeqProperties
  <2> HIDE DEF a
  <2> QED
    BY <1>1, <2>3
<1>3. b \in Seq(Item) /\ Len(b) = n - c /\ \A i \in 1..n - c : b[i] = s[c + i]
  <2> HIDE DEF n
  <2> DEFINE d == c + 1
  <2>1. \A i \in d..n : s[i] \in Item
    BY <1>1
  <2>2. d \in Int /\ n \in Int
    BY <1>1
  <2> HIDE DEF d
  <2>3. /\ SubSeq(s, d, n) \in Seq(Item)
        /\ Len(SubSeq(s, d, n)) = IF d <= n THEN n - d + 1 ELSE 0
        /\ \A i \in 1..n - d + 1 : SubSeq(s, d, n)[i] = s[d + i - 1]
    BY <2>1, <2>2, SubSeqProperties
  <2>4. b = SubSeq(s, d, n)
    BY DEF d
  <2> HIDE DEF b
  <2>5. /\ n - d + 1 = n - c /\ (IF d <= n THEN n - d + 1 ELSE 0) = n - c
        /\ \A i \in 1..n - c : d + i - 1 = c + i
    BY <1>1 DEF d
  <2> QED
    BY <2>3, <2>4, <2>5
<1> HIDE DEF a, b
<1>4. Elements(a) = {s[i] : i \in 1..c}
  BY <1>2 DEF Elements
<1>5. \A v : v \in Elements(b) <=> \E j \in c + 1..n : v = s[j]
  <2> SUFFICES ASSUME NEW v
               PROVE  v \in Elements(b) <=> \E j \in c + 1..n : v = s[j]
    OBVIOUS
  <2> HIDE DEF n
  <2>1. ASSUME v \in Elements(b) PROVE \E j \in c + 1..n : v = s[j]
    <3>1. PICK i \in 1..n - c : b[i] = v
      BY <2>1, <1>3 DEF Elements
    <3>2. c + i \in c + 1..n /\ v = s[c + i]
      BY <3>1, <1>1, <1>3
    <3> QED
      BY <3>2
  <2>2. ASSUME NEW j \in c + 1..n, v = s[j] PROVE v \in Elements(b)
    <3>1. j - c \in 1..n - c /\ c + (j - c) = j
      BY <1>1
    <3>2. b[j - c] = v
      BY <3>1, <2>2, <1>3
    <3> QED
      BY <3>1, <3>2, <1>3 DEF Elements
  <2> QED
    BY <2>1, <2>2
<1>6. \A i, j \in 1..n : s[i] = s[j] => i = j
  BY DEF Distinct
<1>7. Distinct(b)
  <2> SUFFICES ASSUME NEW i \in 1..n - c, NEW j \in 1..n - c, b[i] = b[j]
               PROVE  i = j
    BY <1>3 DEF Distinct
  <2> HIDE DEF n
  <2>1. c + i \in 1..n /\ c + j \in 1..n /\ s[c + i] = s[c + j]
    BY <1>1, <1>3
  <2>2. c + i = c + j
    BY <2>1, <1>6
  <2> QED
    BY <2>2, <1>1
<1>8. Elements(s) = {s[i] : i \in 1..n}
  BY DEF Elements
<1> HIDE DEF n
<1>9. \A i \in 1..n : i \in 1..c \/ i \in c + 1..n
  BY <1>1
<1>10. \A i \in 1..c, j \in c + 1..n : i \in 1..n /\ j \in 1..n /\ i # j
  BY <1>1
<1>11. \A i \in 1..c : i \in 1..n
  BY <1>1
<1>12. \A j \in c + 1..n : j \in 1..n
  BY <1>1
<1>13. Distinct(a)
  <2>1. \A i, j \in 1..c : a[i] = a[j] => i = j
    BY <1>2, <1>6, <1>11
  <2> QED
    BY <1>2, <2>1 DEF Distinct
<1>14. Elements(a) \cap Elements(b) = {}
  BY <1>4, <1>5, <1>6, <1>10
<1>15. Elements(a) \cup Elements(b) = Elements(s)
  <2>1. \A v : v \in Elements(a) \cup Elements(b) => v \in Elements(s)
    BY <1>4, <1>5, <1>8, <1>11, <1>12
  <2>2. \A v : v \in Elements(s) => v \in Elements(a) \cup Elements(b)
    BY <1>4, <1>5, <1>8, <1>9
  <2> QED
    BY <2>1, <2>2
<1> QED
  BY <1>2, <1>3, <1>7, <1>13, <1>14, <1>15 DEF a, b, n

(* Math.max of indices: there is a last one.                               *)
LEMMA LastExists ==
  ASSUME NEW S, S \subseteq Nat, IsFiniteSet(S), S # {}
  PROVE  \E x \in S : \A y \in S : x >= y
<1> DEFINE Up(i) == {j \in S : j >= i}
           T == {Up(i) : i \in S}
<1>1. T \subseteq FiniteSubsetsOf(S)
  BY FS_Subset DEF FiniteSubsetsOf
<1>2. T # {}
  OBVIOUS
<1>3. PICK x \in T : \A y \in T : y \subseteq x => y = x
  <2> HIDE DEF T
  <2> QED
    BY <1>1, <1>2, MinimalSet
<1>4. PICK i \in S : x = Up(i)
  OBVIOUS
<1>5. ASSUME NEW j \in S PROVE i >= j
  <2>1. CASE j >= i
    <3>1. Up(j) \subseteq Up(i) /\ Up(j) \in T
      <4>1. \A k \in S : k >= j => k >= i
        BY <2>1
      <4> QED
        BY <4>1
    <3>2. Up(j) = Up(i)
      <4> HIDE DEF T, Up
      <4> QED
        BY <1>3, <1>4, <3>1
    <3>3. i \in Up(i)
      OBVIOUS
    <3> QED
      BY <3>2, <3>3
  <2>2. CASE ~(j >= i)
    BY <2>2
  <2> QED
    BY <2>1, <2>2
<1> QED
  BY <1>5

(* A ceiling that let the plan through bounds any part of it; a run that   *)
(* was not let through has done nothing.                                   *)
LEMMA CeilingKept ==
  ASSUME NEW gone, IsFiniteSet(gone), NEW planned \in Nat, Cardinality(gone) <= planned,
         NEW inventory \in Nat, NEW bypass \in BOOLEAN,
         gone # {} => WithinCeiling(planned, inventory, bypass)
  PROVE  ~bypass =>
           IF inventory > 0 THEN 100 * Cardinality(gone) <= MaxPercent * inventory
                            ELSE Cardinality(gone) <= MaxAbsoluteFallback
<1> DEFINE allowed == inventory * MaxPercent
           count == Cardinality(gone)
<1>1. allowed \in Nat /\ allowed = MaxPercent * inventory
  BY BudgetAssumption
<1>2. count \in Nat /\ (gone = {} => count = 0)
  BY FS_CardinalityType, FS_EmptySet
<1>3. CASE gone = {}
  <2> HIDE DEF count
  <2>1. 100 * count = 0
    BY <1>2, <1>3
  <2> QED
    BY <2>1, <1>1, <1>2, <1>3, BudgetAssumption DEF count
<1>4. CASE gone # {} /\ ~bypass
  <2>1. planned <= IF inventory > 0 THEN allowed \div 100 ELSE MaxAbsoluteFallback
    BY <1>4 DEF WithinCeiling, MutationLimit
  <2> HIDE DEF allowed, count
  <2>2. 100 * (allowed \div 100) <= allowed /\ allowed \div 100 \in Nat
    BY <1>1
  <2>3. count <= planned
    BY DEF count
  <2>4. inventory > 0 => 100 * count <= allowed
    BY <1>1, <1>2, <2>1, <2>2, <2>3
  <2> QED
    BY <1>1, <1>2, <2>1, <2>3, <2>4, BudgetAssumption DEF count
<1> QED
  BY <1>3, <1>4

-----------------------------------------------------------------------------
(* The slots of the ring are Window many.                                  *)
LEMMA SlotsFinite == IsFiniteSet(Slots) /\ Cardinality(Slots) = Window
<1>1. 0 \in Int /\ Window - 1 \in Int /\ Window \in Nat /\ Window > 0
  BY WindowAssumption
<1> QED
  BY <1>1, FS_Interval DEF Slots

(* The empty ring.                                                         *)
LEMMA EmptyRingSound == RingSound(EmptyRing)
<1>1. 0 \in Slots /\ 0 \in 0..Window /\ 0 \in Nat /\ 0 \in 0..Scale
  BY WindowAssumption, ScaleAssumption DEF Slots
<1> QED
  BY <1>1 DEF EmptyRing, RingType, RingSound, Slots

(* What the array holds of a ratio is again a ratio.                       *)
LEMMA StoredType ==
  ASSUME NEW r, RingSound(r), NEW ratio \in Int
  PROVE  /\ Clamped(ratio) \in 0..Scale /\ Float32[Clamped(ratio)] \in 0..Scale
         /\ Stored(r, ratio) \in [Slots -> 0..Scale]
<1>1. Clamped(ratio) \in 0..Scale
  BY ScaleAssumption DEF Clamped, AtLeast, AtMost
<1>2. Float32[Clamped(ratio)] \in 0..Scale
  BY <1>1, Float32Assumption
<1>3. r.buffer \in [Slots -> 0..Scale]
  BY DEF RingSound, RingType
<1>4. Stored(r, ratio) \in [Slots -> 0..Scale]
  BY <1>2, <1>3 DEF Stored
<1> QED
  BY <1>1, <1>2, <1>4

(* A recorded outcome keeps the ring sound, whatever the outcome.          *)
LEMMA RecordOutcomeSound ==
  ASSUME NEW r, RingSound(r), NEW ratio \in Int
  PROVE RingSound(RecordOutcome(r, ratio))
<1> DEFINE p == r.pointer
           s == RecordOutcome(r, ratio)
<1>1. /\ r.buffer \in [Slots -> 0..Scale] /\ r.pointer \in Slots
      /\ r.count \in 0..Window /\ r.runningSum \in Nat
  BY DEF RingSound, RingType
<1>2. Stored(r, ratio) \in [Slots -> 0..Scale]
  BY StoredType
<1>3. SumAfter(r, ratio) \in Nat
  <2>1. Clamped(ratio) \in Int /\ r.buffer[p] \in Int
    BY <1>1, StoredType
  <2> QED
    BY <1>1, <2>1 DEF SumAfter, AtLeast
<1>4. (p + 1) % Window \in Slots
  BY <1>1, WindowAssumption DEF Slots
<1>5. s.count \in 0..Window
  BY <1>1, WindowAssumption DEF RecordOutcome
<1>6. s \in RingType
  BY <1>2, <1>3, <1>4, <1>5 DEF RecordOutcome, RingType
<1>7. ASSUME s.count < Window
      PROVE  s.pointer = s.count /\ \A i \in Slots : i >= s.count => s.buffer[i] = 0
  <2>1. r.count + 1 < Window /\ s.count = r.count + 1
    BY <1>1, <1>7, WindowAssumption DEF RecordOutcome
  <2>2. p = r.count /\ \A i \in Slots : i >= r.count => r.buffer[i] = 0
    BY <1>1, <2>1, WindowAssumption DEF RingSound
  <2>3. (p + 1) % Window = p + 1
    BY <1>1, <2>1, <2>2, WindowAssumption
  <2>4. \A i \in Slots : i # p => s.buffer[i] = r.buffer[i]
    BY <1>1 DEF RecordOutcome, Stored
  <2> QED
    BY <1>1, <2>1, <2>2, <2>3, <2>4 DEF RecordOutcome, Slots
<1> QED
  BY <1>6, <1>7 DEF RingSound, RecordOutcome

-----------------------------------------------------------------------------
ThrottlesType == {ages \in Seq(0..ThrottleSpan) : Len(ages) \in 0..3}

(* A list of throttles as a function, whose length is a number n.          *)
LEMMA ThrottlesLen ==
  ASSUME NEW ages \in ThrottlesType
  PROVE  /\ ages \in Seq(0..ThrottleSpan) /\ Len(ages) \in 0..3
         /\ DOMAIN ages = 1..Len(ages)
         /\ \A i \in 1..Len(ages) : ages[i] \in 0..ThrottleSpan
<1>1. ages \in Seq(0..ThrottleSpan) /\ Len(ages) \in 0..3
  BY DEF ThrottlesType
<1> QED
  BY <1>1, LenProperties, ElementOfSeq

(* What the filter leaves of a list of throttles: no longer than the list, *)
(* in the same order, and empty if every throttle has expired.             *)
LEMMA UnexpiredSound ==
  ASSUME NEW ages \in ThrottlesType, OldestFirst(ages)
  PROVE /\ Unexpired(ages) \in ThrottlesType
        /\ Len(Unexpired(ages)) <= Len(ages)
        /\ OldestFirst(Unexpired(ages))
        /\ (\A i \in 1..Len(ages) : ages[i] >= ThrottleSpan) => Len(Unexpired(ages)) = 0
<1> DEFINE n == Len(ages)
<1>1. /\ ages \in Seq(0..ThrottleSpan) /\ n \in 0..3 /\ DOMAIN ages = 1..n
      /\ \A i \in 1..n : ages[i] \in 0..ThrottleSpan
  BY ThrottlesLen
<1> HIDE DEF n
<1> DEFINE expired == {i \in 1..n : ages[i] >= ThrottleSpan}
           k == Cardinality(expired)
<1>2. IsFiniteSet(1..n) /\ Cardinality(1..n) = n
  <2>1. 1 \in Int /\ n \in Int /\ n >= 0
    BY <1>1
  <2> QED
    BY <2>1, FS_Interval
<1>3. k \in 0..n /\ (expired = 1..n => k = n)
  <2>1. expired \subseteq 1..n
    OBVIOUS
  <2>2. Cardinality(expired) <= Cardinality(1..n) /\ IsFiniteSet(expired)
    <3> HIDE DEF expired
    <3> QED
      BY <1>2, <2>1, FS_Subset
  <2>3. k \in Nat
    <3> HIDE DEF expired
    <3> QED
      BY <2>2, FS_CardinalityType
  <2> HIDE DEF expired
  <2> QED
    BY <1>1, <1>2, <2>2, <2>3
<1>4. Unexpired(ages) = SubSeq(ages, k + 1, n)
  BY <1>1 DEF Unexpired, n
<1>5. (\A i \in 1..n : ages[i] >= ThrottleSpan) => n - k = 0
  <2>1. ASSUME \A i \in 1..n : ages[i] >= ThrottleSpan PROVE expired = 1..n
    BY <2>1
  <2> HIDE DEF expired
  <2> QED
    BY <1>1, <1>3, <2>1
<1> HIDE DEF k, expired
<1> DEFINE rest == SubSeq(ages, k + 1, n)
           m == Len(rest)
<1>6. /\ rest \in Seq(0..ThrottleSpan) /\ m = n - k /\ DOMAIN rest = 1..m
      /\ \A i \in 1..m : rest[i] = ages[i + k]
  <2>1. \A i \in k + 1..n : ages[i] \in 0..ThrottleSpan
    BY <1>1, <1>3
  <2>2. k + 1 \in Int /\ n \in Int
    BY <1>1, <1>3
  <2>3. /\ rest \in Seq(0..ThrottleSpan)
        /\ m = IF k + 1 <= n THEN n - (k + 1) + 1 ELSE 0
        /\ \A i \in 1..n - (k + 1) + 1 : rest[i] = ages[k + 1 + i - 1]
    BY <2>1, <2>2, SubSeqProperties
  <2>4. m = n - k /\ m = n - (k + 1) + 1
    <3> HIDE DEF m
    <3> QED
      BY <1>1, <1>3, <2>3
  <2>5. DOMAIN rest = 1..m
    BY <2>3, LenProperties
  <2> HIDE DEF rest, m
  <2> QED
    BY <1>3, <2>3, <2>4, <2>5
<1> HIDE DEF m
<1>7. m \in 0..3 /\ m <= n
  BY <1>1, <1>3, <1>6
<1>8. OldestFirst(rest)
  <2>1. \A i, j \in 1..m : i <= j => i + k \in 1..n /\ j + k \in 1..n /\ i + k <= j + k
    BY <1>1, <1>3, <1>6
  <2> HIDE DEF rest
  <2> QED
    BY <1>1, <1>6, <2>1 DEF OldestFirst
<1>9. rest \in ThrottlesType
  BY <1>6, <1>7 DEF ThrottlesType, m
<1> HIDE DEF rest
<1> QED
  BY <1>4, <1>5, <1>6, <1>7, <1>8, <1>9 DEF n, m, rest

\* the list with the new throttle, cut to the three newest
Pushed(young) ==
  LET all == Append(young, 0)
  IN  IF Len(all) > 3 THEN Tail(all) ELSE all

(* The list after a throttle: at most three, still the oldest first.       *)
LEMMA PushedSound ==
  ASSUME NEW young \in ThrottlesType, OldestFirst(young)
  PROVE Pushed(young) \in ThrottlesType /\ OldestFirst(Pushed(young))
<1> DEFINE all == Append(young, 0)
           n   == Len(young)
           l   == Len(all)
<1>1. ThrottleSpan \in Nat /\ 0 \in 0..ThrottleSpan
  BY CooldownAssumption
<1>2. /\ young \in Seq(0..ThrottleSpan) /\ n \in 0..3 /\ DOMAIN young = 1..n
      /\ \A i \in 1..n : young[i] \in 0..ThrottleSpan
  BY ThrottlesLen
<1>3. /\ all \in Seq(0..ThrottleSpan) /\ l = n + 1 /\ DOMAIN all = 1..l
      /\ \A i \in 1..n : all[i] = young[i]
      /\ all[n + 1] = 0 /\ all # <<>>
  BY <1>1, <1>2, AppendProperties, LenProperties
<1> HIDE DEF all, n, l
<1>4. l \in 1..4 /\ \A i \in 1..l : i \in 1..n \/ i = n + 1
  BY <1>2, <1>3
<1>5. \A i \in 1..l : all[i] \in 0..ThrottleSpan
  BY <1>1, <1>2, <1>3, <1>4
<1>6. OldestFirst(all)
  BY <1>1, <1>2, <1>3, <1>4, <1>5 DEF OldestFirst
<1>7. CASE l > 3
  <2> DEFINE t == Tail(all)
             k == Len(t)
  <2>1. /\ t \in Seq(0..ThrottleSpan) /\ k = l - 1
        /\ \A i \in 1..k : t[i] = all[i + 1]
    BY <1>3, HeadTailProperties DEF l
  <2>2. DOMAIN t = 1..k
    BY <2>1, LenProperties
  <2> HIDE DEF t, k
  <2>3. k = 3 /\ \A i \in 1..k : i + 1 \in 1..l
    BY <1>4, <1>7, <2>1
  <2>4. OldestFirst(t)
    BY <1>3, <1>6, <2>1, <2>2, <2>3 DEF OldestFirst
  <2>5. k \in 0..3
    BY <2>3
  <2>6. t \in ThrottlesType
    BY <2>1, <2>5 DEF ThrottlesType, k
  <2>7. Pushed(young) = t
    BY <1>7 DEF Pushed, all, t, l
  <2> QED
    BY <2>4, <2>6, <2>7
<1>8. CASE ~(l > 3)
  <2>1. l \in 0..3
    BY <1>4, <1>8
  <2>2. all \in ThrottlesType
    BY <1>3, <2>1 DEF ThrottlesType, l
  <2>3. Pushed(young) = all
    BY <1>8 DEF Pushed, all, l
  <2> QED
    BY <1>6, <2>2, <2>3
<1> QED
  BY <1>7, <1>8

-----------------------------------------------------------------------------
(* The record, field by field.                                             *)
LEMMA BreakerFields ==
  ASSUME NEW b \in BreakerType
  PROVE  /\ b.state \in States /\ b.ring \in RingType /\ b.denied \in 0..3
         /\ b.throttles \in ThrottlesType
         /\ b.tripCount \in 0..BackoffCap + 1
         /\ b.sinceTrip \in 0..LongestCooldown /\ b.cooldown \in 0..LongestCooldown
         /\ b.quarantined \in BOOLEAN /\ b.probe \in BOOLEAN
         /\ b.concurrency \in MinConcurrency..InitialConcurrency
BY DEF BreakerType, ThrottlesType

(* The backoff of a trip lies between the base and the longest cooldown.   *)
LEMMA CooldownRange ==
  ASSUME NEW n \in 0..BackoffCap, NEW jitter \in Jitters
  PROVE  BaseCooldown * 2^n + jitter \in BaseCooldown..LongestCooldown
<1> DEFINE f == 2^n
           top == 2^BackoffCap
<1>1. f \in 1..top /\ top \in 1..top
  BY BackoffAssumption, CooldownAssumption
<1>2. BaseCooldown \in Nat /\ MaxJitter \in Nat /\ jitter \in 0..MaxJitter
  BY CooldownAssumption DEF Jitters
<1>3. LongestCooldown = BaseCooldown * top + MaxJitter
  BY DEF LongestCooldown
<1> HIDE DEF f, top
<1>4. f \in Nat /\ top \in Nat /\ 1 <= f /\ f <= top
  BY <1>1
<1>5. BaseCooldown <= BaseCooldown * f /\ BaseCooldown * f <= BaseCooldown * top
  <2>1. \A a, x, y \in Nat : x <= y => a * x <= a * y
    OBVIOUS
  <2>2. BaseCooldown * 1 = BaseCooldown
    BY <1>2
  <2> QED
    BY <1>2, <1>4, <2>1, <2>2
<1>6. BaseCooldown * f \in Nat /\ BaseCooldown * top \in Nat
  BY <1>2, <1>4
<1> DEFINE x == BaseCooldown * f
           y == BaseCooldown * top
<1>7. x \in Nat /\ y \in Nat /\ BaseCooldown <= x /\ x <= y /\ LongestCooldown = y + MaxJitter
  BY <1>3, <1>5, <1>6
<1>8. x + jitter \in BaseCooldown..LongestCooldown
  <2> HIDE DEF x, y
  <2> QED
    BY <1>2, <1>7
<1> QED
  BY <1>8 DEF f

(* The longest cooldown is a number, and no shorter than the base.         *)
LEMMA LongestCooldownNat == LongestCooldown \in Nat /\ BaseCooldown \in 0..LongestCooldown
<1>1. 0 \in Jitters /\ 0 \in 0..BackoffCap
  BY CooldownAssumption DEF Jitters
<1>2. BaseCooldown * 2^0 + 0 \in BaseCooldown..LongestCooldown
  BY <1>1, CooldownRange
<1>3. LongestCooldown \in Int
  <2>1. 2^BackoffCap \in Int
    BY BackoffAssumption, CooldownAssumption
  <2> QED
    BY <2>1, CooldownAssumption DEF LongestCooldown
<1> QED
  BY <1>2, <1>3, CooldownAssumption

(* Waiting one more unit keeps the order of two ages.                      *)
LEMMA AgesInOrder ==
  ASSUME NEW x \in Nat, NEW y \in Nat, NEW m \in Nat, NEW l \in Nat
  PROVE  /\ AtMost(m, x + 1) \in 0..m
         /\ x >= y => AtMost(m, x + 1) >= AtMost(m, y + 1)
         /\ x <= m /\ x >= AtMost(m, y) => AtMost(m, x + 1) >= AtMost(m, AtMost(l, y + 1))
BY DEF AtMost

(* A new breaker, and one that was reset.                                  *)
LEMMA NewBreakerSound == BreakerSound(NewBreaker)
<1>1. LongestCooldown \in Nat
  BY LongestCooldownNat
<1>2. <<>> \in ThrottlesType /\ OldestFirst(<<>>) /\ Len(<<>>) # 3
  BY EmptySeq DEF ThrottlesType, OldestFirst
<1>3. NewBreaker \in BreakerType
  BY <1>1, <1>2, EmptyRingSound, CooldownAssumption, ConcurrencyOptions
  DEF NewBreaker, BreakerType, ThrottlesType, States, RingSound
<1> QED
  BY <1>2, <1>3, EmptyRingSound DEF NewBreaker, BreakerSound, BreakerTyped, BurstTripped,
     CooldownWaited, CliffTripped

(* A trip makes any typed record sound: whatever it has counted, it is     *)
(* OPEN and the wait begins.                                               *)
LEMMA TripSound ==
  ASSUME NEW b, BreakerTyped(b), NEW jitter \in Jitters
  PROVE  BreakerSound(Trip(b, jitter))
<1> DEFINE t == Trip(b, jitter)
           n == AtMost(BackoffCap + 1, b.tripCount + 1)
<1>1. b \in BreakerType /\ b.tripCount \in 0..BackoffCap + 1
  BY BreakerFields DEF BreakerTyped
<1>2. n \in 1..BackoffCap + 1 /\ AtMost(n - 1, BackoffCap) \in 0..BackoffCap
  BY <1>1, CooldownAssumption DEF AtMost
<1>3. BaseCooldown * 2^AtMost(n - 1, BackoffCap) + jitter \in BaseCooldown..LongestCooldown
  BY <1>2, CooldownRange
<1> HIDE DEF n
<1> DEFINE c == BaseCooldown * 2^AtMost(n - 1, BackoffCap) + jitter
<1>4. t = [b EXCEPT !.state = "OPEN", !.tripCount = n, !.sinceTrip = 0,
                    !.probe = FALSE, !.cooldown = c]
  BY DEF Trip, n
<1> HIDE DEF t, c
<1>5. c \in 0..LongestCooldown /\ 0 \in 0..LongestCooldown /\ c >= BaseCooldown
  <2>1. c \in BaseCooldown..LongestCooldown
    BY <1>3 DEF c
  <2> QED
    BY <2>1, LongestCooldownNat
<1>6. t \in BreakerType
  <2>1. n \in 0..BackoffCap + 1
    BY <1>2, CooldownAssumption
  <2> QED
    BY <1>1, <1>4, <1>5, <2>1 DEF BreakerType, States
<1>7. /\ t.state = "OPEN" /\ t.tripCount = n /\ t.sinceTrip = 0 /\ t.cooldown = c
      /\ t.throttles = b.throttles /\ t.ring = b.ring
  BY <1>1, <1>4 DEF BreakerType
<1>8. BurstTripped(t)
  <2>1. ASSUME Len(b.throttles) = 3
        PROVE  \A i \in 1..3 : b.throttles[i] >= AtMost(ThrottleSpan, 0)
    <3>1. \A i \in 1..3 : b.throttles[i] \in 0..ThrottleSpan
      BY <1>1, <2>1, BreakerFields, ThrottlesLen
    <3> QED
      BY <3>1, CooldownAssumption DEF AtMost
  <2>2. n > 0
    BY <1>2
  <2> QED
    BY <1>7, <2>1, <2>2 DEF BurstTripped
<1> QED
  BY <1>5, <1>6, <1>7, <1>8
  DEF BreakerSound, BreakerTyped, CooldownWaited, CliffTripped, t

(* Looking, asking and the passing of time.                                *)
LEMMA RefreshSound ==
  ASSUME NEW b, BreakerSound(b)
  PROVE  BreakerSound(Refresh(b)) /\ BreakerSound(Asked(b))
<1>1. b \in BreakerType
  BY DEF BreakerSound, BreakerTyped
<1>2. ASSUME NEW c, c = [b EXCEPT !.state = "HALF_OPEN", !.probe = FALSE],
             b.sinceTrip >= b.cooldown
      PROVE  BreakerSound(c)
  BY <1>1, <1>2
  DEF BreakerSound, BreakerTyped, BurstTripped, CooldownWaited, CliffTripped, BreakerType, States
<1>3. ASSUME NEW c, BreakerSound(c) PROVE BreakerSound([c EXCEPT !.probe = TRUE])
  BY <1>3
  DEF BreakerSound, BreakerTyped, BurstTripped, CooldownWaited, CliffTripped, BreakerType
<1>4. BreakerSound(Refresh(b))
  BY <1>2 DEF Refresh
<1> QED
  BY <1>3, <1>4 DEF Asked

(* Time keeps a breaker sound.                                             *)
LEMMA AgedSound ==
  ASSUME NEW b, BreakerSound(b)
  PROVE  BreakerSound(Aged(b))
<1> DEFINE a == Aged(b)
           ages == [i \in DOMAIN b.throttles |-> AtMost(ThrottleSpan, b.throttles[i] + 1)]
           since == AtMost(b.cooldown, b.sinceTrip + 1)
           n == Len(b.throttles)
<1>1. /\ b \in BreakerType /\ b.throttles \in ThrottlesType
      /\ b.sinceTrip \in 0..LongestCooldown /\ b.cooldown \in 0..LongestCooldown
  BY BreakerFields DEF BreakerSound, BreakerTyped
<1>2. /\ b.throttles \in Seq(0..ThrottleSpan) /\ n \in 0..3 /\ DOMAIN b.throttles = 1..n
      /\ \A i \in 1..n : b.throttles[i] \in 0..ThrottleSpan
  BY <1>1, ThrottlesLen
<1> HIDE DEF n
<1>12. \A i \in 1..n : b.throttles[i] \in Nat /\ b.throttles[i] <= ThrottleSpan
  BY <1>2, CooldownAssumption
<1>3. a = [b EXCEPT !.sinceTrip = since, !.throttles = ages]
  BY <1>1 DEF Aged, BreakerType
<1>4. /\ ages \in Seq(0..ThrottleSpan) /\ Len(ages) = n /\ DOMAIN ages = 1..n
      /\ \A i \in 1..n : ages[i] = AtMost(ThrottleSpan, b.throttles[i] + 1)
  <2>1. ages = [i \in 1..n |-> AtMost(ThrottleSpan, b.throttles[i] + 1)]
    BY <1>2
  <2>2. \A i \in 1..n : AtMost(ThrottleSpan, b.throttles[i] + 1) \in 0..ThrottleSpan
    BY <1>2, CooldownAssumption DEF AtMost
  <2>3. ages \in [1..n -> 0..ThrottleSpan]
    <3> HIDE DEF ages
    <3> QED
      BY <2>1, <2>2
  <2>4. ages \in Seq(0..ThrottleSpan)
    <3>1. n \in Nat
      BY <1>2
    <3> HIDE DEF ages
    <3> QED
      BY <2>3, <3>1, SeqDef, Zenon
  <2>5. DOMAIN ages = 1..n /\ DOMAIN ages = 1..Len(ages) /\ Len(ages) \in Nat
    <3> HIDE DEF ages
    <3> QED
      BY <2>3, <2>4, LenProperties
  <2>6. Len(ages) = n
    <3> DEFINE l == Len(ages)
    <3>1. 1..l = 1..n /\ l \in Nat
      BY <2>5
    <3> HIDE DEF l
    <3>2. l = n
      BY <1>2, <3>1
    <3> QED
      BY <3>2 DEF l
  <2> QED
    BY <2>1, <2>4, <2>5, <2>6
<1> HIDE DEF ages
<1>5. since \in 0..LongestCooldown /\ (b.sinceTrip >= b.cooldown => since >= b.cooldown)
  BY <1>1, LongestCooldownNat DEF AtMost
<1>6. ages \in ThrottlesType
  BY <1>2, <1>4 DEF ThrottlesType
<1>7. OldestFirst(ages)
  <2>1. OldestFirst(b.throttles)
    BY DEF BreakerSound, BreakerTyped
  <2> QED
    <3>1. SUFFICES ASSUME NEW i \in 1..n, NEW j \in 1..n, i <= j
                   PROVE  ages[i] >= ages[j]
      BY <1>4 DEF OldestFirst
    <3>2. b.throttles[i] >= b.throttles[j]
      BY <1>2, <2>1, <3>1 DEF OldestFirst
    <3>3. ages[i] = AtMost(ThrottleSpan, b.throttles[i] + 1)
      BY <1>4, <3>1
    <3>4. ages[j] = AtMost(ThrottleSpan, b.throttles[j] + 1)
      BY <1>4, <3>1
    <3> QED
      BY <1>12, <3>1, <3>2, <3>3, <3>4, AgesInOrder, CooldownAssumption
<1>8. a \in BreakerType
  BY <1>1, <1>3, <1>5, <1>6 DEF BreakerType, ThrottlesType
<1>9. /\ a.sinceTrip = since /\ a.throttles = ages /\ a.state = b.state
      /\ a.tripCount = b.tripCount /\ a.cooldown = b.cooldown /\ a.denied = b.denied
      /\ a.ring = b.ring
  BY <1>1, <1>3 DEF BreakerType
<1>10. BurstTripped(a)
  <2>1. ASSUME n = 3
        PROVE  b.tripCount > 0 /\ \A i \in 1..3 : ages[i] >= AtMost(ThrottleSpan, since)
    <3>1. b.tripCount > 0 /\ \A i \in 1..3 : b.throttles[i] >= AtMost(ThrottleSpan, b.sinceTrip)
      BY <2>1 DEF BreakerSound, BurstTripped, n
    <3>2. ASSUME NEW i \in 1..3 PROVE ages[i] >= AtMost(ThrottleSpan, since)
      <4>1. /\ b.throttles[i] \in Nat /\ b.throttles[i] <= ThrottleSpan
            /\ b.throttles[i] >= AtMost(ThrottleSpan, b.sinceTrip)
            /\ ages[i] = AtMost(ThrottleSpan, b.throttles[i] + 1)
        <5>1. i \in 1..n
          BY <2>1
        <5> QED
          BY <1>12, <1>4, <3>1, <5>1
      <4>2. ThrottleSpan \in Nat /\ b.sinceTrip \in Nat /\ b.cooldown \in Nat
        BY <1>1, CooldownAssumption, LongestCooldownNat
      <4> QED
        BY <4>1, <4>2, AgesInOrder
    <3> QED
      BY <3>1, <3>2
  <2> QED
    BY <1>4, <1>9, <2>1 DEF BurstTripped
<1> HIDE DEF a
<1> QED
  BY <1>5, <1>7, <1>8, <1>9, <1>10
  DEF BreakerSound, BreakerTyped, CooldownWaited, CliffTripped, a

-----------------------------------------------------------------------------
(* What soundness depends on: a record that differs in nothing else, and   *)
(* that only left HALF_OPEN with its 403s forgotten, is sound as well.     *)
LEMMA SoundKept ==
  ASSUME NEW b, BreakerSound(b), NEW c, c \in BreakerType, RingSound(c.ring),
         c.throttles = b.throttles, c.tripCount = b.tripCount,
         c.sinceTrip = b.sinceTrip, c.cooldown = b.cooldown,
         \/ c.state = b.state /\ c.denied \in {0, b.denied}
         \/ b.state = "HALF_OPEN" /\ c.state = "CLOSED" /\ c.denied = 0
  PROVE  BreakerSound(c)
<1>1. BreakerTyped(c)
  BY DEF BreakerSound, BreakerTyped
<1>2. BurstTripped(c)
  BY DEF BreakerSound, BurstTripped
<1>3. CooldownWaited(c)
  BY DEF BreakerSound, CooldownWaited
<1>4. CliffTripped(c)
  BY DEF BreakerSound, CliffTripped
<1> QED
  BY <1>1, <1>2, <1>3, <1>4 DEF BreakerSound

(* So does forgetting the 403s, a quarantine, or another sound ring.       *)
LEMMA SetFields ==
  ASSUME NEW b, BreakerSound(b)
  PROVE  /\ BreakerSound([b EXCEPT !.denied = 0])
         /\ BreakerSound([b EXCEPT !.quarantined = TRUE])
         /\ \A r : RingSound(r) => BreakerSound([b EXCEPT !.ring = r])
<1>1. b \in BreakerType /\ RingSound(b.ring)
  BY DEF BreakerSound, BreakerTyped
<1>2. ASSUME NEW c, c = [b EXCEPT !.denied = 0] \/ c = [b EXCEPT !.quarantined = TRUE]
      PROVE  BreakerSound(c)
  <2>1. 0 \in 0..3 /\ TRUE \in BOOLEAN
    OBVIOUS
  <2>2. c \in BreakerType
    BY <1>1, <1>2, <2>1 DEF BreakerType
  <2>3. /\ c.ring = b.ring /\ c.throttles = b.throttles
        /\ c.tripCount = b.tripCount /\ c.sinceTrip = b.sinceTrip
        /\ c.cooldown = b.cooldown /\ c.state = b.state /\ c.denied \in {0, b.denied}
    BY <1>1, <1>2 DEF BreakerType
  <2> QED
    BY <1>1, <2>2, <2>3, SoundKept
<1>3. ASSUME NEW r, RingSound(r), NEW c, c = [b EXCEPT !.ring = r]
      PROVE  BreakerSound(c)
  <2>1. /\ c \in BreakerType /\ c.ring = r /\ c.throttles = b.throttles
        /\ c.tripCount = b.tripCount /\ c.sinceTrip = b.sinceTrip
        /\ c.cooldown = b.cooldown /\ c.state = b.state /\ c.denied = b.denied
    BY <1>1, <1>3 DEF BreakerType, RingSound
  <2> QED
    BY <1>3, <2>1, SoundKept
<1> QED
  BY <1>2, <1>3

(* A success, whatever the state it arrives in.                            *)
LEMMA SucceededSound ==
  ASSUME NEW b, BreakerSound(b)
  PROVE  BreakerSound(Succeeded(b))
<1> DEFINE r == RecordOutcome(b.ring, 0)
           k == AtMost(InitialConcurrency, b.concurrency + 1)
           s == Succeeded(b)
<1>1. /\ b \in BreakerType /\ RingSound(b.ring)
      /\ b.concurrency \in MinConcurrency..InitialConcurrency
  BY BreakerFields DEF BreakerSound, BreakerTyped
<1>2. /\ k \in MinConcurrency..InitialConcurrency
      /\ InitialConcurrency \in MinConcurrency..InitialConcurrency
  BY <1>1, ConcurrencyOptions DEF AtMost
<1>3. RingSound(r) /\ r \in RingType
  BY <1>1, RecordOutcomeSound DEF RingSound
<1>4. s = IF b.state = "HALF_OPEN"
          THEN [b EXCEPT !.denied = 0, !.ring = r, !.concurrency = InitialConcurrency,
                         !.state = "CLOSED", !.probe = FALSE]
          ELSE [b EXCEPT !.denied = 0, !.ring = r, !.concurrency = k]
  BY <1>1 DEF Succeeded, BreakerType
<1> HIDE DEF r, k, s
<1>5. /\ s.ring = r /\ s.throttles = b.throttles
      /\ s.tripCount = b.tripCount /\ s.sinceTrip = b.sinceTrip
      /\ s.cooldown = b.cooldown /\ s.denied = 0
      /\ s.state = b.state \/ (b.state = "HALF_OPEN" /\ s.state = "CLOSED")
  BY <1>1, <1>4 DEF BreakerType
<1>6. s \in BreakerType
  <2>1. 0 \in 0..3 /\ FALSE \in BOOLEAN /\ "CLOSED" \in States
    BY DEF States
  <2>2. CASE b.state = "HALF_OPEN"
    BY <1>1, <1>2, <1>3, <1>4, <2>1, <2>2 DEF BreakerType
  <2>3. CASE b.state # "HALF_OPEN"
    BY <1>1, <1>2, <1>3, <1>4, <2>1, <2>3 DEF BreakerType
  <2> QED
    BY <2>2, <2>3
<1>7. BreakerSound(s)
  BY <1>3, <1>5, <1>6, SoundKept
<1> QED
  BY <1>7 DEF s

\* what counting an error does before the record is judged: only these
\* fields change
CountedFrom(c, b) ==
  /\ BreakerTyped(c)
  /\ c.state = b.state /\ c.tripCount = b.tripCount /\ c.probe = b.probe
  /\ c.sinceTrip = b.sinceTrip /\ c.cooldown = b.cooldown /\ c.ring = b.ring

(* Counting a 403 changes its counter only.                                *)
LEMMA DeniedCounted ==
  ASSUME NEW b, BreakerTyped(b)
  PROVE  /\ CountedFrom(Denied(b), b)
         /\ Denied(b).denied = AtMost(3, b.denied + 1)
         /\ Denied(b).throttles = b.throttles
<1>1. b \in BreakerType /\ AtMost(3, b.denied + 1) \in 0..3
  BY BreakerFields DEF BreakerTyped, AtMost
<1> QED
  BY <1>1 DEF CountedFrom, Denied, BreakerTyped, BreakerType

(* Counting a throttle changes the list and the concurrency only.          *)
LEMMA ThrottledCounted ==
  ASSUME NEW b, BreakerTyped(b)
  PROVE  /\ CountedFrom(Throttled(b), b)
         /\ Throttled(b).denied = b.denied
         /\ Throttled(b).throttles = Pushed(Unexpired(b.throttles))
<1>1. b \in BreakerType /\ b.concurrency \in MinConcurrency..InitialConcurrency
  BY BreakerFields DEF BreakerTyped
<1>2. AtLeast(MinConcurrency, b.concurrency \div 2) \in MinConcurrency..InitialConcurrency
  BY <1>1, ConcurrencyOptions DEF AtLeast
<1> DEFINE k == AtLeast(MinConcurrency, b.concurrency \div 2)
           q == Pushed(Unexpired(b.throttles))
<1>3. q \in ThrottlesType /\ OldestFirst(q)
  BY <1>1, BreakerFields, UnexpiredSound, PushedSound DEF BreakerTyped
<1>4. Throttled(b) = [b EXCEPT !.concurrency = k, !.throttles = q]
  BY <1>1 DEF Throttled, Halved, BreakerType, Pushed
<1> HIDE DEF k, q
<1>5. k \in MinConcurrency..InitialConcurrency
  BY <1>2 DEF k
<1>6. [b EXCEPT !.concurrency = k, !.throttles = q] \in BreakerType
  BY <1>1, <1>3, <1>5 DEF BreakerType, ThrottlesType
<1> QED
  BY <1>1, <1>3, <1>4, <1>6 DEF CountedFrom, BreakerTyped, BreakerType, q

(* An error has been counted and no trip of its own is due: the record is  *)
(* sound as it is.                                                         *)
LEMMA CountedSound ==
  ASSUME NEW b, BreakerSound(b), NEW c, CountedFrom(c, b),
         c.denied = 3 => c.denied = b.denied,
         Len(c.throttles) = 3 => c.throttles = b.throttles
  PROVE  BreakerSound(c)
BY DEF BreakerSound, BurstTripped, CooldownWaited, CliffTripped, CountedFrom

\* a record with its 403s and its throttles counted, and neither trip due
LEMMA UntrippedSound ==
  ASSUME NEW b, BreakerSound(b), NEW d, NEW classes,
         \/ "denied" \in classes /\ d = Denied(b)
         \/ "denied" \notin classes /\ d = b
         \/ "denied" \notin classes /\ d = [b EXCEPT !.denied = 0],
         ~HardTrip(d, classes),
         NEW t, t = CountedThrottle(d, classes), ~BurstTrip(t, classes)
  PROVE  BreakerSound(t) /\ CountedFrom(t, b)
<1>1. b \in BreakerType /\ BreakerTyped(b)
  BY DEF BreakerSound, BreakerTyped
<1>2. CountedFrom(d, b) /\ d.throttles = b.throttles
  <2>1. CASE d = Denied(b)
    BY <1>1, <2>1, DeniedCounted
  <2>2. CASE d = b
    BY <1>1, <2>2 DEF CountedFrom
  <2>3. CASE d = [b EXCEPT !.denied = 0]
    <3>1. BreakerTyped(d)
      BY <2>3, SetFields DEF BreakerSound
    <3> QED
      BY <1>1, <2>3, <3>1 DEF CountedFrom, BreakerType
  <2> QED
    BY <2>1, <2>2, <2>3
<1>3. d.denied = 3 => d.denied = b.denied
  BY <1>1, DeniedCounted DEF HardTrip, BreakerType
<1>4. CASE "throttle" \in classes
  <2>1. t = Throttled(d)
    BY <1>4 DEF CountedThrottle
  <2>2. CountedFrom(t, d) /\ t.denied = d.denied
    BY <1>2, <2>1, ThrottledCounted DEF CountedFrom
  <2>3. CountedFrom(t, b)
    BY <1>2, <2>2 DEF CountedFrom
  <2>4. Len(t.throttles) # 3
    BY <1>4 DEF BurstTrip
  <2> QED
    BY <1>3, <2>2, <2>3, <2>4, CountedSound
<1>5. CASE "throttle" \notin classes
  <2>1. t = d
    BY <1>5 DEF CountedThrottle
  <2> QED
    BY <1>2, <1>3, <2>1, CountedSound
<1> QED
  BY <1>4, <1>5

(* The checks that end both methods.                                       *)
LEMMA JudgedSound ==
  ASSUME NEW b, BreakerSound(b), NEW jitter \in Jitters
  PROVE  BreakerSound(Judged(b, jitter))
BY TripSound DEF Judged, BreakerSound

(* recordError.                                                            *)
LEMMA FailedSound ==
  ASSUME NEW b, BreakerSound(b), NEW classes, NEW jitter \in Jitters
  PROVE  BreakerSound(Failed(b, classes, jitter))
<1> DEFINE d == IF "denied" \in classes THEN Denied(b) ELSE b
           t == CountedThrottle(d, classes)
<1>1. BreakerTyped(b)
  BY DEF BreakerSound
<1>2. CASE "integrity" \in classes
  BY <1>2, SetFields, TripSound DEF Failed, BreakerSound
<1>3. BreakerTyped(d)
  BY <1>1, DeniedCounted DEF CountedFrom
<1>4. BreakerTyped(t)
  <2> HIDE DEF d
  <2> QED
    BY <1>3, ThrottledCounted DEF CountedFrom, CountedThrottle
<1>5. CASE "integrity" \notin classes /\ HardTrip(d, classes)
  BY <1>3, <1>5, TripSound DEF Failed
<1>6. CASE "integrity" \notin classes /\ ~HardTrip(d, classes) /\ BurstTrip(t, classes)
  BY <1>4, <1>6, TripSound DEF Failed
<1>7. CASE "integrity" \notin classes /\ ~HardTrip(d, classes) /\ ~BurstTrip(t, classes)
  <2>1. Failed(b, classes, jitter) =
          Judged([t EXCEPT !.ring = RecordOutcome(t.ring, Scale)], jitter)
    <3>1. [t EXCEPT !.ring = RecordOutcome(t.ring, Scale)]
            = [t EXCEPT !.ring = RecordOutcome(@, Scale)]
      BY <1>4 DEF BreakerTyped, BreakerType
    <3> QED
      BY <1>7, <3>1 DEF Failed
  <2>2. BreakerSound(t)
    <3>1. \/ "denied" \in classes /\ d = Denied(b)
          \/ "denied" \notin classes /\ d = b
      OBVIOUS
    <3> HIDE DEF d
    <3> QED
      BY <1>7, <3>1, UntrippedSound
  <2>3. RingSound(RecordOutcome(t.ring, Scale))
    <3>1. RingSound(t.ring) /\ Scale \in Int
      BY <1>4, ScaleAssumption DEF BreakerTyped
    <3> QED
      BY <3>1, RecordOutcomeSound
  <2> HIDE DEF t
  <2> QED
    BY <2>1, <2>2, <2>3, SetFields, JudgedSound
<1> QED
  BY <1>2, <1>5, <1>6, <1>7

(* The share of a batch that failed is a number.                           *)
LEMMA BatchRatioInt ==
  ASSUME NEW total \in Nat, NEW errorCount \in Nat
  PROVE  BatchRatio(total, errorCount) \in Int
<1>1. AtLeast(total, errorCount) \in Nat /\ Scale * errorCount \in Nat
  BY ScaleAssumption DEF AtLeast
<1> QED
  BY <1>1 DEF BatchRatio

(* recordBatchResult.                                                      *)
LEMMA BatchDoneSound ==
  ASSUME NEW b, BreakerSound(b), NEW total \in Nat, NEW errorCount \in Nat,
         NEW classes, NEW jitter \in Jitters
  PROVE  BreakerSound(BatchDone(b, total, errorCount, classes, jitter))
<1> DEFINE seen == [b EXCEPT !.ring = RecordOutcome(b.ring, BatchRatio(total, errorCount))]
           d == IF "denied" \in classes THEN Denied(seen) ELSE [seen EXCEPT !.denied = 0]
           t == CountedThrottle(d, classes)
<1>1. BreakerSound(seen)
  <2>1. RingSound(RecordOutcome(b.ring, BatchRatio(total, errorCount)))
    BY BatchRatioInt, RecordOutcomeSound DEF BreakerSound, BreakerTyped
  <2> QED
    BY <2>1, SetFields
<1>2. seen = [b EXCEPT !.ring = RecordOutcome(@, BatchRatio(total, errorCount))]
  BY DEF BreakerSound, BreakerTyped, BreakerType
<1>3. BatchDone(b, total, errorCount, classes, jitter) =
        IF errorCount = 0 THEN Succeeded(seen)
        ELSE IF "integrity" \in classes
             THEN Trip([seen EXCEPT !.quarantined = TRUE], jitter)
        ELSE IF HardTrip(d, classes) THEN Trip(d, jitter)
        ELSE IF BurstTrip(t, classes) THEN Trip(t, jitter)
        ELSE Judged(t, jitter)
  BY <1>2 DEF BatchDone
<1> HIDE DEF seen
<1>4. BreakerTyped(d)
  BY <1>1, DeniedCounted, SetFields DEF CountedFrom, BreakerSound
<1>5. BreakerTyped(t)
  <2> HIDE DEF d
  <2> QED
    BY <1>4, ThrottledCounted DEF CountedFrom, CountedThrottle
<1>6. ~HardTrip(d, classes) /\ ~BurstTrip(t, classes) => BreakerSound(t)
  <2>1. \/ "denied" \in classes /\ d = Denied(seen)
        \/ "denied" \notin classes /\ d = [seen EXCEPT !.denied = 0]
    OBVIOUS
  <2> HIDE DEF d
  <2> QED
    BY <1>1, <2>1, UntrippedSound
<1>7. BreakerSound(Succeeded(seen))
  BY <1>1, SucceededSound
<1>8. BreakerSound(Trip([seen EXCEPT !.quarantined = TRUE], jitter))
  BY <1>1, SetFields, TripSound DEF BreakerSound
<1> HIDE DEF d, t
<1>9. BreakerSound(Trip(d, jitter)) /\ BreakerSound(Trip(t, jitter))
  BY <1>4, <1>5, TripSound
<1>10. ~HardTrip(d, classes) /\ ~BurstTrip(t, classes) => BreakerSound(Judged(t, jitter))
  BY <1>6, JudgedSound
<1> QED
  BY <1>3, <1>7, <1>8, <1>9, <1>10

(* A trip lasts: asked at once, the breaker is still OPEN.                 *)
LEMMA TripLasts ==
  ASSUME NEW b, BreakerTyped(b), NEW jitter \in Jitters
  PROVE  Trip(b, jitter).state = "OPEN" /\ Refresh(Trip(b, jitter)) = Trip(b, jitter)
<1> DEFINE t == Trip(b, jitter)
           n == AtMost(BackoffCap + 1, b.tripCount + 1)
<1>1. b \in BreakerType /\ b.tripCount \in 0..BackoffCap + 1
  BY BreakerFields DEF BreakerTyped
<1>2. AtMost(n - 1, BackoffCap) \in 0..BackoffCap
  BY <1>1, CooldownAssumption DEF AtMost
<1>3. BaseCooldown * 2^AtMost(n - 1, BackoffCap) + jitter \in BaseCooldown..LongestCooldown
  BY <1>2, CooldownRange
<1> HIDE DEF n
<1> DEFINE c == BaseCooldown * 2^AtMost(n - 1, BackoffCap) + jitter
<1>4. t = [b EXCEPT !.state = "OPEN", !.tripCount = n, !.sinceTrip = 0,
                    !.probe = FALSE, !.cooldown = c]
  BY DEF Trip, n
<1>5. c \in BaseCooldown..LongestCooldown
  BY <1>3
<1> HIDE DEF t, c
<1>6. t.state = "OPEN" /\ t.sinceTrip = 0 /\ t.cooldown = c
  BY <1>1, <1>4 DEF BreakerType
<1>7. ~(0 >= c)
  BY <1>5, LongestCooldownNat, CooldownAssumption
<1> QED
  BY <1>6, <1>7 DEF Refresh, t

(* A breaker that lets a request through is not OPEN when it is sent.      *)
LEMMA AskedNotOpen ==
  ASSUME NEW b, b \in BreakerType, MayExecute(b)
  PROVE  Asked(b).state # "OPEN"
<1>1. ASSUME NEW r, r = b \/ r = [b EXCEPT !.state = "HALF_OPEN", !.probe = FALSE]
      PROVE  [r EXCEPT !.probe = TRUE].state = r.state
  BY <1>1 DEF BreakerType
<1> QED
  BY <1>1 DEF MayExecute, Asked, Refresh

(* A breaker that recordBatchResult finds OPEN though it was not before    *)
(* has tripped in it, and getState() says so right after.                  *)
LEMMA BatchDoneOpens ==
  ASSUME NEW b, BreakerSound(b), b.state # "OPEN",
         NEW total \in Nat, NEW errorCount \in Nat, NEW classes, NEW jitter \in Jitters,
         NEW r, r = BatchDone(b, total, errorCount, classes, jitter), r.state = "OPEN"
  PROVE  Refresh(r).state = "OPEN"
<1> DEFINE seen == [b EXCEPT !.ring = RecordOutcome(b.ring, BatchRatio(total, errorCount))]
           d == IF "denied" \in classes THEN Denied(seen) ELSE [seen EXCEPT !.denied = 0]
           t == CountedThrottle(d, classes)
<1>1. BreakerSound(seen)
  <2>1. RingSound(RecordOutcome(b.ring, BatchRatio(total, errorCount)))
    BY BatchRatioInt, RecordOutcomeSound DEF BreakerSound, BreakerTyped
  <2> QED
    BY <2>1, SetFields
<1>2. b \in BreakerType /\ seen.state = b.state
  BY DEF BreakerSound, BreakerTyped, BreakerType
<1>3. seen = [b EXCEPT !.ring = RecordOutcome(@, BatchRatio(total, errorCount))]
  BY <1>2 DEF BreakerType
<1>4. r = IF errorCount = 0 THEN Succeeded(seen)
          ELSE IF "integrity" \in classes
               THEN Trip([seen EXCEPT !.quarantined = TRUE], jitter)
          ELSE IF HardTrip(d, classes) THEN Trip(d, jitter)
          ELSE IF BurstTrip(t, classes) THEN Trip(t, jitter)
          ELSE Judged(t, jitter)
  BY <1>3 DEF BatchDone
<1> HIDE DEF seen
<1>5. BreakerTyped(d)
  BY <1>1, DeniedCounted, SetFields DEF CountedFrom, BreakerSound
<1>6. d.state = b.state
  BY <1>1, <1>2, DeniedCounted DEF CountedFrom, BreakerSound, BreakerTyped, BreakerType
<1> HIDE DEF d
<1>7. BreakerTyped(t) /\ t.state = b.state
  BY <1>5, <1>6, ThrottledCounted DEF CountedFrom, CountedThrottle
<1>8. BreakerTyped([seen EXCEPT !.quarantined = TRUE])
  BY <1>1, SetFields DEF BreakerSound
<1>9. Succeeded(seen).state # "OPEN"
  BY <1>1, <1>2 DEF Succeeded, BreakerSound, BreakerTyped, BreakerType
<1> HIDE DEF t
<1>10. \/ r = Trip([seen EXCEPT !.quarantined = TRUE], jitter)
       \/ r = Trip(d, jitter)
       \/ r = Trip(t, jitter)
  BY <1>4, <1>7, <1>9 DEF Judged
<1> QED
  BY <1>5, <1>7, <1>8, <1>10, TripLasts
=============================================================================
