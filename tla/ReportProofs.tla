---------------------------- MODULE ReportProofs ----------------------------
(***************************************************************************)
(* Proofs about Discover, the report built of what it returns, and the       *)
(* Advisor's rules and the redo log's peak, for any names, directories and   *)
(* evidence.  What is sorted is sorted by rank, and what is accumulated is   *)
(* compared with its accumulation step by step.                             *)
(***************************************************************************)
EXTENDS Report, Analysis, FunctionTheorems, FiniteSetTheorems, SequenceTheorems, WellFoundedInduction, TLAPS

\* A strict order in which any two elements can be compared.
StrictOrder(S, before) ==
  /\ \A x \in S : <<x, x>> \notin before
  /\ \A x, y, z \in S : <<x, y>> \in before /\ <<y, z>> \in before => <<x, z>> \in before
  /\ \A x, y \in S : x # y => <<x, y>> \in before \/ <<y, x>> \in before

\* How many elements come before x.
RankOf(S, before, x) == Cardinality({y \in S : <<y, x>> \in before})

\* Of C elements each comes after 0 to C - 1 others.
LEMMA RankRange ==
  ASSUME NEW S, IsFiniteSet(S), NEW before, StrictOrder(S, before), NEW x \in S
  PROVE  /\ IsFiniteSet({y \in S : <<y, x>> \in before})
         /\ RankOf(S, before, x) \in 0..Cardinality(S) - 1
<1> DEFINE T == {y \in S : <<y, x>> \in before}
<1>1. IsFiniteSet(S \ {x}) /\ Cardinality(S \ {x}) = Cardinality(S) - 1
  BY FS_RemoveElement
<1>2. T \in SUBSET (S \ {x})
  BY DEF StrictOrder
<1>3. Cardinality(S) \in Nat /\ Cardinality(S \ {x}) \in Nat
  BY <1>1, FS_CardinalityType
<1> HIDE DEF T
<1>4. IsFiniteSet(T) /\ Cardinality(T) <= Cardinality(S \ {x})
  BY <1>1, <1>2, FS_Subset
<1>5. Cardinality(T) \in Nat
  BY <1>4, FS_CardinalityType
<1>6. IsFiniteSet(T) /\ Cardinality(T) \in 0..Cardinality(S) - 1
  BY <1>1, <1>3, <1>4, <1>5
<1> QED
  BY <1>6 DEF T, RankOf

\* An element that comes later has more before it.
LEMMA RankGrows ==
  ASSUME NEW S, IsFiniteSet(S), NEW before, StrictOrder(S, before),
         NEW x \in S, NEW y \in S, <<x, y>> \in before
  PROVE  RankOf(S, before, x) < RankOf(S, before, y)
<1> DEFINE X == {z \in S : <<z, x>> \in before}
           Y == {z \in S : <<z, y>> \in before}
<1>1. x \notin X /\ X \cup {x} \in SUBSET Y
  BY DEF StrictOrder
<1>2. IsFiniteSet(X) /\ IsFiniteSet(Y)
  BY RankRange
<1>3. RankOf(S, before, x) = Cardinality(X) /\ RankOf(S, before, y) = Cardinality(Y)
  BY DEF RankOf
<1> HIDE DEF X, Y
<1>4. Cardinality(X) \in Nat /\ Cardinality(Y) \in Nat
  BY <1>2, FS_CardinalityType
<1>5. Cardinality(X \cup {x}) = Cardinality(X) + 1
  BY <1>1, <1>2, FS_AddElement
<1>6. Cardinality(X \cup {x}) <= Cardinality(Y)
  BY <1>1, <1>2, FS_Subset
<1> QED
  BY <1>3, <1>4, <1>5, <1>6

\* InOrder sorts: every element stands at one place, and they stand in order.
LEMMA InOrderSorts ==
  ASSUME NEW S, IsFiniteSet(S), NEW before, StrictOrder(S, before)
  PROVE  /\ Cardinality(S) \in Nat
         /\ InOrder(S, before) \in [1..Cardinality(S) -> S]
         /\ \A x \in S : \E n \in 1..Cardinality(S) : InOrder(S, before)[n] = x
         /\ \A m, n \in 1..Cardinality(S) :
              m < n => <<InOrder(S, before)[m], InOrder(S, before)[n]>> \in before
<1> DEFINE R == 0..Cardinality(S) - 1
           rank == [x \in S |-> RankOf(S, before, x)]
           C == Cardinality(S)
<1>1. C \in Nat
  BY FS_CardinalityType
<1>2. IsFiniteSet(R) /\ Cardinality(R) = C
  BY <1>1, FS_Interval
<1>3. rank \in Injection(S, R)
  <2>1. rank \in [S -> R]
    BY RankRange
  <2>2. ASSUME NEW x \in S, NEW y \in S, x # y PROVE rank[x] # rank[y]
    <3>1. RankOf(S, before, x) \in R /\ RankOf(S, before, y) \in R
      BY RankRange
    <3>2. <<x, y>> \in before \/ <<y, x>> \in before
      BY <2>2 DEF StrictOrder
    <3>3. RankOf(S, before, x) < RankOf(S, before, y) \/ RankOf(S, before, y) < RankOf(S, before, x)
      BY <3>2, RankGrows
    <3> QED
      BY <1>1, <3>1, <3>3
  <2> HIDE DEF rank, R
  <2> QED
    BY <2>1, <2>2 DEF Injection, IsInjective
<1>4. rank \in Surjection(S, R)
  <2> HIDE DEF rank, R
  <2> QED
    BY <1>2, <1>3, FS_Injection
<1>5. \A n \in R : \E x \in S : RankOf(S, before, x) = n
  <2>1. \A n \in R : \E x \in S : rank[x] = n
    <3> HIDE DEF rank, R
    <3> QED
      BY <1>4 DEF Surjection
  <2> QED
    BY <2>1
<1> DEFINE s == InOrder(S, before)
<1>6. s = [n \in 1..C |-> CHOOSE x \in S : RankOf(S, before, x) = n - 1]
  BY DEF InOrder, RankOf
<1>7. ASSUME NEW n \in 1..C
      PROVE  s[n] \in S /\ RankOf(S, before, s[n]) = n - 1
  <2>1. n - 1 \in R
    BY <1>1
  <2>2. \E x \in S : RankOf(S, before, x) = n - 1
    BY <1>5, <2>1
  <2>3. s[n] = CHOOSE x \in S : RankOf(S, before, x) = n - 1
    BY <1>6
  <2> HIDE DEF s
  <2> QED
    BY <2>2, <2>3
<1> HIDE DEF s
<1>8. s \in [1..C -> S]
  BY <1>6, <1>7
<1>9. ASSUME NEW x \in S PROVE \E n \in 1..C : s[n] = x
  <2> DEFINE n == RankOf(S, before, x) + 1
  <2>1. RankOf(S, before, x) \in 0..C - 1
    BY RankRange
  <2>2. n \in 1..C /\ n - 1 = RankOf(S, before, x)
    BY <1>1, <2>1
  <2>3. s[n] \in S /\ RankOf(S, before, s[n]) = RankOf(S, before, x)
    BY <1>7, <2>2
  <2> HIDE DEF n
  <2>4. rank[s[n]] = rank[x]
    BY <2>3
  <2>5. s[n] = x
    <3> HIDE DEF rank
    <3> QED
      BY <1>3, <2>3, <2>4 DEF Injection, IsInjective
  <2> QED
    BY <2>2, <2>5
<1>10. ASSUME NEW m \in 1..C, NEW n \in 1..C, m < n PROVE <<s[m], s[n]>> \in before
  <2>1. /\ s[m] \in S /\ RankOf(S, before, s[m]) = m - 1
        /\ s[n] \in S /\ RankOf(S, before, s[n]) = n - 1
    BY <1>7
  <2>2. m \in Int /\ n \in Int /\ s[m] # s[n]
    BY <1>1, <1>10, <2>1
  <2>3. ~(RankOf(S, before, s[n]) < RankOf(S, before, s[m]))
    BY <1>10, <2>1, <2>2
  <2> QED
    BY <2>1, <2>2, <2>3, RankGrows DEF StrictOrder
<1> QED
  BY <1>1, <1>8, <1>9, <1>10 DEF s

\* Numbers in ascending order.
LEMMA AscendingSorts ==
  ASSUME NEW S, S \subseteq Int, IsFiniteSet(S)
  PROVE  /\ Cardinality(S) \in Nat
         /\ Ascending(S) \in [1..Cardinality(S) -> S]
         /\ \A x \in S : \E n \in 1..Cardinality(S) : Ascending(S)[n] = x
         /\ \A m, n \in 1..Cardinality(S) : m < n => Ascending(S)[m] < Ascending(S)[n]
<1> DEFINE B == {p \in S \X S : p[1] < p[2]}
<1>1. \A x, y \in S : <<x, y>> \in B <=> x < y
  OBVIOUS
<1>2. StrictOrder(S, B)
  <2> HIDE DEF B
  <2> QED
    BY <1>1 DEF StrictOrder
<1>3. Ascending(S) = InOrder(S, B)
  BY DEF Ascending
<1> HIDE DEF B
<1>4. /\ Cardinality(S) \in Nat
      /\ Ascending(S) \in [1..Cardinality(S) -> S]
      /\ \A x \in S : \E n \in 1..Cardinality(S) : Ascending(S)[n] = x
      /\ \A m, n \in 1..Cardinality(S) :
              m < n => <<Ascending(S)[m], Ascending(S)[n]>> \in B
  BY <1>2, <1>3, InOrderSorts
<1> QED
  BY <1>1, <1>4

\* A set of natural numbers that is not empty has a least element: what induction over
\* the natural numbers is done by here.
LEMMA LeastNumber ==
  ASSUME NEW T, T \subseteq Nat, T # {}
  PROVE  \E m \in T : \A n \in T : m <= n
<1> DEFINE R == {ss \in Nat \X Nat : ss[1] < ss[2]}
<1>1. IsWellFoundedOn(R, Nat)
  BY NatLessThanWellFounded DEF OpToRel
<1> HIDE DEF R
<1>2. PICK m \in T : \A n \in T : <<n, m>> \notin R
  BY <1>1, WFMin
<1>3. ASSUME NEW n \in T PROVE m <= n
  <2>1. m \in Nat /\ n \in Nat /\ <<n, m>> \notin R
    BY <1>2
  <2> QED
    BY <2>1 DEF R
<1> QED
  BY <1>2, <1>3

\* A set of numbers up to N that is not empty has a greatest element.
LEMMA GreatestNumber ==
  ASSUME NEW N \in Nat, NEW S \in SUBSET (1..N), S # {}
  PROVE  Max(S) \in S /\ \A x \in S : x <= Max(S)
<1> DEFINE T == {N - x : x \in S}
<1>1. T # {} /\ T \subseteq Nat
  <2>1. \A x \in S : N - x \in Nat
    OBVIOUS
  <2> QED
    BY <2>1
<1>2. \E m \in T : \A t \in T : m <= t
  <2> HIDE DEF T
  <2> QED
    BY <1>1, LeastNumber
<1>3. PICK x \in S : \A y \in S : N - x <= N - y
  BY <1>2
<1>4. \A y \in S : x >= y
  BY <1>3
<1>5. Max(S) \in S /\ \A y \in S : Max(S) >= y
  BY <1>3, <1>4 DEF Max
<1> HIDE DEF Max
<1>6. ASSUME NEW a \in S, NEW b \in S, b >= a PROVE a <= b
  BY <1>6
<1> QED
  BY <1>5, <1>6

\* A set of numbers without 0 that is not empty begins after a number outside it.
LEMMA FirstStep ==
  ASSUME NEW T, T \subseteq Nat, T # {}, 0 \notin T
  PROVE  \E n \in Nat : n \notin T /\ n + 1 \in T
<1>1. PICK m \in T : \A n \in T : m <= n
  BY LeastNumber
<1>2. m \in Nat /\ m # 0
  BY <1>1
<1>3. m - 1 \in Nat /\ m - 1 + 1 = m /\ ~(m <= m - 1)
  BY <1>2
<1>4. m - 1 \notin T
  BY <1>1, <1>3
<1> QED
  BY <1>1, <1>3, <1>4

\* What accumulates step by step from lo to hi, each step depending on the one before:
\* if every step leads from S[i - 1] to S[i], it exists and stays in them.
StepsIn(S, step, lo, hi) == \A i \in lo + 1..hi : \A s \in S[i - 1] : step[<<s, i>>] \in S[i]
Walks(w, S, d, step, lo, hi) ==
  /\ w = [i \in lo..hi |-> w[i]] /\ \A i \in lo..hi : w[i] \in S[i]
  /\ w[lo] = d /\ \A i \in lo + 1..hi : w[i] = step[<<w[i - 1], i>>]
LEMMA Accumulates ==
  ASSUME NEW S, NEW step, NEW lo \in Int, NEW hi \in Int, lo <= hi, NEW d \in S[lo], StepsIn(S, step, lo, hi)
  PROVE  \E w : Walks(w, S, d, step, lo, hi)
<1> DEFINE Up(n, w) == Walks(w, S, d, step, lo, n)
           T == {n \in Nat : lo + n <= hi /\ ~\E w : Up(lo + n, w)}
<1>1. T = {}
  <2> SUFFICES ASSUME T # {} PROVE FALSE
    OBVIOUS
  <2>1. 0 \notin T
    <3>1. lo + 0 = lo /\ lo + 1..lo = {} /\ lo..lo = {lo}
      OBVIOUS
    <3>2. Up(lo, [i \in lo..lo |-> d])
      BY <3>1 DEF Walks
    <3> HIDE DEF Up
    <3> QED
      BY <3>1, <3>2
  <2>2. T \subseteq Nat
    OBVIOUS
  <2>3. PICK n \in Nat : n \notin T /\ n + 1 \in T
    <3> HIDE DEF T
    <3> QED
      BY <2>1, <2>2, FirstStep
  <2> DEFINE last == lo + n + 1
  <2>4. last \in Int /\ last - 1 = lo + n /\ lo + (n + 1) = last /\ lo <= last - 1 /\ last <= hi
    BY <2>3
  <2>5. PICK w : Up(last - 1, w)
    <3> HIDE DEF Up
    <3> QED
      BY <2>3, <2>4
  <2> HIDE DEF last
  <2> DEFINE v == [i \in lo..last |-> IF i = last THEN step[<<w[last - 1], last>>] ELSE w[i]]
  <2>6. w[last - 1] \in S[last - 1] /\ step[<<w[last - 1], last>>] \in S[last]
    <3>1. last - 1 \in lo..last - 1 /\ last \in lo + 1..hi
      BY <2>4
    <3> QED
      BY <2>5, <3>1 DEF StepsIn, Walks
  <2>7. v = [i \in lo..last |-> v[i]]
    OBVIOUS
  <2>8. ASSUME NEW i \in lo..last PROVE v[i] \in S[i]
    <3>1. CASE i = last
      BY <2>6, <3>1
    <3>2. CASE i # last
      <4>1. i \in lo..last - 1 /\ v[i] = w[i]
        BY <2>4, <3>2
      <4> QED
        BY <2>5, <4>1 DEF Walks
    <3> QED
      BY <3>1, <3>2
  <2>9. v[lo] = d
    BY <2>4, <2>5 DEF Walks
  <2>10. ASSUME NEW i \in lo + 1..last PROVE v[i] = step[<<v[i - 1], i>>]
    <3>1. v[i - 1] = w[i - 1] /\ i - 1 \in lo..last - 1
      BY <2>4
    <3>2. CASE i = last
      <4>1. v[last] = step[<<w[last - 1], last>>]
        BY <2>4
      <4> HIDE DEF v
      <4> QED
        BY <3>1, <3>2, <4>1
    <3>3. CASE i # last
      <4>1. i \in lo + 1..last - 1 /\ v[i] = w[i]
        BY <2>4, <3>3
      <4> QED
        BY <2>5, <3>1, <4>1 DEF Walks
    <3> QED
      BY <3>2, <3>3
  <2>11. Up(last, v)
    <3> HIDE DEF v
    <3> QED
      BY <2>7, <2>8, <2>9, <2>10 DEF Walks
  <2> HIDE DEF Up, v
  <2> QED
    BY <2>3, <2>4, <2>11
<1>2. hi - lo \in Nat /\ lo + (hi - lo) = hi
  OBVIOUS
<1>3. \E w : Up(hi, w)
  <2>1. hi - lo \notin T
    BY <1>1
  <2> HIDE DEF Up
  <2> QED
    BY <1>2, <2>1
<1> QED
  BY <1>3

\* Two functions that agree on lo, and on i where they do on i - 1, agree up to hi.
StepAlike(f, g, lo, hi) == \A i \in lo + 1..hi : f[i - 1] = g[i - 1] => f[i] = g[i]
Alike(f, g, lo, hi) == \A i \in lo..hi : f[i] = g[i]
LEMMA AgreeOn ==
  ASSUME NEW lo \in Int, NEW hi \in Int, NEW f, NEW g, f[lo] = g[lo], StepAlike(f, g, lo, hi)
  PROVE  Alike(f, g, lo, hi)
<1> DEFINE T == {n \in Nat : lo + n <= hi /\ f[lo + n] # g[lo + n]}
<1>1. T = {}
  <2> SUFFICES ASSUME T # {} PROVE FALSE
    OBVIOUS
  <2>1. 0 \notin T
    <3>1. lo + 0 = lo
      OBVIOUS
    <3> QED
      BY <3>1
  <2>2. T \subseteq Nat
    OBVIOUS
  <2>3. PICK n \in Nat : n \notin T /\ n + 1 \in T
    <3> HIDE DEF T
    <3> QED
      BY <2>1, <2>2, FirstStep
  <2>4. PICK i \in Int : i = lo + (n + 1)
    OBVIOUS
  <2>5. i \in lo + 1..hi /\ i - 1 = lo + n /\ i - 1 <= hi /\ f[i] # g[i]
    BY <2>3, <2>4
  <2>6. f[i - 1] = g[i - 1]
    BY <2>3, <2>5
  <2> QED
    BY <2>5, <2>6 DEF StepAlike
<1>2. ASSUME NEW i \in lo..hi PROVE f[i] = g[i]
  <2>1. i - lo \in Nat /\ lo + (i - lo) = i /\ i <= hi
    OBVIOUS
  <2>2. i - lo \notin T
    BY <1>1
  <2> HIDE DEF T
  <2>3. i - lo \in Nat /\ lo + (i - lo) <= hi => f[lo + (i - lo)] = g[lo + (i - lo)]
    BY <2>2 DEF T
  <2> QED
    BY <2>1, <2>3
<1> QED
  BY <1>2 DEF Alike

\* A finite set of numbers that is not empty has a greatest element.
LEMMA FiniteGreatest ==
  ASSUME NEW S, S \subseteq Int, IsFiniteSet(S), S # {}
  PROVE  Max(S) \in S /\ \A x \in S : x <= Max(S)
<1>1. /\ Cardinality(S) \in Nat /\ Ascending(S) \in [1..Cardinality(S) -> S]
      /\ \A x \in S : \E n \in 1..Cardinality(S) : Ascending(S)[n] = x
      /\ \A m, n \in 1..Cardinality(S) : m < n => Ascending(S)[m] < Ascending(S)[n]
  BY AscendingSorts
<1>2. PICK N \in Nat : N = Cardinality(S)
  BY <1>1
<1>3. PICK s \in [1..N -> S] : s = Ascending(S)
  BY <1>1, <1>2
<1>4. /\ \A x \in S : \E n \in 1..N : s[n] = x
      /\ \A m, n \in 1..N : m < n => s[m] < s[n]
  BY <1>1, <1>2, <1>3
<1>5. N \in 1..N
  <2>1. PICK x \in S : TRUE
    OBVIOUS
  <2>2. PICK n \in 1..N : s[n] = x
    BY <1>4
  <2> QED
    BY <2>2
<1>6. s[N] \in S
  BY <1>5
<1>7. ASSUME NEW x \in S PROVE x <= s[N]
  <2>1. PICK n \in 1..N : s[n] = x
    BY <1>4
  <2>2. n = N \/ n < N
    OBVIOUS
  <2>3. x \in Int /\ s[N] \in Int
    BY <1>6
  <2> QED
    BY <1>4, <1>5, <2>1, <2>2, <2>3
<1>8. Max(S) = CHOOSE x \in S : \A y \in S : x >= y
  BY DEF Max
<1>9. \E x \in S : \A y \in S : x >= y
  <2>1. \A y \in S : s[N] >= y
    <3>1. ASSUME NEW y \in S PROVE s[N] >= y
      <4>1. y <= s[N] /\ y \in Int /\ s[N] \in Int
        BY <1>6, <1>7
      <4> QED
        BY <4>1
    <3> QED
      BY <3>1
  <2> QED
    BY <1>6, <2>1
<1>10. Max(S) \in S /\ \A y \in S : Max(S) >= y
  BY <1>8, <1>9
<1>11. ASSUME NEW y \in S PROVE y <= Max(S)
  <2>1. PICK m : m = Max(S)
    OBVIOUS
  <2>2. m \in Int /\ y \in Int /\ m >= y
    BY <1>10, <2>1
  <2> QED
    BY <2>1, <2>2
<1> QED
  BY <1>10, <1>11

\* A function on 1..n is a sequence.
LEMMA ASeq ==
  ASSUME NEW S, NEW n \in Nat, NEW s \in [1..n -> S]
  PROVE  s \in Seq(S) /\ Len(s) = n /\ DOMAIN s = 1..n
<1>1. s \in Seq(S)
  BY SeqDef
<1>2. DOMAIN s = 1..n
  OBVIOUS
<1> QED
  BY <1>1, <1>2, LenProperties
-----------------------------------------------------------------------------
\* What numbers add up to.

\* From none of the terms on, one term at a time.
AddsUp(sum, terms, N) ==
  /\ sum \in [0..N -> Int] /\ sum[0] = 0
  /\ \A n \in 1..N : sum[n] = sum[n - 1] + terms[n]
LEMMA SumsAdd ==
  ASSUME NEW terms \in Seq(Int)
  PROVE  AddsUp(Sums(terms), terms, Len(terms))
<1> DEFINE N == Len(terms)
           step == [p \in Int \X (1..N) |-> p[1] + terms[p[2]]]
           S == [i \in 0..N |-> Int]
           Solves(f) == f = [n \in 0..N |-> IF n = 0 THEN 0 ELSE f[n - 1] + terms[n]]
           f == CHOOSE f : Solves(f)
<1>1. N \in Nat /\ terms \in [1..N -> Int]
  BY LenProperties
<1>2. Sums(terms) = f
  BY DEF Sums
<1> HIDE DEF N
<1>3. \A s \in Int : \A i \in 1..N : step[<<s, i>>] = s + terms[i] /\ s + terms[i] \in Int
  BY <1>1
<1> HIDE DEF step
<1>4. 0 \in Int /\ N \in Int /\ 0 + 1 = 1 /\ 0 \in 0..N /\ 0 <= N /\ \A i \in 1..N : i - 1 \in 0..N /\ i \in 0..N /\ i # 0
  BY <1>1
<1>5. \A i \in 0..N : i # 0 => i \in 1..N
  BY <1>1
<1>6. \A i \in 0..N : S[i] = Int
  OBVIOUS
<1> HIDE DEF S
<1>7. StepsIn(S, step, 0, N) /\ 0 \in S[0]
  <2>1. ASSUME NEW i \in 1..N, NEW s \in S[i - 1] PROVE step[<<s, i>>] \in S[i]
    <3>1. S[i - 1] = Int /\ S[i] = Int
      BY <1>4, <1>6
    <3> QED
      BY <1>3, <2>1, <3>1
  <2>2. 0 + 1..N = 1..N
    OBVIOUS
  <2> QED
    BY <1>4, <1>6, <2>1, <2>2 DEF StepsIn
<1>8. PICK w : Walks(w, S, 0, step, 0, N)
  BY <1>4, <1>7, Accumulates
<1>9. w = [i \in 0..N |-> w[i]] /\ w[0] = 0 /\ \A i \in 0..N : w[i] \in Int
  BY <1>8, <1>6 DEF Walks
<1>10. ASSUME NEW i \in 1..N PROVE w[i] = w[i - 1] + terms[i]
  <2>1. w[i] = step[<<w[i - 1], i>>] /\ w[i - 1] \in Int
    BY <1>4, <1>8, <1>9 DEF Walks
  <2> QED
    BY <1>3, <2>1
<1>11. Solves(w)
  <2>1. \A i \in 0..N : w[i] = IF i = 0 THEN 0 ELSE w[i - 1] + terms[i]
    BY <1>5, <1>9, <1>10
  <2> QED
    BY <1>9, <2>1
<1>12. Solves(f)
  <2> HIDE DEF Solves
  <2> QED
    BY <1>11
<1> HIDE DEF f
<1>13. f[0] = 0 /\ \A i \in 1..N : f[i] = f[i - 1] + terms[i]
  BY <1>4, <1>12
<1>14. \A i \in 0..N : f[i] = w[i]
  <2>1. f[0] = w[0] /\ StepAlike(f, w, 0, N)
    BY <1>4, <1>9, <1>10, <1>13 DEF StepAlike
  <2> QED
    BY <1>1, <2>1, AgreeOn DEF Alike
<1>15. f \in [0..N -> Int]
  <2>1. f = [i \in 0..N |-> f[i]]
    BY <1>12
  <2> QED
    BY <1>9, <1>14, <2>1
<1> QED
  BY <1>2, <1>13, <1>15 DEF AddsUp, N

\* What adds up is the sums.
LEMMA SumsAre ==
  ASSUME NEW terms \in Seq(Int), NEW sum, AddsUp(sum, terms, Len(terms))
  PROVE  /\ Total(terms) = sum[Len(terms)] /\ Total(terms) \in Int
         /\ \A n \in 0..Len(terms) : Sums(terms)[n] = sum[n]
<1> DEFINE f == Sums(terms)
<1>1. PICK N \in Nat : N = Len(terms)
  BY LenProperties
<1>2. AddsUp(f, terms, N) /\ AddsUp(sum, terms, N)
  BY <1>1, SumsAdd
<1> HIDE DEF f
<1>3. f[0] = sum[0] /\ StepAlike(f, sum, 0, N)
  <2>1. 0 + 1 = 1
    OBVIOUS
  <2> QED
    BY <1>2, <2>1 DEF AddsUp, StepAlike
<1>4. \A n \in 0..N : f[n] = sum[n]
  BY <1>3, AgreeOn DEF Alike
<1>5. N \in 0..N /\ sum[N] \in Int
  BY <1>2 DEF AddsUp
<1> QED
  BY <1>1, <1>4, <1>5 DEF f, Total

\* Of two sequences in a row: what they add up to together.
LEMMA TotalOfBoth ==
  ASSUME NEW a \in Seq(Int), NEW b \in Seq(Int)
  PROVE  Total(a \o b) = Total(a) + Total(b) /\ Total(a) \in Int /\ Total(b) \in Int
<1>1. PICK M \in Nat, N \in Nat : M = Len(a) /\ N = Len(b)
  BY LenProperties
<1> DEFINE f == Sums(a)
           g == Sums(b)
           h == [n \in 0..M + N |-> IF n <= M THEN f[n] ELSE f[M] + g[n - M]]
           c == a \o b
<1>2. AddsUp(f, a, M) /\ AddsUp(g, b, N)
  BY <1>1, SumsAdd
<1>3. c \in Seq(Int) /\ Len(c) = M + N /\ \A i \in 1..M + N : c[i] = IF i <= M THEN a[i] ELSE b[i - M]
  BY <1>1, ConcatProperties
<1>4. Total(a) = f[M] /\ Total(b) = g[N]
  BY <1>1 DEF Total
<1> HIDE DEF f, g, c
<1>5. M \in 0..M /\ N \in 0..N /\ 0 \in 0..N
  OBVIOUS
<1>6. f[M] \in Int /\ g[N] \in Int /\ g[0] = 0
  BY <1>2, <1>5 DEF AddsUp
<1>7. h[M + N] = f[M] + g[N]
  <2>1. CASE N = 0
    BY <1>6, <2>1
  <2>2. CASE N # 0
    BY <2>2
  <2> QED
    BY <2>1, <2>2
<1>8. AddsUp(h, c, M + N)
  <2>1. ASSUME NEW n \in 0..M + N PROVE h[n] \in Int
    <3>1. CASE n <= M
      <4>1. n \in 0..M /\ h[n] = f[n]
        BY <3>1
      <4> HIDE DEF h
      <4> QED
        BY <1>2, <4>1 DEF AddsUp
    <3>2. CASE ~(n <= M)
      <4>1. n - M \in 0..N /\ h[n] = f[M] + g[n - M]
        BY <3>2
      <4>2. g[n - M] \in Int
        BY <1>2, <4>1 DEF AddsUp
      <4> HIDE DEF h
      <4> QED
        BY <1>6, <4>1, <4>2
    <3> QED
      BY <3>1, <3>2
  <2>2. h[0] = 0
    <3>1. h[0] = f[0]
      OBVIOUS
    <3> HIDE DEF h
    <3> QED
      BY <1>2, <3>1 DEF AddsUp
  <2>3. ASSUME NEW n \in 1..M + N PROVE h[n] = h[n - 1] + c[n]
    <3>1. CASE n <= M
      <4>1. n \in 1..M /\ h[n] = f[n] /\ h[n - 1] = f[n - 1]
        BY <3>1
      <4>2. c[n] = a[n]
        BY <1>3, <3>1
      <4> HIDE DEF h
      <4> QED
        BY <1>2, <4>1, <4>2 DEF AddsUp
    <3>2. CASE n = M + 1
      <4>1. /\ h[n] = f[M] + g[n - M] /\ h[n - 1] = f[M] /\ n - M = 1 /\ ~(n <= M)
            /\ 1 \in 1..N /\ 1 \in 0..N /\ 1 - 1 = 0
        BY <3>2
      <4>2. c[n] = b[1]
        BY <1>3, <4>1
      <4> HIDE DEF h
      <4>3. g[1] = g[0] + b[1] /\ g[1] \in Int
        BY <1>2, <4>1 DEF AddsUp
      <4>4. b[1] \in Int
        BY <1>1, <4>1, ElementOfSeq
      <4> QED
        BY <1>6, <4>1, <4>2, <4>3, <4>4
    <3>3. CASE M + 1 < n
      <4>1. /\ h[n] = f[M] + g[n - M] /\ h[n - 1] = f[M] + g[n - M - 1]
            /\ n - M \in 1..N /\ n - M \in 0..N /\ n - M - 1 \in 0..N /\ ~(n <= M)
        BY <3>3
      <4>2. c[n] = b[n - M]
        BY <1>3, <4>1
      <4> HIDE DEF h
      <4>3. PICK k \in 1..N : k = n - M
        BY <4>1
      <4>4. k \in 0..N /\ k - 1 \in 0..N /\ n - M - 1 = k - 1
        BY <4>3
      <4>5. h[n] = f[M] + g[k] /\ h[n - 1] = f[M] + g[k - 1] /\ c[n] = b[k]
        BY <4>1, <4>2, <4>3, <4>4
      <4>6. g[k] = g[k - 1] + b[k] /\ g[k - 1] \in Int
        BY <1>2, <4>4 DEF AddsUp
      <4>7. b[k] \in Int
        BY <1>1, ElementOfSeq
      <4>8. PICK x \in Int, y \in Int, z \in Int : x = f[M] /\ y = g[k - 1] /\ z = b[k]
        BY <1>6, <4>6, <4>7
      <4>9. h[n - 1] = x + y /\ h[n] = x + (y + z)
        BY <4>5, <4>6, <4>8
      <4>10. x + (y + z) = x + y + z
        OBVIOUS
      <4> QED
        BY <4>5, <4>8, <4>9, <4>10
    <3> QED
      BY <3>1, <3>2, <3>3
  <2> HIDE DEF h
  <2>4. h = [n \in 0..M + N |-> h[n]]
    BY DEF h
  <2> QED
    BY <2>1, <2>2, <2>3, <2>4 DEF AddsUp
<1> HIDE DEF h
<1>9. Total(c) = h[M + N]
  BY <1>3, <1>8, SumsAre
<1> QED
  BY <1>4, <1>6, <1>7, <1>9 DEF c

\* Zeros add up to nothing.
LEMMA TotalOfZeros ==
  ASSUME NEW terms \in Seq(Int), \A n \in 1..Len(terms) : terms[n] = 0
  PROVE  Total(terms) = 0
<1> DEFINE zero == [n \in 0..Len(terms) |-> 0]
<1>1. Len(terms) \in Nat
  BY LenProperties
<1>2. AddsUp(zero, terms, Len(terms))
  BY <1>1 DEF AddsUp
<1>3. Total(terms) = zero[Len(terms)]
  BY <1>2, SumsAre
<1> QED
  BY <1>1, <1>3

\* Terms that are sums of two others add up to what both add up to.
LEMMA TotalOfSums ==
  ASSUME NEW N \in Nat, NEW a \in Seq(Int), NEW b \in Seq(Int), NEW c \in Seq(Int),
         Len(a) = N, Len(b) = N, Len(c) = N, \A n \in 1..N : c[n] = a[n] + b[n]
  PROVE  Total(c) = Total(a) + Total(b) /\ Total(a) \in Int /\ Total(b) \in Int
<1> DEFINE x == Sums(a)
           y == Sums(b)
           h == [n \in 0..N |-> x[n] + y[n]]
<1>1. AddsUp(x, a, N) /\ AddsUp(y, b, N)
  BY SumsAdd
<1>2. Total(a) = x[N] /\ Total(b) = y[N]
  BY DEF Total
<1> HIDE DEF x, y
<1>3. \A n \in 0..N : x[n] \in Int /\ y[n] \in Int
  BY <1>1 DEF AddsUp
<1>4. AddsUp(h, c, N)
  <2>1. x[0] = 0 /\ y[0] = 0
    BY <1>1 DEF AddsUp
  <2>2. h \in [0..N -> Int] /\ h[0] = 0
    <3>1. \A n \in 0..N : x[n] + y[n] \in Int
      <4>1. ASSUME NEW n \in 0..N PROVE x[n] + y[n] \in Int
        <5>1. x[n] \in Int /\ y[n] \in Int
          BY <1>3
        <5> QED
          BY <5>1
      <4> QED
        BY <4>1
    <3>2. h \in [0..N -> Int]
      BY <3>1
    <3>3. 0 \in 0..N /\ h[0] = x[0] + y[0]
      OBVIOUS
    <3> QED
      BY <2>1, <3>2, <3>3
  <2>3. ASSUME NEW n \in 1..N PROVE h[n] = h[n - 1] + c[n]
    <3>1. n \in 0..N /\ n - 1 \in 0..N
      OBVIOUS
    <3>2. PICK i \in Int, j \in Int : i = x[n - 1] /\ j = y[n - 1]
      BY <1>3, <3>1
    <3>3. PICK d \in Int, e \in Int : d = a[n] /\ e = b[n]
      BY ElementOfSeq
    <3>4. x[n] = i + d /\ y[n] = j + e
      BY <1>1, <3>2, <3>3 DEF AddsUp
    <3>5. h[n] = (i + d) + (j + e) /\ h[n - 1] = i + j /\ c[n] = d + e
      BY <3>1, <3>2, <3>3, <3>4
    <3> HIDE DEF h
    <3> QED
      BY <3>5
  <2> HIDE DEF h
  <2>4. h = [n \in 0..N |-> h[n]]
    BY DEF h
  <2> QED
    BY <2>2, <2>3, <2>4 DEF AddsUp
<1>5. N \in 0..N /\ h[N] = x[N] + y[N]
  OBVIOUS
<1> HIDE DEF h
<1>6. Total(c) = h[N]
  BY <1>4, SumsAre
<1> QED
  BY <1>2, <1>3, <1>5, <1>6

\* The increments of slots: in Gap there is none.
Increments(slots) == [i \in DOMAIN slots |-> IF slots[i] = Gap THEN 0 ELSE slots[i][1]]
LEMMA IncrementsAre ==
  ASSUME NEW slots \in Seq(Seq(Int))
  PROVE  /\ Increments(slots) \in Seq(Int) /\ Len(Increments(slots)) = Len(slots)
         /\ \A i \in 1..Len(slots) : Increments(slots)[i] = IF slots[i] = Gap THEN 0 ELSE slots[i][1]
         /\ SumOf(slots) = Total(Increments(slots))
<1>1. PICK N \in Nat : N = Len(slots) /\ slots \in [1..N -> Seq(Int)] /\ DOMAIN slots = 1..N
  BY LenProperties
<1> DEFINE v(i) == IF slots[i] = Gap THEN 0 ELSE slots[i][1]
           terms == [i \in 1..N |-> v(i)]
<1>2. ASSUME NEW i \in 1..N PROVE v(i) \in Int
  <2>1. CASE slots[i] = Gap
    BY <2>1
  <2>2. CASE slots[i] # Gap
    <3>1. slots[i] \in Seq(Int) /\ slots[i] # <<>>
      BY <1>1, <2>2 DEF Gap
    <3>2. slots[i][1] \in Int
      BY <3>1, EmptySeq, ElementOfSeq
    <3> QED
      BY <2>2, <3>2
  <2> QED
    BY <2>1, <2>2
<1>3. Increments(slots) = terms
  BY <1>1 DEF Increments
<1>4. \A i \in 1..N : terms[i] = v(i)
  OBVIOUS
<1>5. SumOf(slots) = Total(Increments(slots))
  BY DEF SumOf, Increments
<1> HIDE DEF terms
<1>6. terms \in [1..N -> Int]
  BY <1>2, <1>4 DEF terms
<1>7. terms \in Seq(Int) /\ Len(terms) = N
  BY <1>6, ASeq
<1> QED
  BY <1>1, <1>3, <1>4, <1>5, <1>7

\* What slots in a row sum to.
LEMMA SumOfBoth ==
  ASSUME NEW a \in Seq(Seq(Int)), NEW b \in Seq(Seq(Int))
  PROVE  SumOf(a \o b) = SumOf(a) + SumOf(b) /\ SumOf(a) \in Int /\ SumOf(b) \in Int
<1> DEFINE c == a \o b
           x == Increments(a)
           y == Increments(b)
<1>1. PICK M \in Nat, N \in Nat : M = Len(a) /\ N = Len(b)
  BY LenProperties
<1>2. /\ c \in Seq(Seq(Int)) /\ Len(c) = M + N
      /\ \A i \in 1..M + N : c[i] = IF i <= M THEN a[i] ELSE b[i - M]
  BY <1>1, ConcatProperties
<1> HIDE DEF c
<1>3. /\ x \in Seq(Int) /\ Len(x) = M /\ SumOf(a) = Total(x)
      /\ \A i \in 1..M : x[i] = IF a[i] = Gap THEN 0 ELSE a[i][1]
  BY <1>1, IncrementsAre
<1>4. /\ y \in Seq(Int) /\ Len(y) = N /\ SumOf(b) = Total(y)
      /\ \A i \in 1..N : y[i] = IF b[i] = Gap THEN 0 ELSE b[i][1]
  BY <1>1, IncrementsAre
<1>5. /\ Increments(c) \in Seq(Int) /\ Len(Increments(c)) = M + N /\ SumOf(c) = Total(Increments(c))
      /\ \A i \in 1..M + N : Increments(c)[i] = IF c[i] = Gap THEN 0 ELSE c[i][1]
  BY <1>2, IncrementsAre
<1> HIDE DEF x, y
<1>6. /\ x \o y \in Seq(Int) /\ Len(x \o y) = M + N
      /\ \A i \in 1..M + N : (x \o y)[i] = IF i <= M THEN x[i] ELSE y[i - M]
  <2>1. x \in Seq(Int) /\ y \in Seq(Int) /\ Len(x) = M /\ Len(y) = N
    BY <1>3, <1>4
  <2> QED
    BY <2>1, ConcatProperties
<1>7. ASSUME NEW i \in 1..M + N PROVE Increments(c)[i] = (x \o y)[i]
  <2>1. CASE i <= M
    <3>1. i \in 1..M /\ c[i] = a[i] /\ (x \o y)[i] = x[i]
      BY <1>2, <1>6, <2>1
    <3>2. Increments(c)[i] = IF a[i] = Gap THEN 0 ELSE a[i][1]
      BY <1>5, <3>1
    <3>3. x[i] = IF a[i] = Gap THEN 0 ELSE a[i][1]
      BY <1>3, <3>1
    <3> QED
      BY <3>1, <3>2, <3>3
  <2>2. CASE ~(i <= M)
    <3>1. i - M \in 1..N /\ c[i] = b[i - M] /\ (x \o y)[i] = y[i - M]
      BY <1>2, <1>6, <2>2
    <3>2. Increments(c)[i] = IF b[i - M] = Gap THEN 0 ELSE b[i - M][1]
      BY <1>5, <3>1
    <3>3. y[i - M] = IF b[i - M] = Gap THEN 0 ELSE b[i - M][1]
      BY <1>4, <3>1
    <3> QED
      BY <3>1, <3>2, <3>3
  <2> QED
    BY <2>1, <2>2
<1>8. Increments(c) = x \o y
  <2>1. /\ Increments(c) \in Seq(Int) /\ x \o y \in Seq(Int) /\ Len(Increments(c)) = Len(x \o y)
        /\ \A i \in 1..Len(Increments(c)) : Increments(c)[i] = (x \o y)[i]
    BY <1>5, <1>6, <1>7
  <2> QED
    BY <2>1, SeqEqual
<1> QED
  BY <1>3, <1>4, <1>5, <1>8, TotalOfBoth DEF c

\* Gaps sum to nothing.
LEMMA SumOfGaps ==
  ASSUME NEW slots \in Seq(Seq(Int)), \A i \in 1..Len(slots) : slots[i] = Gap
  PROVE  SumOf(slots) = 0
<1>1. /\ Increments(slots) \in Seq(Int) /\ Len(Increments(slots)) = Len(slots)
      /\ \A i \in 1..Len(slots) : Increments(slots)[i] = 0
      /\ SumOf(slots) = Total(Increments(slots))
  BY IncrementsAre
<1> QED
  BY <1>1, TotalOfZeros

\* What a file says a counter grew by is what its slots say, but for the first.
LEMMA TailIsGrowth ==
  ASSUME NEW slots \in Seq(Seq(Int)), slots # <<>>
  PROVE  /\ SumOf(Tail(slots)) = Observed(slots) + LateTally(slots)
         /\ Observed(slots) \in Int /\ LateTally(slots) \in Int
<1>1. PICK N \in Nat : N = Len(slots) /\ DOMAIN slots = 1..N
  BY LenProperties
<1> DEFINE before == ReportedBefore(slots)
           first == (1..N) \ (before \cup {1})
           rest == (1..N) \ {1}
           a == Only(slots, before)
           b == Only(slots, first)
           c == Only(slots, rest)
           t == Tail(slots)
           g == <<Gap>>
<1>2. N # 0 /\ 1 \in 1..N
  BY <1>1, EmptySeq
<1>3. 1 \notin before
  BY <1>1 DEF ReportedBefore
<1>4. Gap \in Seq(Int)
  BY EmptySeq DEF Gap
<1>5. ASSUME NEW S PROVE /\ Only(slots, S) \in Seq(Seq(Int)) /\ Len(Only(slots, S)) = N
                         /\ \A j \in 1..N : Only(slots, S)[j] = IF j \in S THEN slots[j] ELSE Gap
  <2> DEFINE o == Only(slots, S)
  <2>1. o = [j \in 1..N |-> IF j \in S THEN slots[j] ELSE Gap]
    BY <1>1 DEF Only
  <2>2. \A j \in 1..N : slots[j] \in Seq(Int)
    BY <1>1, ElementOfSeq
  <2> HIDE DEF o
  <2>3. o \in [1..N -> Seq(Int)]
    BY <1>4, <2>1, <2>2
  <2>4. o \in Seq(Seq(Int)) /\ Len(o) = N
    BY <2>3, ASeq
  <2> QED
    BY <2>1, <2>4 DEF o
<1>6. t \in Seq(Seq(Int)) /\ Len(t) = N - 1 /\ \A j \in 1..N - 1 : t[j] = slots[j + 1]
  BY <1>1, HeadTailProperties
<1>7. g \in Seq(Seq(Int)) /\ Len(g) = 1 /\ g[1] = Gap
  BY <1>4
<1> HIDE DEF t, g
<1>8. c = g \o t
  <2> DEFINE d == g \o t
  <2>1. d \in Seq(Seq(Int)) /\ Len(d) = N /\ \A j \in 1..N : d[j] = IF j <= 1 THEN g[j] ELSE t[j - 1]
    <3>1. /\ g \o t \in Seq(Seq(Int)) /\ Len(g \o t) = Len(g) + Len(t)
          /\ \A j \in 1..Len(g) + Len(t) : (g \o t)[j] = IF j <= Len(g) THEN g[j] ELSE t[j - Len(g)]
      BY <1>6, <1>7, ConcatProperties, ZenonT(30)
    <3>2. 1 + (N - 1) = N
      OBVIOUS
    <3> QED
      BY <1>6, <1>7, <3>1, <3>2
  <2> HIDE DEF d
  <2>2. c \in Seq(Seq(Int)) /\ Len(c) = N /\ \A j \in 1..N : c[j] = IF j \in rest THEN slots[j] ELSE Gap
    BY <1>5
  <2> HIDE DEF c
  <2>3. ASSUME NEW j \in 1..N PROVE c[j] = d[j]
    <3>1. CASE j = 1
      BY <1>7, <2>1, <2>2, <3>1
    <3>2. CASE j # 1
      <4>1. ~(j <= 1) /\ j - 1 \in 1..N - 1 /\ j - 1 + 1 = j /\ j \in rest
        BY <3>2
      <4> QED
        BY <1>6, <2>1, <2>2, <4>1
    <3> QED
      BY <3>1, <3>2
  <2>4. c = d
    BY <2>1, <2>2, <2>3, SeqEqual
  <2> QED
    BY <2>4 DEF d
<1>9. SumOf(c) = SumOf(t)
  <2>1. \A j \in 1..Len(g) : g[j] = Gap
    <3>1. \A j \in 1..1 : j = 1
      OBVIOUS
    <3> QED
      BY <1>7, <3>1
  <2>2. SumOf(g) = 0
    BY <1>7, <2>1, SumOfGaps
  <2>3. SumOf(g \o t) = SumOf(g) + SumOf(t) /\ SumOf(t) \in Int
    BY <1>6, <1>7, SumOfBoth
  <2> HIDE DEF c
  <2> QED
    BY <1>8, <2>2, <2>3
<1> DEFINE x == Increments(a)
           y == Increments(b)
           z == Increments(c)
<1>10. /\ a \in Seq(Seq(Int)) /\ Len(a) = N /\ \A j \in 1..N : a[j] = IF j \in before THEN slots[j] ELSE Gap
       /\ b \in Seq(Seq(Int)) /\ Len(b) = N /\ \A j \in 1..N : b[j] = IF j \in first THEN slots[j] ELSE Gap
       /\ c \in Seq(Seq(Int)) /\ Len(c) = N /\ \A j \in 1..N : c[j] = IF j \in rest THEN slots[j] ELSE Gap
  BY <1>5
<1>11. Observed(slots) = SumOf(a) /\ LateTally(slots) = SumOf(b)
  BY <1>1 DEF Observed, LateTally
<1> HIDE DEF a, b, c
<1>12. /\ x \in Seq(Int) /\ Len(x) = N /\ SumOf(a) = Total(x)
       /\ \A j \in 1..N : x[j] = IF a[j] = Gap THEN 0 ELSE a[j][1]
  BY <1>10, IncrementsAre, ZenonT(30)
<1>13. /\ y \in Seq(Int) /\ Len(y) = N /\ SumOf(b) = Total(y)
       /\ \A j \in 1..N : y[j] = IF b[j] = Gap THEN 0 ELSE b[j][1]
  BY <1>10, IncrementsAre
<1>14. /\ z \in Seq(Int) /\ Len(z) = N /\ SumOf(c) = Total(z)
       /\ \A j \in 1..N : z[j] = IF c[j] = Gap THEN 0 ELSE c[j][1]
  BY <1>10, IncrementsAre
<1> HIDE DEF x, y, z, before
<1>15. ASSUME NEW j \in 1..N PROVE z[j] = x[j] + y[j]
  <2>1. x[j] \in Int /\ y[j] \in Int /\ z[j] \in Int
    BY <1>12, <1>13, <1>14, ElementOfSeq
  <2>2. CASE j \in before
    <3>1. j \in rest /\ j \notin first
      BY <1>3, <2>2
    <3>2. c[j] = slots[j] /\ a[j] = slots[j] /\ b[j] = Gap
      BY <1>10, <2>2, <3>1
    <3>3. z[j] = IF slots[j] = Gap THEN 0 ELSE slots[j][1]
      BY <1>14, <3>2
    <3>4. x[j] = IF slots[j] = Gap THEN 0 ELSE slots[j][1]
      BY <1>12, <3>2
    <3>5. y[j] = 0
      BY <1>13, <3>2
    <3> QED
      BY <2>1, <3>3, <3>4, <3>5
  <2>3. CASE j \notin before /\ j # 1
    <3>1. j \in rest /\ j \in first
      BY <2>3
    <3>2. c[j] = slots[j] /\ b[j] = slots[j] /\ a[j] = Gap
      BY <1>10, <2>3, <3>1
    <3>3. z[j] = IF slots[j] = Gap THEN 0 ELSE slots[j][1]
      BY <1>14, <3>2
    <3>4. y[j] = IF slots[j] = Gap THEN 0 ELSE slots[j][1]
      BY <1>13, <3>2
    <3>5. x[j] = 0
      BY <1>12, <3>2
    <3> QED
      BY <2>1, <3>3, <3>4, <3>5
  <2>4. CASE j \notin before /\ j = 1
    <3>1. c[j] = Gap /\ a[j] = Gap /\ b[j] = Gap
      BY <1>10, <2>4
    <3>2. z[j] = 0 /\ x[j] = 0 /\ y[j] = 0
      BY <1>12, <1>13, <1>14, <3>1
    <3> QED
      BY <3>2
  <2> QED
    BY <2>2, <2>3, <2>4
<1>16. Total(z) = Total(x) + Total(y) /\ Total(x) \in Int /\ Total(y) \in Int
  BY <1>12, <1>13, <1>14, <1>15, TotalOfSums
<1> QED
  BY <1>9, <1>11, <1>12, <1>13, <1>14, <1>16 DEF t

\* What follows the first slot of two sequences in a row.
LEMMA TailOfBoth ==
  ASSUME NEW S, NEW a \in Seq(S), NEW b \in Seq(S), a # <<>>
  PROVE  a \o b # <<>> /\ Tail(a \o b) = Tail(a) \o b /\ Tail(a) \in Seq(S)
<1>1. PICK M \in Nat, N \in Nat : M = Len(a) /\ N = Len(b)
  BY LenProperties
<1> DEFINE c == a \o b
           t == Tail(a)
<1>2. M > 0
  BY <1>1, EmptySeq
<1>3. c \in Seq(S) /\ Len(c) = M + N /\ \A i \in 1..M + N : c[i] = IF i <= M THEN a[i] ELSE b[i - M]
  BY <1>1, ConcatProperties
<1> HIDE DEF c
<1>4. t \in Seq(S) /\ Len(t) = M - 1 /\ \A i \in 1..M - 1 : t[i] = a[i + 1]
  BY <1>1, HeadTailProperties
<1> HIDE DEF t
<1>5. c # <<>>
  <2>1. Len(<<>>) = 0 /\ M + N > 0
    BY <1>2
  <2> QED
    BY <1>3, <2>1
<1>6. Tail(c) \in Seq(S) /\ Len(Tail(c)) = M + N - 1 /\ \A i \in 1..M + N - 1 : Tail(c)[i] = c[i + 1]
  BY <1>3, <1>5, HeadTailProperties
<1>7. /\ t \o b \in Seq(S) /\ Len(t \o b) = M - 1 + N
      /\ \A i \in 1..M - 1 + N : (t \o b)[i] = IF i <= M - 1 THEN t[i] ELSE b[i - (M - 1)]
  <2>1. t \in Seq(S) /\ b \in Seq(S) /\ Len(t) = M - 1 /\ Len(b) = N
    BY <1>1, <1>4
  <2>2. /\ t \o b \in Seq(S) /\ Len(t \o b) = Len(t) + Len(b)
        /\ \A i \in 1..Len(t) + Len(b) : (t \o b)[i] = IF i <= Len(t) THEN t[i] ELSE b[i - Len(t)]
    BY <2>1, ConcatProperties
  <2> QED
    BY <2>1, <2>2
<1>8. ASSUME NEW i \in 1..M - 1 + N PROVE Tail(c)[i] = (t \o b)[i]
  <2>1. i \in 1..M + N - 1 /\ i + 1 \in 1..M + N
    OBVIOUS
  <2>2. CASE i <= M - 1
    <3>1. i \in 1..M - 1 /\ i + 1 <= M
      BY <2>2
    <3>2. Tail(c)[i] = a[i + 1]
      BY <1>3, <1>6, <2>1, <3>1
    <3>3. (t \o b)[i] = a[i + 1]
      BY <1>4, <1>7, <3>1
    <3> QED
      BY <3>2, <3>3
  <2>3. CASE ~(i <= M - 1)
    <3>1. ~(i + 1 <= M) /\ i + 1 - M = i - (M - 1)
      BY <2>3
    <3> QED
      <4>1. Tail(c)[i] = b[i + 1 - M]
        BY <1>3, <1>6, <2>1, <3>1
      <4>2. (t \o b)[i] = b[i - (M - 1)]
        BY <1>7, <2>3
      <4> QED
        BY <3>1, <4>1, <4>2
  <2> QED
    BY <2>2, <2>3
<1>9. M + N - 1 = M - 1 + N
  OBVIOUS
<1>10. Tail(c) = t \o b
  BY <1>6, <1>7, <1>8, <1>9, SeqEqual
<1> QED
  BY <1>4, <1>5, <1>10 DEF c, t

\* Sequences one after the other: each of them comes to what there is of those before.
Flattens(f, seqs, S) ==
  /\ f \in [1..Len(seqs) -> Seq(S)] /\ f[1] = seqs[1]
  /\ \A i \in 2..Len(seqs) : f[i] = f[i - 1] \o seqs[i]
LEMMA FlattenGrows ==
  ASSUME NEW S, NEW seqs \in Seq(Seq(S)), seqs # <<>>
  PROVE  \E f : Flattens(f, seqs, S) /\ FlattenSeq(seqs) = f[Len(seqs)]
<1>1. PICK N \in Nat : N = Len(seqs) /\ N # 0 /\ seqs \in [1..N -> Seq(S)]
  BY LenProperties, EmptySeq
<1> DEFINE step == [p \in Seq(S) \X (1..N) |-> p[1] \o seqs[p[2]]]
           R == [i \in 1..N |-> Seq(S)]
           Solves(f) == f = [i \in 1..N |-> IF i = 1 THEN seqs[i] ELSE f[i - 1] \o seqs[i]]
           f == CHOOSE f : Solves(f)
<1>2. FlattenSeq(seqs) = f[N]
  BY <1>1 DEF FlattenSeq
<1>3. \A s \in Seq(S) : \A i \in 1..N : step[<<s, i>>] = s \o seqs[i] /\ s \o seqs[i] \in Seq(S)
  BY <1>1, ConcatProperties
<1> HIDE DEF step
<1>4. \A i \in 1..N : R[i] = Seq(S)
  OBVIOUS
<1> HIDE DEF R
<1>5. /\ 1 \in Int /\ N \in Int /\ 1 + 1 = 2 /\ 1 <= N /\ 1 \in 1..N
      /\ \A i \in 2..N : i - 1 \in 1..N /\ i \in 1..N /\ i # 1
      /\ \A i \in 1..N : i # 1 => i \in 2..N
  BY <1>1
<1>6. seqs[1] \in R[1]
  BY <1>1, <1>4, <1>5
<1>7. StepsIn(R, step, 1, N)
  <2>1. ASSUME NEW i \in 2..N, NEW s \in R[i - 1] PROVE step[<<s, i>>] \in R[i]
    <3>1. i \in 1..N /\ R[i - 1] = Seq(S) /\ R[i] = Seq(S)
      BY <1>4, <1>5
    <3>2. step[<<s, i>>] \in Seq(S)
      BY <1>3, <2>1, <3>1
    <3> QED
      BY <3>1, <3>2
  <2> QED
    BY <1>5, <2>1 DEF StepsIn
<1>8. PICK w : Walks(w, R, seqs[1], step, 1, N)
  BY <1>5, <1>6, <1>7, Accumulates
<1>9. w = [i \in 1..N |-> w[i]] /\ w[1] = seqs[1] /\ \A i \in 1..N : w[i] \in Seq(S)
  BY <1>4, <1>8 DEF Walks
<1>10. ASSUME NEW i \in 2..N PROVE w[i] = w[i - 1] \o seqs[i]
  <2>1. w[i] = step[<<w[i - 1], i>>] /\ w[i - 1] \in Seq(S)
    BY <1>5, <1>8, <1>9 DEF Walks
  <2> QED
    BY <1>3, <1>5, <2>1
<1>11. Solves(w)
  <2>1. \A i \in 1..N : w[i] = IF i = 1 THEN seqs[i] ELSE w[i - 1] \o seqs[i]
    BY <1>5, <1>9, <1>10
  <2> QED
    BY <1>9, <2>1
<1>12. Solves(f)
  <2> HIDE DEF Solves
  <2> QED
    BY <1>11
<1> HIDE DEF f
<1>13. f[1] = seqs[1] /\ \A i \in 2..N : f[i] = f[i - 1] \o seqs[i]
  BY <1>5, <1>12
<1>14. \A i \in 1..N : f[i] = w[i]
  <2>1. f[1] = w[1] /\ StepAlike(f, w, 1, N)
    BY <1>5, <1>9, <1>10, <1>13 DEF StepAlike
  <2>2. 1 \in Int /\ N \in Int
    BY <1>5
  <2>3. Alike(f, w, 1, N)
    BY <2>1, <2>2, AgreeOn
  <2> QED
    BY <2>3 DEF Alike
<1>15. f \in [1..N -> Seq(S)]
  <2>1. f = [i \in 1..N |-> f[i]]
    BY <1>12
  <2> QED
    BY <1>9, <1>14, <2>1
<1>16. Flattens(f, seqs, S) /\ FlattenSeq(seqs) = f[Len(seqs)]
  BY <1>1, <1>2, <1>13, <1>15 DEF Flattens
<1> QED
  BY <1>16
-----------------------------------------------------------------------------
\* The listing, the collection and their order.

Listed == {i \in DOMAIN Names : Dated(i)}
Fields == {"hostname", "total", "snapshots", "sidecars", "diagnostics", "files"}
Diagnoses == [file : DOMAIN Names, what : Severities \cup {SidecarWarning}]

DirOK ==
  /\ DOMAIN dir \subseteq DOMAIN Names
  /\ \A i \in DOMAIN dir : dir[i].diags \in Seq(Severities) /\ dir[i].envDiags \in Seq(Severities)

TypeInv ==
  /\ DirOK
  /\ matches \in Seq(Listed)
  /\ DOMAIN found = Fields
  /\ found.diagnostics \in Seq(Diagnoses)
  /\ mirrored \in Seq(Diagnoses)
  /\ phase \in {"scan", "sidecars", "parse", "done", "failed"}
  /\ phase = "sidecars" => todo \in Seq(STRING)

\* The files and the snapshots are those of the listing; nothing is told to the
\* sink before the sidecars are loaded.
Grouped == found.snapshots = SnapshotsOf /\ DOMAIN found.files = Collectors
GroupInv ==
  /\ phase \in {"sidecars", "parse", "done"} => Grouped
  /\ phase = "scan" => DOMAIN found.sidecars = {} /\ found.diagnostics = <<>>
  /\ phase \in {"scan", "sidecars"} => mirrored = <<>>

\* The names of the collection.
LEMMA NamesFinite ==
  ASSUME NEW S, S \subseteq DOMAIN Names
  PROVE  /\ IsFiniteSet(S)
         /\ IsFiniteSet(PrefixesOf(S))
         /\ PrefixesOf(S) \subseteq Nat
<1>1. DOMAIN Names = 1..Len(Names) /\ Len(Names) \in Nat
  BY DiscoverAssumption, LenProperties
<1>2. \A i \in DOMAIN Names : Names[i] \in [prefix : Nat, date : BOOLEAN, suffix : STRING]
  BY <1>1, DiscoverAssumption, ElementOfSeq
<1>3. IsFiniteSet(S)
  <2>1. IsFiniteSet(1..Len(Names))
    BY <1>1, FS_Interval
  <2> QED
    BY <1>1, <2>1, FS_Subset
<1>4. PrefixesOf(S) \subseteq Nat
  BY <1>2 DEF PrefixesOf
<1>5. [i \in S |-> Names[i].prefix] \in Surjection(S, PrefixesOf(S))
  BY DEF Surjection, PrefixesOf
<1>6. IsFiniteSet(PrefixesOf(S))
  <2> DEFINE f == [i \in S |-> Names[i].prefix]
  <2>1. f \in Surjection(S, PrefixesOf(S))
    BY <1>5
  <2> HIDE DEF f
  <2> QED
    BY <1>3, <2>1, FS_Surjection
<1> QED
  BY <1>3, <1>4, <1>6

\* A collector's file is one of the listing.
LEMMA CollectorsListed ==
  ASSUME matches \in Seq(Listed)
  PROVE  /\ Collectors \subseteq Listed
         /\ Collectors \subseteq DOMAIN Names
         /\ \A i \in Collectors : \E m \in DOMAIN KnownSuffixes : KnownSuffixes[m] = Names[i].suffix
<1>1. ToSet(matches) \subseteq Listed
  BY LenProperties, ElementOfSeq DEF ToSet
<1>2. Collectors \subseteq Listed
  BY <1>1 DEF Collectors
<1> QED
  BY <1>2 DEF Listed, Collectors, ToSet

\* The parsers' order compares any two of the collectors' files.
LEMMA ParsedBeforeIsOrder ==
  ASSUME matches \in Seq(Listed), NEW F, F \subseteq Collectors
  PROVE  StrictOrder(F, {p \in F \X F : ParsedBefore(p[1], p[2])})
<1> DEFINE B == {p \in F \X F : ParsedBefore(p[1], p[2])}
<1>1. \A x, y \in F : <<x, y>> \in B <=> ParsedBefore(x, y)
  OBVIOUS
<1>2. DOMAIN Names = 1..Len(Names) /\ Len(Names) \in Nat
  BY DiscoverAssumption, LenProperties
<1>3. \A i \in DOMAIN Names : Names[i] \in [prefix : Nat, date : BOOLEAN, suffix : STRING]
  BY <1>2, DiscoverAssumption, ElementOfSeq
<1>4. \A x \in F : /\ x \in DOMAIN Names /\ Dated(x) /\ Names[x].prefix \in Nat
                   /\ \E m \in DOMAIN KnownSuffixes : KnownSuffixes[m] = Names[x].suffix
  BY <1>3, CollectorsListed DEF Listed
<1>5. DOMAIN KnownSuffixes \subseteq Nat
  <2>1. DOMAIN KnownSuffixes = 1..Len(KnownSuffixes) /\ Len(KnownSuffixes) \in Nat
    BY DiscoverAssumption, LenProperties
  <2> QED
    BY <2>1
<1>6. \A m, n \in DOMAIN KnownSuffixes : KnownSuffixes[m] = KnownSuffixes[n] => m = n
  BY DiscoverAssumption DEF IsInjective
<1>7. ASSUME NEW x \in F PROVE ~ParsedBefore(x, x)
  BY <1>4, <1>5, <1>6 DEF ParsedBefore
<1>8. ASSUME NEW x \in F, NEW y \in F, NEW z \in F, ParsedBefore(x, y), ParsedBefore(y, z)
      PROVE  ParsedBefore(x, z)
  <2>1. CASE Names[x].prefix = Names[y].prefix /\ Names[y].prefix = Names[z].prefix
    <3>1. PICK m, n \in DOMAIN KnownSuffixes :
            m < n /\ KnownSuffixes[m] = Names[x].suffix /\ KnownSuffixes[n] = Names[y].suffix
      BY <1>4, <1>8, <2>1 DEF ParsedBefore
    <3>2. PICK k, l \in DOMAIN KnownSuffixes :
            k < l /\ KnownSuffixes[k] = Names[y].suffix /\ KnownSuffixes[l] = Names[z].suffix
      BY <1>4, <1>8, <2>1 DEF ParsedBefore
    <3>3. k = n /\ m < l
      BY <1>5, <1>6, <3>1, <3>2
    <3> QED
      BY <2>1, <3>1, <3>2, <3>3 DEF ParsedBefore
  <2>2. CASE ~(Names[x].prefix = Names[y].prefix /\ Names[y].prefix = Names[z].prefix)
    <3>1. /\ Names[x].prefix <= Names[y].prefix /\ Names[y].prefix <= Names[z].prefix
          /\ Names[x].prefix \in Nat /\ Names[y].prefix \in Nat /\ Names[z].prefix \in Nat
      BY <1>4, <1>8 DEF ParsedBefore
    <3> QED
      BY <2>2, <3>1 DEF ParsedBefore
  <2> QED
    BY <2>1, <2>2
<1>9. ASSUME NEW x \in F, NEW y \in F, x # y PROVE ParsedBefore(x, y) \/ ParsedBefore(y, x)
  <2>1. CASE Names[x].prefix # Names[y].prefix
    BY <1>4, <2>1 DEF ParsedBefore
  <2>2. CASE Names[x].prefix = Names[y].prefix
    <3>1. Names[x] # Names[y]
      BY <1>4, <1>9, DiscoverAssumption DEF IsInjective
    <3>2. Names[x].date = TRUE /\ Names[y].date = TRUE
      BY <1>3, <1>4 DEF Dated
    <3>3. Names[x].suffix # Names[y].suffix
      BY <1>3, <1>4, <2>2, <3>1, <3>2
    <3>4. PICK m \in DOMAIN KnownSuffixes : KnownSuffixes[m] = Names[x].suffix
      BY <1>4
    <3>5. PICK n \in DOMAIN KnownSuffixes : KnownSuffixes[n] = Names[y].suffix
      BY <1>4
    <3>6. m < n \/ n < m
      BY <1>5, <3>3, <3>4, <3>5
    <3> QED
      BY <2>2, <3>4, <3>5, <3>6 DEF ParsedBefore
  <2> QED
    BY <2>1, <2>2
<1> HIDE DEF B
<1> SUFFICES StrictOrder(F, B)
  BY DEF B
<1> QED
  BY <1>1, <1>7, <1>8, <1>9 DEF StrictOrder

\* The snapshots of a listing are in order, and each file is of one of them.
LEMMA SnapshotsSort ==
  ASSUME matches \in Seq(Listed)
  PROVE  /\ SnapshotsOf # <<>>
         /\ \A m, n \in DOMAIN SnapshotsOf : m < n => SnapshotsOf[m] < SnapshotsOf[n]
         /\ \A i \in Collectors : Names[i].prefix \in ToSet(SnapshotsOf)
<1>1. CASE Collectors # {}
  <2> DEFINE P == PrefixesOf(Collectors)
             s == Ascending(P)
  <2>1. P \subseteq Nat /\ IsFiniteSet(P) /\ P # {}
    BY <1>1, CollectorsListed, NamesFinite DEF PrefixesOf
  <2>2. \A i \in Collectors : Names[i].prefix \in P
    BY DEF PrefixesOf
  <2> HIDE DEF P
  <2>3. /\ Cardinality(P) \in Nat
        /\ s \in [1..Cardinality(P) -> P]
        /\ \A x \in P : \E n \in 1..Cardinality(P) : s[n] = x
        /\ \A m, n \in 1..Cardinality(P) : m < n => s[m] < s[n]
    <3>1. P \subseteq Int
      BY <2>1
    <3> QED
      BY <2>1, <3>1, AscendingSorts
  <2>4. SnapshotsOf = s
    BY <1>1 DEF SnapshotsOf, P
  <2> HIDE DEF s
  <2>5. DOMAIN s = 1..Cardinality(P) /\ s # <<>>
    <3>1. DOMAIN s = 1..Cardinality(P) /\ DOMAIN s # {}
      BY <2>1, <2>3
    <3>2. DOMAIN <<>> = {}
      OBVIOUS
    <3> QED
      BY <3>1, <3>2
  <2>6. \A i \in Collectors : Names[i].prefix \in ToSet(s)
    BY <2>2, <2>3, <2>5 DEF ToSet
  <2> QED
    BY <2>3, <2>4, <2>5, <2>6
<1>2. CASE Collectors = {}
  <2>1. PICK t : SnapshotsOf = <<t>>
    BY <1>2 DEF SnapshotsOf
  <2>2. <<t>> # <<>> /\ DOMAIN <<t>> = {1}
    OBVIOUS
  <2> QED
    BY <1>2, <2>1, <2>2
<1> QED
  BY <1>1, <1>2

\* Every file of the collection has one place in the order of the parsers.
LEMMA ParseOrderSorts ==
  ASSUME matches \in Seq(Listed), Grouped
  PROVE  /\ ParseOrder \in Seq(Collectors)
         /\ DOMAIN ParseOrder = 1..Len(ParseOrder) /\ Len(ParseOrder) \in Nat
         /\ \A i \in Collectors : \E n \in DOMAIN ParseOrder : ParseOrder[n] = i
         /\ \A m, n \in DOMAIN ParseOrder : m # n => ParseOrder[m] # ParseOrder[n]
<1> DEFINE C == Collectors
           B == {p \in C \X C : ParsedBefore(p[1], p[2])}
           s == InOrder(C, B)
<1>1. {i \in DOMAIN found.files : Names[i].prefix \in ToSet(found.snapshots)} = C
  BY SnapshotsSort DEF Grouped
<1>2. ParseOrder = s
  BY <1>1 DEF ParseOrder
<1>3. IsFiniteSet(C)
  BY CollectorsListed, NamesFinite
<1>4. StrictOrder(C, B)
  BY ParsedBeforeIsOrder
<1> HIDE DEF C, B
<1>5. /\ Cardinality(C) \in Nat
      /\ s \in [1..Cardinality(C) -> C]
      /\ \A x \in C : \E n \in 1..Cardinality(C) : s[n] = x
      /\ \A m, n \in 1..Cardinality(C) : m < n => <<s[m], s[n]>> \in B
  BY <1>3, <1>4, InOrderSorts
<1> HIDE DEF s
<1>6. s \in Seq(C) /\ Len(s) = Cardinality(C) /\ DOMAIN s = 1..Cardinality(C)
  BY <1>5, ASeq
<1>7. ASSUME NEW m \in DOMAIN s, NEW n \in DOMAIN s, m # n PROVE s[m] # s[n]
  <2>1. m < n \/ n < m
    BY <1>5, <1>6, <1>7
  <2>2. <<s[m], s[n]>> \in B \/ <<s[n], s[m]>> \in B
    BY <1>5, <1>6, <2>1
  <2>3. s[m] \in C
    BY <1>5, <1>6
  <2> QED
    BY <1>4, <2>2, <2>3 DEF StrictOrder
<1> QED
  BY <1>2, <1>5, <1>6, <1>7 DEF C

\* The snapshots are numbered from 1.
LEMMA SnapshotsNumbered ==
  ASSUME matches \in Seq(Listed)
  PROVE  \E N \in Nat : DOMAIN SnapshotsOf = 1..N
<1>1. CASE Collectors # {}
  <2> DEFINE P == PrefixesOf(Collectors)
             s == Ascending(P)
  <2>1. P \subseteq Int /\ IsFiniteSet(P)
    BY CollectorsListed, NamesFinite
  <2>2. SnapshotsOf = s
    BY <1>1 DEF SnapshotsOf
  <2> HIDE DEF P
  <2>3. Cardinality(P) \in Nat /\ s \in [1..Cardinality(P) -> P]
    BY <2>1, AscendingSorts
  <2> HIDE DEF s
  <2> QED
    BY <2>2, <2>3
<1>2. CASE Collectors = {}
  <2>1. PICK t : SnapshotsOf = <<t>>
    BY <1>2 DEF SnapshotsOf
  <2>2. DOMAIN <<t>> = 1..1
    OBVIOUS
  <2> QED
    BY <2>1, <2>2
<1> QED
  BY <1>1, <1>2

\* The parsers' order is one of the file names only.
LEMMA OrderStays ==
  ASSUME found'.snapshots = found.snapshots, DOMAIN found'.files = DOMAIN found.files
  PROVE  ParseOrder' = ParseOrder
BY DEF ParseOrder
-----------------------------------------------------------------------------
\* What the sink hears.

Cat(a, b) == a \o b

\* f holds d, and d with the first parts after it, up to N of them.
HeardUpTo(N, d, parts, f) ==
  /\ DOMAIN f = 0..N
  /\ f[0] = d
  /\ \A n \in 1..N : f[n] = Cat(f[n - 1], parts[n])

\* The accumulation of parts exists, one part more each time ...
LEMMA HeardNothing ==
  ASSUME NEW d, NEW parts
  PROVE  HeardUpTo(0, d, parts, [n \in 0..0 |-> d])
BY DEF HeardUpTo

\* ... from one length to the next, ...
LEMMA HeardMore ==
  ASSUME NEW N \in Nat, NEW d, NEW parts, NEW more, NEW f, HeardUpTo(N, d, parts, f),
         \A n \in 1..N : more[n] = parts[n]
  PROVE  \E g : HeardUpTo(N + 1, d, more, g) /\ g[N + 1] = Cat(f[N], more[N + 1])
<1> DEFINE g == [n \in 0..N + 1 |-> IF n = N + 1 THEN Cat(f[N], more[N + 1]) ELSE f[n]]
<1>1. DOMAIN g = 0..N + 1 /\ g[0] = d /\ g[N + 1] = Cat(f[N], more[N + 1])
  BY DEF HeardUpTo
<1>2. ASSUME NEW n \in 1..N + 1 PROVE g[n] = Cat(g[n - 1], more[n])
  <2>1. CASE n = N + 1
    <3>1. n - 1 = N /\ g[N] = f[N]
      BY <2>1
    <3> HIDE DEF g
    <3> QED
      BY <1>1, <2>1, <3>1
  <2>2. CASE n # N + 1
    <3>1. n \in 1..N /\ n - 1 \in 0..N + 1 /\ n - 1 # N + 1 /\ n \in 0..N + 1
      BY <2>2
    <3>2. g[n] = f[n] /\ g[n - 1] = f[n - 1]
      BY <2>2, <3>1
    <3> HIDE DEF g
    <3> QED
      BY <3>1, <3>2 DEF HeardUpTo
  <2> QED
    BY <2>1, <2>2
<1> HIDE DEF g
<1> QED
  BY <1>1, <1>2 DEF HeardUpTo

\* ... for every length, ...
LEMMA HeardExists ==
  ASSUME NEW N \in Nat, NEW d, NEW parts
  PROVE  \E f : HeardUpTo(N, d, parts, f)
<1> DEFINE T == {n \in Nat : ~\E f : HeardUpTo(n, d, parts, f)}
<1> SUFFICES ASSUME T # {} PROVE FALSE
  OBVIOUS
<1>1. PICK m \in T : \A n \in T : m <= n
  BY LeastNumber
<1>2. m # 0
  <2>1. \E f : HeardUpTo(0, d, parts, f)
    BY HeardNothing
  <2> QED
    BY <1>1, <2>1
<1>3. m \in Nat /\ m - 1 \in Nat /\ m - 1 \notin T /\ m - 1 + 1 = m
  BY <1>1, <1>2
<1>4. PICK f : HeardUpTo(m - 1, d, parts, f)
  BY <1>3
<1>5. \E g : HeardUpTo(m - 1 + 1, d, parts, g)
  BY <1>3, <1>4, HeardMore
<1> QED
  BY <1>1, <1>3, <1>5

\* ... and two accumulations agree as far as both go.
LEMMA HeardAgree ==
  ASSUME NEW d, NEW parts, NEW N \in Nat, NEW M \in Nat, N <= M, NEW f, NEW g,
         HeardUpTo(N, d, parts, f), HeardUpTo(M, d, parts, g)
  PROVE  f[N] = g[N]
<1> DEFINE T == {n \in 0..N : f[n] # g[n]}
<1> SUFFICES ASSUME T # {} PROVE FALSE
  OBVIOUS
<1>1. PICK m \in T : \A n \in T : m <= n
  <2>1. T \subseteq Nat
    OBVIOUS
  <2> HIDE DEF T
  <2> QED
    BY <2>1, LeastNumber
<1>2. m \in 0..N /\ m # 0
  BY <1>1 DEF HeardUpTo
<1>3. m - 1 \notin T /\ m - 1 \in 0..N /\ m \in 1..N /\ m \in 1..M
  BY <1>1, <1>2
<1>4. f[m - 1] = g[m - 1]
  BY <1>3
<1>5. f[m] = Cat(f[m - 1], parts[m]) /\ g[m] = Cat(g[m - 1], parts[m])
  BY <1>3 DEF HeardUpTo
<1> QED
  BY <1>1, <1>4, <1>5

\* All that is heard, by how many files have been parsed: the equation, and its solution.
Hears(t, d, parts) == t = [n \in Nat |-> IF n = 0 THEN d ELSE Cat(t[n - 1], parts[n])]

LEMMA HeardFunction ==
  ASSUME NEW d, NEW parts
  PROVE  \E t : Hears(t, d, parts)
<1> DEFINE F(n) == CHOOSE f : HeardUpTo(n, d, parts, f)
           t == [n \in Nat |-> F(n)[n]]
<1>1. \A n \in Nat : HeardUpTo(n, d, parts, F(n))
  BY HeardExists
<1> HIDE DEF F
<1>2. ASSUME NEW n \in Nat PROVE t[n] = IF n = 0 THEN d ELSE Cat(t[n - 1], parts[n])
  <2>1. t[n] = F(n)[n]
    OBVIOUS
  <2>2. CASE n = 0
    BY <1>1, <2>1, <2>2 DEF HeardUpTo
  <2>3. CASE n # 0
    <3>1. n - 1 \in Nat /\ n - 1 <= n /\ n \in 1..n /\ t[n - 1] = F(n - 1)[n - 1]
      BY <2>3
    <3>2. F(n)[n] = Cat(F(n)[n - 1], parts[n])
      BY <1>1, <3>1 DEF HeardUpTo
    <3>3. F(n - 1)[n - 1] = F(n)[n - 1]
      BY <1>1, <3>1, HeardAgree
    <3> QED
      BY <2>1, <2>3, <3>1, <3>2, <3>3
  <2> QED
    BY <2>2, <2>3
<1>3. t = [n \in Nat |-> t[n]]
  OBVIOUS
<1> HIDE DEF t
<1>4. t = [n \in Nat |-> IF n = 0 THEN d ELSE Cat(t[n - 1], parts[n])]
  BY <1>2, <1>3
<1> QED
  BY <1>4 DEF Hears

\* The diagnostics of the files in the parsers' order.
Parts == [n \in Nat |-> found.files[ParseOrder[n]].diags]

\* What accumulates is what Recorded computes.
LEMMA RecordedIsHeard ==
  ASSUME NEW f, Len(ParseOrder) \in Nat, HeardUpTo(Len(ParseOrder), found.diagnostics, Parts, f)
  PROVE  Recorded = f[Len(ParseOrder)]
<1> DEFINE N == Len(ParseOrder)
           d == found.diagnostics
           e(n) == found.files[ParseOrder[n]].diags
           Solves(t) == t = [n \in Nat |-> IF n = 0 THEN d ELSE t[n - 1] \o e(n)]
           told == CHOOSE t : Solves(t)
<1>1. \A n \in Nat : Parts[n] = e(n)
  BY DEF Parts
<1>2. Recorded = told[N]
  BY DEF Recorded
<1> HIDE DEF N, d, e
<1>3. PICK t : Hears(t, d, Parts)
  BY HeardFunction
<1>4. Solves(t)
  <2> DEFINE f1 == [n \in Nat |-> IF n = 0 THEN d ELSE Cat(t[n - 1], Parts[n])]
             f2 == [n \in Nat |-> IF n = 0 THEN d ELSE t[n - 1] \o e(n)]
  <2>1. ASSUME NEW n \in Nat
        PROVE  (IF n = 0 THEN d ELSE Cat(t[n - 1], Parts[n])) = (IF n = 0 THEN d ELSE t[n - 1] \o e(n))
    BY <1>1, Zenon DEF Cat
  <2>2. f1 = f2
    BY <2>1, Zenon
  <2>3. t = f1
    BY <1>3, Zenon DEF Hears
  <2> HIDE DEF f1
  <2> QED
    BY <2>2, <2>3
<1>5. Solves(told)
  <2> HIDE DEF Solves
  <2> QED
    BY <1>4
<1> HIDE DEF told
<1>6. ASSUME NEW n \in Nat PROVE told[n] = IF n = 0 THEN d ELSE Cat(told[n - 1], Parts[n])
  <2>1. told[n] = IF n = 0 THEN d ELSE told[n - 1] \o e(n)
    BY <1>5, Zenon
  <2> QED
    BY <1>1, <2>1, Zenon DEF Cat
<1>7. N \in Nat
  BY DEF N
<1> DEFINE g == [n \in 0..N |-> told[n]]
<1>8. HeardUpTo(N, d, Parts, g)
  <2>1. DOMAIN g = 0..N /\ g[0] = d
    BY <1>6, <1>7
  <2>2. ASSUME NEW n \in 1..N PROVE g[n] = Cat(g[n - 1], Parts[n])
    <3>1. n \in Nat /\ n # 0 /\ n \in 0..N /\ n - 1 \in 0..N
      BY <1>7
    <3>2. g[n] = told[n] /\ g[n - 1] = told[n - 1]
      BY <3>1
    <3> HIDE DEF g
    <3> QED
      BY <1>6, <3>1, <3>2
  <2> HIDE DEF g
  <2> QED
    BY <2>1, <2>2 DEF HeardUpTo
<1>9. g[N] = told[N]
  BY <1>7
<1> HIDE DEF g
<1>10. HeardUpTo(N, d, Parts, f)
  BY DEF N, d
<1>11. N <= N
  BY <1>7
<1>12. f[N] = g[N]
  BY <1>7, <1>8, <1>10, <1>11, HeardAgree
<1> QED
  BY <1>2, <1>9, <1>12 DEF N

\* Diagnostics keep their number and their order when the file is put to them.
LEMMA AboutTypes ==
  ASSUME NEW i \in DOMAIN Names, NEW ds \in Seq(Severities \cup {SidecarWarning})
  PROVE  /\ About(i, ds) \in Seq(Diagnoses)
         /\ Len(About(i, ds)) = Len(ds)
         /\ \A n \in 1..Len(ds) : About(i, ds)[n] = [file |-> i, what |-> ds[n]]
<1>1. Len(ds) \in Nat /\ DOMAIN ds = 1..Len(ds) /\ \A n \in 1..Len(ds) : ds[n] \in Severities \cup {SidecarWarning}
  BY LenProperties, ElementOfSeq
<1>2. \A n \in 1..Len(ds) : About(i, ds)[n] = [file |-> i, what |-> ds[n]]
  BY <1>1 DEF About
<1>3. About(i, ds) \in [1..Len(ds) -> Diagnoses]
  BY <1>1 DEF About, Diagnoses
<1> QED
  BY <1>1, <1>2, <1>3, ASeq

\* A file that its parser has been given.
FileDone(f) ==
  /\ f.ran
  /\ f.parsed = <<>> <=> f.status \in {"failed", "unsupported"}
  /\ f.status # "ok" => f.diags # <<>>

\* A sequence of one element.
LEMMA SequenceOfOne ==
  ASSUME NEW S, NEW x \in S
  PROVE  <<x>> \in Seq(S) /\ Len(<<x>>) = 1 /\ <<x>>[1] = x
OBVIOUS

\* Whatever its parser finds, a file that has been parsed is complete.
LEMMA ParsedIsDone ==
  ASSUME DirOK, NEW i \in DOMAIN Names
  PROVE  /\ Parsed(i).diags \in Seq(Diagnoses)
         /\ FileDone(Parsed(i))
<1>1. ASSUME NEW ds \in Seq(Severities), ds # <<>>
      PROVE  About(i, ds) \in Seq(Diagnoses) /\ About(i, ds) # <<>>
  <2>1. ds \in Seq(Severities \cup {SidecarWarning})
    BY SeqMonotonic
  <2>2. Len(ds) # 0
    BY <1>1, EmptySeq
  <2>3. About(i, ds) \in Seq(Diagnoses) /\ Len(About(i, ds)) # 0
    BY <2>1, <2>2, AboutTypes
  <2> QED
    BY <2>3
<1>2. ASSUME NEW ds \in Seq(Severities)
      PROVE  About(i, ds) \in Seq(Diagnoses)
  <2>1. ds \in Seq(Severities \cup {SidecarWarning})
    BY SeqMonotonic
  <2> QED
    BY <2>1, AboutTypes
<1>3. CASE i \in DOMAIN dir /\ dir[i].readable
  <2> DEFINE ds == DiagsOf(dir[i])
  <2>1. dir[i].diags \in Seq(Severities)
    BY <1>3 DEF DirOK
  <2>2. <<"warning">> \in Seq(Severities) /\ <<"warning">> # <<>>
    BY DEF Severities
  <2>3. ds \in Seq(Severities)
    BY <2>1, <2>2 DEF DiagsOf
  <2>4. /\ Parsed(i).diags = About(i, ds) /\ Parsed(i).ran = TRUE
        /\ Parsed(i).status = StatusOf(dir[i])
        /\ Parsed(i).parsed = IF dir[i].known THEN <<dir[i].data>> ELSE <<>>
    BY <1>3 DEF Parsed
  <2>5. StatusOf(dir[i]) \in {"unsupported", "partial", "ok"}
    BY DEF StatusOf
  <2>6. StatusOf(dir[i]) = "unsupported" <=> ~dir[i].known
    BY DEF StatusOf
  <2>7. <<dir[i].data>> # <<>>
    OBVIOUS
  <2>8. ASSUME StatusOf(dir[i]) # "ok" PROVE ds # <<>>
    <3>1. CASE dir[i].known
      <4>1. \E n \in DOMAIN dir[i].diags : dir[i].diags[n] \in {"warning", "error"}
        BY <2>8, <3>1 DEF StatusOf
      <4>2. dir[i].diags # <<>>
        BY <4>1
      <4> QED
        BY <3>1, <4>2 DEF DiagsOf
    <3>2. CASE ~dir[i].known
      BY <2>2, <3>2 DEF DiagsOf
    <3> QED
      BY <3>1, <3>2
  <2> HIDE DEF ds
  <2>9. About(i, ds) \in Seq(Diagnoses)
    BY <1>2, <2>3
  <2>10. StatusOf(dir[i]) # "ok" => About(i, ds) # <<>>
    BY <1>1, <2>3, <2>8
  <2>11. Parsed(i).parsed = <<>> <=> Parsed(i).status \in {"failed", "unsupported"}
    BY <2>4, <2>5, <2>6, <2>7
  <2> QED
    BY <2>4, <2>9, <2>10, <2>11 DEF FileDone
<1>4. CASE ~(i \in DOMAIN dir /\ dir[i].readable)
  <2>1. /\ Parsed(i).diags = About(i, <<"error">>) /\ Parsed(i).ran = TRUE
        /\ Parsed(i).status = "failed" /\ Parsed(i).parsed = <<>>
    BY <1>4 DEF Parsed
  <2>2. <<"error">> \in Seq(Severities) /\ <<"error">> # <<>>
    BY DEF Severities
  <2>3. About(i, <<"error">>) \in Seq(Diagnoses) /\ About(i, <<"error">>) # <<>>
    BY <1>1, <2>2
  <2> QED
    BY <2>1, <2>3 DEF FileDone
<1> QED
  BY <1>3, <1>4

\* The files before the rest of todo have been parsed, in order, and what they
\* gave is what the sink has heard since the sidecars.
ParseInv ==
  phase \in {"parse", "done"} =>
    /\ todo \in Seq(Collectors)
    /\ Len(todo) <= Len(ParseOrder)
    /\ \A n \in 1..Len(todo) : todo[n] = ParseOrder[Len(ParseOrder) - Len(todo) + n]
    /\ \A n \in 1..Len(ParseOrder) - Len(todo) : FileDone(found.files[ParseOrder[n]])
    /\ \E f : /\ HeardUpTo(Len(ParseOrder) - Len(todo), found.diagnostics, Parts, f)
              /\ mirrored = f[Len(ParseOrder) - Len(todo)]
    /\ phase = "done" => todo = <<>>

Newer(s, i, d) == {j \in DOMAIN d : Names[j].suffix = s /\ Dated(j) /\ Names[j].prefix > Names[i].prefix}

\* No newer file of a directory d could have been taken, and a fallback is in heard.
SidecarsOK(sidecars, d, heard) ==
  \A s \in DOMAIN sidecars :
    /\ \A j \in Newer(s, sidecars[s].path, d) : ~(d[j].readable /\ d[j].text # "empty")
    /\ Newer(s, sidecars[s].path, d) # {} =>
         \E n \in DOMAIN heard : heard[n] = [file |-> sidecars[s].path, what |-> SidecarWarning]
SidecarInv ==
  /\ phase = "sidecars" => SidecarsOK(found.sidecars, dir, found.diagnostics)
  /\ phase \in {"parse", "done"} => SidecarsOK(found.sidecars, dir, mirrored)

Inv == TypeInv /\ GroupInv /\ ParseInv /\ SidecarInv

\* Files vanish, and more is heard: what was right of the sidecars stays so.
LEMMA SidecarsStay ==
  ASSUME NEW sidecars, NEW d, NEW e, NEW h, NEW g, SidecarsOK(sidecars, d, h),
         DOMAIN e \subseteq DOMAIN d, \A j \in DOMAIN e : e[j] = d[j],
         \A n \in DOMAIN h : n \in DOMAIN g /\ g[n] = h[n]
  PROVE  SidecarsOK(sidecars, e, g)
<1> SUFFICES ASSUME NEW s \in DOMAIN sidecars
             PROVE  /\ \A j \in Newer(s, sidecars[s].path, e) : ~(e[j].readable /\ e[j].text # "empty")
                    /\ Newer(s, sidecars[s].path, e) # {} =>
                         \E n \in DOMAIN g : g[n] = [file |-> sidecars[s].path, what |-> SidecarWarning]
  BY DEF SidecarsOK
<1>1. Newer(s, sidecars[s].path, e) \subseteq Newer(s, sidecars[s].path, d)
  BY DEF Newer
<1>2. \A j \in Newer(s, sidecars[s].path, e) : e[j] = d[j]
  BY DEF Newer
<1> QED
  BY <1>1, <1>2 DEF SidecarsOK

\* The invariant of Discover holds at first, and every step keeps it.
LEMMA InitInv == Init => Inv
<1> SUFFICES ASSUME Init PROVE Inv
  OBVIOUS
<1>1. DirOK
  BY DiscoverAssumption DEF Init, DirOK
<1>2. /\ found.diagnostics = <<>> /\ DOMAIN found.sidecars = {} /\ DOMAIN found = Fields
  BY DEF Init, NoCollection, Fields
<1>3. phase = "scan" /\ mirrored = <<>> /\ matches = <<>>
  BY DEF Init
<1> QED
  BY <1>1, <1>2, <1>3, EmptySeq DEF Inv, TypeInv, GroupInv, ParseInv, SidecarInv

\* Nothing of a collection is left when Discover fails.
LEMMA FailKeeps ==
  ASSUME Inv, NEW why, Fail(why)
  PROVE  Inv'
<1>1. /\ found'.diagnostics = <<>> /\ DOMAIN found' = Fields
  BY DEF Fail, NoCollection, Fields
<1>2. phase' = "failed" /\ UNCHANGED <<dir, matches, mirrored>>
  BY DEF Fail
<1>3. DirOK'
  BY <1>2 DEF Inv, TypeInv, DirOK
<1> QED
  BY <1>1, <1>2, <1>3, EmptySeq DEF Inv, TypeInv, GroupInv, ParseInv, SidecarInv, Listed, Dated, Diagnoses

\* What depends on the listing and the directory alone.
LEMMA ListingStays ==
  ASSUME matches' = matches, dir' = dir
  PROVE  /\ DirOK' <=> DirOK
         /\ Collectors' = Collectors
         /\ SnapshotsOf' = SnapshotsOf
<1>1. DirOK' <=> DirOK
  BY DEF DirOK
<1>2. Collectors' = Collectors
  BY DEF Collectors
<1> QED
  BY <1>1, <1>2 DEF SnapshotsOf

\* The next entry of the directory.
LEMMA ScanKeeps ==
  ASSUME Inv, ScanEntry
  PROVE  Inv'
<1> DEFINE i == Head(todo)
<1>1. CASE \E why : Fail(why)
  BY <1>1, FailKeeps
<1>2. CASE ~\E why : Fail(why)
  <2>1. /\ phase = "scan" /\ i \in DOMAIN dir
        /\ matches' = IF Dated(i) THEN Append(matches, i) ELSE matches
        /\ found' = [found EXCEPT !.total = @ + dir[i].size]
        /\ UNCHANGED <<dir, lost, cancelled, phase, mirrored, error>>
    BY <1>2 DEF ScanEntry
  <2> HIDE DEF i
  <2>2. /\ DOMAIN found' = Fields /\ found'.diagnostics = found.diagnostics
        /\ found'.sidecars = found.sidecars
    BY <2>1 DEF Inv, TypeInv, Fields
  <2>3. matches' \in Seq(Listed)
    <3>1. CASE Dated(i)
      <4>1. i \in Listed /\ matches \in Seq(Listed)
        BY <2>1, <3>1 DEF Listed, Inv, TypeInv, DirOK
      <4> QED
        BY <2>1, <3>1, <4>1
    <3>2. CASE ~Dated(i)
      BY <2>1, <3>2 DEF Inv, TypeInv
    <3> QED
      BY <3>1, <3>2
  <2>4. DirOK'
    BY <2>1 DEF Inv, TypeInv, DirOK
  <2>5. /\ phase' = "scan" /\ mirrored' = mirrored /\ mirrored = <<>> /\ found.diagnostics = <<>>
        /\ DOMAIN found.sidecars = {}
    BY <2>1 DEF Inv, GroupInv
  <2>6. matches' \in Seq(Listed')
    BY <2>3 DEF Listed, Dated
  <2> QED
    BY <2>2, <2>4, <2>5, <2>6, EmptySeq DEF Inv, TypeInv, GroupInv, ParseInv, SidecarInv
<1> QED
  BY <1>1, <1>2

\* The listing is complete: files and snapshots are those of the listing.
LEMMA GroupKeeps ==
  ASSUME Inv, Group
  PROVE  Inv'
<1>1. CASE \E why : Fail(why)
  BY <1>1, FailKeeps
<1>2. CASE ~\E why : Fail(why)
  <2>1. /\ phase = "scan" /\ phase' = "sidecars" /\ todo' = Sidecars
        /\ found' = [found EXCEPT !.hostname = readHostnameFrom,
                                  !.snapshots = SnapshotsOf,
                                  !.files = [j \in Collectors |-> NotParsed(j)]]
        /\ UNCHANGED <<dir, lost, cancelled, matches, summary, mirrored, error>>
    BY <1>2 DEF Group
  <2>2. /\ DOMAIN found' = Fields /\ found'.diagnostics = found.diagnostics
        /\ found'.sidecars = found.sidecars
        /\ found'.snapshots = SnapshotsOf
        /\ found'.files = [j \in Collectors |-> NotParsed(j)]
    BY <2>1 DEF Inv, TypeInv, Fields
  <2>3. DOMAIN found'.files = Collectors
    BY <2>2
  <2>4. /\ mirrored' = <<>> /\ found'.diagnostics = <<>> /\ DOMAIN found'.sidecars = {}
    BY <2>1, <2>2 DEF Inv, GroupInv
  <2>5. DirOK' /\ Collectors' = Collectors /\ SnapshotsOf' = SnapshotsOf
    BY <2>1, ListingStays DEF Inv, TypeInv
  <2>6. Grouped'
    BY <2>2, <2>3, <2>5 DEF Grouped
  <2>7. todo' \in Seq(STRING)
    BY <2>1, DiscoverAssumption
  <2>8. matches' \in Seq(Listed)'
    BY <2>1 DEF Inv, TypeInv, Listed, Dated
  <2>9. SidecarsOK(found.sidecars, dir, found.diagnostics)'
    BY <2>4 DEF SidecarsOK
  <2> QED
    BY <2>1, <2>2, <2>4, <2>5, <2>6, <2>7, <2>8, <2>9, EmptySeq DEF Inv, TypeInv, GroupInv, ParseInv, SidecarInv
<1> QED
  BY <1>1, <1>2

\* Some file of those that have no later position is the newest.
LEMMA NewestIsNewest ==
  ASSUME NEW S, S \subseteq Listed, S # {}
  PROVE  Newest(S) \in S /\ \A j \in S : Names[j].prefix <= Names[Newest(S)].prefix
<1>1. DOMAIN Names = 1..Len(Names) /\ Len(Names) \in Nat
  BY DiscoverAssumption, LenProperties
<1>2. \A i \in DOMAIN Names : Names[i] \in [prefix : Nat, date : BOOLEAN, suffix : STRING]
  BY <1>1, DiscoverAssumption, ElementOfSeq
<1>3. \A i \in S : i \in 1..Len(Names) /\ Names[i].prefix # 0 /\ Names[i].prefix \in Nat
  BY <1>1, <1>2 DEF Listed, Dated
<1> DEFINE T == {Len(Names) - i : i \in S}
<1>4. T \subseteq Nat /\ T # {}
  BY <1>1, <1>3
<1>5. \E m \in T : \A n \in T : m <= n
  <2> HIDE DEF T
  <2> QED
    BY <1>4, LeastNumber
<1>6. PICK i \in S : \A j \in S : Len(Names) - i <= Len(Names) - j
  BY <1>5
<1>7. \A j \in S : j <= i
  BY <1>1, <1>3, <1>6
<1>8. ASSUME NEW j \in S PROVE Names[j].prefix <= Names[i].prefix
  <2>1. CASE j = i
    BY <1>3, <2>1
  <2>2. CASE j # i
    <3>1. j < i
      BY <1>3, <1>7, <2>2
    <3> QED
      BY <1>1, <1>3, <3>1, DiscoverAssumption
  <2> QED
    BY <2>1, <2>2
<1>9. \E k \in S : \A j \in S : Names[j].prefix <= Names[k].prefix
  BY <1>8
<1> QED
  BY <1>9 DEF Newest

\* The next sidecar: the newest usable file, and a warning if it is not the newest.
LEMMA SidecarKeeps ==
  ASSUME Inv, LoadSidecar
  PROVE  Inv'
<1> DEFINE suffix == Head(todo)
           files == Candidates(suffix)
           usable == {i \in files : Usable(i)}
           i == Newest(usable)
           ds == SidecarDiags(suffix, files, i)
           more == About(i, ds)
<1>1. /\ phase = "sidecars" /\ phase' = "sidecars" /\ todo # <<>> /\ todo' = Tail(todo)
      /\ UNCHANGED <<dir, matches, mirrored>>
  BY DEF LoadSidecar
<1>2. todo' \in Seq(STRING)
  BY <1>1, HeadTailProperties DEF Inv, TypeInv
<1>3. DirOK' /\ Collectors' = Collectors /\ SnapshotsOf' = SnapshotsOf
  BY <1>1, ListingStays DEF Inv, TypeInv
<1>4. matches' \in Seq(Listed)'
  BY <1>1 DEF Inv, TypeInv, Listed, Dated
<1>5. DOMAIN found = Fields /\ found.diagnostics \in Seq(Diagnoses) /\ mirrored = <<>> /\ Grouped
  BY <1>1 DEF Inv, TypeInv, GroupInv
<1>6. CASE usable = {}
  <2>1. found' = found
    BY <1>6 DEF LoadSidecar
  <2>2. Grouped' /\ SidecarsOK(found.sidecars, dir, found.diagnostics)'
    BY <1>1, <1>3, <1>5, <2>1 DEF Grouped, Inv, SidecarInv
  <2> HIDE DEF usable
  <2> QED
    BY <1>1, <1>2, <1>3, <1>4, <1>5, <2>1, <2>2, EmptySeq
       DEF Inv, TypeInv, GroupInv, ParseInv, SidecarInv, Diagnoses
<1>7. CASE usable # {}
  <2>1. found' = [found EXCEPT
               !.sidecars = [s \in DOMAIN found.sidecars \cup {suffix} |->
                               IF s = suffix THEN [path |-> i, says |-> dir[i].says] ELSE found.sidecars[s]],
               !.diagnostics = found.diagnostics \o more]
    BY <1>7 DEF LoadSidecar
  <2>2. files \subseteq Listed /\ usable \subseteq files
    BY DEF Candidates, Listed, Inv, TypeInv, DirOK
  <2>3. i \in usable /\ \A j \in usable : Names[j].prefix <= Names[i].prefix
    <3> HIDE DEF files, usable
    <3>1. usable \subseteq Listed
      BY <2>2
    <3> HIDE DEF i
    <3> QED
      BY <1>7, <3>1, NewestIsNewest DEF i
  <2>4. i \in Listed /\ i \in DOMAIN dir /\ i \in DOMAIN Names
    BY <2>2, <2>3 DEF Listed, Candidates
  <2> DEFINE mem == IF suffix = "meminfo" THEN dir[i].envDiags ELSE <<>>
             back == IF PassedOver(files, i) THEN <<SidecarWarning>> ELSE <<>>
             W == Severities \cup {SidecarWarning}
  <2>5. ds = mem \o back
    BY DEF SidecarDiags
  <2>6. mem \in Seq(W)
    <3>1. dir[i].envDiags \in Seq(Severities)
      BY <2>4 DEF Inv, TypeInv, DirOK
    <3>2. dir[i].envDiags \in Seq(W)
      BY <3>1, SeqMonotonic
    <3> QED
      BY <3>2, EmptySeq
  <2>7. back \in Seq(W) /\ (PassedOver(files, i) => Len(back) = 1 /\ back[1] = SidecarWarning)
    <3>1. SidecarWarning \in W
      OBVIOUS
    <3>2. <<SidecarWarning>> \in Seq(W) /\ Len(<<SidecarWarning>>) = 1 /\ <<SidecarWarning>>[1] = SidecarWarning
      BY <3>1, SequenceOfOne
    <3> QED
      BY <3>2, EmptySeq
  <2> DEFINE h == found.diagnostics
             g == found.diagnostics \o more
  <2> HIDE DEF mem, back, W
  <2>8. /\ ds \in Seq(W) /\ Len(ds) = Len(mem) + Len(back)
        /\ Len(mem) \in Nat /\ Len(back) \in Nat
        /\ PassedOver(files, i) => Len(ds) \in 1..Len(ds) /\ ds[Len(ds)] = SidecarWarning
    <3>1. /\ mem \o back \in Seq(W) /\ Len(mem \o back) = Len(mem) + Len(back)
          /\ \A n \in 1..Len(mem) + Len(back) :
               (mem \o back)[n] = IF n <= Len(mem) THEN mem[n] ELSE back[n - Len(mem)]
      BY <2>6, <2>7, ConcatProperties, Zenon
    <3>2. Len(mem) \in Nat /\ Len(back) \in Nat
      BY <2>6, <2>7, LenProperties
    <3> HIDE DEF ds, files, i
    <3> DEFINE c == mem \o back
    <3>3. /\ c \in Seq(W) /\ Len(c) = Len(mem) + Len(back) /\ ds = c
          /\ \A n \in 1..Len(mem) + Len(back) : c[n] = IF n <= Len(mem) THEN mem[n] ELSE back[n - Len(mem)]
      BY <2>5, <3>1
    <3> HIDE DEF c
    <3> QED
      BY <2>7, <3>2, <3>3
  <2>9. /\ more \in Seq(Diagnoses) /\ Len(more) = Len(ds)
        /\ \A n \in 1..Len(ds) : more[n] = [file |-> i, what |-> ds[n]]
    <3> HIDE DEF ds, i
    <3> QED
      BY <2>4, <2>8, AboutTypes DEF W
  <2> HIDE DEF more
  <2>10. /\ g \in Seq(Diagnoses) /\ Len(g) = Len(h) + Len(more) /\ Len(h) \in Nat /\ Len(more) \in Nat
         /\ \A n \in 1..Len(h) + Len(more) : g[n] = IF n <= Len(h) THEN h[n] ELSE more[n - Len(h)]
    <3>1. /\ h \o more \in Seq(Diagnoses) /\ Len(h \o more) = Len(h) + Len(more)
          /\ \A n \in 1..Len(h) + Len(more) : (h \o more)[n] = IF n <= Len(h) THEN h[n] ELSE more[n - Len(h)]
      BY <1>5, <2>9, ConcatProperties, Zenon
    <3>2. Len(h) \in Nat /\ Len(more) \in Nat
      BY <1>5, <2>9, LenProperties
    <3> QED
      BY <3>1, <3>2
  <2> DEFINE sc == [s \in DOMAIN found.sidecars \cup {suffix} |->
                      IF s = suffix THEN [path |-> i, says |-> dir[i].says] ELSE found.sidecars[s]]
  <2>11. found' = [found EXCEPT !.sidecars = sc, !.diagnostics = g]
    BY <2>1
  <2>12. DOMAIN g = 1..Len(g) /\ DOMAIN h = 1..Len(h)
    BY <1>5, <2>10, LenProperties
  <2>13. SidecarsOK(sc, dir, g)
    <3> SUFFICES ASSUME NEW s \in DOMAIN sc
                 PROVE  /\ \A j \in Newer(s, sc[s].path, dir) : ~(dir[j].readable /\ dir[j].text # "empty")
                        /\ Newer(s, sc[s].path, dir) # {} =>
                             \E n \in DOMAIN g : g[n] = [file |-> sc[s].path, what |-> SidecarWarning]
      BY DEF SidecarsOK
    <3>1. CASE s # suffix
      <4>1. s \in DOMAIN found.sidecars /\ sc[s] = found.sidecars[s]
        BY <3>1
      <4>2. SidecarsOK(found.sidecars, dir, h)
        BY <1>1 DEF Inv, SidecarInv
      <4>3. \A n \in DOMAIN h : n \in DOMAIN g /\ g[n] = h[n]
        <5> HIDE DEF g, h
        <5> QED
          BY <2>10, <2>12
      <4> HIDE DEF sc, g, h
      <4> QED
        BY <4>1, <4>2, <4>3 DEF SidecarsOK
    <3>2. CASE s = suffix
      <4>1. sc[s].path = i
        BY <3>2
      <4>2. Newer(s, i, dir) = {j \in files : Names[j].prefix > Names[i].prefix}
        BY <3>2 DEF Newer, Candidates
      <4>3. \A j \in files : j \in DOMAIN Names /\ Names[j].prefix \in Nat
        <5>1. DOMAIN Names = 1..Len(Names) /\ Len(Names) \in Nat
          BY DiscoverAssumption, LenProperties
        <5>2. \A j \in DOMAIN Names : Names[j] \in [prefix : Nat, date : BOOLEAN, suffix : STRING]
          BY <5>1, DiscoverAssumption, ElementOfSeq
        <5> QED
          BY <2>2, <5>2 DEF Listed
      <4>4. \A j \in usable : Names[j].prefix <= Names[i].prefix
        BY <2>3
      <4>5. i \in files /\ \A j \in files : j \in usable <=> (dir[j].readable /\ dir[j].text # "empty")
        BY <2>2, <2>3 DEF Usable
      <4>6. PassedOver(files, i) <=> Newer(s, i, dir) # {}
        BY <4>2 DEF PassedOver
      <4> HIDE DEF files, usable, i, sc
      <4>7. \A j \in Newer(s, i, dir) : ~(dir[j].readable /\ dir[j].text # "empty")
        BY <4>2, <4>3, <4>4, <4>5
      <4>8. ASSUME Newer(s, i, dir) # {}
            PROVE  \E n \in DOMAIN g : g[n] = [file |-> i, what |-> SidecarWarning]
        <5>1. Len(ds) \in 1..Len(ds) /\ ds[Len(ds)] = SidecarWarning
          BY <2>8, <4>6, <4>8
        <5> HIDE DEF g, h, ds
        <5>2. more[Len(ds)] = [file |-> i, what |-> SidecarWarning]
          BY <2>9, <5>1
        <5>3. Len(h) + Len(ds) \in DOMAIN g /\ g[Len(h) + Len(ds)] = more[Len(ds)]
          BY <2>9, <2>10, <2>12, <5>1
        <5> QED
          BY <5>2, <5>3
      <4> QED
        BY <4>1, <4>7, <4>8
    <3> QED
      BY <3>1, <3>2
  <2> HIDE DEF sc, g, h, ds, i, files, usable, suffix
  <2>14. /\ DOMAIN found' = Fields /\ found'.diagnostics = g /\ found'.sidecars = sc
         /\ found'.snapshots = found.snapshots /\ found'.files = found.files
    BY <1>5, <2>11 DEF Fields
  <2>15. Grouped' /\ SidecarsOK(found.sidecars, dir, found.diagnostics)'
    BY <1>1, <1>3, <1>5, <2>13, <2>14 DEF Grouped
  <2>16. found'.diagnostics \in Seq(Diagnoses)' /\ mirrored' \in Seq(Diagnoses)'
    BY <1>1, <1>5, <2>10, <2>14, EmptySeq DEF Diagnoses
  <2> QED
    BY <1>1, <1>2, <1>3, <1>4, <1>5, <2>14, <2>15, <2>16 DEF Inv, TypeInv, GroupInv, ParseInv, SidecarInv
<1> QED
  BY <1>6, <1>7

\* All sidecars are loaded: the sink hears what they gave, and the files are put in order.
LEMMA LoadedKeeps ==
  ASSUME Inv, SidecarsLoaded
  PROVE  Inv'
<1> DEFINE d == found.diagnostics
           L == Len(ParseOrder)
<1>1. /\ phase = "sidecars" /\ phase' = "parse" /\ todo' = ParseOrder
      /\ mirrored' = mirrored \o d
      /\ UNCHANGED <<dir, matches, found>>
  BY DEF SidecarsLoaded
<1>2. /\ DOMAIN found = Fields /\ d \in Seq(Diagnoses) /\ mirrored = <<>> /\ Grouped
      /\ matches \in Seq(Listed) /\ SidecarsOK(found.sidecars, dir, d)
  BY <1>1 DEF Inv, TypeInv, GroupInv, SidecarInv
<1>3. mirrored' = d
  <2>1. <<>> \o d = d
    BY <1>2, ConcatEmptySeq, Zenon
  <2> QED
    BY <1>1, <1>2, <2>1, Zenon
<1>4. DirOK' /\ Collectors' = Collectors /\ SnapshotsOf' = SnapshotsOf
  BY <1>1, ListingStays DEF Inv, TypeInv
<1>5. ParseOrder' = ParseOrder
  BY <1>1, OrderStays
<1>6. ParseOrder \in Seq(Collectors) /\ L \in Nat
  BY <1>2, ParseOrderSorts
<1>7. TypeInv'
  <2>1. matches' \in Seq(Listed)' /\ found'.diagnostics \in Seq(Diagnoses)' /\ mirrored' \in Seq(Diagnoses)'
    BY <1>1, <1>2, <1>3 DEF Listed, Dated, Diagnoses
  <2> QED
    BY <1>1, <1>2, <1>4, <2>1 DEF TypeInv
<1>8. GroupInv'
  BY <1>1, <1>2, <1>4 DEF GroupInv, Grouped
<1>9. SidecarInv'
  BY <1>1, <1>2, <1>3 DEF SidecarInv
<1>10. ParseInv'
  <2>1. /\ todo' \in Seq(Collectors') /\ Len(todo') <= Len(ParseOrder')
        /\ Len(ParseOrder') - Len(todo') = 0
        /\ \A n \in 1..Len(todo') : todo'[n] = ParseOrder'[0 + n]
    BY <1>1, <1>4, <1>5, <1>6
  <2> DEFINE f == [n \in 0..0 |-> d]
  <2>2. HeardUpTo(0, d, Parts', f) /\ f[0] = d
    <3>1. f[0] = d /\ DOMAIN f = 0..0
      OBVIOUS
    <3> HIDE DEF f
    <3> QED
      BY <3>1 DEF HeardUpTo
  <2> HIDE DEF f, L
  <2>3. \E g : HeardUpTo(0, found'.diagnostics, Parts', g) /\ mirrored' = g[0]
    BY <1>1, <1>3, <2>2
  <2>4. phase' # "done" /\ \A n \in 1..0 : FileDone(found'.files[ParseOrder'[n]])
    BY <1>1
  <2> QED
    BY <2>1, <2>3, <2>4 DEF ParseInv
<1> QED
  BY <1>7, <1>8, <1>9, <1>10 DEF Inv

\* The next file is parsed, and the sink hears what it gave.
LEMMA ParseKeeps ==
  ASSUME Inv, ParseFile
  PROVE  Inv'
<1>1. CASE \E why : Fail(why)
  BY <1>1, FailKeeps
<1>2. CASE ~\E why : Fail(why)
  <2> DEFINE i == Head(todo)
             L == Len(ParseOrder)
             k == L - Len(todo)
             more == Parsed(i).diags
  <2>1. /\ phase = "parse" /\ phase' = "parse" /\ todo # <<>> /\ todo' = Tail(todo)
        /\ found' = [found EXCEPT !.files[i] = Parsed(i)]
        /\ mirrored' = mirrored \o more
        /\ UNCHANGED <<dir, matches>>
    BY <1>2 DEF ParseFile, Mirrors
  <2>2. /\ DOMAIN found = Fields /\ found.diagnostics \in Seq(Diagnoses) /\ mirrored \in Seq(Diagnoses)
        /\ Grouped /\ matches \in Seq(Listed) /\ SidecarsOK(found.sidecars, dir, mirrored) /\ DirOK
    BY <2>1 DEF Inv, TypeInv, GroupInv, SidecarInv
  <2>3. /\ todo \in Seq(Collectors) /\ Len(todo) <= L
        /\ \A n \in 1..Len(todo) : todo[n] = ParseOrder[L - Len(todo) + n]
        /\ \A n \in 1..L - Len(todo) : FileDone(found.files[ParseOrder[n]])
        /\ \E f : /\ HeardUpTo(L - Len(todo), found.diagnostics, Parts, f)
                  /\ mirrored = f[L - Len(todo)]
    BY <2>1 DEF Inv, ParseInv
  <2>4. /\ ParseOrder \in Seq(Collectors) /\ L \in Nat /\ DOMAIN ParseOrder = 1..L
        /\ \A m, n \in 1..L : m # n => ParseOrder[m] # ParseOrder[n]
    BY <2>2, ParseOrderSorts
  <2>5. /\ Len(todo) \in Nat /\ Len(todo) # 0
        /\ i = todo[1] /\ i \in Collectors
        /\ Tail(todo) \in Seq(Collectors) /\ Len(Tail(todo)) = Len(todo) - 1
        /\ \A n \in 1..Len(todo) - 1 : Tail(todo)[n] = todo[n + 1]
    <3>1. Len(todo) \in Nat /\ Len(todo) # 0
      BY <2>1, <2>3, EmptySeq, LenProperties
    <3> QED
      BY <2>1, <2>3, <3>1, HeadTailProperties, ElementOfSeq
  <2>6. k \in Nat /\ k + 1 \in 1..L /\ i = ParseOrder[k + 1] /\ L - (Len(todo) - 1) = k + 1
    BY <2>3, <2>4, <2>5
  <2>7. i \in DOMAIN Names /\ i \in DOMAIN found.files
    BY <2>2, <2>5, CollectorsListed DEF Grouped
  <2>8. more \in Seq(Diagnoses) /\ FileDone(Parsed(i))
    BY <2>2, <2>7, ParsedIsDone
  <2>9. /\ mirrored' \in Seq(Diagnoses)
        /\ Len(mirrored') = Len(mirrored) + Len(more)
        /\ \A n \in 1..Len(mirrored) + Len(more) :
             mirrored'[n] = IF n <= Len(mirrored) THEN mirrored[n] ELSE more[n - Len(mirrored)]
        /\ Len(mirrored) \in Nat /\ Len(more) \in Nat
    <3> HIDE DEF more
    <3>1. /\ mirrored \o more \in Seq(Diagnoses) /\ Len(mirrored \o more) = Len(mirrored) + Len(more)
          /\ \A n \in 1..Len(mirrored) + Len(more) :
               (mirrored \o more)[n] = IF n <= Len(mirrored) THEN mirrored[n] ELSE more[n - Len(mirrored)]
      BY <2>2, <2>8, ConcatProperties, Zenon
    <3>2. Len(mirrored) \in Nat /\ Len(more) \in Nat
      BY <2>2, <2>8, LenProperties
    <3> QED
      BY <2>1, <3>1, <3>2
  <2>10. /\ DOMAIN found' = Fields
         /\ found'.diagnostics = found.diagnostics /\ found'.snapshots = found.snapshots
         /\ found'.sidecars = found.sidecars
         /\ found'.files = [found.files EXCEPT ![i] = Parsed(i)]
    <3> HIDE DEF i
    <3> QED
      BY <2>1, <2>2 DEF Fields
  <2>11. /\ DOMAIN found'.files = DOMAIN found.files
         /\ found'.files[i] = Parsed(i)
         /\ \A j \in DOMAIN found.files \ {i} : found'.files[j] = found.files[j]
    <3> HIDE DEF i
    <3> QED
      BY <2>7, <2>10
  <2>12. ParseOrder' = ParseOrder
    BY <2>10, <2>11, OrderStays
  <2>13. DirOK' /\ Collectors' = Collectors /\ SnapshotsOf' = SnapshotsOf
    BY <2>1, <2>2, ListingStays
  <2>14. TypeInv'
    <3>1. matches' \in Seq(Listed)' /\ found'.diagnostics \in Seq(Diagnoses)' /\ mirrored' \in Seq(Diagnoses)'
      BY <2>1, <2>2, <2>9, <2>10 DEF Listed, Dated, Diagnoses
    <3> QED
      BY <2>1, <2>10, <2>13, <3>1 DEF TypeInv
  <2>15. GroupInv'
    BY <2>1, <2>2, <2>10, <2>11, <2>13 DEF GroupInv, Grouped
  <2>16. SidecarInv'
    <3>1. \A n \in DOMAIN mirrored : n \in DOMAIN mirrored' /\ mirrored'[n] = mirrored[n]
      <4>1. DOMAIN mirrored = 1..Len(mirrored)
        BY <2>2, LenProperties
      <4>2. DOMAIN mirrored' = 1..Len(mirrored) + Len(more)
        BY <2>9, LenProperties
      <4> HIDE DEF more
      <4> QED
        BY <2>9, <4>1, <4>2
    <3> DEFINE g == mirrored'
    <3> HIDE DEF g
    <3>2. \A n \in DOMAIN mirrored : n \in DOMAIN g /\ g[n] = mirrored[n]
      BY <3>1 DEF g
    <3>3. SidecarsOK(found.sidecars, dir, g)
      BY <2>2, <3>2, SidecarsStay
    <3>4. found'.sidecars = found.sidecars /\ dir' = dir /\ mirrored' = g
      BY <2>1, <2>10 DEF g
    <3>5. SidecarsOK(found.sidecars, dir, mirrored)'
      BY <3>3, <3>4 DEF SidecarsOK, Newer, Dated
    <3> QED
      BY <2>1, <3>5 DEF SidecarInv
  <2>17. ParseInv'
    <3>1. \A n \in 1..k : ParseOrder[n] # i /\ ParseOrder[n] \in DOMAIN found.files
      <4>1. \A n \in 1..k : n \in 1..L /\ n # k + 1
        BY <2>4, <2>6
      <4>2. \A n \in 1..L : ParseOrder[n] \in Collectors
        BY <2>4, ElementOfSeq
      <4> HIDE DEF i, k, L
      <4> QED
        BY <2>2, <2>4, <2>6, <4>1, <4>2 DEF Grouped
    <3>2. \A n \in 1..k : found'.files[ParseOrder[n]] = found.files[ParseOrder[n]]
      <4> HIDE DEF i, k, L
      <4> QED
        BY <2>11, <3>1
    <3>3. /\ \A n \in 1..k : Parts'[n] = Parts[n]
          /\ Parts'[k + 1] = more
      <4>1. \A n \in Nat : Parts[n] = found.files[ParseOrder[n]].diags
        BY DEF Parts
      <4>2. \A n \in Nat : Parts'[n] = found'.files[ParseOrder[n]].diags
        BY <2>12 DEF Parts
      <4>3. k + 1 \in Nat /\ \A n \in 1..k : n \in Nat
        BY <2>6
      <4> HIDE DEF k
      <4> QED
        BY <2>6, <2>11, <3>2, <4>1, <4>2, <4>3
    <3>4. PICK f : HeardUpTo(k, found.diagnostics, Parts, f) /\ mirrored = f[k]
      BY <2>3
    <3> DEFINE new == Parts'
    <3>5. /\ \A n \in 1..k : new[n] = Parts[n]
          /\ new[k + 1] = more
      BY <3>3
    <3> HIDE DEF new, k, L, more
    <3>6. PICK g : HeardUpTo(k + 1, found.diagnostics, new, g) /\ g[k + 1] = Cat(f[k], new[k + 1])
      BY <2>6, <3>4, <3>5, HeardMore
    <3>7. mirrored' = g[k + 1]
      BY <2>1, <3>4, <3>5, <3>6, Zenon DEF Cat
    <3>8. /\ todo' \in Seq(Collectors') /\ Len(todo') = Len(todo) - 1 /\ Len(ParseOrder') = L
          /\ Len(todo) - 1 <= L /\ L - Len(todo') = k + 1
      BY <2>1, <2>3, <2>4, <2>5, <2>6, <2>12, <2>13 DEF L
    <3>9. \A n \in 1..Len(todo') : todo'[n] = ParseOrder'[L - Len(todo') + n]
      <4> SUFFICES ASSUME NEW n \in 1..Len(todo) - 1
                   PROVE  todo'[n] = ParseOrder[k + 1 + n]
        BY <2>12, <3>8
      <4>1. todo'[n] = todo[n + 1] /\ n + 1 \in 1..Len(todo)
        BY <2>1, <2>5
      <4>2. todo[n + 1] = ParseOrder[L - Len(todo) + (n + 1)]
        BY <2>3, <4>1
      <4>3. L - Len(todo) + (n + 1) = k + 1 + n
        BY <2>4, <2>5, <2>6 DEF k
      <4> QED
        BY <4>1, <4>2, <4>3
    <3>10. \A n \in 1..k + 1 : FileDone(found'.files[ParseOrder[n]])
      <4>1. \A n \in 1..k : FileDone(found.files[ParseOrder[n]])
        BY <2>3 DEF k
      <4> QED
        BY <2>6, <2>8, <2>11, <3>2, <4>1
    <3>11. HeardUpTo(k + 1, found'.diagnostics, Parts', g)
      BY <2>10, <3>6 DEF new
    <3> QED
      BY <2>1, <2>12, <3>7, <3>8, <3>9, <3>10, <3>11 DEF ParseInv
  <2> QED
    BY <2>14, <2>15, <2>16, <2>17 DEF Inv
<1> QED
  BY <1>1, <1>2

\* What depends on the listing and the collection alone.
LEMMA FoundStays ==
  ASSUME found' = found, matches' = matches
  PROVE  /\ Collectors' = Collectors /\ SnapshotsOf' = SnapshotsOf /\ (Grouped' <=> Grouped)
         /\ ParseOrder' = ParseOrder /\ Parts' = Parts
<1>1. Collectors' = Collectors
  BY DEF Collectors
<1>2. SnapshotsOf' = SnapshotsOf
  BY <1>1 DEF SnapshotsOf
<1>3. ParseOrder' = ParseOrder
  BY OrderStays
<1> QED
  BY <1>1, <1>2, <1>3 DEF Grouped, Parts

\* Steps that leave what Discover holds alone, though files may vanish.
LEMMA OthersKeep ==
  ASSUME Inv, UNCHANGED <<todo, matches, found, mirrored>>,
         phase' = phase \/ (phase = "parse" /\ phase' = "done" /\ todo = <<>>),
         DOMAIN dir' \subseteq DOMAIN dir, \A j \in DOMAIN dir' : dir'[j] = dir[j]
  PROVE  Inv'
<1>1. /\ Collectors' = Collectors /\ SnapshotsOf' = SnapshotsOf /\ (Grouped' <=> Grouped)
      /\ ParseOrder' = ParseOrder /\ Parts' = Parts
  BY FoundStays
<1>2. TypeInv'
  <2>1. DirOK'
    BY DEF Inv, TypeInv, DirOK
  <2>2. matches' \in Seq(Listed)' /\ found'.diagnostics \in Seq(Diagnoses)' /\ mirrored' \in Seq(Diagnoses)'
    BY DEF Inv, TypeInv, Listed, Dated, Diagnoses
  <2> QED
    BY <2>1, <2>2 DEF Inv, TypeInv
<1>3. GroupInv'
  BY <1>1 DEF Inv, GroupInv
<1>4. ParseInv'
  BY <1>1 DEF Inv, ParseInv
<1>5. SidecarInv'
  <2> DEFINE e == dir'
  <2>1. DOMAIN e \subseteq DOMAIN dir /\ \A j \in DOMAIN e : e[j] = dir[j]
    OBVIOUS
  <2> HIDE DEF e
  <2>2. ASSUME NEW h, SidecarsOK(found.sidecars, dir, h) PROVE SidecarsOK(found.sidecars, e, h)
    BY <2>1, <2>2, SidecarsStay
  <2>3. \A h : SidecarsOK(found.sidecars, e, h) => SidecarsOK(found'.sidecars, dir', h)
    BY DEF e
  <2>4. phase' = "sidecars" => SidecarsOK(found'.sidecars, dir', found.diagnostics)
    BY <2>2, <2>3 DEF Inv, SidecarInv
  <2>5. phase' \in {"parse", "done"} => SidecarsOK(found'.sidecars, dir', mirrored)
    BY <2>2, <2>3 DEF Inv, SidecarInv
  <2>6. found'.diagnostics = found.diagnostics /\ mirrored' = mirrored
    OBVIOUS
  <2> QED
    BY <2>4, <2>5, <2>6 DEF SidecarInv
<1> QED
  BY <1>2, <1>3, <1>4, <1>5 DEF Inv

\* Every step of Discover keeps the invariant.
LEMMA StepKeeps == Inv /\ [Next]_discoverVars => Inv'
<1> SUFFICES ASSUME Inv, [Next]_discoverVars PROVE Inv'
  OBVIOUS
<1>1. CASE ScanEntry
  BY <1>1, ScanKeeps
<1>2. CASE Group
  BY <1>2, GroupKeeps
<1>3. CASE LoadSidecar
  BY <1>3, SidecarKeeps
<1>4. CASE SidecarsLoaded
  BY <1>4, LoadedKeeps
<1>5. CASE ParseFile
  BY <1>5, ParseKeeps
<1>6. CASE Return
  BY <1>6, OthersKeep DEF Return
<1>7. CASE Cancel
  BY <1>7, OthersKeep DEF Cancel
<1>8. CASE Vanish
  <2>1. PICK i \in DOMAIN dir : dir' = [j \in DOMAIN dir \ {i} |-> dir[j]]
    BY <1>8 DEF Vanish
  <2>2. DOMAIN dir' \subseteq DOMAIN dir /\ \A j \in DOMAIN dir' : dir'[j] = dir[j]
    BY <2>1
  <2>3. UNCHANGED <<todo, matches, found, mirrored, phase>>
    BY <1>8 DEF Vanish
  <2> QED
    BY <2>2, <2>3, OthersKeep
<1>9. CASE UNCHANGED discoverVars
  BY <1>9, OthersKeep DEF discoverVars
<1> QED
  BY <1>1, <1>2, <1>3, <1>4, <1>5, <1>6, <1>7, <1>8, <1>9 DEF Next

\* The invariant holds what the properties of Discover say.
LEMMA InvMirrors == Inv => EverythingMirrored
<1> SUFFICES ASSUME Inv, phase = "done" PROVE mirrored = Recorded
  BY DEF EverythingMirrored
<1>1. Len(ParseOrder) \in Nat
  BY ParseOrderSorts DEF Inv, TypeInv, GroupInv
<1>2. Len(todo) = 0
  BY DEF Inv, ParseInv
<1>3. PICK f : HeardUpTo(Len(ParseOrder), found.diagnostics, Parts, f) /\ mirrored = f[Len(ParseOrder)]
  BY <1>1, <1>2 DEF Inv, ParseInv
<1> QED
  BY <1>1, <1>3, RecordedIsHeard

\* Every file of a returned collection has had its turn.
LEMMA InvParses == Inv => NothingHalfParsed
<1> SUFFICES ASSUME Inv, phase = "done" PROVE NothingHalfParsed
  BY DEF NothingHalfParsed
<1>1. matches \in Seq(Listed) /\ Grouped
  BY DEF Inv, TypeInv, GroupInv
<1>2. /\ found.snapshots # <<>>
      /\ \A m, n \in DOMAIN found.snapshots : m < n => found.snapshots[m] < found.snapshots[n]
      /\ \A i \in DOMAIN found.files : Names[i].prefix \in ToSet(found.snapshots)
  BY <1>1, SnapshotsSort DEF Grouped
<1>3. ASSUME NEW i \in DOMAIN found.files PROVE FileDone(found.files[i])
  <2>1. PICK n \in DOMAIN ParseOrder : ParseOrder[n] = i
    BY <1>1, ParseOrderSorts DEF Grouped
  <2>2. DOMAIN ParseOrder = 1..Len(ParseOrder) /\ Len(ParseOrder) \in Nat
    BY <1>1, ParseOrderSorts
  <2>3. Len(todo) = 0 /\ Len(ParseOrder) - Len(todo) = Len(ParseOrder)
    BY <2>2 DEF Inv, ParseInv
  <2> QED
    BY <2>1, <2>2, <2>3 DEF Inv, ParseInv
<1> QED
  BY <1>2, <1>3 DEF NothingHalfParsed, FileDone

\* No newer usable file was passed over, and no fallback was silent.
LEMMA InvSidecars == Inv => NewestSidecar
<1> SUFFICES ASSUME Inv, phase \in {"parse", "done"}, NEW s \in DOMAIN found.sidecars
             PROVE  LET i == found.sidecars[s].path IN
                    /\ \A j \in Newer(s, i, dir) : ~Usable(j)
                    /\ Newer(s, i, dir) # {} =>
                         \E n \in DOMAIN mirrored : mirrored[n] = [file |-> i, what |-> SidecarWarning]
  BY DEF NewestSidecar, Newer
<1>1. SidecarsOK(found.sidecars, dir, mirrored)
  BY DEF Inv, SidecarInv
<1> QED
  BY <1>1 DEF SidecarsOK, Usable
-----------------------------------------------------------------------------
\* The panels of the variables.

\* Equal signatures are of the same settings.
LEMMA SameSignature ==
  ASSUME NEW a, NEW b, snapshotSignature(a) = snapshotSignature(b)
  PROVE  /\ DOMAIN a \ Volatile = DOMAIN b \ Volatile
         /\ \A x \in DOMAIN a \ Volatile : a[x] = b[x]
<1> DEFINE f == snapshotSignature(a)
           g == snapshotSignature(b)
<1>1. /\ DOMAIN f = DOMAIN a \ Volatile /\ \A x \in DOMAIN a \ Volatile : f[x] = a[x]
      /\ DOMAIN g = DOMAIN b \ Volatile /\ \A x \in DOMAIN b \ Volatile : g[x] = b[x]
  BY DEF snapshotSignature
<1>2. f = g
  OBVIOUS
<1> HIDE DEF f, g
<1> QED
  BY <1>1, <1>2

\* What a panel marks depends on the one before it by its signature only.
LEMMA MarkedBySignature ==
  ASSUME NEW a, NEW b, NEW new, a # Nil, b # Nil, snapshotSignature(a) = snapshotSignature(b)
  PROVE  Marked(a, new) = Marked(b, new)
<1>1. /\ DOMAIN a \ Volatile = DOMAIN b \ Volatile
      /\ \A x \in DOMAIN a \ Volatile : a[x] = b[x]
  BY SameSignature
<1> QED
  BY <1>1 DEF Marked

\* Between equal signatures nothing is marked.
LEMMA NothingMarked ==
  ASSUME NEW a, NEW b, snapshotSignature(a) = snapshotSignature(b)
  PROVE  Marked(a, b) = {}
<1>1. /\ DOMAIN a \ Volatile = DOMAIN b \ Volatile
      /\ \A x \in DOMAIN a \ Volatile : a[x] = b[x]
  BY SameSignature
<1> QED
  BY <1>1 DEF Marked

\* The runs of a sequence of N snapshots: s are their starts, there are C of them.
RunEnd(s, C, N, k) == IF k = C THEN N ELSE s[k + 1] - 1

AreRuns(vars, N, C, s) ==
  /\ \A k \in 1..C : StartsRun(vars, s[k])
  /\ \A n \in 1..N : StartsRun(vars, n) => \E k \in 1..C : s[k] = n
  /\ \A k, l \in 1..C : k < l => s[k] < s[l]
  /\ Len(vars) = N /\ Len(keptVariableRuns(vars)) = C
  /\ DOMAIN keptVariableRuns(vars) = 1..C
  /\ \A k \in 1..C : /\ keptVariableRuns(vars)[k].first = s[k]
                     /\ keptVariableRuns(vars)[k].last = RunEnd(s, C, N, k)

\* The runs of snapshots are numbered in their order, and one begins wherever a run starts.
LEMMA RunsOfSnapshots ==
  ASSUME NEW V, NEW N \in Nat, NEW vars \in [1..N -> V]
  PROVE  \E C \in Nat : \E s \in [1..C -> 1..N] : AreRuns(vars, N, C, s)
<1> DEFINE St == {n \in DOMAIN vars : StartsRun(vars, n)}
           C == Cardinality(St)
           s == Ascending(St)
<1>1. IsFiniteSet(St) /\ St \subseteq Int /\ St \subseteq 1..N
  <2>1. IsFiniteSet(1..N)
    BY FS_Interval
  <2>2. St \subseteq 1..N
    OBVIOUS
  <2> HIDE DEF St
  <2>3. IsFiniteSet(St)
    BY <2>1, <2>2, FS_Subset
  <2> QED
    BY <2>2, <2>3
<1>2. keptVariableRuns(vars) =
        [k \in DOMAIN s |-> [first |-> s[k], last |-> IF k = Len(s) THEN Len(vars) ELSE s[k + 1] - 1]]
  BY DEF keptVariableRuns
<1>3. Len(vars) = N
  BY ASeq
<1>4. \A n \in 1..N : n \in St <=> StartsRun(vars, n)
  OBVIOUS
<1> HIDE DEF St
<1>5. /\ C \in Nat
      /\ s \in [1..C -> St]
      /\ \A x \in St : \E n \in 1..C : s[n] = x
      /\ \A m, n \in 1..C : m < n => s[m] < s[n]
  BY <1>1, AscendingSorts
<1> HIDE DEF C, s
<1>6. Len(s) = C /\ DOMAIN s = 1..C
  BY <1>5, ASeq
<1> DEFINE r == keptVariableRuns(vars)
<1>7. DOMAIN r = 1..C /\ \A k \in 1..C : r[k].first = s[k] /\ r[k].last = RunEnd(s, C, N, k)
  BY <1>2, <1>3, <1>6 DEF RunEnd
<1>8. Len(r) = C
  <2> DEFINE X == {r[k] : k \in 1..C}
  <2>1. r = [k \in 1..C |-> [first |-> s[k], last |-> IF k = Len(s) THEN Len(vars) ELSE s[k + 1] - 1]]
    BY <1>2, <1>6
  <2> HIDE DEF r
  <2>2. r \in [1..C -> X]
    BY <2>1
  <2> HIDE DEF X
  <2> QED
    BY <1>5, <2>2, ASeq
<1>9. s \in [1..C -> 1..N]
  BY <1>1, <1>5
<1>10. \A k \in 1..C : StartsRun(vars, s[k])
  BY <1>4, <1>5, <1>9
<1>11. \A n \in 1..N : StartsRun(vars, n) => \E k \in 1..C : s[k] = n
  BY <1>4, <1>5
<1> QED
  BY <1>3, <1>5, <1>7, <1>8, <1>9, <1>10, <1>11 DEF AreRuns

\* Every snapshot is in one run, and has the signature of that run's first.
LEMMA PanelsMark ==
  ASSUME NEW V, NEW N \in Nat, NEW vars \in [1..N -> V], NEW unsupported
  PROVE  ChangesMarked(vars, VariablePanelsOf(vars, unsupported))
<1>0. PICK C \in Nat : \E t \in [1..C -> 1..N] : AreRuns(vars, N, C, t)
  BY RunsOfSnapshots
<1>1. PICK s \in [1..C -> 1..N] :
           /\ \A k \in 1..C : StartsRun(vars, s[k])
           /\ \A n \in 1..N : StartsRun(vars, n) => \E k \in 1..C : s[k] = n
           /\ \A k, l \in 1..C : k < l => s[k] < s[l]
           /\ Len(vars) = N /\ Len(keptVariableRuns(vars)) = C
           /\ DOMAIN keptVariableRuns(vars) = 1..C
           /\ \A k \in 1..C : /\ keptVariableRuns(vars)[k].first = s[k]
                              /\ keptVariableRuns(vars)[k].last = RunEnd(s, C, N, k)
  BY <1>0 DEF AreRuns
<1> DEFINE panels == VariablePanelsOf(vars, unsupported)
           Of(k) == s[k]..RunEnd(s, C, N, k)
<1>2. /\ DOMAIN panels = 1..C
      /\ \A k \in 1..C :
           /\ panels[k].first = s[k] /\ panels[k].last = RunEnd(s, C, N, k)
           /\ panels[k].settings = vars[s[k]]
           /\ panels[k].changed = IF k = 1 \/ vars[s[k]] = Nil THEN {} ELSE Marked(vars[keptVariableRuns(vars)[k - 1].first], vars[s[k]])
  BY <1>1 DEF VariablePanelsOf
<1> HIDE DEF panels
<1>3. \A k \in 1..C : k # 1 => k - 1 \in 1..C /\ keptVariableRuns(vars)[k - 1].first = s[k - 1]
  BY <1>1
<1>4. \A k \in 1..C : s[k] \in 1..N /\ s[k] \in Nat /\ RunEnd(s, C, N, k) \in Nat
  BY <1>1 DEF RunEnd
<1>5. \A k \in 1..C, n \in 1..N : n \in Of(k) <=> (s[k] <= n /\ \A l \in 1..C : l > k => n < s[l])
  <2> SUFFICES ASSUME NEW k \in 1..C, NEW n \in 1..N
               PROVE  n \in Of(k) <=> (s[k] <= n /\ \A l \in 1..C : l > k => n < s[l])
    OBVIOUS
  <2>1. CASE k = C
    <3>1. n \in Of(k) <=> s[k] <= n
      BY <1>4, <2>1 DEF RunEnd
    <3>2. \A l \in 1..C : ~(l > k)
      BY <1>1, <2>1
    <3> QED
      BY <3>1, <3>2
  <2>2. CASE k # C
    <3>1. k + 1 \in 1..C /\ k + 1 > k
      BY <1>1, <2>2
    <3>2. n \in Of(k) <=> s[k] <= n /\ n < s[k + 1]
      BY <1>4, <2>2, <3>1 DEF RunEnd
    <3>3. \A l \in 1..C : l > k => l = k + 1 \/ k + 1 < l
      BY <1>1
    <3>4. ASSUME NEW l \in 1..C, l > k PROVE s[k + 1] <= s[l]
      <4>1. s[k + 1] \in Nat /\ s[l] \in Nat
        BY <1>4, <3>1
      <4>2. l = k + 1 \/ s[k + 1] < s[l]
        BY <1>1, <3>1, <3>3, <3>4
      <4> QED
        BY <4>1, <4>2
    <3> HIDE DEF Of
    <3>5. ASSUME n < s[k + 1], NEW l \in 1..C, l > k PROVE n < s[l]
      BY <1>4, <3>1, <3>4, <3>5
    <3> QED
      BY <3>1, <3>2, <3>5
  <2> QED
    BY <2>1, <2>2
<1> HIDE DEF Of
<1>6. ASSUME NEW k \in 1..C PROVE s[k] \in Of(k)
  BY <1>1, <1>4, <1>5
<1>7. ASSUME NEW k \in 1..C, NEW l \in 1..C, NEW n \in 1..N, n \in Of(k), n \in Of(l) PROVE k = l
  <2>1. CASE k < l
    BY <1>4, <1>5, <1>7, <2>1
  <2>2. CASE l < k
    BY <1>4, <1>5, <1>7, <2>2
  <2> QED
    BY <1>1, <2>1, <2>2
<1>8. ASSUME NEW n \in 1..N PROVE \E k \in 1..C : n \in Of(k)
  <2> DEFINE T == {C - k : k \in {l \in 1..C : s[l] <= n}}
  <2>1. \E k \in 1..C : s[k] = 1
    <3>1. 1 \in 1..N /\ StartsRun(vars, 1)
      BY DEF StartsRun
    <3> QED
      BY <1>1, <3>1
  <2>2. T # {} /\ T \subseteq Nat
    BY <1>1, <2>1
  <2>3. \E m \in T : \A t \in T : m <= t
    <3> HIDE DEF T
    <3> QED
      BY <2>2, LeastNumber
  <2>4. PICK k \in 1..C : s[k] <= n /\ \A l \in 1..C : s[l] <= n => C - k <= C - l
    BY <2>3
  <2>5. ASSUME NEW l \in 1..C, l > k PROVE n < s[l]
    <3>1. s[l] \in Nat /\ n \in Nat /\ ~(C - k <= C - l)
      BY <1>4, <2>5
    <3> QED
      BY <2>4, <3>1
  <2> QED
    BY <1>5, <2>4, <2>5
<1>9. ASSUME NEW k \in 1..C, NEW n \in 1..N, n \in Of(k), n # s[k]
      PROVE  /\ n # 1 /\ n - 1 \in 1..N /\ n - 1 \in Of(k)
             /\ vars[n] # Nil /\ vars[n - 1] # Nil
             /\ snapshotSignature(vars[n - 1]) = snapshotSignature(vars[n])
  <2>1. ~StartsRun(vars, n)
    <3> SUFFICES ASSUME StartsRun(vars, n) PROVE FALSE
      OBVIOUS
    <3>1. PICK l \in 1..C : s[l] = n
      BY <1>1
    <3>2. n \in Of(l)
      BY <1>6, <3>1
    <3> QED
      BY <1>7, <1>9, <3>1, <3>2
  <2>2. /\ n # 1 /\ vars[n] # Nil /\ vars[n - 1] # Nil
        /\ snapshotSignature(vars[n - 1]) = snapshotSignature(vars[n])
    BY <2>1 DEF StartsRun
  <2>3. n - 1 \in 1..N /\ s[k] <= n - 1
    BY <1>4, <1>5, <1>9, <2>2
  <2>4. n - 1 \in Of(k)
    <3>1. \A l \in 1..C : l > k => n - 1 < s[l]
      BY <1>4, <1>5, <1>9
    <3> QED
      BY <1>5, <2>3, <3>1
  <2> QED
    BY <2>2, <2>3, <2>4
<1>10. ASSUME NEW k \in 1..C, NEW n \in 1..N, n \in Of(k)
       PROVE  /\ (vars[n] = Nil) <=> (vars[s[k]] = Nil)
              /\ vars[n] # Nil => snapshotSignature(vars[s[k]]) = snapshotSignature(vars[n])
  <2> DEFINE Same(m) == /\ (vars[m] = Nil) <=> (vars[s[k]] = Nil)
                        /\ vars[m] # Nil => snapshotSignature(vars[s[k]]) = snapshotSignature(vars[m])
             T == {m \in 1..N : m \in Of(k) /\ ~Same(m)}
  <2> SUFFICES ASSUME T # {} PROVE FALSE
    BY <1>10
  <2>1. PICK m \in T : \A t \in T : m <= t
    <3>1. T \subseteq Nat
      OBVIOUS
    <3> HIDE DEF T
    <3> QED
      BY <3>1, LeastNumber
  <2>2. m \in 1..N /\ m \in Of(k) /\ ~Same(m)
    BY <2>1
  <2>3. m # s[k]
    BY <2>2
  <2>4. /\ m - 1 \in 1..N /\ m - 1 \in Of(k) /\ vars[m] # Nil /\ vars[m - 1] # Nil
        /\ snapshotSignature(vars[m - 1]) = snapshotSignature(vars[m])
    BY <1>9, <2>2, <2>3
  <2>5. m - 1 \notin T
    BY <2>1, <2>2, <2>4
  <2>6. Same(m - 1)
    BY <2>4, <2>5
  <2> QED
    BY <2>2, <2>4, <2>6
<1>11. ASSUME NEW k \in 1..C, NEW n \in 1..N, n \in Of(k), n > 1, vars[n] # Nil
       PROVE  IF vars[n - 1] = Nil THEN n = panels[k].first /\ panels[k].changed = {}
              ELSE IF n = panels[k].first THEN panels[k].changed = Marked(vars[n - 1], vars[n])
              ELSE Marked(vars[n - 1], vars[n]) = {}
  <2>1. CASE n # s[k]
    <3>1. vars[n - 1] # Nil /\ snapshotSignature(vars[n - 1]) = snapshotSignature(vars[n])
      BY <1>9, <1>11, <2>1
    <3>2. Marked(vars[n - 1], vars[n]) = {}
      BY <3>1, NothingMarked
    <3> QED
      BY <1>2, <2>1, <3>1, <3>2
  <2>2. CASE n = s[k]
    <3>1. k # 1
      <4>1. PICK l \in 1..C : s[l] = 1
        <5>1. 1 \in 1..N /\ StartsRun(vars, 1)
          BY DEF StartsRun
        <5> QED
          BY <1>1, <5>1
      <4>2. l # k /\ ~(k < l)
        <5>1. ~(s[k] < s[l]) /\ s[k] # s[l]
          BY <1>4, <1>11, <2>2, <4>1
        <5> QED
          BY <1>1, <5>1
      <4> QED
        BY <1>1, <4>2
    <3>2. k - 1 \in 1..C /\ keptVariableRuns(vars)[k - 1].first = s[k - 1]
      BY <1>3, <3>1
    <3>3. panels[k].changed = Marked(vars[s[k - 1]], vars[n]) /\ n = panels[k].first
      BY <1>2, <1>11, <2>2, <3>1, <3>2
    <3>4. n - 1 \in 1..N /\ n - 1 \in Of(k - 1)
      <4>1. n - 1 \in 1..N
        BY <1>11
      <4>2. s[k - 1] < s[k] /\ s[k - 1] \in Nat
        BY <1>1, <1>4, <3>2
      <4>3. \A l \in 1..C : l > k - 1 => l = k \/ l > k
        BY <1>1
      <4>4. ASSUME NEW l \in 1..C, l > k - 1 PROVE n - 1 < s[l]
        <5>1. s[l] \in Nat /\ s[k] \in Nat
          BY <1>4
        <5>2. l = k \/ s[k] < s[l]
          BY <1>1, <4>3, <4>4
        <5> QED
          BY <2>2, <5>1, <5>2
      <4>5. s[k - 1] <= n - 1
        BY <2>2, <4>2
      <4> QED
        BY <1>5, <3>2, <4>1, <4>4, <4>5
    <3>5. /\ (vars[n - 1] = Nil) <=> (vars[s[k - 1]] = Nil)
          /\ vars[n - 1] # Nil => snapshotSignature(vars[s[k - 1]]) = snapshotSignature(vars[n - 1])
      BY <1>10, <3>2, <3>4
    <3>6. CASE vars[n - 1] = Nil
      <4>1. Marked(vars[s[k - 1]], vars[n]) = {}
        BY <3>5, <3>6 DEF Marked
      <4> QED
        BY <3>3, <3>6, <4>1
    <3>7. CASE vars[n - 1] # Nil
      <4>1. Marked(vars[s[k - 1]], vars[n]) = Marked(vars[n - 1], vars[n])
        BY <3>5, <3>7, MarkedBySignature
      <4> QED
        BY <3>3, <3>7, <4>1
    <3> QED
      BY <3>6, <3>7
  <2> QED
    BY <2>1, <2>2
<1>12. ASSUME NEW n \in DOMAIN vars
       PROVE  \E k \in DOMAIN panels :
      /\ n \in panels[k].first..panels[k].last
      /\ \A m \in DOMAIN panels \ {k} : n \notin panels[m].first..panels[m].last
      /\ (vars[n] = Nil) <=> (panels[k].settings = Nil)
      /\ vars[n] # Nil => snapshotSignature(panels[k].settings) = snapshotSignature(vars[n])
      /\ n > 1 /\ vars[n] # Nil =>
           IF vars[n - 1] = Nil THEN n = panels[k].first /\ panels[k].changed = {}
           ELSE IF n = panels[k].first THEN panels[k].changed = Marked(vars[n - 1], vars[n])
           ELSE Marked(vars[n - 1], vars[n]) = {}
  <2>1. n \in 1..N
    OBVIOUS
  <2>2. PICK k \in 1..C : n \in Of(k)
    BY <1>8, <2>1
  <2>3. \A m \in 1..C : panels[m].first..panels[m].last = Of(m)
    BY <1>2 DEF Of
  <2>4. \A m \in DOMAIN panels \ {k} : n \notin panels[m].first..panels[m].last
    <3>1. \A m \in (1..C) \ {k} : n \notin Of(m)
      BY <1>7, <2>1, <2>2
    <3> QED
      BY <1>2, <2>3, <3>1
  <2>5. /\ (vars[n] = Nil) <=> (panels[k].settings = Nil)
        /\ vars[n] # Nil => snapshotSignature(panels[k].settings) = snapshotSignature(vars[n])
    BY <1>2, <1>10, <2>1, <2>2
  <2>6. n > 1 /\ vars[n] # Nil =>
           IF vars[n - 1] = Nil THEN n = panels[k].first /\ panels[k].changed = {}
           ELSE IF n = panels[k].first THEN panels[k].changed = Marked(vars[n - 1], vars[n])
           ELSE Marked(vars[n - 1], vars[n]) = {}
    BY <1>11, <2>1, <2>2
  <2> QED
    BY <1>2, <2>2, <2>3, <2>4, <2>5, <2>6
<1> QED
  BY <1>12 DEF ChangesMarked, panels
-----------------------------------------------------------------------------
\* Report: no growth that was not observed.

\* The payloads that are there are those of the list.
Numbered(s, N) == N \in Nat /\ s = [n \in 1..N |-> s[n]]
LEMMA PresentAre ==
  ASSUME NEW C \in Nat, NEW all, DOMAIN all = 1..C
  PROVE  \E K : /\ Numbered(Present(all), K)
                /\ \A n \in 1..K : Present(all)[n] # Nil /\ \E m \in 1..C : Present(all)[n] = all[m]
<1> DEFINE S == {n \in 1..C : all[n] # Nil}
           at == Ascending(S)
           ins == Present(all)
<1>1. S \subseteq Int /\ IsFiniteSet(S)
  <2>1. IsFiniteSet(1..C) /\ S \in SUBSET (1..C)
    BY FS_Interval
  <2> QED
    BY <2>1, FS_Subset
<1>2. ins = [n \in DOMAIN at |-> all[at[n]]]
  BY DEF Present
<1>3. \A x \in S : x \in 1..C /\ all[x] # Nil
  OBVIOUS
<1> HIDE DEF S
<1>4. PICK K : K \in Nat /\ at \in [1..K -> S]
  BY <1>1, AscendingSorts
<1> HIDE DEF at, ins
<1>5. ins = [n \in 1..K |-> all[at[n]]]
  BY <1>2, <1>4
<1>6. \A n \in 1..K : ins[n] = all[at[n]] /\ at[n] \in S
  BY <1>4, <1>5
<1>7. Numbered(ins, K)
  BY <1>4, <1>5 DEF Numbered
<1> QED
  BY <1>3, <1>6, <1>7 DEF ins

\* What a variable of a status file grew by.
Grown(p, v) == IF v \in p.names THEN Observed(p.deltas[v]) + LateTally(p.deltas[v]) ELSE 0
GrownBy(ins, v) == [n \in DOMAIN ins |-> Grown(ins[n], v)]
\* The slots that the n-th of them adds to a counter.
CounterPart(ins, v, n) ==
  IF v \in ins[n].names THEN Joined(TRUE, n = 1, ins[n].deltas[v]) ELSE [i \in 1..ins[n].count |-> Gap]
Statuses(ins, K) == Numbered(ins, K) /\ \A n \in 1..K : ins[n] # Nil /\ StatusShaped(ins[n])

\* It adds what the counter grew by; ...
LEMMA PartGrows ==
  ASSUME NEW K, NEW ins, Statuses(ins, K), NEW v, NEW n \in 1..K
  PROVE  /\ CounterPart(ins, v, n) \in Seq(Seq(Int)) /\ CounterPart(ins, v, n) # <<>>
         /\ Grown(ins[n], v) \in Int
         /\ n # 1 => SumOf(CounterPart(ins, v, n)) = Grown(ins[n], v)
         /\ n = 1 => SumOf(Tail(CounterPart(ins, v, n))) = Grown(ins[n], v)
<1> DEFINE part == CounterPart(ins, v, n)
           slots == ins[n].deltas[v]
<1>1. ins[n] # Nil /\ StatusShaped(ins[n])
  BY DEF Statuses
<1>2. PICK c \in Nat : c = ins[n].count /\ c # 0
  BY <1>1 DEF StatusShaped
<1>3. Gap \in Seq(Int)
  BY EmptySeq DEF Gap
<1>4. CASE v \in ins[n].names
  <2>1. slots \in Seq(Seq(Int)) /\ Len(slots) = c
    BY <1>1, <1>2, <1>4 DEF StatusShaped
  <2>2. part = IF n = 1 THEN slots ELSE <<Gap>> \o Tail(slots)
    BY <1>4 DEF CounterPart, Joined
  <2>3. Grown(ins[n], v) = Observed(slots) + LateTally(slots)
    BY <1>4 DEF Grown
  <2> HIDE DEF slots, part
  <2>4. slots # <<>> /\ Grown(ins[n], v) = SumOf(Tail(slots))
    <3>1. slots # <<>>
      BY <1>2, <2>1, EmptySeq
    <3> QED
      BY <2>1, <2>3, <3>1, TailIsGrowth
  <2>5. Tail(slots) \in Seq(Seq(Int))
    BY <2>1, <2>4, HeadTailProperties
  <2> DEFINE t == Tail(slots)
             g == <<Gap>>
  <2>6. g \in Seq(Seq(Int)) /\ Len(g) = 1 /\ g[1] = Gap
    BY <1>3
  <2> HIDE DEF t, g
  <2>7. t \in Seq(Seq(Int))
    BY <2>5 DEF t
  <2>8. g # <<>> /\ \A i \in 1..Len(g) : g[i] = Gap
    <3>1. \A i \in 1..1 : i = 1
      OBVIOUS
    <3> QED
      BY <2>6, <3>1, EmptySeq
  <2>9. SumOf(g) = 0
    BY <2>6, <2>8, SumOfGaps
  <2>10. SumOf(g \o t) = SumOf(g) + SumOf(t) /\ SumOf(t) \in Int
    BY <2>6, <2>7, SumOfBoth
  <2>11. g \o t \in Seq(Seq(Int)) /\ g \o t # <<>>
    BY <2>6, <2>7, <2>8, ConcatProperties, TailOfBoth
  <2>12. SumOf(g \o t) = SumOf(t)
    BY <2>9, <2>10
  <2>13. part = IF n = 1 THEN slots ELSE g \o t
    BY <2>2 DEF g, t
  <2>14. Grown(ins[n], v) = SumOf(t)
    BY <2>4 DEF t
  <2>15. CASE n = 1
    BY <2>1, <2>4, <2>10, <2>13, <2>14, <2>15 DEF part
  <2>16. CASE n # 1
    BY <2>10, <2>11, <2>12, <2>13, <2>14, <2>16 DEF part
  <2> QED
    BY <2>15, <2>16
<1>5. CASE v \notin ins[n].names
  <2>1. part = [i \in 1..c |-> Gap]
    BY <1>2, <1>5 DEF CounterPart
  <2>2. Grown(ins[n], v) = 0
    BY <1>5 DEF Grown
  <2> HIDE DEF part
  <2>3. part \in [1..c -> Seq(Int)]
    BY <1>3, <2>1
  <2>4. part \in Seq(Seq(Int)) /\ Len(part) = c
    BY <2>3, ASeq
  <2>5. part # <<>>
    BY <1>2, <2>4, EmptySeq
  <2>6. \A i \in 1..Len(part) : part[i] = Gap
    BY <2>1, <2>4
  <2> DEFINE t == Tail(part)
  <2>7. t \in Seq(Seq(Int)) /\ Len(t) = c - 1 /\ \A i \in 1..c - 1 : t[i] = part[i + 1]
    BY <2>4, <2>5, HeadTailProperties
  <2> HIDE DEF t
  <2>8. \A i \in 1..Len(t) : t[i] = Gap
    <3>1. \A i \in 1..c - 1 : i + 1 \in 1..c
      OBVIOUS
    <3> QED
      BY <2>4, <2>6, <2>7, <3>1
  <2>9. SumOf(part) = 0 /\ SumOf(t) = 0
    BY <2>4, <2>6, <2>7, <2>8, SumOfGaps
  <2> QED
    BY <2>2, <2>4, <2>5, <2>9 DEF part, t
<1> QED
  BY <1>4, <1>5

\* ... so all of them add what it grew by in all.
LEMMA JoinedGrows ==
  ASSUME NEW K, NEW ins, Statuses(ins, K), K # 0, NEW v
  PROVE  SumOf(Tail(FlattenSeq([n \in 1..K |-> CounterPart(ins, v, n)]))) = GrownWithin(ins, v)
<1> DEFINE parts == [n \in 1..K |-> CounterPart(ins, v, n)]
           grown == GrownBy(ins, v)
           T == Seq(Int)
<1>1. K \in Nat /\ DOMAIN ins = 1..K
  BY DEF Statuses, Numbered
<1>2. \A n \in 1..K : parts[n] = CounterPart(ins, v, n)
  OBVIOUS
<1>3. \A n \in 1..K : grown[n] = Grown(ins[n], v)
  BY <1>1 DEF GrownBy
<1>4. grown \in [1..K -> Int]
  <2>1. grown = [n \in 1..K |-> Grown(ins[n], v)]
    BY <1>1 DEF GrownBy
  <2>2. \A n \in 1..K : Grown(ins[n], v) \in Int
    BY PartGrows
  <2> QED
    BY <2>1, <2>2
<1>5. GrownWithin(ins, v) = Total(grown)
  BY DEF GrownWithin, GrownBy, Grown
<1> HIDE DEF grown
<1>6. grown \in Seq(Int) /\ Len(grown) = K
  BY <1>1, <1>4, ASeq
<1>7. \A n \in 1..K : CounterPart(ins, v, n) \in Seq(T)
  BY PartGrows
<1>8. parts \in [1..K -> Seq(T)]
  BY <1>7
<1> HIDE DEF parts
<1>9. parts \in Seq(Seq(T)) /\ Len(parts) = K
  BY <1>1, <1>8, ASeq
<1>10. parts # <<>>
  BY <1>9, EmptySeq
<1>11. PICK f : Flattens(f, parts, T) /\ FlattenSeq(parts) = f[K]
  <2> HIDE DEF T
  <2> QED
    BY <1>9, <1>10, FlattenGrows
<1>12. /\ f \in [1..K -> Seq(T)] /\ f[1] = parts[1]
       /\ \A i \in 2..K : f[i] = f[i - 1] \o parts[i]
  BY <1>9, <1>11 DEF Flattens
<1>13. /\ 1 \in Int /\ K \in Int /\ 1 + 1 = 2 /\ 1 \in 1..K /\ K \in 1..K /\ 1 - 1 = 0
       /\ \A i \in 2..K : i \in 1..K /\ i - 1 \in 1..K /\ i # 1
  BY <1>1
<1> DEFINE none == [i \in 1..K |-> IF f[i] = <<>> THEN 1 ELSE 0]
           zero == [i \in 1..K |-> 0]
           sum == [i \in 1..K |-> SumOf(Tail(f[i]))]
           s == Sums(grown)
<1>14. \A i \in 2..K : f[i - 1] # <<>> =>
         f[i] # <<>> /\ Tail(f[i]) = Tail(f[i - 1]) \o parts[i] /\ Tail(f[i - 1]) \in Seq(T)
  <2>1. ASSUME NEW i \in 2..K, f[i - 1] # <<>>
        PROVE  f[i] # <<>> /\ Tail(f[i]) = Tail(f[i - 1]) \o parts[i] /\ Tail(f[i - 1]) \in Seq(T)
    <3>1. f[i - 1] \in Seq(T) /\ parts[i] \in Seq(T) /\ f[i] = f[i - 1] \o parts[i]
      BY <1>8, <1>12, <1>13
    <3> HIDE DEF T
    <3> QED
      BY <2>1, <3>1, TailOfBoth
  <2> QED
    BY <2>1
<1>15. \A i \in 1..K : f[i] # <<>>
  <2>1. none[1] = zero[1]
    <3>1. f[1] # <<>>
      BY <1>2, <1>12, <1>13, PartGrows
    <3> QED
      BY <1>13, <3>1
  <2>2. ASSUME NEW i \in 2..K, none[i - 1] = zero[i - 1] PROVE none[i] = zero[i]
    <3>1. f[i - 1] # <<>>
      BY <1>13, <2>2
    <3>2. f[i] # <<>>
      BY <1>14, <3>1
    <3> QED
      BY <1>13, <3>2
  <2>3. \A i \in 1..K : none[i] = zero[i]
    <3> HIDE DEF none, zero
    <3>1. StepAlike(none, zero, 1, K)
      BY <1>13, <2>2 DEF StepAlike
    <3>2. 1 \in Int /\ K \in Int
      BY <1>13
    <3> QED
      BY <2>1, <3>1, <3>2, AgreeOn DEF Alike
  <2> QED
    BY <2>3
<1>16. AddsUp(s, grown, K)
  BY <1>6, SumsAdd
<1> HIDE DEF s
<1>17. \A i \in 1..K : sum[i] = s[i]
  <2>1. sum[1] = s[1]
    <3>1. sum[1] = grown[1]
      BY <1>2, <1>3, <1>12, <1>13, PartGrows
    <3>2. s[1] = s[0] + grown[1] /\ s[0] = 0 /\ grown[1] \in Int
      BY <1>4, <1>13, <1>16 DEF AddsUp
    <3> QED
      BY <3>1, <3>2
  <2>2. ASSUME NEW i \in 2..K, sum[i - 1] = s[i - 1] PROVE sum[i] = s[i]
    <3> DEFINE t == Tail(f[i - 1])
    <3>1. f[i - 1] # <<>> /\ i \in 1..K /\ i - 1 \in 1..K /\ i # 1
      BY <1>13, <1>15
    <3>2. Tail(f[i]) = t \o parts[i] /\ t \in Seq(T) /\ parts[i] \in Seq(T)
      BY <1>8, <1>14, <3>1
    <3>3. SumOf(t) = sum[i - 1]
      BY <3>1
    <3>4. sum[i] = SumOf(t \o parts[i])
      BY <3>1, <3>2
    <3> HIDE DEF t, sum
    <3>5. SumOf(t \o parts[i]) = SumOf(t) + SumOf(parts[i])
      BY <3>2, SumOfBoth
    <3>6. SumOf(parts[i]) = grown[i]
      BY <1>2, <1>3, <3>1, PartGrows
    <3>7. s[i] = s[i - 1] + grown[i]
      BY <1>16, <3>1 DEF AddsUp
    <3> QED
      BY <2>2, <3>3, <3>4, <3>5, <3>6, <3>7
  <2> HIDE DEF sum
  <2>3. StepAlike(sum, s, 1, K)
    BY <1>13, <2>2 DEF StepAlike
  <2>4. 1 \in Int /\ K \in Int
    BY <1>13
  <2> QED
    BY <2>1, <2>3, <2>4, AgreeOn DEF Alike
<1>18. Total(grown) = s[K]
  BY <1>6 DEF Total, s
<1>19. sum[K] = SumOf(Tail(f[K]))
  BY <1>13
<1> QED
  BY <1>5, <1>11, <1>13, <1>17, <1>18, <1>19 DEF parts

\* MergeMysqladminData adds nothing to what the files say a counter grew by.
LEMMA MergeGrows ==
  ASSUME NEW K, NEW all, Statuses(Present(all), K), K # 0,
         NEW v \in MergeMysqladminData(all).counters
  PROVE  SumOf(Tail(MergeMysqladminData(all).deltas[v])) = GrownWithin(Present(all), v)
<1> DEFINE ins == Present(all)
           names == UNION {ins[n].names : n \in DOMAIN ins}
           counters == UNION {ins[n].counters : n \in DOMAIN ins}
           part(n) == IF v \in ins[n].names THEN Joined(v \in counters, n = 1, ins[n].deltas[v])
                      ELSE [i \in 1..ins[n].count |-> Gap]
           merged == MergeMysqladminData(all)
<1>1. Numbered(ins, K) /\ DOMAIN ins = 1..K /\ K \in Nat
  BY DEF Statuses, Numbered
<1>2. \A n \in 1..K : ins[n] # Nil /\ ins[n].counters \subseteq ins[n].names
  BY DEF Statuses, StatusShaped
<1>3. Len(ins) = K
  <2>1. PICK s : s = ins
    OBVIOUS
  <2>2. s \in [1..K -> {s[n] : n \in 1..K}]
    BY <1>1, <2>1 DEF Numbered
  <2> QED
    BY <1>1, <2>1, <2>2, ASeq
<1>4. CASE K = 1
  <2>1. merged = ins[1]
    BY <1>3, <1>4 DEF MergeMysqladminData
  <2>2. v \in ins[1].names /\ 1 \in 1..K
    BY <1>2, <1>4, <2>1
  <2> HIDE DEF ins, merged
  <2>3. GrownWithin(ins, v) = Total(GrownBy(ins, v))
    BY DEF GrownWithin, GrownBy, Grown
  <2>4. GrownBy(ins, v)[1] = SumOf(Tail(ins[1].deltas[v]))
    <3> DEFINE slots == ins[1].deltas[v]
    <3>1. GrownBy(ins, v)[1] = Observed(slots) + LateTally(slots)
      BY <1>1, <2>2 DEF GrownBy, Grown
    <3>2. StatusShaped(ins[1]) /\ ins[1] # Nil
      BY <2>2 DEF Statuses, ins
    <3>3. slots \in Seq(Seq(Int)) /\ Len(slots) # 0
      BY <2>2, <3>2 DEF StatusShaped
    <3> HIDE DEF slots
    <3>4. slots # <<>>
      BY <3>3, EmptySeq
    <3> QED
      BY <3>1, <3>3, <3>4, TailIsGrowth DEF slots
  <2>5. GrownBy(ins, v)[1] \in Int
    BY <1>1, <2>2, PartGrows DEF GrownBy, ins
  <2>6. GrownBy(ins, v) \in [1..1 -> Int]
    <3>1. \A i \in 1..1 : i = 1
      OBVIOUS
    <3>2. GrownBy(ins, v) = [i \in 1..1 |-> GrownBy(ins, v)[i]]
      BY <1>1, <1>4 DEF GrownBy
    <3> QED
      BY <2>5, <3>1, <3>2
  <2> DEFINE g == GrownBy(ins, v)
  <2> HIDE DEF g
  <2>7. g \in Seq(Int) /\ Len(g) = 1 /\ g[1] \in Int
    BY <2>5, <2>6, ASeq DEF g
  <2>8. AddsUp(Sums(g), g, 1)
    BY <2>7, SumsAdd
  <2>9. Total(g) = g[1]
    <3>1. Sums(g)[1] = Sums(g)[1 - 1] + g[1] /\ Sums(g)[0] = 0 /\ 1 - 1 = 0
      BY <2>8 DEF AddsUp
    <3>2. Total(g) = Sums(g)[1]
      BY <2>7 DEF Total
    <3> QED
      BY <2>7, <3>1, <3>2
  <2> QED
    BY <2>1, <2>3, <2>4, <2>9 DEF g, merged, ins
<1>5. CASE K # 1
  <2>1. merged = [names |-> names, counters |-> counters, count |-> merged.count, times |-> merged.times,
                  deltas |-> [x \in names |-> merged.deltas[x]], boundaries |-> merged.boundaries]
    BY <1>3, <1>5 DEF MergeMysqladminData
  <2>2. v \in counters
    BY <2>1
  <2>3. v \in names
    BY <1>1, <1>2, <2>2
  <2>4. merged.deltas[v] = FlattenSeq([n \in DOMAIN ins |-> part(n)])
    BY <1>3, <1>5, <2>3 DEF MergeMysqladminData
  <2>5. \A n \in 1..K : part(n) = CounterPart(ins, v, n)
    BY <2>2 DEF CounterPart, Joined
  <2> HIDE DEF part, merged, ins
  <2>6. [n \in DOMAIN ins |-> part(n)] = [n \in 1..K |-> CounterPart(ins, v, n)]
    BY <1>1, <2>5
  <2>7. Statuses(ins, K)
    BY DEF ins
  <2>8. SumOf(Tail(FlattenSeq([n \in 1..K |-> CounterPart(ins, v, n)]))) = GrownWithin(ins, v)
    BY <2>7, JoinedGrows
  <2> QED
    BY <2>4, <2>6, <2>8 DEF merged, ins
<1> QED
  BY <1>4, <1>5

\* Terms that are not 0 add up to ever more.
LEMMA SumsRise ==
  ASSUME NEW K \in Nat, NEW s, NEW terms, AddsUp(s, terms, K), \A n \in 1..K : terms[n] \in Nat /\ terms[n] # 0,
         NEW k \in 1..K
  PROVE  s[k - 1] \in Nat /\ s[k - 1] < s[K]
<1>1. \A i \in 0..K : s[i] \in Int
  BY DEF AddsUp
<1>2. s[0] = 0 /\ K \in 0..K /\ k - 1 \in 0..K
  BY DEF AddsUp
<1>3. ASSUME NEW i \in 1..K PROVE s[i - 1] \in Int /\ s[i] \in Int /\ s[i - 1] < s[i]
  <2>1. i - 1 \in 0..K /\ i \in 0..K
    OBVIOUS
  <2>2. s[i] = s[i - 1] + terms[i] /\ terms[i] \in Nat /\ terms[i] # 0
    BY DEF AddsUp
  <2>3. PICK x \in Int, z \in Nat : x = s[i - 1] /\ z = terms[i]
    BY <1>1, <2>1, <2>2
  <2> QED
    BY <2>2, <2>3
<1>4. ASSUME NEW b \in Int, NEW m \in 0..K, b <= s[m], NEW j \in m..K PROVE b <= s[j]
  <2> DEFINE T == {n \in Nat : m + n <= K /\ ~(b <= s[m + n])}
  <2>1. 0 \notin T
    <3>1. m + 0 = m
      OBVIOUS
    <3> QED
      BY <1>4, <3>1
  <2>2. T = {}
    <3> SUFFICES ASSUME T # {} PROVE FALSE
      OBVIOUS
    <3>1. T \subseteq Nat
      OBVIOUS
    <3>2. PICK n \in Nat : n \notin T /\ n + 1 \in T
      <4> HIDE DEF T
      <4> QED
        BY <2>1, <3>1, FirstStep
    <3>3. PICK i \in Int : i = m + (n + 1)
      OBVIOUS
    <3>4. i \in 1..K /\ i - 1 = m + n /\ i - 1 <= K
      BY <3>2, <3>3
    <3>5. b <= s[i - 1] /\ ~(b <= s[i])
      BY <3>2, <3>3, <3>4
    <3>6. PICK x \in Int, y \in Int : x = s[i - 1] /\ y = s[i] /\ x < y
      BY <1>3, <3>4
    <3> QED
      BY <3>5, <3>6
  <2>3. PICK n \in Nat : j = m + n /\ m + n <= K
    <3>1. j - m \in Nat /\ j = m + (j - m) /\ j <= K
      OBVIOUS
    <3> QED
      BY <3>1
  <2>4. n \notin T
    BY <2>2
  <2>5. b <= s[m + n]
    BY <2>3, <2>4
  <2> QED
    BY <2>3, <2>5
<1>5. PICK x \in Int, y \in Int, z \in Int : x = s[k - 1] /\ y = s[k] /\ z = s[K] /\ x < y
  <2>1. s[k - 1] \in Int /\ s[k] \in Int /\ s[k - 1] < s[k] /\ s[K] \in Int
    BY <1>1, <1>2, <1>3
  <2> QED
    BY <2>1
<1>6. 0 <= x
  BY <1>2, <1>4, <1>5
<1>7. y <= z
  BY <1>2, <1>4, <1>5
<1> QED
  BY <1>5, <1>6, <1>7

\* Where a file's samples begin on the common axis there is a sample.
LEMMA OffsetsInside ==
  ASSUME NEW S, NEW ins \in Seq(Seq(S)), ins # <<>>, \A n \in 1..Len(ins) : ins[n] # <<>>,
         NEW lens, lens = [n \in DOMAIN ins |-> Len(ins[n])], NEW b \in ToSet(Offsets(lens))
  PROVE  FlattenSeq(ins) \in Seq(S) /\ b \in Nat /\ b < Len(FlattenSeq(ins))
<1>1. PICK K \in Nat : K = Len(ins) /\ K # 0 /\ ins \in [1..K -> Seq(S)] /\ DOMAIN ins = 1..K
  BY LenProperties, EmptySeq
<1> DEFINE s == Sums(lens)
<1>2. lens = [n \in 1..K |-> Len(ins[n])]
  BY <1>1
<1>3. \A n \in 1..K : lens[n] \in Nat /\ lens[n] # 0
  <2>1. ASSUME NEW n \in 1..K PROVE Len(ins[n]) \in Nat /\ Len(ins[n]) # 0
    BY <1>1, LenProperties, EmptySeq
  <2> QED
    BY <1>2, <2>1
<1>4. Offsets(lens) = [n \in 1..K |-> s[n - 1]]
  BY <1>1, <1>2 DEF Offsets
<1>5. \A n \in 1..K : lens[n] = Len(ins[n])
  BY <1>2
<1>6. lens \in Seq(Int) /\ Len(lens) = K
  <2>1. lens \in [1..K -> Int]
    BY <1>2, <1>3
  <2> QED
    BY <1>1, <2>1, ASeq
<1>7. AddsUp(s, lens, K)
  BY <1>6, SumsAdd
<1> HIDE DEF s
<1>8. PICK k \in 1..K : b = s[k - 1]
  <2>1. PICK n \in DOMAIN Offsets(lens) : b = Offsets(lens)[n]
    BY DEF ToSet
  <2> QED
    BY <1>4, <2>1
<1>9. PICK f : Flattens(f, ins, S) /\ FlattenSeq(ins) = f[K]
  BY <1>1, FlattenGrows
<1>10. /\ f \in [1..K -> Seq(S)] /\ f[1] = ins[1]
      /\ \A i \in 2..K : f[i] = f[i - 1] \o ins[i]
  BY <1>1, <1>9 DEF Flattens
<1>11. /\ 1 \in Int /\ K \in Int /\ 1 + 1 = 2 /\ 1 \in 1..K /\ K \in 1..K /\ 1 - 1 = 0
       /\ \A i \in 2..K : i \in 1..K /\ i - 1 \in 1..K
       /\ \A i \in 1..K : i - 1 \in 0..K /\ i \in 0..K
  BY <1>1
<1> DEFINE size == [i \in 1..K |-> Len(f[i])]
<1>12. \A i \in 1..K : size[i] = s[i]
  <2>1. size[1] = s[1]
    <3>1. s[1] = s[0] + lens[1] /\ s[0] = 0 /\ lens[1] \in Nat
      BY <1>3, <1>7, <1>11 DEF AddsUp
    <3>2. size[1] = lens[1]
      BY <1>10, <1>11, <1>5
    <3> QED
      BY <3>1, <3>2
  <2>2. ASSUME NEW i \in 2..K, size[i - 1] = s[i - 1] PROVE size[i] = s[i]
    <3>1. i \in 1..K /\ i - 1 \in 1..K /\ f[i] = f[i - 1] \o ins[i] /\ f[i - 1] \in Seq(S) /\ ins[i] \in Seq(S)
      BY <1>1, <1>10, <1>11
    <3>2. Len(f[i - 1] \o ins[i]) = Len(f[i - 1]) + Len(ins[i])
      BY <3>1, ConcatProperties
    <3>3. s[i] = s[i - 1] + lens[i] /\ lens[i] = Len(ins[i])
      BY <1>7, <1>5, <3>1 DEF AddsUp
    <3> QED
      BY <2>2, <3>1, <3>2, <3>3
  <2> HIDE DEF size
  <2>3. StepAlike(size, s, 1, K)
    BY <1>11, <2>2 DEF StepAlike
  <2>4. 1 \in Int /\ K \in Int
    BY <1>11
  <2> QED
    BY <2>1, <2>3, <2>4, AgreeOn DEF Alike
<1>13. b \in Nat /\ b < s[K]
  BY <1>1, <1>3, <1>7, <1>8, SumsRise
<1> QED
  BY <1>9, <1>10, <1>11, <1>12, <1>13

\* concatNetstatS: at the first sample of a file there is no difference.
LEMMA NetstatSBegins ==
  ASSUME NEW K, NEW all, Numbered(Present(all), K), K # 0,
         \A n \in 1..K : Present(all)[n] # Nil /\ PayloadShaped("netstat_s", Present(all)[n]),
         NEW v \in DOMAIN concatNetstatS(all).deltas, NEW b \in ToSet(concatNetstatS(all).boundaries)
  PROVE  concatNetstatS(all).deltas[v][b + 1] = Gap
<1> DEFINE ins == Present(all)
           flat == FlattenSeq(ins)
           lens == [n \in DOMAIN ins |-> Len(ins[n])]
           boundaries == Offsets(lens)
           labels == UNION {DOMAIN flat[i].vals : i \in DOMAIN flat}
           slot(c, i) == IF i = 1 THEN Gap
                         ELSE NetstatSDelta(flat[i - 1].vals, flat[i].vals, c, i - 1 \in ToSet(boundaries))
           S == UNION {ToSet(ins[n]) : n \in 1..K}
<1>1. /\ concatNetstatS(all).deltas = [c \in labels |-> [i \in DOMAIN flat |-> slot(c, i)]]
      /\ concatNetstatS(all).boundaries = boundaries
  BY DEF concatNetstatS, OffsetsOf
<1>2. v \in labels /\ b \in ToSet(boundaries)
  BY <1>1
<1> HIDE DEF labels
<1>3. concatNetstatS(all).deltas[v] = [i \in DOMAIN flat |-> slot(v, i)]
  BY <1>1, <1>2
<1>4. slot(v, b + 1) = Gap \/ ~(b \in Int)
  BY <1>2 DEF NetstatSDelta
<1> HIDE DEF flat, lens, slot
<1>5. \A n \in 1..K : ins[n] # <<>> /\ ins[n] \in Seq(S)
  <2>1. ASSUME NEW n \in 1..K PROVE ins[n] # <<>> /\ ins[n] \in Seq(S)
    <3>1. ins[n] # <<>> /\ ins[n] \in Seq(ToSet(ins[n]))
      BY DEF PayloadShaped, Nil
    <3>2. ToSet(ins[n]) \subseteq S
      OBVIOUS
    <3> QED
      BY <3>1, <3>2, SeqMonotonic
  <2> QED
    BY <2>1
<1> HIDE DEF S, ins
<1>6. ins \in Seq(Seq(S)) /\ Len(ins) = K /\ K \in Nat
  <2>1. ins \in [1..K -> Seq(S)] /\ K \in Nat
    BY <1>5 DEF Numbered, ins
  <2> QED
    BY <2>1, ASeq
<1>7. ins # <<>>
  BY <1>6, EmptySeq
<1>8. flat \in Seq(S) /\ b \in Nat /\ b < Len(flat)
  BY <1>2, <1>5, <1>6, <1>7, OffsetsInside DEF flat, lens
<1>9. b + 1 \in DOMAIN flat
  <2>1. PICK L \in Nat : L = Len(flat) /\ DOMAIN flat = 1..L
    BY <1>8, LenProperties
  <2> QED
    BY <1>8, <2>1
<1> QED
  BY <1>3, <1>4, <1>8, <1>9
-----------------------------------------------------------------------------
\* The report.

\* The panels that the collection gives.
PanelsShown == VariablePanelsOf(variablesOf(collection), VariablesUnsupported(collection))

\* Once the report is there, Discover has returned and the report shows the panels, the
\* environment and the sections of its collection.
ShownInv ==
  Built =>
    /\ phase = "done" /\ ~EnvironmentPanics(collection)
    /\ report.panels = PanelsShown /\ report.env = buildEnvironmentSection(collection)
    /\ report.os = buildOSSection(collection) /\ report.db = buildDBSection(collection)

\* What files hold has the shape their parsers give it: in the directory and in the collection.
PayloadInv ==
  /\ \A i \in DOMAIN dir : PayloadShaped(Names[i].suffix, dir[i].data)
  /\ \A i \in DOMAIN found.files :
       /\ i \in DOMAIN Names
       /\ found.files[i].parsed # <<>> => PayloadShaped(Names[i].suffix, found.files[i].parsed[1])

ReportInv == Inv /\ PayloadInv /\ ShownInv

\* A directory holds payloads of that shape, ...
LEMMA PayloadInit == Init => PayloadInv
<1> SUFFICES ASSUME Init PROVE PayloadInv
  OBVIOUS
<1>1. DOMAIN found.files = {}
  BY DEF Init, NoCollection
<1>2. dir \in Directories
  BY DEF Init
<1> QED
  BY <1>1, <1>2, PayloadAssumption DEF PayloadInv

\* ... whatever vanishes from it, ...
LEMMA PayloadOthers ==
  ASSUME PayloadInv, UNCHANGED found,
         DOMAIN dir' \subseteq DOMAIN dir, \A j \in DOMAIN dir' : dir'[j] = dir[j]
  PROVE  PayloadInv'
BY DEF PayloadInv, PayloadShaped

\* ... and a parser passes on what it finds there.
LEMMA PayloadKeeps ==
  ASSUME Inv, PayloadInv, [Next]_discoverVars
  PROVE  PayloadInv'
<1>0. DOMAIN found = Fields
  BY DEF Inv, TypeInv
<1>1. ASSUME NEW why, Fail(why) PROVE PayloadInv'
  <2>1. DOMAIN found'.files = {} /\ dir' = dir
    BY <1>1 DEF Fail, NoCollection
  <2> QED
    BY <2>1 DEF PayloadInv, PayloadShaped
<1>2. ASSUME found'.files = found.files, dir' = dir PROVE PayloadInv'
  BY <1>2 DEF PayloadInv, PayloadShaped
<1>3. CASE ScanEntry /\ ~\E why : Fail(why)
  <2>1. PICK n : found' = [found EXCEPT !.total = n]
    BY <1>3 DEF ScanEntry
  <2>2. found'.files = found.files /\ dir' = dir
    BY <1>0, <1>3, <2>1 DEF ScanEntry, Fields
  <2> QED
    BY <1>2, <2>2
<1>4. CASE Group /\ ~\E why : Fail(why)
  <2> DEFINE files == [i \in Collectors |-> NotParsed(i)]
  <2>1. PICK h, s : found' = [found EXCEPT !.hostname = h, !.snapshots = s, !.files = files]
    BY <1>4 DEF Group
  <2>2. dir' = dir
    BY <1>4 DEF Group
  <2>3. \A i \in Collectors : files[i].parsed = <<>>
    BY DEF NotParsed
  <2>4. DOMAIN files = Collectors /\ Collectors \subseteq DOMAIN Names
    BY CollectorsListed DEF Inv, TypeInv
  <2> HIDE DEF files
  <2>5. found'.files = files
    BY <1>0, <2>1 DEF Fields
  <2> QED
    BY <2>2, <2>3, <2>4, <2>5 DEF PayloadInv, PayloadShaped
<1>5. CASE LoadSidecar
  <2>1. dir' = dir /\ (found' = found \/ \E s, d : found' = [found EXCEPT !.sidecars = s, !.diagnostics = d])
    BY <1>5 DEF LoadSidecar
  <2>2. found'.files = found.files
    BY <1>0, <2>1 DEF Fields
  <2> QED
    BY <1>2, <2>1, <2>2
<1>6. CASE ParseFile /\ ~\E why : Fail(why)
  <2> DEFINE i == Head(todo)
  <2>1. found' = [found EXCEPT !.files[i] = Parsed(i)] /\ dir' = dir
    BY <1>6 DEF ParseFile
  <2> HIDE DEF i
  <2>2. found'.files = [found.files EXCEPT ![i] = Parsed(i)]
    BY <1>0, <2>1 DEF Fields
  <2>3. Parsed(i).parsed # <<>> => PayloadShaped(Names[i].suffix, Parsed(i).parsed[1])
    <3>1. CASE i \in DOMAIN dir /\ dir[i].readable /\ dir[i].known
      <4>1. Parsed(i).parsed = <<dir[i].data>>
        BY <3>1 DEF Parsed
      <4>2. <<dir[i].data>>[1] = dir[i].data
        OBVIOUS
      <4> QED
        BY <3>1, <4>1, <4>2 DEF PayloadInv
    <3>2. CASE ~(i \in DOMAIN dir /\ dir[i].readable /\ dir[i].known)
      BY <3>2 DEF Parsed
    <3> QED
      BY <3>1, <3>2
  <2> DEFINE p == Parsed(i)
  <2> HIDE DEF p
  <2>4. DOMAIN found'.files = DOMAIN found.files
        /\ \A j \in DOMAIN found.files : found'.files[j] = IF j = i THEN p ELSE found.files[j]
    BY <2>2 DEF p
  <2>5. ASSUME NEW j \in DOMAIN found'.files
        PROVE  /\ j \in DOMAIN Names
               /\ found'.files[j].parsed # <<>> => PayloadShaped(Names[j].suffix, found'.files[j].parsed[1])
    <3>1. CASE j = i
      BY <2>3, <2>4, <2>5, <3>1 DEF p, PayloadInv
    <3>2. CASE j # i
      BY <2>4, <2>5, <3>2 DEF PayloadInv
    <3> QED
      BY <3>1, <3>2
  <2> QED
    BY <2>1, <2>5 DEF PayloadInv, PayloadShaped
<1>7. CASE SidecarsLoaded \/ Return \/ Cancel \/ UNCHANGED discoverVars
  BY <1>2, <1>7 DEF SidecarsLoaded, Return, Cancel, discoverVars
<1>8. CASE Vanish
  <2>1. PICK i \in DOMAIN dir : dir' = [j \in DOMAIN dir \ {i} |-> dir[j]]
    BY <1>8 DEF Vanish
  <2>2. DOMAIN dir' \subseteq DOMAIN dir /\ \A j \in DOMAIN dir' : dir'[j] = dir[j]
    BY <2>1
  <2> QED
    BY <1>8, <2>2, PayloadOthers DEF Vanish
<1> QED
  BY <1>1, <1>3, <1>4, <1>5, <1>6, <1>7, <1>8 DEF Next

\* The collection is what Discover found.
LEMMA CollectionStays ==
  ASSUME found' = found
  PROVE  collection' = collection
BY DEF collection, SnapshotAt, FilesOf

\* Discover that has returned takes no more steps.
LEMMA ReturnedStays ==
  ASSUME phase = "done" PROVE ~Next
BY DEF Next, ScanEntry, Group, LoadSidecar, SidecarsLoaded, ParseFile, Return, Cancel, Vanish

\* What the report takes from the sections ...
LEMMA BuildsPanels ==
  ASSUME NEW c
  PROVE  buildReport(c).panels = VariablePanelsOf(variablesOf(c), VariablesUnsupported(c))
BY DEF buildReport, AdvisedReport, ReportOf

\* ... and of the environment.
LEMMA BuildsEnvironment ==
  ASSUME NEW c
  PROVE  buildReport(c).env = buildEnvironmentSection(c)
BY DEF buildReport, AdvisedReport, ReportOf

\* ... and the sections themselves.
LEMMA BuildsSections ==
  ASSUME NEW c
  PROVE  buildReport(c).os = buildOSSection(c) /\ buildReport(c).db = buildDBSection(c)
BY DEF buildReport, AdvisedReport, ReportOf

\* The invariant of the report, at first and by every step.
LEMMA ReportInitInv == ReportInit => ReportInv
<1> SUFFICES ASSUME ReportInit PROVE ReportInv
  OBVIOUS
<1>1. Inv /\ PayloadInv
  BY InitInv, PayloadInit DEF ReportInit
<1>2. ~Built
  BY DEF ReportInit, Built, NoReport
<1> QED
  BY <1>1, <1>2 DEF ReportInv, ShownInv

\* A report is built once, of a collection that no longer changes.
LEMMA ReportStepKeeps == ReportInv /\ [ReportNext]_reportVars => ReportInv'
<1> SUFFICES ASSUME ReportInv, [ReportNext]_reportVars PROVE ReportInv'
  OBVIOUS
<1>1. Inv' /\ PayloadInv'
  <2>1. [Next]_discoverVars
    BY DEF ReportNext, Build, reportVars
  <2> QED
    BY <2>1, StepKeeps, PayloadKeeps DEF ReportInv
<1>2. ShownInv'
  <2>1. CASE Build
    <3>1. phase' = "done" /\ found' = found
      BY <2>1 DEF Build, discoverVars
    <3>2. collection' = collection
      BY <3>1, CollectionStays
    <3>3. CASE report' = Crashed
      BY <3>3 DEF ShownInv, Built, Crashed
    <3>4. CASE report' = buildReport(collection) /\ ~EnvironmentPanics(collection)
      <4>1. report'.panels = VariablePanelsOf(variablesOf(collection), VariablesUnsupported(collection))
        BY <3>4, BuildsPanels
      <4>2. report'.panels = PanelsShown'
        BY <3>2, <4>1 DEF PanelsShown
      <4>3. report'.env = buildEnvironmentSection(collection')
        BY <3>2, <3>4, BuildsEnvironment
      <4>4. report'.os = buildOSSection(collection') /\ report'.db = buildDBSection(collection')
        BY <3>2, <3>4, BuildsSections
      <4> QED
        BY <3>1, <3>2, <3>4, <4>2, <4>3, <4>4 DEF ShownInv
    <3> QED
      BY <2>1, <3>3, <3>4 DEF Build
  <2>2. CASE Next /\ UNCHANGED report
    <3>1. ~Built
      BY <2>2, ReturnedStays DEF ReportInv, ShownInv
    <3> QED
      BY <2>2, <3>1 DEF ShownInv, Built
  <2>3. CASE UNCHANGED reportVars
    <3>1. phase' = phase /\ found' = found /\ report' = report
      BY <2>3 DEF reportVars, discoverVars
    <3>2. PanelsShown' = PanelsShown
      BY <3>1, CollectionStays DEF PanelsShown
    <3> QED
      BY <3>1, <3>2, CollectionStays DEF ReportInv, ShownInv, Built
  <2> QED
    BY <2>1, <2>2, <2>3 DEF ReportNext
<1> QED
  BY <1>1, <1>2 DEF ReportInv

\* The panels of the report are those that PanelsMark is about.
LEMMA InvPanels == ReportInv => PanelsMarkChanges
<1> SUFFICES ASSUME ReportInv, Built PROVE ChangesMarked(variablesOf(collection), report.panels)
  BY DEF PanelsMarkChanges
<1>1. report.panels = VariablePanelsOf(variablesOf(collection), VariablesUnsupported(collection))
  BY DEF ReportInv, ShownInv, PanelsShown
<1>2. PICK N \in Nat : DOMAIN found.snapshots = 1..N
  BY SnapshotsNumbered DEF ReportInv, ShownInv, Inv, TypeInv, GroupInv, Grouped
<1>3. DOMAIN collection.snapshots = 1..N
  BY <1>2 DEF collection
<1> DEFINE vars == variablesOf(collection)
           V == {vars[n] : n \in 1..N}
<1>4. vars \in [1..N -> V]
  BY <1>3 DEF variablesOf, PerSnapshot
<1> HIDE DEF vars, V
<1>5. ChangesMarked(vars, VariablePanelsOf(vars, VariablesUnsupported(collection)))
  BY <1>2, <1>4, PanelsMark
<1> QED
  BY <1>1, <1>5 DEF vars

\* A payload that the report finds at a snapshot is one of a file of that suffix.
LEMMA PayloadOfFile ==
  ASSUME NEW suffix, NEW n \in Answered(collection, suffix)
  PROVE  \E i \in DOMAIN found.files :
           /\ Names[i].suffix = suffix /\ found.files[i].parsed # <<>>
           /\ PayloadAt(collection, n, suffix) = found.files[i].parsed[1]
<1> DEFINE time == found.snapshots[n]
           here == FilesOf(time, suffix)
           files == collection.snapshots[n].files
<1>1. /\ n \in DOMAIN found.snapshots /\ files = SnapshotAt(time).files
      /\ suffix \in DOMAIN files /\ files[suffix].parsed # <<>>
  BY DEF Answered, collection
<1>2. here # {}
  <2>1. DOMAIN files = {Names[i].suffix : i \in {j \in DOMAIN found.files : Names[j].prefix = time}}
    BY <1>1 DEF SnapshotAt
  <2>2. PICK j \in DOMAIN found.files : Names[j].prefix = time /\ Names[j].suffix = suffix
    BY <1>1, <2>1
  <2> QED
    BY <2>2 DEF FilesOf
<1>3. files[suffix] = found.files[CHOOSE i \in here : TRUE]
  BY <1>1 DEF SnapshotAt
<1>4. PICK i \in here : files[suffix] = found.files[i]
  BY <1>2, <1>3
<1>5. i \in DOMAIN found.files /\ Names[i].suffix = suffix
  BY <1>4 DEF FilesOf
<1>6. PayloadAt(collection, n, suffix) = found.files[i].parsed[1]
  BY <1>4 DEF PayloadAt
<1> QED
  BY <1>1, <1>4, <1>5, <1>6

\* The payloads that the sections are built from have the shape of their suffix.
LEMMA PayloadsHaveShape ==
  ASSUME ReportInv, phase = "done", NEW suffix
  PROVE  \E K : /\ Numbered(Present(PayloadsOf(collection, suffix)), K)
                /\ \A n \in 1..K : /\ Present(PayloadsOf(collection, suffix))[n] # Nil
                                   /\ PayloadShaped(suffix, Present(PayloadsOf(collection, suffix))[n])
<1> DEFINE A == Answered(collection, suffix)
           at == Ascending(A)
           all == PayloadsOf(collection, suffix)
<1>1. PICK N \in Nat : DOMAIN found.snapshots = 1..N
  BY SnapshotsNumbered DEF ReportInv, Inv, TypeInv, GroupInv, Grouped
<1>2. A \in SUBSET (1..N)
  BY <1>1 DEF Answered, collection
<1>3. \A n \in A : PayloadShaped(suffix, PayloadAt(collection, n, suffix))
  <2>1. ASSUME NEW n \in A PROVE PayloadShaped(suffix, PayloadAt(collection, n, suffix))
    <3>1. PICK i \in DOMAIN found.files :
            /\ Names[i].suffix = suffix /\ found.files[i].parsed # <<>>
            /\ PayloadAt(collection, n, suffix) = found.files[i].parsed[1]
      BY PayloadOfFile
    <3> QED
      BY <3>1 DEF ReportInv, PayloadInv
  <2> QED
    BY <2>1
<1>4. all = [n \in DOMAIN at |-> PayloadAt(collection, at[n], suffix)]
  BY DEF PayloadsOf
<1> HIDE DEF A, all
<1>5. IsFiniteSet(1..N) /\ A \subseteq Int
  BY <1>2, FS_Interval
<1>6. IsFiniteSet(A)
  BY <1>2, <1>5, FS_Subset
<1>7. PICK C \in Nat : at \in [1..C -> A]
  BY <1>5, <1>6, AscendingSorts
<1> HIDE DEF at
<1>8. DOMAIN all = 1..C /\ \A n \in 1..C : PayloadShaped(suffix, all[n])
  BY <1>3, <1>4, <1>7
<1>9. PICK K : /\ Numbered(Present(all), K)
               /\ \A n \in 1..K : Present(all)[n] # Nil /\ \E m \in 1..C : Present(all)[n] = all[m]
  BY <1>8, PresentAre
<1>10. \A n \in 1..K : Present(all)[n] # Nil /\ PayloadShaped(suffix, Present(all)[n])
  BY <1>8, <1>9
<1> QED
  BY <1>9, <1>10 DEF all

\* Of payloads that are numbered there are some if a section is made of them.
LEMMA SomePresent ==
  ASSUME NEW all, NEW K, Numbered(Present(all), K), NEW section, OrNil(all, section) # Nil
  PROVE  OrNil(all, section) = section /\ K # 0
<1>1. Present(all) # <<>> /\ OrNil(all, section) = section
  BY DEF OrNil
<1>2. CASE K = 0
  <2>1. Present(all) = [n \in 1..0 |-> Present(all)[n]] /\ 1..0 = {}
    BY <1>2 DEF Numbered
  <2>2. Present(all) = <<>>
    BY <2>1
  <2> QED
    BY <1>1, <2>2
<1> QED
  BY <1>1, <1>2

\* The status file that latestUptimeSeconds takes is the newest one that tells an uptime.
LEMMA InvUptime ==
  ASSUME ReportInv
  PROVE  UptimeAnchored
<1> DEFINE c == collection
           A == Answered(c, "mysqladmin")
           S == {n \in A : \/ StatusAt(n) = Nil
                           \/ "Uptime" \in StatusAt(n).names /\ UptimeSlots(StatusAt(n)) # {}}
<1> SUFFICES ASSUME Built, report.env.mysql # Nil, StatusTelling # {},
                    NEW start \in StartsTold(Max(StatusTelling)),
                    StartsTold(Max(StatusTelling)) = {start}
             PROVE  report.env.mysql.started = IF report.env.mysql.uptime > 0 THEN <<start>> ELSE Gap
  BY DEF UptimeAnchored
<1>1. /\ phase = "done" /\ ~EnvironmentPanics(c)
      /\ report.env = buildEnvironmentSection(c)
  BY DEF ReportInv, ShownInv
<1>2. report.env.mysql = MySQLPanel(latestVariables(c), latestUptimeSeconds(c))
  BY <1>1 DEF buildEnvironmentSection, EnvironmentOf, buildMySQLEnv
<1> DEFINE uptime == latestUptimeSeconds(c)
<1>3. latestVariables(c) # Nil /\ uptime # Panic
  BY <1>1, <1>2 DEF MySQLPanel, EnvironmentPanics
<1>4. /\ report.env.mysql.uptime = uptime.seconds
      /\ report.env.mysql.started = IF uptime.seconds > 0 THEN <<uptime.at - uptime.seconds>> ELSE Gap
  <2> HIDE DEF uptime
  <2> QED
    BY <1>2, <1>3 DEF MySQLPanel, uptime
<1>5. PICK N \in Nat : DOMAIN found.snapshots = 1..N
  BY <1>1, SnapshotsNumbered DEF ReportInv, Inv, TypeInv, GroupInv, Grouped
<1>6. A \subseteq 1..N /\ S \subseteq A /\ StatusTelling \subseteq A
  BY <1>5 DEF Answered, collection, StatusTelling
<1> DEFINE m == Max(StatusTelling)
<1>7. m \in StatusTelling /\ \A n \in StatusTelling : n <= m
  BY <1>5, <1>6, GreatestNumber
<1>8. PICK j \in UptimeSlots(StatusAt(m)) : start = StatusAt(m).times[j] - StatusAt(m).deltas["Uptime"][j][1]
  BY DEF StartsTold
<1>9. m \in S
  BY <1>7, <1>8 DEF StatusTelling, TellsUptime
<1> DEFINE n == Max(S)
<1>10. n \in S /\ \A x \in S : x <= n
  BY <1>5, <1>6, <1>9, GreatestNumber
<1>11. uptime = IF StatusAt(n) = Nil THEN Panic
                ELSE LET k == Max(UptimeSlots(StatusAt(n))) IN
                     [seconds |-> StatusAt(n).deltas["Uptime"][k][1], at |-> UptimeClock(c, n, k)]
  BY <1>9 DEF latestUptimeSeconds, StatusAt
<1>12. StatusAt(n) # Nil
  BY <1>3, <1>11
<1>13. n = m
  <2>1. n \in StatusTelling
    BY <1>10, <1>12 DEF StatusTelling, TellsUptime
  <2>2. n <= m /\ m <= n /\ m \in 1..N /\ n \in 1..N
    BY <1>6, <1>7, <1>9, <1>10, <2>1
  <2> HIDE DEF n, m
  <2> QED
    BY <2>2
<1> HIDE DEF n, S
<1> DEFINE ma == StatusAt(m)
           k == Max(UptimeSlots(ma))
<1>14. k \in UptimeSlots(ma)
  <2>1. PICK i \in DOMAIN found.files :
          /\ Names[i].suffix = "mysqladmin" /\ found.files[i].parsed # <<>>
          /\ ma = found.files[i].parsed[1]
    BY <1>6, <1>7, PayloadOfFile DEF StatusAt
  <2>2. StatusShaped(ma)
    BY <2>1 DEF ReportInv, PayloadInv, PayloadShaped
  <2>3. ma # Nil /\ "Uptime" \in ma.names
    BY <1>7 DEF StatusTelling, TellsUptime
  <2>4. ma.deltas["Uptime"] \in Seq(Seq(Int))
    BY <2>2, <2>3 DEF StatusShaped
  <2> HIDE DEF ma
  <2>5. PICK L \in Nat : DOMAIN ma.deltas["Uptime"] = 1..L
    BY <2>4, LenProperties
  <2>6. UptimeSlots(ma) \in SUBSET (1..L) /\ UptimeSlots(ma) # {}
    BY <1>8, <2>5 DEF UptimeSlots, ma
  <2> QED
    BY <2>5, <2>6, GreatestNumber
<1>15. uptime = [seconds |-> ma.deltas["Uptime"][k][1], at |-> ma.times[k]]
  BY <1>11, <1>12, <1>13 DEF UptimeClock, StatusAt
<1>16. ma.times[k] - ma.deltas["Uptime"][k][1] = start
  BY <1>14 DEF StartsTold
<1> HIDE DEF uptime, ma, k
<1> QED
  BY <1>4, <1>15, <1>16

\* The counters of the report grew by what their files say, and no difference bridges two files.
LEMMA InvGrowth ==
  ASSUME ReportInv
  PROVE  OnlyObservedGrowth
<1> DEFINE status == PayloadsOf(collection, "mysqladmin")
           tallies == PayloadsOf(collection, "netstat_s")
           merged == report.db.parts.mysqladmin
           counters == report.os.parts.netstat_s
<1> SUFFICES ASSUME Built
             PROVE  /\ merged # Nil => \A v \in merged.counters :
                         SumOf(Tail(merged.deltas[v])) = GrownWithin(Present(status), v)
                    /\ counters # Nil => \A v \in DOMAIN counters.deltas, b \in ToSet(counters.boundaries) :
                         counters.deltas[v][b + 1] = Gap
  BY DEF OnlyObservedGrowth
<1>1. phase = "done" /\ report.os = buildOSSection(collection) /\ report.db = buildDBSection(collection)
  BY DEF ReportInv, ShownInv
<1>2. merged = OrNil(status, MergeMysqladminData(status))
  BY <1>1 DEF buildDBSection, DBSection, PartsOfDB
<1>3. counters = OrNil(tallies, concatNetstatS(tallies))
  BY <1>1 DEF buildOSSection, OSSection, PartsOfOS
<1> HIDE DEF merged, counters
<1>4. ASSUME merged # Nil, NEW v \in merged.counters
      PROVE  SumOf(Tail(merged.deltas[v])) = GrownWithin(Present(status), v)
  <2>1. PICK K : /\ Numbered(Present(status), K)
                 /\ \A n \in 1..K : Present(status)[n] # Nil /\ PayloadShaped("mysqladmin", Present(status)[n])
    BY <1>1, PayloadsHaveShape
  <2> HIDE DEF status
  <2>2. merged = MergeMysqladminData(status) /\ K # 0
    BY <1>2, <1>4, <2>1, SomePresent
  <2>3. Statuses(Present(status), K)
    BY <2>1 DEF Statuses, PayloadShaped
  <2> QED
    BY <1>4, <2>2, <2>3, MergeGrows
<1>5. ASSUME counters # Nil, NEW v \in DOMAIN counters.deltas, NEW b \in ToSet(counters.boundaries)
      PROVE  counters.deltas[v][b + 1] = Gap
  <2>1. PICK K : /\ Numbered(Present(tallies), K)
                 /\ \A n \in 1..K : Present(tallies)[n] # Nil /\ PayloadShaped("netstat_s", Present(tallies)[n])
    BY <1>1, PayloadsHaveShape
  <2> HIDE DEF tallies
  <2>2. counters = concatNetstatS(tallies) /\ K # 0
    BY <1>3, <1>5, <2>1, SomePresent
  <2> QED
    BY <1>5, <2>1, <2>2, NetstatSBegins
<1> QED
  BY <1>4, <1>5
-----------------------------------------------------------------------------
\* Report: the invariant of the collection and of the report that is built of it, for any
\* names, directories, collectors and sidecars, and however many files vanish.
THEOREM ReportInvariant == ReportSpec => []ReportInv
BY ReportInitInv, ReportStepKeeps, PTL DEF ReportSpec

\* parse.DiagnosticSink: the sink has heard of every diagnostic of a returned collection, in
\* its order and once, and of no other.
THEOREM SinkHearsAll == ReportSpec => []EverythingMirrored
<1>1. ReportInv => EverythingMirrored
  BY InvMirrors DEF ReportInv
<1> QED
  BY <1>1, ReportInvariant, PTL

\* parse.Discover, runParsers: a collection that is returned has been parsed completely.
THEOREM ReturnedIsComplete == ReportSpec => []NothingHalfParsed
<1>1. ReportInv => NothingHalfParsed
  BY InvParses DEF ReportInv
<1> QED
  BY <1>1, ReportInvariant, PTL

\* loadEnvSidecars: a sidecar is the newest usable one, and a fallback is reported.
THEOREM SidecarIsNewest == ReportSpec => []NewestSidecar
<1>1. ReportInv => NewestSidecar
  BY InvSidecars DEF ReportInv
<1> QED
  BY <1>1, ReportInvariant, PTL

\* keptVariableRuns and buildView: collapsing equal snapshots hides no change.
THEOREM NoChangeIsHidden == ReportSpec => []PanelsMarkChanges
<1>1. ReportInv => PanelsMarkChanges
  BY InvPanels
<1> QED
  BY <1>1, ReportInvariant, PTL

\* latestUptimeSeconds: the start of the server is that of the newest status file.
THEOREM StartIsOfNewestStatus == ReportSpec => []UptimeAnchored
<1>1. ReportInv => UptimeAnchored
  BY InvUptime
<1> QED
  BY <1>1, ReportInvariant, PTL

\* MergeMysqladminData and concatNetstatS: in no report is the difference of two snapshots'
\* files growth of a counter.  A status counter grew by what was observed between two samples
\* of a file, and by the tally where a file first reports it in a later column.
THEOREM GrowthIsObserved == ReportSpec => []OnlyObservedGrowth
<1>1. ReportInv => OnlyObservedGrowth
  BY InvGrowth
<1> QED
  BY <1>1, ReportInvariant, PTL
-----------------------------------------------------------------------------
\* Analysis: what is missing makes no rule more severe.

\* p tells what e tells, or less.
Weaker(p, e) ==
  /\ \A n : counterTotal(p, n) \in {Gap, counterTotal(e, n)}
  /\ \A n : counterRatePerSec(p, n) \in {Gap, counterRatePerSec(e, n)}
  /\ \A n : gaugeMax(p, n) \in {Gap, gaugeMax(e, n)}
  /\ \A n : Gauge(p, n) \in {Gap, Gauge(e, n)}
  /\ \A n : VariableRaw(p.vars, n) \in {NoSetting, VariableRaw(e.vars, n)}
  /\ \/ \A f : PeakOf(p, f) = 0
     \/ \A f : PeakOf(p, f) = PeakOf(e, f)
  /\ p.queries \in {<<>>, e.queries}

LEMMA WeakerVariable ==
  ASSUME NEW p, NEW e, Weaker(p, e), NEW n
  PROVE  VariableOf(p, n) \in {Gap, VariableOf(e, n)}
<1>1. NoSetting.num = Gap
  BY DEF NoSetting
<1>2. CASE VariableRaw(p.vars, n) = NoSetting
  BY <1>1, <1>2 DEF VariableOf, VariableFloat
<1>3. CASE VariableRaw(p.vars, n) = VariableRaw(e.vars, n)
  BY <1>3 DEF VariableOf, VariableFloat
<1> QED
  BY <1>2, <1>3 DEF Weaker

\* What is skipped or fine is no escalation, nor is the same grade.
LEMMA RatingFields ==
  ASSUME NEW s, NEW m
  PROVE  Rating(s, m).severity = s
BY DEF Rating

LEMMA SkippedIsMild == ASSUME NEW x PROVE NoEscalation(Skipped, x)
BY RatingFields DEF NoEscalation, Skipped, Skip, Warn

LEMMA SameIsMild ==
  ASSUME NEW s \in {Skip, OK, Info, Warn, Crit}, NEW m, NEW k
  PROVE  NoEscalation(Rating(s, m), Rating(s, k))
BY RatingFields DEF NoEscalation, Skip, OK, Info, Warn, Crit

\* What the primitives say of what is missing.
LEMMA MissingIsNothing ==
  /\ ~Active(Gap) /\ ~Positive(Gap) /\ OrZero(Gap) = 0
  /\ \A num, den : ~Above(Gap, num, den)
  /\ \A S : Gap \in S => ~AllKnown(S)
BY DEF Active, Above, Positive, OrZero, AllKnown

LEMMA GradeType == ASSUME NEW c, NEW w PROVE Graded(c, w) \in {OK, Warn, Crit}
BY DEF Graded

LEMMA MaxOfTwo ==
  ASSUME NEW a \in Nat, NEW b \in Nat
  PROVE  Max({a, b}) = IF a >= b THEN a ELSE b
BY DEF Max

\* The rules, by subsystem: what is told less of is graded the same, or is mild.
LEMMA BufferPool ==
  ASSUME NEW p, NEW e, Weaker(p, e)
  PROVE  /\ NoEscalation(ruleBPUndersized(p), ruleBPUndersized(e))
         /\ NoEscalation(ruleBPHitRatio(p), ruleBPHitRatio(e))
         /\ NoEscalation(ruleBPFreePagesLow(p), ruleBPFreePagesLow(e))
         /\ NoEscalation(ruleBPLRUFlushing(p), ruleBPLRUFlushing(e))
         /\ NoEscalation(ruleBPWaitFree(p), ruleBPWaitFree(e))
         /\ NoEscalation(ruleBPDirtyPct(p), ruleBPDirtyPct(e))
         /\ NoEscalation(ruleInnoDBFlushing(p), ruleInnoDBFlushing(e))
<1> USE MissingIsNothing, WeakerVariable, SkippedIsMild, SameIsMild, GradeType
<1>1. NoEscalation(ruleBPUndersized(p), ruleBPUndersized(e))
  BY DEF Weaker, ruleBPUndersized
<1>2. NoEscalation(ruleBPHitRatio(p), ruleBPHitRatio(e))
  BY DEF Weaker, ruleBPHitRatio
<1>3. NoEscalation(ruleBPFreePagesLow(p), ruleBPFreePagesLow(e))
  <2> DEFINE free(x) == Gauge(x, "Innodb_buffer_pool_pages_free")
             depth(x) == VariableOf(x, "innodb_lru_scan_depth")
             instances(x) == VariableOf(x, "innodb_buffer_pool_instances")
             read(x) == counterRatePerSec(x, "Innodb_buffer_pool_reads")
             flushed(x) == counterRatePerSec(x, "Innodb_buffer_pool_pages_LRU_flushed")
             grade(x) == IF free(x)[1] > depth(x)[1] * instances(x)[1] THEN OK
                         ELSE IF Active(flushed(x)) THEN Crit ELSE Warn
  <2>1. \A x : ruleBPFreePagesLow(x) = IF ~AllKnown({free(x), depth(x), instances(x)}) \/ ~Active(read(x))
                                       THEN Skipped ELSE Rating(grade(x), 4)
    BY Zenon DEF ruleBPFreePagesLow
  <2>2. /\ free(p) \in {Gap, free(e)} /\ depth(p) \in {Gap, depth(e)} /\ instances(p) \in {Gap, instances(e)}
        /\ read(p) \in {Gap, read(e)} /\ flushed(p) \in {Gap, flushed(e)}
    BY DEF Weaker
  <2> HIDE DEF free, depth, instances, read, flushed
  <2>3. CASE ~AllKnown({free(p), depth(p), instances(p)}) \/ ~Active(read(p))
    BY <2>1, <2>3
  <2>4. CASE AllKnown({free(p), depth(p), instances(p)}) /\ Active(read(p))
    <3>1. /\ free(p) = free(e) /\ depth(p) = depth(e) /\ instances(p) = instances(e) /\ read(p) = read(e)
      BY <2>2, <2>4 DEF AllKnown
    <3>2. grade(p) \in {OK, Warn, Crit} /\ (grade(p) = grade(e) \/ (grade(p) = Warn /\ grade(e) = Crit))
      BY <2>2, <3>1
    <3> HIDE DEF grade
    <3>3. ruleBPFreePagesLow(p) = Rating(grade(p), 4) /\ ruleBPFreePagesLow(e) = Rating(grade(e), 4)
      BY <2>1, <2>4, <3>1
    <3> QED
      BY <3>2, <3>3, RatingFields DEF NoEscalation, OK, Warn, Crit
  <2> QED
    BY <2>3, <2>4
<1>4. NoEscalation(ruleBPLRUFlushing(p), ruleBPLRUFlushing(e))
  BY DEF Weaker, ruleBPLRUFlushing
<1>5. NoEscalation(ruleBPWaitFree(p), ruleBPWaitFree(e))
  BY DEF Weaker, ruleBPWaitFree
<1>6. NoEscalation(ruleBPDirtyPct(p), ruleBPDirtyPct(e))
  <2> DEFINE dirty(x) == gaugeMax(x, "Innodb_buffer_pool_pages_dirty")
             total(x) == Gauge(x, "Innodb_buffer_pool_pages_total")
             limit(x) == VariableOf(x, "innodb_max_dirty_pages_pct")
             grade(x) == Graded(100 * dirty(x)[1] >= limit(x)[1] * total(x)[1],
                                1000 * dirty(x)[1] >= 9 * limit(x)[1] * total(x)[1])
  <2>1. \A x : ruleBPDirtyPct(x) = IF ~AllKnown({dirty(x), limit(x)}) \/ ~Positive(total(x))
                                   THEN Skipped ELSE Rating(grade(x), 3)
    BY Zenon DEF ruleBPDirtyPct
  <2>2. dirty(p) \in {Gap, dirty(e)} /\ total(p) \in {Gap, total(e)} /\ limit(p) \in {Gap, limit(e)}
    BY DEF Weaker
  <2> HIDE DEF dirty, total, limit
  <2>3. CASE AllKnown({dirty(p), limit(p)}) /\ Positive(total(p))
    <3>1. dirty(p) = dirty(e) /\ total(p) = total(e) /\ limit(p) = limit(e)
      BY <2>2, <2>3 DEF AllKnown
    <3>2. ruleBPDirtyPct(p) = ruleBPDirtyPct(e)
      BY <2>1, <2>3, <3>1
    <3>3. ruleBPDirtyPct(p) = Rating(grade(p), 3)
      BY <2>1, <2>3
    <3> QED
      BY <3>2, <3>3
  <2> QED
    BY <2>1, <2>3
<1>7. NoEscalation(ruleInnoDBFlushing(p), ruleInnoDBFlushing(e))
  BY DEF Weaker, ruleInnoDBFlushing
<1> QED
  BY <1>1, <1>2, <1>3, <1>4, <1>5, <1>6, <1>7

LEMMA LogsAndCaches ==
  ASSUME NEW p, NEW e, Weaker(p, e)
  PROVE  /\ NoEscalation(ruleRedoCheckpointAge(p), ruleRedoCheckpointAge(e))
         /\ NoEscalation(ruleRedoPendingWrites(p), ruleRedoPendingWrites(e))
         /\ NoEscalation(ruleRedoPendingFsyncs(p), ruleRedoPendingFsyncs(e))
         /\ NoEscalation(ruleRedoLogWaits(p), ruleRedoLogWaits(e))
         /\ NoEscalation(ruleSemaphoreWaits(p), ruleSemaphoreWaits(e))
         /\ NoEscalation(ruleBinlogCacheDiskUse(p), ruleBinlogCacheDiskUse(e))
         /\ NoEscalation(ruleBinlogStmtCacheDiskUse(p), ruleBinlogStmtCacheDiskUse(e))
         /\ NoEscalation(ruleThreadCacheHitRatio(p), ruleThreadCacheHitRatio(e))
         /\ NoEscalation(ruleTableCacheUsage(p), ruleTableCacheUsage(e))
         /\ NoEscalation(ruleTableCacheOverflows(p), ruleTableCacheOverflows(e))
         /\ NoEscalation(ruleTableCacheMissRatio(p), ruleTableCacheMissRatio(e))
         /\ NoEscalation(ruleTmpDiskRatio(p), ruleTmpDiskRatio(e))
<1> USE MissingIsNothing, WeakerVariable, SkippedIsMild, SameIsMild, GradeType
<1>1. NoEscalation(ruleRedoCheckpointAge(p), ruleRedoCheckpointAge(e))
  BY DEF Weaker, ruleRedoCheckpointAge
<1>2. NoEscalation(ruleRedoPendingWrites(p), ruleRedoPendingWrites(e))
  BY DEF Weaker, ruleRedoPendingWrites
<1>3. NoEscalation(ruleRedoPendingFsyncs(p), ruleRedoPendingFsyncs(e))
  BY DEF Weaker, ruleRedoPendingFsyncs
<1>4. NoEscalation(ruleRedoLogWaits(p), ruleRedoLogWaits(e))
  BY DEF Weaker, ruleRedoLogWaits, RateRule, GradeOfActivity
<1>5. NoEscalation(ruleSemaphoreWaits(p), ruleSemaphoreWaits(e))
  BY DEF Weaker, ruleSemaphoreWaits
<1>6. NoEscalation(ruleBinlogCacheDiskUse(p), ruleBinlogCacheDiskUse(e))
  BY DEF Weaker, ruleBinlogCacheDiskUse, RateRule, GradeOfActivity
<1>7. NoEscalation(ruleBinlogStmtCacheDiskUse(p), ruleBinlogStmtCacheDiskUse(e))
  BY DEF Weaker, ruleBinlogStmtCacheDiskUse, RateRule, GradeOfActivity
<1>8. NoEscalation(ruleThreadCacheHitRatio(p), ruleThreadCacheHitRatio(e))
  BY DEF Weaker, ruleThreadCacheHitRatio
<1>9. NoEscalation(ruleTableCacheUsage(p), ruleTableCacheUsage(e))
  <2> DEFINE size(x) == VariableOf(x, "table_open_cache")
             open(x) == Gauge(x, "Open_tables")
             grade(x) == Graded(100 * open(x)[1] >= 95 * size(x)[1], 100 * open(x)[1] >= 80 * size(x)[1])
  <2>1. \A x : ruleTableCacheUsage(x) = IF open(x) = Gap \/ ~Positive(size(x)) THEN Skipped ELSE Rating(grade(x), 2)
    BY Zenon DEF ruleTableCacheUsage
  <2>2. size(p) \in {Gap, size(e)} /\ open(p) \in {Gap, open(e)}
    BY DEF Weaker
  <2> HIDE DEF size, open
  <2>3. CASE open(p) # Gap /\ Positive(size(p))
    <3>1. size(p) = size(e) /\ open(p) = open(e)
      BY <2>2, <2>3
    <3>2. ruleTableCacheUsage(p) = ruleTableCacheUsage(e) /\ ruleTableCacheUsage(p) = Rating(grade(p), 2)
      BY <2>1, <2>3, <3>1
    <3> QED
      BY <3>2
  <2> QED
    BY <2>1, <2>3
<1>10. NoEscalation(ruleTableCacheOverflows(p), ruleTableCacheOverflows(e))
  BY DEF Weaker, ruleTableCacheOverflows, RateRule, GradeOfActivity
<1>11. NoEscalation(ruleTableCacheMissRatio(p), ruleTableCacheMissRatio(e))
  <2> DEFINE misses(x) == counterTotal(x, "Table_open_cache_misses")
             hits(x) == counterTotal(x, "Table_open_cache_hits")
             total(x) == misses(x)[1] + hits(x)[1]
             grade(x) == Graded(10 * misses(x)[1] > total(x), 100 * misses(x)[1] > total(x))
  <2>1. \A x : ruleTableCacheMissRatio(x) =
                 IF ~AllKnown({misses(x), hits(x)}) THEN Skipped
                 ELSE IF total(x) <= 0 THEN Skipped ELSE Rating(grade(x), 2)
    BY Zenon DEF ruleTableCacheMissRatio
  <2>2. misses(p) \in {Gap, misses(e)} /\ hits(p) \in {Gap, hits(e)}
    BY DEF Weaker
  <2> HIDE DEF misses, hits
  <2>3. CASE AllKnown({misses(p), hits(p)})
    <3>1. misses(p) = misses(e) /\ hits(p) = hits(e)
      BY <2>2, <2>3 DEF AllKnown
    <3>2. ruleTableCacheMissRatio(p) = ruleTableCacheMissRatio(e)
      BY <2>1, <3>1
    <3>3. ruleTableCacheMissRatio(p) \in {Skipped, Rating(grade(p), 2)}
      BY <2>1, <2>3
    <3> QED
      BY <3>2, <3>3
  <2> QED
    BY <2>1, <2>3
<1>12. NoEscalation(ruleTmpDiskRatio(p), ruleTmpDiskRatio(e))
  BY DEF Weaker, ruleTmpDiskRatio
<1> QED
  BY <1>1, <1>2, <1>3, <1>4, <1>5, <1>6, <1>7, <1>8, <1>9, <1>10, <1>11, <1>12

LEMMA QueriesAndSettings ==
  ASSUME NEW p, NEW e, Weaker(p, e)
  PROVE  /\ NoEscalation(ruleFullScanSelectScan(p), ruleFullScanSelectScan(e))
         /\ NoEscalation(ruleFullScanSelectFullJoin(p), ruleFullScanSelectFullJoin(e))
         /\ NoEscalation(ruleProcesslistAbuse(p), ruleProcesslistAbuse(e))
         /\ NoEscalation(ruleObservedSlowProcesslistQuery(p), ruleObservedSlowProcesslistQuery(e))
         /\ NoEscalation(ruleConnectionsSaturation(p), ruleConnectionsSaturation(e))
         /\ NoEscalation(ruleAbortedConnectsRate(p), ruleAbortedConnectsRate(e))
         /\ NoEscalation(ruleSlowLogDisabled(p), ruleSlowLogDisabled(e))
         /\ NoEscalation(ruleConfigMaxConnectionsHigh(p), ruleConfigMaxConnectionsHigh(e))
<1> USE MissingIsNothing, WeakerVariable, SkippedIsMild, SameIsMild, GradeType
<1>1. NoEscalation(ruleFullScanSelectScan(p), ruleFullScanSelectScan(e))
  BY DEF Weaker, ruleFullScanSelectScan, RateRule, GradeOfActivity
<1>2. NoEscalation(ruleFullScanSelectFullJoin(p), ruleFullScanSelectFullJoin(e))
  BY DEF Weaker, ruleFullScanSelectFullJoin, RateRule, GradeOfActivity
<1>3. NoEscalation(ruleProcesslistAbuse(p), ruleProcesslistAbuse(e))
  BY DEF Weaker, ruleProcesslistAbuse
<1>4. NoEscalation(ruleObservedSlowProcesslistQuery(p), ruleObservedSlowProcesslistQuery(e))
  <2>1. CASE p.queries = e.queries
    BY <2>1 DEF ruleObservedSlowProcesslistQuery
  <2>2. CASE p.queries = <<>>
    <3>1. DOMAIN p.queries = {}
      BY <2>2
    <3>2. ruleObservedSlowProcesslistQuery(p) = Skipped
      BY <3>1 DEF ruleObservedSlowProcesslistQuery
    <3> QED
      BY <3>2
  <2> QED
    BY <2>1, <2>2 DEF Weaker
<1>5. NoEscalation(ruleConnectionsSaturation(p), ruleConnectionsSaturation(e))
  <2> DEFINE connected(x) == gaugeMax(x, "Threads_connected")
             running(x) == gaugeMax(x, "Threads_running")
             most(x) == VariableOf(x, "max_connections")
             used(x) == IF connected(x) = Gap \/ ~Positive(most(x)) THEN OK
                        ELSE Graded(10 * connected(x)[1] >= 9 * most(x)[1], 10 * connected(x)[1] >= 7 * most(x)[1])
             busy(x) == IF running(x) = Gap THEN OK ELSE Graded(running(x)[1] >= 100, running(x)[1] >= 50)
             metrics(x) == Len(connected(x)) + Len(running(x)) + Len(most(x))
  <2>1. \A x : ruleConnectionsSaturation(x) =
                 IF running(x) = Gap /\ (connected(x) = Gap \/ ~Positive(most(x)))
                 THEN Skipped ELSE Rating(Max({used(x), busy(x)}), metrics(x))
    BY Zenon DEF ruleConnectionsSaturation
  <2>2. /\ most(p) \in {Gap, most(e)} /\ running(p) \in {Gap, running(e)}
        /\ connected(p) \in {Gap, connected(e)}
    BY DEF Weaker
  <2> HIDE DEF most, running, connected, metrics
  <2>3. CASE ~(running(p) = Gap /\ (connected(p) = Gap \/ ~Positive(most(p))))
    <3>1. ~(running(e) = Gap /\ (connected(e) = Gap \/ ~Positive(most(e))))
      BY <2>2, <2>3
    <3>2. \A x : used(x) \in {OK, Warn, Crit} /\ busy(x) \in {OK, Warn, Crit}
      OBVIOUS
    <3>3. used(p) \in {OK, used(e)}
      BY <2>2
    <3>4. busy(p) \in {OK, busy(e)}
      BY <2>2
    <3> HIDE DEF used, busy
    <3>5. Max({used(p), busy(p)}) <= Max({used(e), busy(e)})
      BY <3>2, <3>3, <3>4, MaxOfTwo DEF OK, Warn, Crit
    <3>6. /\ ruleConnectionsSaturation(p) = Rating(Max({used(p), busy(p)}), metrics(p))
          /\ ruleConnectionsSaturation(e) = Rating(Max({used(e), busy(e)}), metrics(e))
      BY <2>1, <2>3, <3>1
    <3> QED
      BY <3>5, <3>6, RatingFields DEF NoEscalation
  <2> QED
    BY <2>1, <2>3
<1>6. NoEscalation(ruleAbortedConnectsRate(p), ruleAbortedConnectsRate(e))
  BY DEF Weaker, ruleAbortedConnectsRate
<1>7. NoEscalation(ruleSlowLogDisabled(p), ruleSlowLogDisabled(e))
  BY DEF Weaker, ruleSlowLogDisabled
<1>8. NoEscalation(ruleConfigMaxConnectionsHigh(p), ruleConfigMaxConnectionsHigh(e))
  <2> DEFINE most(x) == VariableOf(x, "max_connections")
             pool(x) == VariableOf(x, "innodb_buffer_pool_size")
             below(x, n) == 1000 * pool(x)[1] < n * MiB * most(x)[1]
             grade(x) == Graded(below(x, 256), below(x, 1024))
             metrics(x) == IF gaugeMax(x, "Threads_running") = Gap THEN 3 ELSE 4
  <2>1. \A x : ruleConfigMaxConnectionsHigh(x) =
                 IF OrZero(most(x)) <= 5000 \/ ~Positive(pool(x)) THEN Skipped ELSE Rating(grade(x), metrics(x))
    BY Zenon DEF ruleConfigMaxConnectionsHigh
  <2>2. most(p) \in {Gap, most(e)} /\ pool(p) \in {Gap, pool(e)}
    BY DEF Weaker
  <2> HIDE DEF most, pool, metrics
  <2>3. CASE ~(OrZero(most(p)) <= 5000) /\ Positive(pool(p))
    <3>1. most(p) = most(e) /\ pool(p) = pool(e)
      BY <2>2, <2>3
    <3>2. /\ ruleConfigMaxConnectionsHigh(p) = Rating(grade(p), metrics(p))
          /\ ruleConfigMaxConnectionsHigh(e) = Rating(grade(p), metrics(e))
      BY <2>1, <2>3, <3>1
    <3> QED
      BY <3>2
  <2> QED
    BY <2>1, <2>3
<1> QED
  BY <1>1, <1>2, <1>3, <1>4, <1>5, <1>6, <1>7, <1>8

-----------------------------------------------------------------------------
\* Nothing at all is known without status data.
LEMMA NoStatus ==
  ASSUME NEW p, p.merged = Nil, NEW n
  PROVE  /\ counterTotal(p, n) = Gap /\ counterRatePerSec(p, n) = Gap
         /\ gaugeMax(p, n) = Gap /\ Gauge(p, n) = Gap
BY DEF counterTotal, counterRatePerSec, RateOf, gaugeMax, Gauge, GaugeLast, Nil, Gap

\* What a rule reads of the parts that are the same, is the same.
LEMMA SameStatus ==
  ASSUME NEW p, NEW e, p.merged = e.merged, NEW n
  PROVE  /\ counterTotal(p, n) = counterTotal(e, n) /\ counterRatePerSec(p, n) = counterRatePerSec(e, n)
         /\ gaugeMax(p, n) = gaugeMax(e, n) /\ Gauge(p, n) = Gauge(e, n)
BY DEF counterTotal, counterRatePerSec, captureSeconds, gaugeMax, Gauge

LEMMA SameInnodb ==
  ASSUME NEW p, NEW e, p.innodb = e.innodb, NEW f
  PROVE  PeakOf(p, f) = PeakOf(e, f)
BY DEF PeakOf

LEMMA NoInnodb ==
  ASSUME NEW p, \A n \in DOMAIN p.innodb : p.innodb[n] = Nil, NEW f
  PROVE  PeakOf(p, f) = 0
<1>1. {n \in DOMAIN p.innodb : p.innodb[n] # Nil} = {}
  OBVIOUS
<1>2. {0} \cup {p.innodb[n].pending[f] : n \in {n \in DOMAIN p.innodb : p.innodb[n] # Nil}} = {0}
  BY <1>1
<1>3. Max({0}) = 0
  BY DEF Max
<1> QED
  BY <1>2, <1>3 DEF PeakOf

\* Another setting is where it was.
LEMMA OtherSetting ==
  ASSUME NEW vars, vars \in Seq(ToSet(vars)), NEW name, NEW n, n # name
  PROVE  VariableRaw(Unset(vars, name), n) = VariableRaw(vars, n)
<1> DEFINE less == Unset(vars, name)
           at(v) == {k \in DOMAIN v : v[k] # Nil /\ n \in DOMAIN v[k]}
<1>1. at(less) = at(vars)
  <2>1. DOMAIN less = DOMAIN vars
    BY DEF Unset
  <2>2. \A f : n \in DOMAIN f => f # Nil
    BY DEF Nil
  <2>3. \A k \in DOMAIN vars : n \in DOMAIN less[k] <=> n \in DOMAIN vars[k]
    BY DEF Unset
  <2> QED
    BY <2>1, <2>2, <2>3
<1>2. \A k \in at(vars) : less[k][n] = vars[k][n]
  BY DEF Unset
<1>3. CASE at(vars) = {}
  BY <1>1, <1>3 DEF VariableRaw
<1>4. CASE at(vars) # {}
  <2>1. Len(vars) \in Nat /\ at(vars) \in SUBSET (1..Len(vars))
    OBVIOUS
  <2> HIDE DEF at
  <2>2. Max(at(vars)) \in at(vars)
    BY <1>4, <2>1, GreatestNumber
  <2> USE DEF at
  <2> QED
    BY <1>1, <1>2, <2>2 DEF VariableRaw
<1> QED
  BY <1>3, <1>4

\* Without a name: the others keep their slots.
LEMMA OtherStatus ==
  ASSUME NEW e \in Evidence, e.merged # Nil, NEW name
  PROVE  Weaker(WithoutStatus(e, name), e)
<1> DEFINE m == e.merged
           p == WithoutStatus(e, name)
           left == [x \in DOMAIN m.deltas \ {name} |-> m.deltas[x]]
<1>1. /\ DOMAIN e = {"merged", "vars", "innodb", "queries"} /\ DOMAIN m = StatusFields
      /\ m.counters \subseteq m.names /\ m.names \subseteq DOMAIN m.deltas
  BY EvidenceAssumption
<1>2. p.vars = e.vars /\ p.innodb = e.innodb /\ p.queries = e.queries
  BY <1>1 DEF WithoutStatus
<1> DEFINE less == [m EXCEPT !.names = m.names \ {name}, !.counters = m.counters \ {name}, !.deltas = left]
<1>3. p.merged = less
  <2>1. p = [e EXCEPT !.merged = less]
    BY Zenon DEF WithoutStatus
  <2> HIDE DEF less, p
  <2> QED
    BY <1>1, <2>1
<1> HIDE DEF p
<1>4. /\ p.merged.names = m.names \ {name} /\ p.merged.counters = m.counters \ {name}
      /\ p.merged.deltas = left
      /\ p.merged.count = m.count /\ p.merged.times = m.times /\ p.merged.boundaries = m.boundaries
  BY <1>1, <1>3, Zenon DEF StatusFields
<1>5. p.merged # Nil
  <2>1. DOMAIN p.merged = StatusFields
    BY <1>1, <1>3
  <2> QED
    BY <2>1 DEF Nil, StatusFields
<1>6. \A n : n \in m.names /\ n # name => left[n] = m.deltas[n]
  BY <1>1
<1> HIDE DEF left
<1>7. \A n : /\ n \in p.merged.counters <=> n \in m.counters /\ n # name
             /\ n \in p.merged.names <=> n \in m.names /\ n # name
  BY <1>4
<1>8. captureSeconds(p) = captureSeconds(e)
  <2>1. Spans(p.merged) = Spans(m)
    BY <1>4 DEF Spans
  <2> QED
    BY <1>4, <1>5, <2>1 DEF captureSeconds
<1>9. ASSUME NEW n PROVE counterTotal(p, n) \in {Gap, counterTotal(e, n)}
  BY <1>1, <1>4, <1>5, <1>6, <1>7 DEF counterTotal
<1>10. ASSUME NEW n PROVE counterRatePerSec(p, n) \in {Gap, counterRatePerSec(e, n)}
  <2>1. RateOf(Gap, captureSeconds(e)) = Gap
    BY DEF RateOf
  <2> QED
    BY <1>8, <1>9, <2>1 DEF counterRatePerSec
<1>11. ASSUME NEW n PROVE gaugeMax(p, n) \in {Gap, gaugeMax(e, n)}
  <2>1. CASE n \in m.names /\ n \notin m.counters /\ n # name
    <3>1. p.merged.deltas[n] = m.deltas[n]
      BY <1>4, <1>6, <2>1
    <3> QED
      BY <1>5, <1>7, <2>1, <3>1, Zenon DEF gaugeMax
  <2>2. CASE ~(n \in m.names /\ n \notin m.counters /\ n # name)
    <3>1. n \in p.merged.counters \/ n \notin p.merged.names \/ n = name
      BY <1>7, <2>2
    <3>2. n = name => n \notin p.merged.names
      BY <1>7
    <3> QED
      BY <1>5, <3>1, <3>2 DEF gaugeMax
  <2> QED
    BY <2>1, <2>2
<1>12. ASSUME NEW n PROVE Gauge(p, n) \in {Gap, Gauge(e, n)}
  BY <1>1, <1>4, <1>5, <1>6, <1>7 DEF Gauge, GaugeLast
<1>13. \A f : PeakOf(p, f) = PeakOf(e, f)
  BY <1>2, SameInnodb
<1> QED
  BY <1>2, <1>9, <1>10, <1>11, <1>12, <1>13 DEF Weaker, p

LEMMA PoorerIsWeaker ==
  ASSUME NEW e \in Evidence, NEW p \in Poorer(e)
  PROVE  Weaker(p, e)
<1>1. /\ DOMAIN e = {"merged", "vars", "innodb", "queries"}
      /\ e.vars \in Seq(ToSet(e.vars))
  BY EvidenceAssumption
<1>2. CASE p = [e EXCEPT !.merged = Nil]
  <2>1. p.merged = Nil /\ p.vars = e.vars /\ p.innodb = e.innodb /\ p.queries = e.queries
    BY <1>1, <1>2
  <2> QED
    BY <2>1, NoStatus, SameInnodb DEF Weaker
<1>3. CASE p = [e EXCEPT !.vars = <<>>]
  <2>1. p.merged = e.merged /\ p.vars = <<>> /\ p.innodb = e.innodb /\ p.queries = e.queries
    BY <1>1, <1>3
  <2>2. \A n : VariableRaw(<<>>, n) = NoSetting
    BY DEF VariableRaw
  <2> QED
    BY <2>1, <2>2, SameStatus, SameInnodb DEF Weaker
<1>4. CASE p = [e EXCEPT !.queries = <<>>]
  <2>1. p.merged = e.merged /\ p.vars = e.vars /\ p.innodb = e.innodb /\ p.queries = <<>>
    BY <1>1, <1>4
  <2> QED
    BY <2>1, SameStatus, SameInnodb DEF Weaker
<1>5. CASE p = [e EXCEPT !.innodb = [n \in DOMAIN @ |-> Nil]]
  <2>1. p.merged = e.merged /\ p.vars = e.vars /\ p.queries = e.queries
    BY <1>1, <1>5
  <2>2. p.innodb = [n \in DOMAIN e.innodb |-> Nil]
    BY <1>1, <1>5
  <2>3. \A f : PeakOf(p, f) = 0
    BY <2>2, NoInnodb
  <2> QED
    BY <2>1, <2>3, SameStatus DEF Weaker
<1>6. CASE e.merged # Nil /\ \E name : p = WithoutStatus(e, name)
  BY <1>6, OtherStatus
<1>7. CASE \E name : p = WithoutSetting(e, name)
  <2>1. PICK name : p = WithoutSetting(e, name)
    BY <1>7
  <2>2. /\ p.merged = e.merged /\ p.innodb = e.innodb /\ p.queries = e.queries
        /\ p.vars = Unset(e.vars, name)
    BY <1>1, <2>1 DEF WithoutSetting
  <2>3. ASSUME NEW n PROVE VariableRaw(p.vars, n) \in {NoSetting, VariableRaw(e.vars, n)}
    <3>1. CASE n # name
      BY <1>1, <2>2, <3>1, OtherSetting
    <3>2. CASE n = name
      <4>1. {k \in DOMAIN p.vars : p.vars[k] # Nil /\ name \in DOMAIN p.vars[k]} = {}
        BY <2>2 DEF Unset
      <4> QED
        BY <3>2, <4>1 DEF VariableRaw
    <3> QED
      BY <3>1, <3>2
  <2> QED
    BY <2>2, <2>3, SameStatus, SameInnodb DEF Weaker
<1> QED
  BY <1>2, <1>3, <1>4, <1>5, <1>6, <1>7 DEF Poorer

\* The rules without a fallback.
Strict ==
  {"bp.dirty_pct", "bp.free_pages_low", "bp.hit_ratio", "bp.lru_flushing", "bp.undersized",
   "bp.wait_free", "innodb.flushing", "redo.checkpoint_age", "redo.log_waits", "redo.pending_fsyncs",
   "redo.pending_writes", "innodb.semaphores", "binlog.cache_disk_use", "binlog.stmt_cache_disk_use",
   "threadcache.hit_ratio", "tablecache.miss_ratio", "tablecache.overflows", "tablecache.usage",
   "tmp.disk_ratio", "queryshape.is_processlist", "queryshape.observed_slow_processlist",
   "queryshape.select_full_join", "queryshape.select_scan", "connections.aborted_rate",
   "connections.saturation", "config.max_connections_high", "config.slow_log_disabled"}

LEMMA StrictRules == RuleIds \ FallbackRules \subseteq Strict
<1>1. DOMAIN Subsystems = 1..10
  BY DEF Subsystems
<1>2. \A n \in 1..10 : ToSet(Subsystems[n]) \subseteq Strict \cup FallbackRules
  BY DEF Subsystems, Strict, FallbackRules, ToSet
<1> QED
  BY <1>1, <1>2 DEF RuleIds

LEMMA StrictRuleIsMild ==
  ASSUME NEW p, NEW e, Weaker(p, e), NEW id \in Strict
  PROVE  NoEscalation(Run(id, p), Run(id, e))
BY BufferPool, LogsAndCaches, QueriesAndSettings DEF Strict, Run
-----------------------------------------------------------------------------
\* The evidence is what was read off the capture.
LEMMA EvidenceStays == AnalysisSpec => [](evidence \in Evidence)
<1>1. AnalysisInit => evidence \in Evidence
  BY DEF AnalysisInit
<1>2. evidence \in Evidence /\ [AnalysisNext]_analysisVars => (evidence \in Evidence)'
  BY DEF AnalysisNext, Conclude, analysisVars
<1> QED
  BY <1>1, <1>2, PTL DEF AnalysisSpec

\* findings/inputs.go, for any evidence: without a fallback, no rule warns of what
\* is missing, and none grows more severe by it.
THEOREM AbsenceIsNoWarning == AnalysisSpec => []AbsenceNeverEscalates
<1>1. evidence \in Evidence => AbsenceNeverEscalates
  BY PoorerIsWeaker, StrictRules, StrictRuleIsMild DEF AbsenceNeverEscalates, NeverEscalates
<1> QED
  BY <1>1, EvidenceStays, PTL
-----------------------------------------------------------------------------
\* Analysis: the peak of what is written to the redo log.

\* A slot holds at least the bytes 0.
Clamped(slots, first, last) == \A k \in first..last : clampNonNegative(slots[k]) \in Nat
\* The bytes of slots add up, slot by slot.
SumsUp(sum, slots, a, c) ==
  /\ sum[a - 1] = 0
  /\ \A i \in a..c : sum[i] = sum[i - 1] + clampNonNegative(slots[i])
LEMMA BytesSum ==
  ASSUME NEW slots, NEW a \in Int, NEW c \in Int, a <= c + 1, Clamped(slots, a, c)
  PROVE  \E sum \in [a - 1..c -> Nat] : SumsUp(sum, slots, a, c) /\ BytesIn(slots, a, c) = sum[c]
<1> DEFINE v(i) == clampNonNegative(slots[i])
           lo == a - 1
           step == [p \in Nat \X (a..c) |-> p[1] + v(p[2])]
           S == [i \in lo..c |-> Nat]
           Solves(f) == f = [i \in lo..c |-> IF i < a THEN 0 ELSE f[i - 1] + v(i)]
           f == CHOOSE f : Solves(f)
<1>1. \A s \in Nat : \A i \in a..c : step[<<s, i>>] = s + v(i) /\ s + v(i) \in Nat
  BY DEF Clamped
<1>2. BytesIn(slots, a, c) = f[c]
  BY DEF BytesIn
<1> HIDE DEF v, step
<1>3. lo \in Int /\ lo <= c /\ lo + 1 = a /\ 0 \in Nat /\ \A i \in a..c : i - 1 \in lo..c /\ i \in lo..c /\ ~(i < a)
  OBVIOUS
<1>4. \A i \in lo..c : i < a => i = lo
  OBVIOUS
<1>5. \A i \in lo..c : i # lo => i \in a..c
  OBVIOUS
<1> HIDE DEF lo
<1>6. StepsIn(S, step, lo, c) /\ 0 \in S[lo] /\ \A i \in lo..c : S[i] = Nat
  BY <1>1, <1>3 DEF StepsIn
<1> HIDE DEF S
<1>7. PICK w : Walks(w, S, 0, step, lo, c)
  BY <1>3, <1>6, Accumulates
<1>8. ASSUME NEW i \in a..c PROVE w[i] = w[i - 1] + v(i)
  BY <1>1, <1>3, <1>6, <1>7 DEF Walks
<1>9. w = [i \in lo..c |-> IF i < a THEN 0 ELSE w[i - 1] + v(i)]
  <2>1. ASSUME NEW i \in lo..c PROVE w[i] = IF i < a THEN 0 ELSE w[i - 1] + v(i)
    <3>1. w[lo] = 0
      BY <1>7 DEF Walks
    <3> QED
      BY <1>3, <1>4, <1>5, <1>8, <3>1
  <2> QED
    BY <1>7, <2>1 DEF Walks
<1>10. Solves(f)
  <2>1. Solves(w)
    BY <1>9
  <2> HIDE DEF Solves
  <2> QED
    BY <2>1
<1> HIDE DEF f
<1>11. DOMAIN f = lo..c /\ f[lo] = 0 /\ \A i \in a..c : f[i] = f[i - 1] + v(i)
  BY <1>3, <1>10
<1>12. \A i \in lo..c : f[i] = w[i]
  <2>1. f[lo] = w[lo] /\ c \in Int
    BY <1>7, <1>11 DEF Walks
  <2>2. StepAlike(f, w, lo, c)
    BY <1>3, <1>8, <1>11 DEF StepAlike
  <2> QED
    BY <1>3, <2>1, <2>2, AgreeOn DEF Alike
<1>13. f \in [lo..c -> Nat]
  <2>1. f = [i \in lo..c |-> f[i]]
    BY <1>10
  <2> QED
    BY <1>6, <1>7, <1>12, <2>1 DEF Walks
<1> QED
  BY <1>2, <1>11, <1>13 DEF SumsUp, v, lo

\* Part of a run of clamped slots is one too.
LEMMA ClampedPart ==
  ASSUME NEW slots, NEW a \in Int, NEW c \in Int, Clamped(slots, a, c), NEW b \in Int, NEW d \in Int, a <= b, d <= c
  PROVE  Clamped(slots, b, d)
BY DEF Clamped

\* No slots, no bytes; ...
LEMMA BytesNone ==
  ASSUME NEW slots, NEW a \in Int
  PROVE  BytesIn(slots, a, a - 1) = 0
<1>1. a - 1 \in Int /\ a <= a - 1 + 1 /\ Clamped(slots, a, a - 1)
  BY DEF Clamped
<1>2. PICK sum \in [a - 1..a - 1 -> Nat] : SumsUp(sum, slots, a, a - 1) /\ BytesIn(slots, a, a - 1) = sum[a - 1]
  BY <1>1, BytesSum
<1> QED
  BY <1>2 DEF SumsUp

\* ... one slot more, its bytes more; ...
LEMMA BytesStep ==
  ASSUME NEW slots, NEW a \in Int, NEW c \in Int, a <= c, Clamped(slots, a, c)
  PROVE  /\ BytesIn(slots, a, c) = BytesIn(slots, a, c - 1) + clampNonNegative(slots[c])
         /\ BytesIn(slots, a, c) \in Nat /\ BytesIn(slots, a, c - 1) \in Nat
         /\ clampNonNegative(slots[c]) \in Nat
<1>1. PICK e \in Int : e = c - 1
  OBVIOUS
<1>2. PICK lo \in Int : lo = a - 1
  OBVIOUS
<1>3. a <= c + 1 /\ a <= e + 1 /\ e <= c /\ lo + 1 = a /\ lo <= e /\ c \in a..c /\ c \in lo..c /\ e \in lo..e
  BY <1>1, <1>2
<1>4. Clamped(slots, a, e)
  BY <1>3, ClampedPart
<1>5. PICK f \in [lo..c -> Nat] : SumsUp(f, slots, a, c) /\ BytesIn(slots, a, c) = f[c]
  BY <1>2, <1>3, BytesSum
<1>6. PICK g \in [lo..e -> Nat] : SumsUp(g, slots, a, e) /\ BytesIn(slots, a, e) = g[e]
  BY <1>2, <1>3, <1>4, BytesSum
<1>7. f[lo] = g[lo]
  BY <1>2, <1>5, <1>6 DEF SumsUp
<1>8. StepAlike(f, g, lo, e)
  <2>1. ASSUME NEW i \in lo + 1..e, f[i - 1] = g[i - 1] PROVE f[i] = g[i]
    <3>1. i \in a..e /\ i \in a..c
      BY <1>3
    <3> QED
      BY <1>5, <1>6, <2>1, <3>1 DEF SumsUp
  <2> QED
    BY <2>1 DEF StepAlike
<1>9. f[e] = g[e]
  <2>1. lo \in Int /\ e \in Int
    BY <1>1, <1>2
  <2>2. Alike(f, g, lo, e)
    BY <1>7, <1>8, <2>1, AgreeOn
  <2> QED
    BY <1>3, <2>2 DEF Alike
<1>10. f[c] = f[e] + clampNonNegative(slots[c])
  BY <1>1, <1>3, <1>5 DEF SumsUp
<1>11. f[c] \in Nat /\ g[e] \in Nat /\ clampNonNegative(slots[c]) \in Nat
  BY <1>3, <1>5, <1>6 DEF Clamped
<1> QED
  BY <1>1, <1>5, <1>6, <1>9, <1>10, <1>11

\* ... and the bytes of two parts.
LEMMA BytesSplit ==
  ASSUME NEW slots, NEW a \in Int, NEW b \in Int, NEW c \in Int, a <= b, b <= c + 1, Clamped(slots, a, c)
  PROVE  /\ BytesIn(slots, a, c) = BytesIn(slots, a, b - 1) + BytesIn(slots, b, c)
         /\ BytesIn(slots, a, b - 1) \in Nat /\ BytesIn(slots, b, c) \in Nat
<1>1. PICK lo \in Int : lo = b - 1
  OBVIOUS
<1> DEFINE f == [i \in lo..c |-> BytesIn(slots, a, i)]
           g == [i \in lo..c |-> BytesIn(slots, a, lo) + BytesIn(slots, b, i)]
<1>2. lo <= c /\ lo + 1 = b /\ lo \in lo..c /\ c \in lo..c
  BY <1>1
<1>3. BytesIn(slots, a, lo) \in Nat
  <2>1. Clamped(slots, a, lo) /\ a <= lo + 1
    BY <1>1, <1>2, ClampedPart
  <2>2. PICK sum \in [a - 1..lo -> Nat] : BytesIn(slots, a, lo) = sum[lo]
    BY <2>1, BytesSum
  <2> QED
    BY <2>1, <2>2
<1>4. BytesIn(slots, b, c) \in Nat
  <2>1. Clamped(slots, b, c) /\ lo = b - 1
    BY <1>1, ClampedPart
  <2>2. PICK sum \in [lo..c -> Nat] : BytesIn(slots, b, c) = sum[c]
    BY <2>1, BytesSum
  <2> QED
    BY <1>2, <2>2
<1>5. f[lo] = g[lo]
  <2>1. BytesIn(slots, b, lo) = 0
    BY <1>1, BytesNone
  <2> QED
    BY <1>2, <1>3, <2>1
<1>6. StepAlike(f, g, lo, c)
  <2>1. ASSUME NEW i \in lo + 1..c, f[i - 1] = g[i - 1] PROVE f[i] = g[i]
    <3>1. i \in Int /\ a <= i /\ b <= i /\ i <= c /\ i \in lo..c /\ i - 1 \in lo..c
      BY <1>1
    <3>2. Clamped(slots, a, i) /\ Clamped(slots, b, i)
      BY <3>1, ClampedPart
    <3>3. /\ BytesIn(slots, a, i) = BytesIn(slots, a, i - 1) + clampNonNegative(slots[i])
          /\ BytesIn(slots, a, i - 1) \in Nat /\ clampNonNegative(slots[i]) \in Nat
      BY <3>1, <3>2, BytesStep
    <3>4. /\ BytesIn(slots, b, i) = BytesIn(slots, b, i - 1) + clampNonNegative(slots[i])
          /\ BytesIn(slots, b, i - 1) \in Nat
      BY <3>1, <3>2, BytesStep
    <3>5. BytesIn(slots, a, i - 1) = BytesIn(slots, a, lo) + BytesIn(slots, b, i - 1)
      BY <2>1, <3>1
    <3> QED
      BY <1>3, <3>1, <3>3, <3>4, <3>5
  <2> HIDE DEF f, g
  <2> QED
    BY <2>1 DEF StepAlike
<1> HIDE DEF f, g
<1>7. f[c] = g[c]
  BY <1>2, <1>5, <1>6, AgreeOn DEF Alike
<1> QED
  BY <1>1, <1>2, <1>3, <1>4, <1>7 DEF f, g

\* Of fractions a / b, c / d and e / f, in this order, the last is not below the first.
LEMMA CrossOrder ==
  ASSUME NEW a \in Nat, NEW b \in Nat, NEW c \in Nat, NEW d \in Nat, d > 0, NEW e \in Nat, NEW f \in Nat,
         a * d <= c * b, c * f <= e * d
  PROVE  a * f <= e * b
<1>1. \A x, y, z \in Nat : x <= y => x * z <= y * z
  OBVIOUS
<1>2. a * d \in Nat /\ c * b \in Nat /\ c * f \in Nat /\ e * d \in Nat /\ a * f \in Nat /\ e * b \in Nat
  OBVIOUS
<1>3. (a * d) * f <= (c * b) * f /\ (c * f) * b <= (e * d) * b
  BY <1>1, <1>2
<1>4. (a * d) * f = (a * f) * d /\ (c * b) * f = (c * f) * b /\ (e * d) * b = (e * b) * d
  OBVIOUS
<1>5. (a * f) * d <= (e * b) * d
  <2>1. (a * f) * d \in Nat /\ (e * b) * d \in Nat /\ (c * f) * b \in Nat
    BY <1>2
  <2> QED
    BY <1>3, <1>4, <2>1
<1> SUFFICES ASSUME a * f >= e * b + 1 PROVE FALSE
  BY <1>2
<1>6. (e * b + 1) * d <= (a * f) * d
  BY <1>1, <1>2
<1>7. (e * b + 1) * d = (e * b) * d + d
  BY <1>2
<1>8. (e * b) * d \in Nat /\ (a * f) * d \in Nat
  BY <1>2
<1> QED
  BY <1>5, <1>6, <1>7, <1>8

\* What is not faster than a rate is not faster than a faster one.
Rates == [bytes : Nat, seconds : Nat \ {0}]
LEMMA FasterGrows ==
  ASSUME NEW x \in Rates, NEW p \in Rates, NEW r \in Rates, ~Faster(x, p), Faster(r, p)
  PROVE  ~Faster(x, r)
<1>1. /\ x.bytes \in Nat /\ x.seconds \in Nat /\ p.bytes \in Nat /\ p.seconds \in Nat /\ p.seconds > 0
      /\ r.bytes \in Nat /\ r.seconds \in Nat
  BY DEF Rates
<1>2. ASSUME NEW u \in Nat, NEW v \in Nat, NEW s \in Nat, NEW t \in Nat
      PROVE  u * v \in Nat /\ s * t \in Nat /\ (~(u * v > s * t) <=> u * v <= s * t)
  OBVIOUS
<1>3. x.bytes * p.seconds <= p.bytes * x.seconds /\ r.bytes * p.seconds > p.bytes * r.seconds
  BY <1>1, <1>2 DEF Faster
<1>4. p.bytes * r.seconds <= r.bytes * p.seconds
  <2>1. p.bytes * r.seconds \in Nat /\ r.bytes * p.seconds \in Nat
    BY <1>1, <1>2
  <2> QED
    BY <1>3, <2>1
<1>5. x.bytes * r.seconds <= r.bytes * x.seconds
  BY <1>1, <1>3, <1>4, CrossOrder
<1> QED
  BY <1>1, <1>2, <1>5 DEF Faster
\* Numbered slots have bytes, every slot has a time, and a run of slots is in order of time.
LEMMA SlotFacts ==
  ASSUME NEW slots, NEW times, TimedSlots(slots, times)
  PROVE  /\ Len(slots) \in Nat
         /\ \A k \in 1..Len(slots) : times[k] \in Int /\ (slots[k] # Gap => clampNonNegative(slots[k]) \in Nat)
         /\ \A j, k \in 1..Len(slots) :
              j <= k /\ (\A n \in j + 1..k : slots[n] # Gap) => times[j] <= times[k]
<1>1. /\ slots \in Seq(Seq(Int)) /\ times \in Seq(Int) /\ Len(times) = Len(slots)
      /\ \A i \in 2..Len(slots) : slots[i] # Gap => times[i - 1] <= times[i]
  BY DEF TimedSlots
<1>2. Len(slots) \in Nat /\ \A k \in 1..Len(slots) : times[k] \in Int /\ slots[k] \in Seq(Int)
  BY <1>1, LenProperties, ElementOfSeq
<1>3. ASSUME NEW k \in 1..Len(slots), slots[k] # Gap PROVE clampNonNegative(slots[k]) \in Nat
  <2>1. slots[k] \in Seq(Int) /\ slots[k] # <<>>
    BY <1>2, <1>3 DEF Gap
  <2>2. PICK v \in Int : v = slots[k][1]
    <3>1. PICK s \in Seq(Int) : s = slots[k]
      BY <2>1
    <3>2. s # <<>>
      BY <2>1, <3>1
    <3>3. Len(s) \in Nat /\ Len(s) # 0
      BY <3>2, EmptySeq, LenProperties
    <3>4. 1 \in 1..Len(s)
      BY <3>3
    <3>5. s[1] \in Int
      BY <3>4, ElementOfSeq
    <3> QED
      BY <3>1, <3>5
  <2>3. Max({0, v}) \in Nat
    BY DEF Max
  <2> QED
    BY <2>2, <2>3 DEF clampNonNegative
<1>4. ASSUME NEW j \in 1..Len(slots), NEW k \in 1..Len(slots), j <= k, \A n \in j + 1..k : slots[n] # Gap
      PROVE  times[j] <= times[k]
  <2> DEFINE T == {n \in Nat : j + n <= k /\ ~(times[j] <= times[j + n])}
  <2>1. T = {}
    <3> SUFFICES ASSUME T # {} PROVE FALSE
      OBVIOUS
    <3>1. 0 \notin T
      <4>1. j + 0 = j /\ times[j] \in Int
        BY <1>2
      <4> QED
        BY <4>1
    <3>2. T \subseteq Nat
      OBVIOUS
    <3>3. PICK n \in Nat : n \notin T /\ n + 1 \in T
      <4> HIDE DEF T
      <4> QED
        BY <3>1, <3>2, FirstStep
    <3>4. PICK i \in Int : i = j + (n + 1)
      OBVIOUS
    <3>5. /\ i \in j + 1..k /\ i - 1 = j + n /\ i - 1 <= k /\ ~(times[j] <= times[i])
          /\ i \in 2..Len(slots) /\ i \in 1..Len(slots) /\ i - 1 \in 1..Len(slots)
      BY <1>2, <3>3, <3>4
    <3>6. times[j] <= times[i - 1]
      BY <3>3, <3>5
    <3>7. times[i - 1] <= times[i]
      BY <1>1, <1>4, <3>5
    <3>8. times[j] \in Int /\ times[i - 1] \in Int /\ times[i] \in Int
      BY <1>2, <3>5
    <3> QED
      BY <3>5, <3>6, <3>7, <3>8
  <2>2. k - j \in Nat /\ j + (k - j) = k /\ k <= k
    BY <1>4
  <2>3. k - j \notin T
    BY <2>1
  <2>4. times[j] <= times[j + (k - j)]
    BY <2>2, <2>3
  <2> HIDE DEF T
  <2> QED
    BY <2>2, <2>4
<1> QED
  BY <1>2, <1>3, <1>4

\* The rate of a window is a number of bytes in a time.
LEMMA WindowHasRate ==
  ASSUME NEW slots, NEW times, TimedSlots(slots, times), NEW W \in Nat \ {0}, NEW w \in WindowsIn(slots, times, W)
  PROVE  WindowRate(slots, times, w) \in Rates
<1>1. /\ w[1] \in 2..Len(slots) /\ w[2] \in 2..Len(slots) /\ w[1] <= w[2]
      /\ times[w[2]] - times[w[1] - 1] >= W /\ \A k \in w[1]..w[2] : slots[k] # Gap
  BY DEF WindowsIn
<1>2. Len(slots) \in Nat /\ \A k \in 1..Len(slots) : times[k] \in Int
  BY SlotFacts
<1>3. ASSUME NEW k \in w[1]..w[2] PROVE clampNonNegative(slots[k]) \in Nat
  <2>1. k \in 1..Len(slots) /\ slots[k] # Gap
    BY <1>1, <1>2
  <2> QED
    BY <2>1, SlotFacts
<1>4. Clamped(slots, w[1], w[2])
  BY <1>3 DEF Clamped
<1>5. w[1] \in Int /\ w[2] \in Int /\ w[1] <= w[2] + 1
  BY <1>1
<1>6. BytesIn(slots, w[1], w[2]) \in Nat
  <2>1. PICK sum \in [w[1] - 1..w[2] -> Nat] : BytesIn(slots, w[1], w[2]) = sum[w[2]]
    BY <1>4, <1>5, BytesSum
  <2> QED
    BY <1>5, <1>1, <2>1
<1>7. times[w[2]] - times[w[1] - 1] \in Nat \ {0}
  <2>1. w[2] \in 1..Len(slots) /\ w[1] - 1 \in 1..Len(slots)
    BY <1>1, <1>2
  <2>2. PICK d \in Int : d = times[w[2]] - times[w[1] - 1]
    BY <1>2, <2>1
  <2>3. d >= W
    BY <1>1, <2>2
  <2> QED
    BY <2>2, <2>3
<1> QED
  BY <1>6, <1>7 DEF WindowRate, Rates
-----------------------------------------------------------------------------
\* The slots F..L of a block: no gaps, with a gap, or nothing but the tally, before
\* them, and in order of time.
IsRun(slots, times, F, L) ==
  /\ F \in Int /\ L \in Int /\ 2 <= F /\ F <= L /\ L <= Len(slots)
  /\ Clamped(slots, F, L) /\ \A k \in F..L : slots[k] # Gap
  /\ F = 2 \/ slots[F - 1] = Gap
  /\ \A j \in F - 1..L : times[j] \in Int
  /\ \A j, k \in F - 1..L : j <= k => times[j] <= times[k]

\* The left end of the shortest window to slot i, as far as the run goes.
IsLeftEnd(from, times, W, F, i) ==
  /\ from \in F..i
  /\ from = F \/ times[i] - times[from - 1] >= W
  /\ from = i \/ times[i] - times[from] < W

\* It is the only end of a smallest window to i, if it is long enough.
LEMMA SmallestToSlot ==
  ASSUME NEW slots, Len(slots) \in Nat, NEW times, NEW W \in Nat \ {0}, NEW F, NEW L, IsRun(slots, times, F, L),
         NEW i \in F..L, NEW from, IsLeftEnd(from, times, W, F, i)
  PROVE  /\ times[i] - times[from - 1] >= W => <<from, i>> \in SmallestWindows(slots, times, W)
         /\ \A w \in SmallestWindows(slots, times, W) :
              w[2] = i => w = <<from, i>> /\ times[i] - times[from - 1] >= W
<1> DEFINE all == WindowsIn(slots, times, W)
<1>1. /\ F \in Int /\ L \in Int /\ 2 <= F /\ F <= i /\ i <= L /\ L <= Len(slots) /\ i \in Int
      /\ from \in Int /\ F <= from /\ from <= i
  BY DEF IsRun, IsLeftEnd
<1>2. \A j \in F - 1..L : times[j] \in Int
  BY DEF IsRun
<1>3. ASSUME NEW w \in all, w[2] = i PROVE w[1] \in F..from /\ w = <<w[1], i>>
  <2>1. /\ w[1] \in 2..Len(slots) /\ w[1] <= i /\ times[i] - times[w[1] - 1] >= W /\ w = <<w[1], i>>
        /\ \A k \in w[1]..i : slots[k] # Gap
    BY <1>3 DEF WindowsIn
  <2>2. w[1] >= F
    <3>1. CASE F = 2
      BY <1>1, <2>1, <3>1
    <3>2. CASE slots[F - 1] = Gap
      <4>1. F - 1 \notin w[1]..i
        BY <2>1, <3>2
      <4> QED
        BY <1>1, <2>1, <4>1
    <3> QED
      BY <3>1, <3>2 DEF IsRun
  <2>3. w[1] <= from
    <3> SUFFICES ASSUME from < w[1] PROVE FALSE
      BY <1>1, <2>1
    <3>1. from \in F - 1..L /\ w[1] - 1 \in F - 1..L /\ i \in F - 1..L /\ from <= w[1] - 1 /\ from # i
      BY <1>1, <2>1, <2>2
    <3>2. times[from] <= times[w[1] - 1] /\ times[i] - times[from] < W
      BY <3>1 DEF IsRun, IsLeftEnd
    <3>3. times[from] \in Int /\ times[w[1] - 1] \in Int /\ times[i] \in Int
      BY <1>2, <3>1
    <3> QED
      BY <2>1, <3>2, <3>3
  <2> QED
    BY <1>1, <2>1, <2>2, <2>3
<1>4. ASSUME times[i] - times[from - 1] >= W PROVE <<from, i>> \in all
  <2>1. \A k \in from..i : slots[k] # Gap
    BY <1>1 DEF IsRun
  <2>2. <<from, i>> \in (2..Len(slots)) \X (2..Len(slots))
    BY <1>1
  <2> QED
    BY <1>1, <1>4, <2>1, <2>2 DEF WindowsIn
<1> HIDE DEF all
<1>5. SmallestWindows(slots, times, W) = {w \in all : \A v \in all : v[2] = w[2] => v[1] <= w[1]}
  BY DEF SmallestWindows, all
<1>6. ASSUME times[i] - times[from - 1] >= W PROVE <<from, i>> \in SmallestWindows(slots, times, W)
  <2>1. \A v \in all : v[2] = i => v[1] <= from
    BY <1>1, <1>3
  <2> QED
    BY <1>4, <1>5, <1>6, <2>1
<1>7. ASSUME NEW w \in SmallestWindows(slots, times, W), w[2] = i
      PROVE  w = <<from, i>> /\ times[i] - times[from - 1] >= W
  <2>1. w \in all /\ \A v \in all : v[2] = i => v[1] <= w[1]
    BY <1>5, <1>7
  <2>2. w[1] \in F..from /\ w = <<w[1], i>> /\ times[i] - times[w[1] - 1] >= W
    BY <1>3, <1>7, <2>1 DEF all, WindowsIn
  <2>3. w[1] = from
    <3>1. CASE from = F
      BY <1>1, <2>2, <3>1
    <3>2. CASE times[i] - times[from - 1] >= W
      <4>1. <<from, i>> \in all /\ <<from, i>>[2] = i /\ <<from, i>>[1] = from
        BY <1>4, <3>2
      <4> QED
        BY <1>1, <2>1, <2>2, <4>1
    <3> QED
      BY <3>1, <3>2 DEF IsLeftEnd
  <2> QED
    BY <2>2, <2>3
<1> QED
  BY <1>6, <1>7

\* The left end moves no further than it must.
LEMMA TrimmedIsLeast ==
  ASSUME NEW times, NEW W \in Nat \ {0}, NEW f \in Nat, NEW i \in Nat, f <= i
  PROVE  /\ Trimmed(times, f, i, W) \in f..i
         /\ Trimmed(times, f, i, W) = i \/ times[i] - times[Trimmed(times, f, i, W)] < W
         /\ \A k \in f..i : k < Trimmed(times, f, i, W) => ~(times[i] - times[k] < W)
<1> DEFINE S == {k \in f..i : k = i \/ times[i] - times[k] < W}
<1>1. i \in S /\ S \subseteq Nat
  OBVIOUS
<1>2. \E m \in S : \A n \in S : m <= n
  <2> HIDE DEF S
  <2> QED
    BY <1>1, LeastNumber
<1>3. Trimmed(times, f, i, W) = Min(S)
  BY DEF Trimmed
<1>4. Min(S) \in S /\ \A n \in S : Min(S) <= n
  <2>1. Min(S) = CHOOSE m \in S : \A n \in S : m <= n
    BY DEF Min
  <2> HIDE DEF S
  <2> QED
    BY <1>2, <2>1
<1>5. PICK m : m = Min(S)
  OBVIOUS
<1>6. m \in f..i /\ (m = i \/ times[i] - times[m] < W) /\ \A k \in S : m <= k
  BY <1>4, <1>5
<1>7. ASSUME NEW k \in f..i, k < m PROVE ~(times[i] - times[k] < W)
  BY <1>6, <1>7
<1> QED
  BY <1>3, <1>5, <1>6, <1>7

\* A peak for the windows that end in E: none is faster, and it is one of them or none.
IsPeak(peak, slots, times, W, E) ==
  LET windows == SmallestWindows(slots, times, W) IN
  /\ peak \in Rates
  /\ \A w \in windows : w[2] \in E => ~Faster(WindowRate(slots, times, w), peak)
  /\ peak.bytes > 0 => \E w \in windows : peak = WindowRate(slots, times, w)

\* The walk through a run, after slot i: the window ends there, and the peak is one
\* for what ends there and before.
IsWalked(slots, times, W, F, E, s, i) ==
  /\ s.bytes \in Nat
  /\ i < F => s.from = F /\ s.bytes = 0
  /\ ~(i < F) => IsLeftEnd(s.from, times, W, F, i) /\ s.bytes = BytesIn(slots, s.from, i)
  /\ IsPeak(s.peak, slots, times, W, E \cup (F..i))

\* The next slot gives the shortest window its new end and its bytes ...
LEMMA SlideMoves ==
  ASSUME NEW slots, NEW times, NEW W \in Nat \ {0}, NEW F, NEW L, IsRun(slots, times, F, L), NEW E,
         NEW i \in F..L, NEW s, IsWalked(slots, times, W, F, E, s, i - 1)
  PROVE  LET next == Slide(slots, times, W, s, i) IN
         /\ IsLeftEnd(next.from, times, W, F, i)
         /\ next.bytes = BytesIn(slots, next.from, i) /\ next.bytes \in Nat
<1>1. /\ F \in Nat /\ L \in Int /\ i \in Nat /\ 2 <= F /\ F <= i /\ i <= L /\ i \in Int
      /\ \A j \in F - 1..L : times[j] \in Int
  BY DEF IsRun
<1>2. PICK f : f = s.from
  OBVIOUS
<1>3. f \in Nat /\ F <= f /\ f <= i
  <2>1. CASE i - 1 < F
    BY <1>1, <1>2, <2>1 DEF IsWalked
  <2>2. CASE ~(i - 1 < F)
    BY <1>1, <1>2, <2>2 DEF IsWalked, IsLeftEnd
  <2> QED
    BY <2>1, <2>2
<1>4. PICK t : t = Trimmed(times, f, i, W)
  OBVIOUS
<1>5. /\ t \in f..i /\ (t = i \/ times[i] - times[t] < W)
      /\ \A k \in f..i : k < t => ~(times[i] - times[k] < W)
  BY <1>1, <1>3, <1>4, TrimmedIsLeast
<1>6. t \in Int /\ f <= t /\ t <= i
  BY <1>1, <1>3, <1>5
<1>7. t = F \/ times[i] - times[t - 1] >= W
  <2>1. times[i] \in Int /\ times[t - 1] \in Int /\ W \in Int
    BY <1>1, <1>3, <1>6
  <2>2. CASE f < t
    <3>1. t - 1 \in f..i /\ t - 1 < t
      BY <1>1, <1>3, <1>6, <2>2
    <3> QED
      BY <1>5, <2>1, <3>1
  <2>3. CASE f = t /\ f # F
    <3>1. ~(i - 1 < F)
      <4> SUFFICES ASSUME i - 1 < F PROVE FALSE
        OBVIOUS
      <4> QED
        BY <1>2, <2>3 DEF IsWalked
    <3>2. times[i - 1] - times[t - 1] >= W
      BY <1>2, <2>3, <3>1 DEF IsWalked, IsLeftEnd
    <3>3. times[i - 1] <= times[i] /\ times[i - 1] \in Int
      <4>1. i - 1 \in F - 1..L /\ i \in F - 1..L /\ i - 1 <= i
        BY <1>1
      <4> QED
        BY <1>1, <4>1 DEF IsRun
    <3> QED
      BY <2>1, <3>2, <3>3
  <2> QED
    BY <1>6, <1>3, <2>2, <2>3
<1>8. IsLeftEnd(t, times, W, F, i)
  BY <1>1, <1>3, <1>5, <1>6, <1>7 DEF IsLeftEnd
<1>9. Clamped(slots, F, L)
  BY DEF IsRun
<1>10. Clamped(slots, f, i)
  BY <1>1, <1>3, <1>9, ClampedPart
<1>11. s.bytes = BytesIn(slots, f, i - 1)
  <2>1. CASE i - 1 < F
    <3>1. f = i /\ s.bytes = 0
      BY <1>1, <1>2, <2>1 DEF IsWalked
    <3> QED
      BY <1>3, <3>1, BytesNone
  <2>2. CASE ~(i - 1 < F)
    BY <1>2, <2>2 DEF IsWalked
  <2> QED
    BY <2>1, <2>2
<1>12. /\ BytesIn(slots, f, i) = s.bytes + clampNonNegative(slots[i])
       /\ s.bytes \in Nat /\ clampNonNegative(slots[i]) \in Nat
  BY <1>1, <1>3, <1>10, <1>11, BytesStep
<1>13. /\ BytesIn(slots, f, i) = BytesIn(slots, f, t - 1) + BytesIn(slots, t, i)
       /\ BytesIn(slots, f, t - 1) \in Nat /\ BytesIn(slots, t, i) \in Nat
  <2>1. f \in Int /\ t \in Int /\ i \in Int /\ f <= t /\ t <= i + 1
    BY <1>1, <1>3, <1>6
  <2> QED
    BY <1>10, <2>1, BytesSplit
<1>14. s.bytes + clampNonNegative(slots[i]) - BytesIn(slots, f, t - 1) = BytesIn(slots, t, i)
  BY <1>12, <1>13
<1>15. /\ Slide(slots, times, W, s, i).from = t
       /\ Slide(slots, times, W, s, i).bytes = s.bytes + clampNonNegative(slots[i]) - BytesIn(slots, f, t - 1)
  BY <1>2, <1>4 DEF Slide
<1> QED
  BY <1>8, <1>13, <1>14, <1>15

\* ... and the peak its rate, if that is a better one.
LEMMA SlideKeeps ==
  ASSUME NEW slots, NEW times, TimedSlots(slots, times), NEW W \in Nat \ {0}, NEW F, NEW L,
         IsRun(slots, times, F, L), NEW E, NEW i \in F..L, NEW s, IsWalked(slots, times, W, F, E, s, i - 1)
  PROVE  IsWalked(slots, times, W, F, E, Slide(slots, times, W, s, i), i)
<1> DEFINE next == Slide(slots, times, W, s, i)
           windows == SmallestWindows(slots, times, W)
           rate == [bytes |-> next.bytes, seconds |-> times[i] - times[next.from - 1]]
           before == E \cup (F..i - 1)
           now == E \cup (F..i)
<1>1. /\ IsLeftEnd(next.from, times, W, F, i)
      /\ next.bytes = BytesIn(slots, next.from, i) /\ next.bytes \in Nat
  BY SlideMoves
<1>2. /\ next.peak = rate /\ rate.seconds >= W /\ Faster(rate, s.peak)
      \/ /\ next.peak = s.peak
         /\ ~(rate.seconds >= W /\ Faster(rate, s.peak))
  BY DEF Slide
<1>3. /\ F \in Int /\ L \in Int /\ i \in Int /\ 2 <= F /\ F <= i /\ i <= L
      /\ times[i] - times[next.from - 1] \in Int /\ W \in Int /\ W > 0
  <2>1. F \in Int /\ L \in Int /\ i \in Int /\ 2 <= F /\ F <= i /\ i <= L
    BY DEF IsRun
  <2>2. i \in F - 1..L /\ next.from - 1 \in F - 1..L
    BY <1>1, <2>1 DEF IsLeftEnd
  <2> QED
    BY <2>1, <2>2 DEF IsRun
<1>4. IsPeak(s.peak, slots, times, W, before)
  BY DEF IsWalked
<1>5. /\ times[i] - times[next.from - 1] >= W => <<next.from, i>> \in windows
      /\ \A w \in windows : w[2] = i => w = <<next.from, i>> /\ times[i] - times[next.from - 1] >= W
  BY <1>1, SlotFacts, SmallestToSlot
<1>6. WindowRate(slots, times, <<next.from, i>>) = rate
  BY <1>1 DEF WindowRate
<1>7. rate.seconds >= W => rate \in Rates
  BY <1>1, <1>3 DEF Rates
<1>8. rate.seconds = times[i] - times[next.from - 1]
  OBVIOUS
<1>9. s.peak \in Rates
  BY <1>4 DEF IsPeak
<1> HIDE DEF rate, next
<1>10. ASSUME NEW w \in windows PROVE w[2] \in now => w[2] \in before \/ w[2] = i
  BY <1>3
<1> HIDE DEF now, before, windows
<1>11. IsPeak(next.peak, slots, times, W, now)
  <2>1. CASE next.peak = rate /\ rate.seconds >= W /\ Faster(rate, s.peak)
    <3>1. rate \in Rates
      BY <1>7, <2>1
    <3>2. ASSUME NEW w \in windows, w[2] \in before PROVE ~Faster(WindowRate(slots, times, w), rate)
      <4>1. ~Faster(WindowRate(slots, times, w), s.peak)
        BY <1>4, <3>2 DEF IsPeak, windows
      <4>2. WindowRate(slots, times, w) \in Rates
        <5>1. w \in WindowsIn(slots, times, W)
          BY DEF windows, SmallestWindows
        <5> QED
          BY <5>1, WindowHasRate
      <4> QED
        BY <1>9, <2>1, <3>1, <4>1, <4>2, FasterGrows
    <3>3. ~Faster(rate, rate)
      BY <3>1 DEF Faster, Rates
    <3>4. ASSUME NEW w \in windows, w[2] = i PROVE ~Faster(WindowRate(slots, times, w), rate)
      BY <1>5, <1>6, <3>3, <3>4
    <3>5. <<next.from, i>> \in windows
      BY <1>5, <1>8, <2>1
    <3> QED
      BY <1>6, <1>10, <2>1, <3>1, <3>2, <3>4, <3>5 DEF IsPeak, windows
  <2>2. CASE next.peak = s.peak /\ ~(rate.seconds >= W /\ Faster(rate, s.peak))
    <3>1. ASSUME NEW w \in windows, w[2] = i PROVE ~Faster(WindowRate(slots, times, w), s.peak)
      BY <1>5, <1>6, <1>8, <2>2, <3>1
    <3>2. ASSUME NEW w \in windows, w[2] \in before PROVE ~Faster(WindowRate(slots, times, w), s.peak)
      BY <1>4, <3>2 DEF IsPeak, windows
    <3>3. ASSUME s.peak.bytes > 0 PROVE \E w \in windows : s.peak = WindowRate(slots, times, w)
      BY <1>4, <3>3 DEF IsPeak, windows
    <3> QED
      BY <1>9, <1>10, <2>2, <3>1, <3>2, <3>3 DEF IsPeak, windows
  <2> QED
    BY <1>2, <2>1, <2>2
<1>12. ~(i < F)
  BY <1>3
<1> QED
  BY <1>1, <1>11, <1>12 DEF IsWalked, next, now

\* A block's part of the walk.
WalkStates == [from : Int, bytes : Nat, peak : Rates]
LEMMA WalkStays ==
  ASSUME NEW slots, NEW times, TimedSlots(slots, times), NEW W \in Nat \ {0}, NEW b,
         IsRun(slots, times, FirstDelta(b), b.last), NEW E, NEW peak, IsPeak(peak, slots, times, W, E)
  PROVE  IsPeak(PeakWithin(slots, times, W, peak, b), slots, times, W, E \cup (FirstDelta(b)..b.last))
<1> DEFINE F == FirstDelta(b)
           L == b.last
           lo == F - 1
           start == [from |-> F, bytes |-> 0, peak |-> peak]
           next(s, i) == Slide(slots, times, W, s, i)
           Walked(s, i) == IsWalked(slots, times, W, F, E, s, i)
           S == [i \in lo..L |-> {s \in WalkStates : Walked(s, i)}]
           step == [p \in WalkStates \X (lo..L) |-> next(p[1], p[2])]
           Solves(f) == f = [i \in lo..L |-> IF i < F THEN start ELSE next(f[i - 1], i)]
           walk == CHOOSE f : Solves(f)
<1>1. IsRun(slots, times, F, L)
  OBVIOUS
<1>2. PeakWithin(slots, times, W, peak, b) = walk[L].peak
  BY DEF PeakWithin
<1> HIDE DEF F, L
<1>3. F \in Int /\ L \in Int /\ F <= L /\ Len(slots) \in Nat
  BY <1>1, SlotFacts DEF IsRun
<1>4. /\ lo \in Int /\ lo <= L /\ lo + 1 = F /\ L \in lo..L /\ lo \in lo..L
      /\ \A i \in F..L : i - 1 \in lo..L /\ i \in lo..L /\ ~(i < F)
      /\ \A i \in lo..L : i \in F..L \/ (i < F /\ i = lo)
  BY <1>3
<1>5. start \in S[lo]
  <2>1. E \cup (F..lo) = E
    BY <1>3
  <2>2. start.from = F /\ start.bytes = 0 /\ start.peak = peak /\ lo < F
    BY <1>3
  <2>3. start \in WalkStates
    BY <1>3 DEF WalkStates, IsPeak
  <2> HIDE DEF start
  <2>4. Walked(start, lo)
    BY <2>1, <2>2 DEF IsWalked
  <2> QED
    BY <1>4, <2>3, <2>4
<1>6. ASSUME NEW i \in F..L, NEW s \in S[i - 1]
      PROVE  step[<<s, i>>] = next(s, i) /\ next(s, i) \in S[i]
  <2>1. s \in WalkStates /\ IsWalked(slots, times, W, F, E, s, i - 1)
    BY <1>4
  <2>2. Walked(next(s, i), i)
    BY <1>1, <1>3, <2>1, SlideKeeps
  <2>3. next(s, i) \in WalkStates
    <3>1. next(s, i).from \in Int /\ next(s, i).bytes \in Nat /\ next(s, i).peak \in Rates
      BY <1>3, <1>4, <2>2 DEF IsWalked, IsLeftEnd, IsPeak
    <3>2. next(s, i) = [from |-> next(s, i).from, bytes |-> next(s, i).bytes, peak |-> next(s, i).peak]
      BY DEF Slide
    <3> HIDE DEF next
    <3> QED
      BY <3>1, <3>2 DEF WalkStates
  <2>4. step[<<s, i>>] = next(s, i)
    BY <1>4, <2>1
  <2> HIDE DEF next
  <2> QED
    BY <1>4, <2>2, <2>3, <2>4
<1> HIDE DEF start, next, step, S
<1>7. StepsIn(S, step, lo, L)
  BY <1>4, <1>6 DEF StepsIn
<1> HIDE DEF lo
<1>8. PICK w : Walks(w, S, start, step, lo, L)
  BY <1>4, <1>5, <1>7, Accumulates
<1>9. /\ w = [i \in lo..L |-> w[i]] /\ w[lo] = start
      /\ \A i \in lo..L : w[i] \in S[i]
      /\ \A i \in F..L : w[i] = next(w[i - 1], i)
  BY <1>4, <1>6, <1>8 DEF Walks
<1>10. Solves(w)
  <2>1. ASSUME NEW i \in lo..L PROVE w[i] = IF i < F THEN start ELSE next(w[i - 1], i)
    BY <1>4, <1>9
  <2> QED
    BY <1>9, <2>1
<1>11. Solves(walk)
  <2> HIDE DEF Solves
  <2> QED
    BY <1>10
<1> HIDE DEF walk
<1>12. walk[lo] = start /\ \A i \in F..L : walk[i] = next(walk[i - 1], i)
  BY <1>4, <1>11
<1>13. walk[L] = w[L]
  <2>1. StepAlike(walk, w, lo, L)
    BY <1>4, <1>9, <1>12 DEF StepAlike
  <2>2. walk[lo] = w[lo]
    BY <1>9, <1>12
  <2> QED
    BY <1>3, <1>4, <2>1, <2>2, AgreeOn DEF Alike
<1>14. Walked(walk[L], L)
  BY <1>4, <1>9, <1>13 DEF S
<1> QED
  BY <1>2, <1>14 DEF IsWalked, F, L

\* The run that begins at a usable start, ...
LEMMA BlockIsRun ==
  ASSUME NEW slots, NEW times, TimedSlots(slots, times), NEW i \in UsableStarts(slots)
  PROVE  LET b == BlockAt(slots, i) IN
         /\ IsRun(slots, times, FirstDelta(b), b.last)
         /\ SpanOf(b, times) \in Int
<1> DEFINE S == {j \in i..Len(slots) : \A k \in i..j : slots[k] # Gap}
           b == BlockAt(slots, i)
           F == FirstDelta(b)
           L == b.last
<1>1. /\ Len(slots) \in Nat
      /\ \A k \in 1..Len(slots) : times[k] \in Int /\ (slots[k] # Gap => clampNonNegative(slots[k]) \in Nat)
      /\ \A j, k \in 1..Len(slots) :
           j <= k /\ (\A n \in j + 1..k : slots[n] # Gap) => times[j] <= times[k]
  BY SlotFacts
<1>2. i \in 1..Len(slots) /\ slots[i] # Gap /\ (i = 1 \/ slots[i - 1] = Gap) /\ F <= L
  BY DEF UsableStarts, Starts, hasUsableDelta
<1>3. L \in i..Len(slots) /\ \A k \in i..L : slots[k] # Gap
  <2>1. i \in S /\ S \in SUBSET (1..Len(slots)) /\ S # {}
    <3>1. i \in i..Len(slots) /\ \A k \in i..i : k = i
      BY <1>1, <1>2
    <3>2. i..Len(slots) \subseteq 1..Len(slots)
      BY <1>1, <1>2
    <3>3. i \in S
      BY <1>2, <3>1
    <3> QED
      BY <3>2, <3>3
  <2>2. L = Max(S)
    BY DEF BlockAt
  <2> HIDE DEF S, L
  <2>3. Max(S) \in S
    BY <1>1, <2>1, GreatestNumber
  <2> QED
    BY <2>2, <2>3 DEF S
<1>4. b.first = i
  BY DEF BlockAt
<1>5. /\ F \in Int /\ 2 <= F /\ F - 1 \in 1..Len(slots) /\ i <= F /\ F <= i + 1
      /\ F = 2 \/ slots[F - 1] = Gap
  BY <1>1, <1>2, <1>4 DEF FirstDelta
<1> HIDE DEF b, L, F
<1>6. L \in Int /\ L <= Len(slots) /\ i \in Int
  BY <1>1, <1>2, <1>3
<1>7. ASSUME NEW k \in F..L PROVE k \in 1..Len(slots) /\ k \in i..L /\ slots[k] # Gap
  BY <1>1, <1>3, <1>5, <1>6
<1>8. Clamped(slots, F, L) /\ \A k \in F..L : slots[k] # Gap
  BY <1>1, <1>7 DEF Clamped
<1>9. \A j \in F - 1..L : j \in 1..Len(slots)
  BY <1>1, <1>5, <1>6
<1>10. ASSUME NEW j \in F - 1..L, NEW k \in F - 1..L, j <= k PROVE times[j] <= times[k]
  <2>1. \A n \in j + 1..k : slots[n] # Gap
    <3>1. \A n \in j + 1..k : n \in F..L
      BY <1>5, <1>6
    <3> QED
      BY <1>7, <3>1
  <2> QED
    BY <1>1, <1>9, <1>10, <2>1
<1>11. IsRun(slots, times, F, L)
  BY <1>1, <1>2, <1>5, <1>6, <1>8, <1>9, <1>10 DEF IsRun
<1>12. times[L] - times[F - 1] \in Int
  BY <1>1, <1>2, <1>5, <1>6, <1>9
<1> QED
  BY <1>11, <1>12 DEF SpanOf, blockLeftBoundIdx, b, F, L

\* ... and every window ends in one of them.
LEMMA InSomeBlock ==
  ASSUME NEW slots, Len(slots) \in Nat, NEW times, NEW W \in Nat \ {0}, NEW w \in WindowsIn(slots, times, W)
  PROVE  \E i \in UsableStarts(slots) : w[2] \in FirstDelta(BlockAt(slots, i))..BlockAt(slots, i).last
<1>1. /\ w[1] \in 2..Len(slots) /\ w[2] \in 2..Len(slots) /\ w[1] <= w[2]
      /\ \A k \in w[1]..w[2] : slots[k] # Gap
  BY DEF WindowsIn
<1>2. PICK e : e = w[2]
  OBVIOUS
<1> DEFINE T == {i \in 1..e : \A k \in i..e : slots[k] # Gap}
<1>3. e \in 2..Len(slots) /\ w[1] \in T /\ T \subseteq Nat
  BY <1>1, <1>2
<1>4. PICK i \in T : \A n \in T : i <= n
  <2> HIDE DEF T
  <2> QED
    BY <1>3, LeastNumber
<1>5. i \in 1..e /\ e \in 2..Len(slots) /\ i <= w[1] /\ \A k \in i..e : slots[k] # Gap
  BY <1>3, <1>4
<1>6. i = 1 \/ slots[i - 1] = Gap
  <2> SUFFICES ASSUME i # 1, slots[i - 1] # Gap PROVE FALSE
    OBVIOUS
  <2>1. i - 1 \in 1..e /\ ~(i <= i - 1)
    BY <1>5
  <2>2. \A k \in i - 1..e : k = i - 1 \/ k \in i..e
    BY <1>5
  <2>3. i - 1 \in T
    BY <1>5, <2>1, <2>2
  <2> QED
    BY <1>4, <2>1, <2>3
<1> HIDE DEF T
<1>7. i \in Starts(slots)
  BY <1>5, <1>6 DEF Starts
<1> DEFINE S == {j \in i..Len(slots) : \A k \in i..j : slots[k] # Gap}
<1>8. BlockAt(slots, i).first = i /\ BlockAt(slots, i).last = Max(S)
  BY DEF BlockAt
<1>9. e \in S /\ S \in SUBSET (1..Len(slots)) /\ S # {}
  BY <1>5
<1> HIDE DEF S
<1>10. Max(S) \in S /\ \A x \in S : x <= Max(S)
  BY <1>9, GreatestNumber
<1>11. BlockAt(slots, i).last \in Int /\ e <= BlockAt(slots, i).last
  <2>1. PICK m : m = Max(S)
    OBVIOUS
  <2>2. m \in 1..Len(slots) /\ e <= m
    BY <1>9, <1>10, <2>1
  <2> QED
    BY <1>8, <2>1, <2>2
<1>12. FirstDelta(BlockAt(slots, i)) \in Int /\ FirstDelta(BlockAt(slots, i)) <= e
  BY <1>1, <1>5, <1>8 DEF FirstDelta
<1>13. i \in UsableStarts(slots)
  BY <1>5, <1>7, <1>11, <1>12 DEF UsableStarts, hasUsableDelta
<1>14. e \in FirstDelta(BlockAt(slots, i))..BlockAt(slots, i).last
  BY <1>5, <1>11, <1>12
<1> QED
  BY <1>2, <1>13, <1>14

\* The blocks at starts, one after the other.
LEMMA BlocksInOrder ==
  ASSUME NEW slots, Len(slots) \in Nat, NEW starts, starts \subseteq Starts(slots)
  PROVE  /\ BlocksAt(slots, starts) \in Seq({BlockAt(slots, i) : i \in starts})
         /\ Len(BlocksAt(slots, starts)) \in Nat
         /\ DOMAIN BlocksAt(slots, starts) = 1..Len(BlocksAt(slots, starts))
         /\ \A n \in 1..Len(BlocksAt(slots, starts)) :
              \E i \in starts : BlocksAt(slots, starts)[n] = BlockAt(slots, i)
         /\ \A i \in starts :
              \E n \in 1..Len(BlocksAt(slots, starts)) : BlocksAt(slots, starts)[n] = BlockAt(slots, i)
<1> DEFINE N == Cardinality(starts)
           blocks == BlocksAt(slots, starts)
<1>1. starts \subseteq Int /\ IsFiniteSet(starts)
  <2>1. IsFiniteSet(1..Len(slots))
    BY FS_Interval
  <2>2. starts \subseteq 1..Len(slots)
    BY DEF Starts
  <2>3. IsFiniteSet(starts)
    BY <2>1, <2>2, FS_Subset, Zenon
  <2> QED
    BY <2>2, <2>3
<1>2. /\ N \in Nat /\ Ascending(starts) \in [1..N -> starts]
      /\ \A x \in starts : \E n \in 1..N : Ascending(starts)[n] = x
  BY <1>1, AscendingSorts
<1> HIDE DEF N
<1>3. DOMAIN Ascending(starts) = 1..N
  BY <1>2
<1>4. blocks = [n \in 1..N |-> BlockAt(slots, Ascending(starts)[n])]
  BY <1>3 DEF BlocksAt
<1> HIDE DEF blocks
<1> DEFINE all == {BlockAt(slots, i) : i \in starts}
<1>5. blocks \in Seq(all) /\ Len(blocks) = N
  <2>1. blocks \in [1..N -> all]
    BY <1>2, <1>4
  <2> HIDE DEF all
  <2> QED
    BY <1>2, <2>1, ASeq
<1>6. ASSUME NEW n \in 1..N
      PROVE  Ascending(starts)[n] \in starts /\ blocks[n] = BlockAt(slots, Ascending(starts)[n])
  BY <1>2, <1>4
<1>7. \A i \in starts : \E n \in 1..N : blocks[n] = BlockAt(slots, i)
  BY <1>2, <1>6
<1>8. DOMAIN blocks = 1..N
  BY <1>4
<1> QED
  BY <1>2, <1>5, <1>6, <1>7, <1>8 DEF blocks

\* With a block that takes time, the window takes time.
LEMMA WindowTakesTime ==
  ASSUME NEW slots, NEW times, TimedSlots(slots, times),
         NEW i \in UsableStarts(slots), SpanOf(BlockAt(slots, i), times) > 0
  PROVE  WindowOf(slots, times) \in Nat \ {0}
<1> DEFINE span(k) == SpanOf(BlockAt(slots, k), times)
           spans == {span(k) : k \in UsableStarts(slots)}
           S == {0} \cup spans
<1>1. S \subseteq Int
  BY BlockIsRun
<1>2. IsFiniteSet(S)
  <2>1. IsFiniteSet(1..Len(slots))
    BY SlotFacts, FS_Interval
  <2>2. UsableStarts(slots) \subseteq 1..Len(slots)
    BY DEF UsableStarts, Starts
  <2>3. IsFiniteSet(UsableStarts(slots))
    BY <2>1, <2>2, FS_Subset, Zenon
  <2> HIDE DEF span
  <2>4. IsFiniteSet(spans)
    <3> DEFINE of == [k \in UsableStarts(slots) |-> span(k)]
    <3>1. of \in Surjection(UsableStarts(slots), spans)
      BY DEF Surjection
    <3> HIDE DEF of, spans
    <3> QED
      BY <2>3, <3>1, FS_Surjection
  <2> HIDE DEF spans
  <2>5. IsFiniteSet({0})
    BY FS_Singleton
  <2> QED
    BY <2>4, <2>5, FS_Union, Zenon
<1>3. span(i) \in S /\ span(i) \in Int /\ span(i) > 0
  BY <1>1
<1>4. WindowOf(slots, times) = Min({PeakWindow, Max(S)})
  BY DEF WindowOf
<1> HIDE DEF S
<1>5. Max(S) \in S /\ span(i) <= Max(S)
  BY <1>1, <1>2, <1>3, FiniteGreatest
<1>6. PICK m \in Int : m = Max(S)
  BY <1>1, <1>5
<1>7. m > 0
  BY <1>3, <1>5, <1>6
<1>8. PICK p \in Nat \ {0} : p = PeakWindow
  BY RedoAssumption
<1>9. Min({p, m}) \in {p, m}
  BY <1>6, <1>7, <1>8 DEF Min
<1> QED
  BY <1>4, <1>6, <1>7, <1>8, <1>9

\* The walk over all blocks.
LEMMA PeakOfBlocks ==
  ASSUME NEW slots, NEW times, TimedSlots(slots, times), NEW W \in Nat \ {0}
  PROVE  \E E : /\ IsPeak(computeRollingPeak(slots, times, W), slots, times, W, E)
                /\ \A i \in UsableStarts(slots) : FirstDelta(BlockAt(slots, i))..BlockAt(slots, i).last \subseteq E
<1> DEFINE blocks == UsableBlocks(slots)
           N == Len(blocks)
           run(n) == FirstDelta(blocks[n])..blocks[n].last
           Ends(n) == UNION {run(m) : m \in 1..n}
           next(p, n) == PeakWithin(slots, times, W, p, blocks[n])
           S == [n \in 0..N |-> {p \in Rates : IsPeak(p, slots, times, W, Ends(n))}]
           step == [q \in Rates \X (0..N) |-> next(q[1], q[2])]
           Solves(f) == f = [n \in 0..N |-> IF n = 0 THEN NoRate ELSE next(f[n - 1], n)]
           peak == CHOOSE f : Solves(f)
<1>1. computeRollingPeak(slots, times, W) = peak[N]
  BY DEF computeRollingPeak
<1>2. /\ N \in Nat
      /\ \A n \in 1..N : \E i \in UsableStarts(slots) : blocks[n] = BlockAt(slots, i)
      /\ \A i \in UsableStarts(slots) : \E n \in 1..N : blocks[n] = BlockAt(slots, i)
  <2>1. Len(slots) \in Nat /\ UsableStarts(slots) \subseteq Starts(slots)
    BY SlotFacts DEF UsableStarts
  <2> QED
    BY <2>1, BlocksInOrder DEF UsableBlocks
<1> HIDE DEF blocks, N
<1>3. ASSUME NEW n \in 1..N PROVE IsRun(slots, times, FirstDelta(blocks[n]), blocks[n].last)
  BY <1>2, BlockIsRun
<1>4. ASSUME NEW n \in 1..N PROVE Ends(n) = Ends(n - 1) \cup run(n)
  <2> HIDE DEF run
  <2>1. \A m \in Int : m \in 1..n <=> m \in 1..n - 1 \/ m = n
    BY <1>2
  <2> QED
    BY <2>1
<1>5. Ends(0) = {}
  OBVIOUS
<1> HIDE DEF Ends
<1>6. NoRate \in S[0]
  <2>1. ASSUME NEW w \in SmallestWindows(slots, times, W), w[2] \in Ends(0) PROVE FALSE
    BY <1>5, <2>1
  <2>2. NoRate \in Rates /\ ~(NoRate.bytes > 0)
    BY DEF NoRate, Rates
  <2>3. IsPeak(NoRate, slots, times, W, Ends(0))
    BY <2>1, <2>2 DEF IsPeak
  <2> QED
    BY <1>2, <2>2, <2>3
<1>7. ASSUME NEW n \in 1..N, NEW p \in S[n - 1] PROVE step[<<p, n>>] = next(p, n) /\ next(p, n) \in S[n]
  <2>1. n - 1 \in 0..N /\ n \in 0..N
    BY <1>2
  <2>2. p \in Rates /\ IsPeak(p, slots, times, W, Ends(n - 1))
    BY <2>1
  <2>3. IsPeak(next(p, n), slots, times, W, Ends(n - 1) \cup run(n))
    BY <1>3, <2>2, WalkStays
  <2>4. IsPeak(next(p, n), slots, times, W, Ends(n))
    BY <1>4, <2>3
  <2>5. next(p, n) \in Rates
    BY <2>4 DEF IsPeak
  <2>6. step[<<p, n>>] = next(p, n)
    BY <2>1, <2>2
  <2> HIDE DEF next
  <2> QED
    BY <2>1, <2>4, <2>5, <2>6
<1> HIDE DEF next, step, S
<1>8. StepsIn(S, step, 0, N)
  <2>1. 0 + 1 = 1
    OBVIOUS
  <2> QED
    BY <1>7, <2>1 DEF StepsIn
<1>9. PICK w : Walks(w, S, NoRate, step, 0, N)
  BY <1>2, <1>6, <1>8, Accumulates
<1>10. /\ w = [n \in 0..N |-> w[n]] /\ w[0] = NoRate
       /\ \A n \in 0..N : w[n] \in S[n]
       /\ \A n \in 1..N : w[n] = next(w[n - 1], n)
  <2>1. 0 + 1 = 1 /\ \A n \in 1..N : n - 1 \in 0..N
    BY <1>2
  <2> QED
    BY <1>7, <1>9, <2>1 DEF Walks
<1>11. Solves(w)
  <2>1. ASSUME NEW n \in 0..N PROVE w[n] = IF n = 0 THEN NoRate ELSE next(w[n - 1], n)
    <3>1. n = 0 \/ (n # 0 /\ n \in 1..N)
      BY <1>2
    <3> QED
      BY <1>10, <3>1
  <2> QED
    BY <1>10, <2>1
<1>12. Solves(peak)
  <2> HIDE DEF Solves
  <2> QED
    BY <1>11
<1> HIDE DEF peak
<1>13. peak[0] = NoRate /\ \A n \in 1..N : peak[n] = next(peak[n - 1], n)
  BY <1>2, <1>12
<1>14. peak[N] = w[N]
  <2>1. StepAlike(peak, w, 0, N)
    <3>1. 0 + 1 = 1
      OBVIOUS
    <3> QED
      BY <1>10, <1>13, <3>1 DEF StepAlike
  <2>2. peak[0] = w[0] /\ N \in 0..N /\ 0 \in Int /\ N \in Int
    BY <1>2, <1>10, <1>13
  <2> QED
    BY <2>1, <2>2, AgreeOn DEF Alike
<1>15. IsPeak(peak[N], slots, times, W, Ends(N))
  BY <1>2, <1>10, <1>14 DEF S
<1>16. ASSUME NEW i \in UsableStarts(slots)
       PROVE  FirstDelta(BlockAt(slots, i))..BlockAt(slots, i).last \subseteq Ends(N)
  <2>1. PICK n \in 1..N : blocks[n] = BlockAt(slots, i)
    BY <1>2
  <2> HIDE DEF run
  <2>2. run(n) \subseteq Ends(N)
    BY DEF Ends
  <2> QED
    BY <2>1, <2>2 DEF run
<1> QED
  BY <1>1, <1>15, <1>16

\* What is concluded once is what the evidence says.
ConcludedInv ==
  /\ evidence \in Evidence
  /\ analysis # Nil =>
       analysis = Conclusions(Analyze(evidence), computeRedoSizing(evidence.merged, evidence.vars))
LEMMA ConcludedStays == AnalysisSpec => []ConcludedInv
<1>1. AnalysisInit => ConcludedInv
  BY DEF AnalysisInit, ConcludedInv
<1>2. ConcludedInv /\ [AnalysisNext]_analysisVars => ConcludedInv'
  BY DEF AnalysisNext, Conclude, analysisVars, ConcludedInv
<1> QED
  BY <1>1, <1>2, PTL DEF AnalysisSpec

\* What the panel shows as observed is read off the slots of the status.
LEMMA ObservedIsRead ==
  ASSUME NEW e \in Evidence, NEW observed, observed # Nil,
         observed = computeRedoSizing(e.merged, e.vars).observed
  PROVE  LET slots == e.merged.deltas[Written]
             times == e.merged.times
         IN /\ TimedSlots(slots, times)
            /\ observed.window = WindowOf(slots, times) /\ WindowOf(slots, times) \in Nat \ {0}
            /\ observed.peak = computeRollingPeak(slots, times, WindowOf(slots, times))
<1> DEFINE slots == e.merged.deltas[Written]
           times == e.merged.times
           timed == {i \in UsableStarts(slots) : SpanOf(BlockAt(slots, i), times) > 0}
           window == WindowOf(slots, times)
<1>1. observed = readObservedRedoRate(e.merged)
  BY DEF computeRedoSizing, SizingOf
<1>2. /\ e.merged # Nil /\ Written \in e.merged.counters
      /\ observed = ObservedIn(slots, times, BlocksAt(slots, timed), window)
  BY <1>1 DEF readObservedRedoRate
<1>3. TimedSlots(slots, times)
  BY <1>2, EvidenceAssumption
<1> HIDE DEF window
<1>4. /\ BlocksAt(slots, timed) # <<>>
      /\ observed.window = window /\ observed.peak = computeRollingPeak(slots, times, window)
  BY <1>2 DEF ObservedIn
<1>5. timed # {}
  <2> SUFFICES ASSUME timed = {} PROVE FALSE
    OBVIOUS
  <2>1. timed \subseteq Starts(slots) /\ Len(slots) \in Nat
    BY <1>3, SlotFacts DEF UsableStarts
  <2> HIDE DEF timed, slots
  <2>2. PICK blocks : blocks = BlocksAt(slots, timed)
    OBVIOUS
  <2>3. /\ blocks \in Seq({BlockAt(slots, i) : i \in timed})
        /\ Len(blocks) \in Nat /\ DOMAIN blocks = 1..Len(blocks)
        /\ \A n \in 1..Len(blocks) : \E i \in timed : blocks[n] = BlockAt(slots, i)
    BY <2>1, <2>2, BlocksInOrder
  <2>4. 1..Len(blocks) = {}
    BY <2>3
  <2>5. Len(blocks) = 0
    BY <2>3, <2>4
  <2>6. blocks = <<>>
    BY <2>3, <2>5, EmptySeq
  <2> QED
    BY <1>4, <2>2, <2>6
<1>6. PICK i \in UsableStarts(slots) : SpanOf(BlockAt(slots, i), times) > 0
  BY <1>5
<1>7. window \in Nat \ {0}
  BY <1>3, <1>6, WindowTakesTime DEF window
<1> QED
  BY <1>3, <1>4, <1>7 DEF window

\* render/redo_sizing.go, for any slots in order of time, however they are spaced and
\* wherever they have gaps: the peak is the rate of a shortest window, and none is faster.
THEOREM PeakIsBusiest == AnalysisSpec => []PeakOfShortestWindows
<1>1. ConcludedInv => PeakOfShortestWindows
  <2> SUFFICES ASSUME ConcludedInv, analysis # Nil, analysis.redo.observed # Nil
               PROVE  LET observed == analysis.redo.observed
                          m == evidence.merged
                          windows == SmallestWindows(m.deltas[Written], m.times, observed.window)
                          rates == {WindowRate(m.deltas[Written], m.times, w) : w \in windows}
                      IN /\ \A rate \in rates : ~Faster(rate, observed.peak)
                         /\ observed.peak.bytes > 0 => observed.peak \in rates
    BY DEF PeakOfShortestWindows
  <2> DEFINE observed == analysis.redo.observed
             slots == evidence.merged.deltas[Written]
             times == evidence.merged.times
             W == WindowOf(slots, times)
             peak == computeRollingPeak(slots, times, W)
             windows == SmallestWindows(slots, times, W)
  <2>1. evidence \in Evidence /\ observed = computeRedoSizing(evidence.merged, evidence.vars).observed
    BY DEF ConcludedInv, Conclusions
  <2>2. /\ TimedSlots(slots, times)
        /\ observed.window = W /\ W \in Nat \ {0}
        /\ observed.peak = peak
    BY <2>1, ObservedIsRead
  <2> HIDE DEF observed, slots, times, W, peak
  <2>3. PICK E : /\ IsPeak(computeRollingPeak(slots, times, W), slots, times, W, E)
                 /\ \A i \in UsableStarts(slots) :
                      FirstDelta(BlockAt(slots, i))..BlockAt(slots, i).last \subseteq E
    BY <2>2, PeakOfBlocks
  <2>4. ASSUME NEW w \in windows PROVE ~Faster(WindowRate(slots, times, w), peak)
    <3>1. w \in WindowsIn(slots, times, W) /\ Len(slots) \in Nat
      BY <2>2, SlotFacts DEF SmallestWindows
    <3>2. w[2] \in E
      BY <2>2, <2>3, <3>1, InSomeBlock
    <3> QED
      BY <2>3, <3>2 DEF IsPeak, peak
  <2>5. peak.bytes > 0 => \E w \in windows : peak = WindowRate(slots, times, w)
    BY <2>3 DEF IsPeak, peak
  <2> QED
    BY <2>2, <2>4, <2>5 DEF observed, slots, times
<1> QED
  BY <1>1, ConcludedStays, PTL
=============================================================================
