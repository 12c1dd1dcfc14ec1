------------------------------- MODULE DataLemmas -------------------------------
(***************************************************************************)
(* Facts about the data the models are built from, whatever its size: the  *)
(* least of a set of numbers, the sequence of a set, how many elements of  *)
(* an ordered set come first, and what FlattenSeq returns.  A fact for     *)
(* every number is proved from the least counterexample: the set of the    *)
(* numbers it fails for would have a least element.                        *)
(***************************************************************************)
EXTENDS Integers, SequencesExt, FiniteSets, FiniteSetTheorems, WellFoundedInduction,
        SequenceTheorems, TLAPS

-----------------------------------------------------------------------------
(* Numbers.                                                                *)

(* A set of numbers that is not empty has a least element: the intervals   *)
(* below its elements are finite sets, which inclusion orders well.        *)
LEMMA LeastNumber ==
  ASSUME NEW S \in SUBSET Nat, S # {}
  PROVE  \E n \in S : \A m \in S : n <= m
<1> DEFINE T == {0 .. n - 1 : n \in S}
<1>1. IsWellFoundedOn(StrictSubsetOrdering(Nat), FiniteSubsetsOf(Nat))
  BY FS_StrictSubsetOrderingWellFounded
<1>2. T \subseteq FiniteSubsetsOf(Nat)
  <2>1. ASSUME NEW n \in S PROVE IsFiniteSet(0 .. n - 1) /\ 0 .. n - 1 \subseteq Nat
    BY FS_Interval
  <2>. QED BY <2>1 DEF FiniteSubsetsOf
<1>3. T # {} OBVIOUS
<1>4. PICK x \in T : \A y \in T : ~ (<<y, x>> \in StrictSubsetOrdering(Nat))
  <2> HIDE DEF T
  <2>. QED BY <1>1, <1>2, <1>3, WFMin
<1>5. PICK n \in S : x = 0 .. n - 1 OBVIOUS
<1>6. ASSUME NEW m \in S, m < n PROVE FALSE
  <2>1. 0 .. m - 1 \in T OBVIOUS
  <2>2. /\ 0 .. m - 1 \subseteq Nat /\ 0 .. n - 1 \subseteq Nat
        /\ 0 .. m - 1 \subseteq 0 .. n - 1
    BY <1>6
  <2>3. m \in 0 .. n - 1 /\ m \notin 0 .. m - 1 BY <1>6
  <2>4. 0 .. m - 1 # 0 .. n - 1 BY <2>3
  <2>. QED BY <1>4, <1>5, <2>1, <2>2, <2>4 DEF StrictSubsetOrdering
<1>. QED BY <1>6

(* One with a bound has a greatest.                                        *)
LEMMA GreatestNumber ==
  ASSUME NEW S \in SUBSET Nat, S # {}, NEW b \in Nat, \A n \in S : n <= b
  PROVE  \E n \in S : \A m \in S : m <= n
<1>1. PICK T : T = {b - n : n \in S} OBVIOUS
<1>2. T \in SUBSET Nat /\ T # {}
  <2>1. \A n \in S : b - n \in Nat OBVIOUS
  <2>. QED BY <1>1, <2>1
<1>3. PICK t \in T : \A u \in T : t <= u BY <1>2, LeastNumber
<1>4. PICK n \in S : t = b - n BY <1>1
<1>5. ASSUME NEW m \in S PROVE m <= n
  <2>1. b - m \in T BY <1>1
  <2>2. b - n <= b - m BY <1>3, <1>4, <2>1
  <2>. QED BY <2>2
<1>. QED BY <1>5

(* Induction, for a set of numbers: one that has 0 and with each number    *)
(* the next has all of them.                                               *)
LEMMA AllNumbers ==
  ASSUME NEW S \in SUBSET Nat, 0 \in S, \A n \in S : n + 1 \in S
  PROVE  S = Nat
<1> SUFFICES ASSUME Nat \ S # {} PROVE FALSE OBVIOUS
<1>1. PICK n \in Nat \ S : \A m \in Nat \ S : n <= m
  <2> DEFINE U == Nat \ S
  <2>1. U \in SUBSET Nat /\ U # {} OBVIOUS
  <2> HIDE DEF U
  <2>2. \E n \in U : \A m \in U : n <= m BY <2>1, LeastNumber
  <2>. QED BY <2>2 DEF U
<1>2. n # 0 /\ n - 1 \in Nat OBVIOUS
<1>3. n - 1 \in S BY <1>1, <1>2
<1>. QED BY <1>3

-----------------------------------------------------------------------------
(* Finite sets.                                                            *)

(* Intervals and their sizes.                                              *)
LEMMA Intervals ==
  ASSUME NEW n \in Nat
  PROVE  /\ IsFiniteSet(1 .. n) /\ Cardinality(1 .. n) = n
         /\ IsFiniteSet(0 .. n - 1) /\ Cardinality(0 .. n - 1) = n
<1>1. n \in Int /\ n - 1 \in Int /\ 0 \in Int /\ 1 \in Int OBVIOUS
<1>2. IsFiniteSet(1 .. n) /\ Cardinality(1 .. n) = IF 1 > n THEN 0 ELSE n - 1 + 1
  BY <1>1, FS_Interval
<1>3. IsFiniteSet(0 .. n - 1) /\ Cardinality(0 .. n - 1) = IF 0 > n - 1 THEN 0 ELSE n - 1 - 0 + 1
  BY <1>1, FS_Interval
<1>. QED BY <1>2, <1>3

(* The values of a function on a finite domain are finitely many.          *)
LEMMA FiniteValues ==
  ASSUME NEW f, IsFiniteSet(DOMAIN f), f = [x \in DOMAIN f |-> f[x]]
  PROVE  IsFiniteSet({f[x] : x \in DOMAIN f})
<1> DEFINE T == {f[x] : x \in DOMAIN f}
<1>1. f \in Surjection(DOMAIN f, T) BY DEF Surjection
<1>. QED
  <2> HIDE DEF T
  <2>1. IsFiniteSet(T) BY <1>1, FS_Surjection
  <2>. QED BY <2>1 DEF T

(* So are the elements of a sequence.                                      *)
LEMMA FiniteElements ==
  ASSUME NEW A, NEW s \in Seq(A)
  PROVE  IsFiniteSet(ToSet(s)) /\ ToSet(s) \subseteq A
<1>1. DOMAIN s = 1 .. Len(s) /\ Len(s) \in Nat /\ s = [i \in DOMAIN s |-> s[i]]
  OBVIOUS
<1>2. IsFiniteSet(DOMAIN s) BY <1>1, Intervals
<1>3. IsFiniteSet({s[i] : i \in DOMAIN s}) BY <1>1, <1>2, FiniteValues
<1>. QED BY <1>3 DEF ToSet

(* The sequence of a finite set has its elements, each once.               *)
LEMMA SetToSeqIs ==
  ASSUME NEW S, IsFiniteSet(S)
  PROVE  /\ SetToSeq(S) \in Seq(S) /\ Len(SetToSeq(S)) = Cardinality(S)
         /\ ToSet(SetToSeq(S)) = S
         /\ SetToSeq(S) = <<>> <=> S = {}
<1> DEFINE n == Cardinality(S)
           q == SetToSeq(S)
<1>1. n \in Nat /\ Bijection(1 .. n, S) # {} BY FS_CardinalityType DEF ExistsBijection
<1>2. q \in [1 .. n -> S] /\ IsInjective(q)
  <2>1. \E f \in [1 .. n -> S] : IsInjective(f) BY <1>1 DEF Bijection, Injection
  <2>. QED BY <2>1, Zenon DEF SetToSeq
<1> HIDE DEF q
<1>3. q \in Seq(S) /\ Len(q) = n /\ DOMAIN q = 1 .. n BY <1>1, <1>2
<1>4. IsFiniteSet(1 .. n) /\ Cardinality(1 .. n) = n BY <1>1, Intervals
<1>5. q \in Surjection(1 .. n, S)
  <2>1. q \in Injection(1 .. n, S) BY <1>2 DEF Injection
  <2> HIDE DEF n
  <2>. QED BY <2>1, <1>4, FS_Injection DEF n
<1>6. ToSet(q) = S BY <1>3, <1>5 DEF ToSet, Surjection
<1>7. q = <<>> <=> S = {}
  <2>1. n = 0 <=> S = {} BY FS_EmptySet
  <2>2. q = <<>> <=> n = 0 BY <1>1, <1>3
  <2>. QED BY <2>1, <2>2
<1>. QED BY <1>3, <1>6, <1>7 DEF q

(* The numbers below n, and how many elements of S precede x.              *)
Below(n) == 0 .. n - 1
Rank(S, R, x) == Cardinality({y \in S : <<y, x>> \in R})

RankSet(S, R) == {Rank(S, R, x) : x \in S}

(* In a strict total order the ranks map S one to one to 0 .. its size - 1. *)
LEMMA Ranks ==
  ASSUME NEW S, IsFiniteSet(S), NEW R,
         \A x \in S : <<x, x>> \notin R,
         \A x, y, z \in S : <<x, y>> \in R /\ <<y, z>> \in R => <<x, z>> \in R,
         \A x, y \in S : x = y \/ <<x, y>> \in R \/ <<y, x>> \in R
  PROVE  /\ Cardinality(S) \in Nat
         /\ \A x \in S : Rank(S, R, x) \in Below(Cardinality(S))
         /\ \A x, y \in S : <<x, y>> \in R => Rank(S, R, x) < Rank(S, R, y)
         /\ \A x, y \in S : Rank(S, R, x) = Rank(S, R, y) => x = y
         /\ RankSet(S, R) = Below(Cardinality(S))
<1> DEFINE n == Cardinality(S)
           below(x) == {y \in S : <<y, x>> \in R}
           r == [x \in S |-> Cardinality(below(x))]
<1>1. n \in Nat BY FS_CardinalityType
<1>2. ASSUME NEW x \in S
      PROVE IsFiniteSet(below(x)) /\ r[x] = Cardinality(below(x)) /\ r[x] \in Nat /\ r[x] < n
  <2>1. below(x) \in SUBSET S /\ below(x) # S OBVIOUS
  <2>2. IsFiniteSet(below(x)) /\ Cardinality(below(x)) <= n /\ Cardinality(below(x)) # n
    BY <2>1, FS_Subset
  <2>3. Cardinality(below(x)) \in Nat BY <2>2, FS_CardinalityType
  <2>. QED BY <2>2, <2>3, <1>1
<1>3. ASSUME NEW x \in S, NEW y \in S, <<x, y>> \in R
      PROVE r[x] < r[y]
  <2>1. below(x) \in SUBSET below(y) BY <1>3
  <2>2. x \in below(y) /\ x \notin below(x) BY <1>3
  <2>3. Cardinality(below(x)) <= Cardinality(below(y)) /\ Cardinality(below(x)) # Cardinality(below(y))
    BY <2>1, <2>2, <1>2, FS_Subset
  <2>4. r[x] \in Nat /\ r[y] \in Nat BY <1>2
  <2>. QED BY <2>3, <2>4
<1>4. r \in Injection(S, 0 .. n - 1)
  <2>1. r \in [S -> 0 .. n - 1]
    <3> HIDE DEF n, r, below
    <3>1. ASSUME NEW x \in S PROVE Cardinality(below(x)) \in 0 .. n - 1 BY <1>1, <1>2
    <3> USE DEF r
    <3>. QED BY <3>1
  <2>2. ASSUME NEW x \in S, NEW y \in S, r[x] = r[y] PROVE x = y
    <3>1. r[x] \in Nat /\ r[y] \in Nat BY <1>2
    <3> HIDE DEF r
    <3>2. ~(<<x, y>> \in R) /\ ~(<<y, x>> \in R) BY <3>1, <2>2, <1>3
    <3>. QED BY <3>2
  <2> HIDE DEF r
  <2>. QED BY <2>1, <2>2 DEF Injection, IsInjective
<1>5. r \in Surjection(S, 0 .. n - 1)
  <2> HIDE DEF r, n
  <2>1. IsFiniteSet(0 .. n - 1) /\ Cardinality(0 .. n - 1) = n BY <1>1, Intervals
  <2>. QED BY <2>1, <1>4, FS_Injection DEF n
<1>6. \A x \in S : r[x] = Rank(S, R, x) BY DEF Rank
<1>7. ASSUME NEW x \in S PROVE Rank(S, R, x) \in 0 .. n - 1
  <2> HIDE DEF r, n, below
  <2>. QED BY <1>1, <1>2, <1>6
<1> HIDE DEF r, n, below
<1>8. \A x, y \in S : <<x, y>> \in R => Rank(S, R, x) < Rank(S, R, y) BY <1>3, <1>6
<1>9. \A x, y \in S : Rank(S, R, x) = Rank(S, R, y) => x = y
  BY <1>4, <1>6 DEF Injection, IsInjective
<1>10. RankSet(S, R) = Below(n)
  <2>1. \A k \in 0 .. n - 1 : \E x \in S : Rank(S, R, x) = k
    BY <1>5, <1>6 DEF Surjection
  <2>. QED BY <1>7, <2>1 DEF Below, RankSet
<1>. QED BY <1>1, <1>7, <1>8, <1>9, <1>10 DEF n, Below

(* The elements of S that fewer than m others precede: m, or all of them   *)
(* if there are fewer.                                                     *)
Firsts(S, m, R) == {x \in S : Cardinality({y \in S : <<y, x>> \in R}) < m}

LEMMA FirstOfOrdered ==
  ASSUME NEW S, IsFiniteSet(S), NEW m \in Nat, NEW R,
         \A x \in S : <<x, x>> \notin R,
         \A x, y, z \in S : <<x, y>> \in R /\ <<y, z>> \in R => <<x, z>> \in R,
         \A x, y \in S : x = y \/ <<x, y>> \in R \/ <<y, x>> \in R
  PROVE  Cardinality(Firsts(S, m, R)) = IF Cardinality(S) < m THEN Cardinality(S) ELSE m
<1> DEFINE n == Cardinality(S)
           k == IF n < m THEN n ELSE m
           L == {x \in S : Rank(S, R, x) < m}
           g == [x \in L |-> Rank(S, R, x)]
<1>1. n \in Nat /\ (\A x \in S : Rank(S, R, x) \in 0 .. n - 1)
  <2>1. n \in Nat /\ (\A x \in S : Rank(S, R, x) \in Below(n)) BY Ranks
  <2>. QED BY <2>1 DEF Below
<1>2. \A x, y \in S : Rank(S, R, x) = Rank(S, R, y) => x = y BY Ranks
<1>3. \A t \in 0 .. n - 1 : \E x \in S : Rank(S, R, x) = t
  <2>1. RankSet(S, R) = Below(n) BY Ranks
  <2> HIDE DEF n
  <2>. QED BY <2>1 DEF Below, RankSet
<1>4. g \in Bijection(L, 0 .. k - 1)
  <2>1. ASSUME NEW x \in L PROVE x \in S /\ Rank(S, R, x) \in 0 .. k - 1
    <3> HIDE DEF n
    <3>. QED BY <1>1
  <2> HIDE DEF n, k, L
  <2>2. g \in [L -> 0 .. k - 1] BY <2>1
  <2>3. \A x, y \in L : g[x] = g[y] => x = y BY <2>1, <1>2
  <2>4. ASSUME NEW t \in 0 .. k - 1 PROVE \E x \in L : g[x] = t
    <3>1. t \in 0 .. n - 1 /\ t < m BY <1>1 DEF k
    <3>2. PICK x \in S : Rank(S, R, x) = t BY <3>1, <1>3
    <3>3. x \in L BY <3>1, <3>2 DEF L
    <3>. QED BY <3>2, <3>3
  <2> HIDE DEF g
  <2>. QED BY <2>2, <2>3, <2>4 DEF Bijection, Injection, Surjection, IsInjective
<1>5. IsFiniteSet(L)
  <2>1. L \in SUBSET S OBVIOUS
  <2> HIDE DEF L
  <2>. QED BY <2>1, FS_Subset
<1>6. Cardinality(L) = Cardinality(0 .. k - 1)
  <2>1. ExistsBijection(L, 0 .. k - 1) BY <1>4 DEF ExistsBijection
  <2> HIDE DEF L, k
  <2>. QED BY <2>1, <1>5, FS_Bijection
<1>7. k \in Nat /\ Cardinality(0 .. k - 1) = k BY <1>1, Intervals
<1>8. Firsts(S, m, R) = L BY DEF Firsts, Rank
<1>. QED BY <1>6, <1>7, <1>8

-----------------------------------------------------------------------------
(* FlattenSeq.                                                             *)

(* f has the beginnings of s, flattened.                                   *)
Flattens(f, s) == f = [i \in 1 .. Len(s) |-> IF i = 1 THEN s[i] ELSE f[i - 1] \o s[i]]

LEMMA FlattensAt ==
  ASSUME NEW f, NEW s, Flattens(f, s), NEW i \in 1 .. Len(s)
  PROVE  f[i] = IF i = 1 THEN s[i] ELSE f[i - 1] \o s[i]
BY Zenon DEF Flattens

LEMMA Flattened ==
  ASSUME NEW A, NEW s \in Seq(Seq(A))
  PROVE  \E f : Flattens(f, s) /\ f \in [1 .. Len(s) -> Seq(A)]
<1> DEFINE T == {n \in Nat : \A t \in Seq(Seq(A)) :
                   Len(t) = n => \E f \in [1 .. n -> Seq(A)] : Flattens(f, t)}
<1>1. 0 \in T
  <2>1. ASSUME NEW t \in Seq(Seq(A)), Len(t) = 0
        PROVE  \E f \in [1 .. 0 -> Seq(A)] : Flattens(f, t)
    <3> DEFINE f == [i \in 1 .. 0 |-> {}]
    <3>1. f \in [1 .. 0 -> Seq(A)] OBVIOUS
    <3>2. Flattens(f, t) BY <2>1 DEF Flattens
    <3>. QED BY <3>1, <3>2
  <2>. QED BY <2>1
<1>2. ASSUME NEW n \in T PROVE n + 1 \in T
  <2>1. ASSUME NEW t \in Seq(Seq(A)), Len(t) = n + 1
        PROVE  \E f \in [1 .. n + 1 -> Seq(A)] : Flattens(f, t)
    <3> DEFINE u == [i \in 1 .. n |-> t[i]]
    <3>0. n \in Nat OBVIOUS
    <3>1. u \in Seq(Seq(A)) /\ Len(u) = n BY <2>1
    <3>2. PICK f \in [1 .. n -> Seq(A)] : Flattens(f, u) BY <3>1
    <3> DEFINE g == [i \in 1 .. n + 1 |->
                       IF i <= n THEN f[i] ELSE IF i = 1 THEN t[i] ELSE f[n] \o t[i]]
    <3> HIDE DEF T
    <3>3. g \in [1 .. n + 1 -> Seq(A)]
      <4>1. ASSUME NEW i \in 1 .. n + 1
            PROVE  (IF i <= n THEN f[i] ELSE IF i = 1 THEN t[i] ELSE f[n] \o t[i]) \in Seq(A)
        <5>1. t[i] \in Seq(A) BY <2>1
        <5>2. CASE i <= n BY <3>0, <5>2
        <5>3. CASE ~ (i <= n) /\ i = 1 BY <5>1, <5>3
        <5>4. CASE ~ (i <= n) /\ i # 1
          <6>1. f[n] \in Seq(A) BY <3>0, <5>4
          <6>. QED BY <5>1, <5>4, <6>1
        <5>. QED BY <5>2, <5>3, <5>4
      <4>. QED BY <4>1
    <3>4. Flattens(g, t)
      <4>1. ASSUME NEW i \in 1 .. n + 1
            PROVE  g[i] = IF i = 1 THEN t[i] ELSE g[i - 1] \o t[i]
        <5>1. CASE i <= n
          <6>1. f[i] = IF i = 1 THEN u[i] ELSE f[i - 1] \o u[i]
            <7> HIDE DEF u
            <7>1. i \in 1 .. Len(u) BY <3>0, <3>1, <5>1
            <7>. QED BY <3>2, <7>1, FlattensAt
          <6>2. u[i] = t[i] /\ g[i] = f[i] BY <3>0, <5>1
          <6>3. i # 1 => g[i - 1] = f[i - 1] BY <3>0, <5>1
          <6> HIDE DEF g, u
          <6>. QED BY <6>1, <6>2, <6>3
        <5>2. CASE ~ (i <= n)
          <6>1. i = n + 1 BY <3>0, <5>2
          <6>2. i # 1 => g[i - 1] = f[n] BY <3>0, <6>1
          <6>3. g[i] = IF i = 1 THEN t[i] ELSE f[n] \o t[i] BY <5>2
          <6> HIDE DEF g, u
          <6>. QED BY <6>2, <6>3
        <5>. QED BY <5>1, <5>2
      <4>2. g = [i \in 1 .. n + 1 |-> g[i]] OBVIOUS
      <4> HIDE DEF g
      <4>3. g = [i \in 1 .. n + 1 |-> IF i = 1 THEN t[i] ELSE g[i - 1] \o t[i]]
        BY <4>1, <4>2, Zenon
      <4>. QED BY <4>3, <2>1, Zenon DEF Flattens
    <3>. QED BY <3>3, <3>4
  <2>. QED BY <2>1
<1> HIDE DEF T
<1>3. T \in SUBSET Nat BY DEF T
<1>4. T = Nat BY <1>1, <1>2, <1>3, AllNumbers
<1>5. Len(s) \in Nat OBVIOUS
<1>. QED BY <1>4, <1>5, Zenon DEF T

(* Where two sequences are the same, so are their flattened beginnings.    *)
LEMMA FlattenedAlike ==
  ASSUME NEW A, NEW s \in Seq(Seq(A)), NEW t \in Seq(Seq(A)), NEW f, NEW g,
         Flattens(f, s), Flattens(g, t), s # <<>>, Len(s) <= Len(t),
         \A i \in 1 .. Len(s) : s[i] = t[i]
  PROVE  f[Len(s)] = g[Len(s)]
<1>0. PICK n \in Nat : n = Len(s) /\ n # 0 OBVIOUS
<1> DEFINE T == {m \in Nat : m + 1 <= n => f[m + 1] = g[m + 1]}
<1>1. \A i \in 1 .. n : /\ f[i] = IF i = 1 THEN s[i] ELSE f[i - 1] \o s[i]
                        /\ g[i] = IF i = 1 THEN t[i] ELSE g[i - 1] \o t[i]
  <2>1. ASSUME NEW i \in 1 .. n PROVE i \in 1 .. Len(s) /\ i \in 1 .. Len(t) BY <1>0
  <2>. QED BY <2>1, FlattensAt
<1>2. 0 \in T
  <2>1. 1 <= n => f[1] = s[1] /\ g[1] = t[1] /\ s[1] = t[1] BY <1>0, <1>1
  <2>. QED BY <2>1
<1>3. ASSUME NEW m \in T PROVE m + 1 \in T
  <2>1. ASSUME m + 2 <= n PROVE f[m + 2] = g[m + 2]
    <3>1. f[m + 1] = g[m + 1] BY <2>1
    <3>2. m + 2 \in 1 .. n /\ m + 2 # 1 /\ (m + 2) - 1 = m + 1 BY <2>1
    <3>3. f[m + 2] = f[m + 1] \o s[m + 2] /\ g[m + 2] = g[m + 1] \o t[m + 2] BY <1>1, <3>2
    <3>4. s[m + 2] = t[m + 2] BY <1>0, <3>2
    <3> HIDE DEF T
    <3>. QED BY <3>1, <3>3, <3>4, Zenon
  <2>2. m \in Nat /\ (m + 1) + 1 = m + 2 /\ m + 1 \in Nat OBVIOUS
  <2>. QED BY <2>1, <2>2
<1> HIDE DEF T
<1>4. T \in SUBSET Nat BY DEF T
<1>5. T = Nat BY <1>2, <1>3, <1>4, AllNumbers
<1>6. n - 1 \in Nat /\ (n - 1) + 1 = n /\ n <= n BY <1>0
<1>7. n - 1 \in T BY <1>5, <1>6
<1>. QED BY <1>0, <1>6, <1>7 DEF T

LEMMA FlattenSeqIs ==
  ASSUME NEW A, NEW s \in Seq(Seq(A)), s # <<>>, NEW f, Flattens(f, s)
  PROVE  FlattenSeq(s) = f[Len(s)]
<1> DEFINE h == CHOOSE h : h = [i \in 1 .. Len(s) |-> IF i = 1 THEN s[i] ELSE h[i - 1] \o s[i]]
<1>1. h = [i \in 1 .. Len(s) |-> IF i = 1 THEN s[i] ELSE h[i - 1] \o s[i]] BY Zenon DEF Flattens
<1>2. Len(s) \in Nat /\ Len(s) # 0 OBVIOUS
<1>3. FlattenSeq(s) = h[Len(s)] BY <1>2 DEF FlattenSeq
<1> HIDE DEF h
<1>4. Flattens(h, s) BY <1>1, Zenon DEF Flattens
<1>5. Len(s) <= Len(s) /\ \A i \in 1 .. Len(s) : s[i] = s[i] BY <1>2
<1>6. h[Len(s)] = f[Len(s)] BY <1>4, <1>5, FlattenedAlike
<1>. QED BY <1>3, <1>6

(* A flattened sequence, one piece at a time.                              *)
LEMMA FlattenEmpty == FlattenSeq(<<>>) = <<>>
BY DEF FlattenSeq

LEMMA FlattenTyped ==
  ASSUME NEW A, NEW s \in Seq(Seq(A))
  PROVE  FlattenSeq(s) \in Seq(A)
<1>1. CASE s = <<>> BY <1>1, FlattenEmpty, EmptySeq
<1>2. CASE s # <<>>
  <2>1. PICK f : Flattens(f, s) /\ f \in [1 .. Len(s) -> Seq(A)] BY Flattened
  <2>2. FlattenSeq(s) = f[Len(s)] BY <1>2, <2>1, FlattenSeqIs
  <2>3. Len(s) \in 1 .. Len(s) BY <1>2
  <2>. QED BY <2>1, <2>2, <2>3
<1>. QED BY <1>1, <1>2

LEMMA FlattenLonger ==
  ASSUME NEW A, NEW s \in Seq(Seq(A)), NEW t \in Seq(Seq(A)),
         Len(t) = Len(s) + 1, \A i \in 1 .. Len(s) : s[i] = t[i]
  PROVE  FlattenSeq(t) = FlattenSeq(s) \o t[Len(t)]
<1>1. Len(s) \in Nat /\ t # <<>> /\ t[Len(t)] \in Seq(A)
  <2>1. Len(s) \in Nat /\ Len(t) \in 1 .. Len(t) BY LenProperties
  <2>2. t # <<>> BY <2>1
  <2>. QED BY <2>1, <2>2, ElementOfSeq
<1>2. PICK g : Flattens(g, t) /\ g \in [1 .. Len(t) -> Seq(A)] BY Flattened
<1>3. FlattenSeq(t) = g[Len(t)] BY <1>1, <1>2, FlattenSeqIs
<1>4. g[Len(t)] = IF Len(t) = 1 THEN t[Len(t)] ELSE g[Len(t) - 1] \o t[Len(t)]
  <2>1. Len(t) \in 1 .. Len(t) BY <1>1
  <2>. QED BY <1>2, <2>1, FlattensAt
<1>5. CASE s = <<>>
  <2>1. Len(t) = 1 BY <1>5
  <2>2. FlattenSeq(t) = t[Len(t)] BY <1>3, <1>4, <2>1
  <2>3. <<>> \o t[Len(t)] = t[Len(t)] BY <1>1, ConcatEmptySeq
  <2>. QED BY <1>5, <2>2, <2>3, FlattenEmpty
<1>6. CASE s # <<>>
  <2>1. PICK f : Flattens(f, s) /\ f \in [1 .. Len(s) -> Seq(A)] BY Flattened
  <2>2. FlattenSeq(s) = f[Len(s)] BY <1>6, <2>1, FlattenSeqIs
  <2>3. Len(s) \in 1 .. Len(s) /\ Len(s) <= Len(t) BY <1>1, <1>6
  <2>4. f[Len(s)] = g[Len(s)]
    <3>1. Flattens(f, s) /\ Flattens(g, t) BY <1>2, <2>1
    <3>. QED BY <1>6, <2>3, <3>1, FlattenedAlike
  <2>5. Len(t) # 1 /\ Len(t) - 1 = Len(s) BY <1>1, <1>6
  <2>. QED BY <1>3, <1>4, <2>2, <2>4, <2>5
<1>. QED BY <1>5, <1>6

LEMMA FlattenAppend ==
  ASSUME NEW A, NEW s \in Seq(Seq(A)), NEW x \in Seq(A)
  PROVE  FlattenSeq(Append(s, x)) = FlattenSeq(s) \o x
<1>1. /\ Append(s, x) \in Seq(Seq(A)) /\ Len(Append(s, x)) = Len(s) + 1
      /\ Append(s, x)[Len(s) + 1] = x /\ \A i \in 1 .. Len(s) : s[i] = Append(s, x)[i]
  BY AppendProperties
<1>. QED BY <1>1, FlattenLonger

LEMMA Regroup ==
  ASSUME NEW A
  PROVE  \A a, b, c \in Seq(A) : (a \o b) \o c = a \o (b \o c)
BY ConcatAssociative

LEMMA FlattenConcat ==
  ASSUME NEW A, NEW s \in Seq(Seq(A)), NEW t \in Seq(Seq(A))
  PROVE  FlattenSeq(s \o t) = FlattenSeq(s) \o FlattenSeq(t)
<1> DEFINE T == {n \in Nat : \A u \in Seq(Seq(A)) :
                   Len(u) = n => FlattenSeq(s \o u) = FlattenSeq(s) \o FlattenSeq(u)}
<1>1. 0 \in T
  <2>1. ASSUME NEW u \in Seq(Seq(A)), Len(u) = 0
        PROVE  FlattenSeq(s \o u) = FlattenSeq(s) \o FlattenSeq(u)
    <3>1. u = <<>> /\ s \o u = s BY <2>1
    <3>2. FlattenSeq(s) \in Seq(A) BY FlattenTyped
    <3>. QED BY <3>1, <3>2, FlattenEmpty
  <2>. QED BY <2>1
<1>2. ASSUME NEW n \in T PROVE n + 1 \in T
  <2>1. ASSUME NEW u \in Seq(Seq(A)), Len(u) = n + 1
        PROVE  FlattenSeq(s \o u) = FlattenSeq(s) \o FlattenSeq(u)
    <3> DEFINE v == [i \in 1 .. n |-> u[i]]
               x == u[n + 1]
    <3>1. n \in Nat /\ v \in Seq(Seq(A)) /\ Len(v) = n /\ x \in Seq(A) /\ u = Append(v, x) BY <2>1
    <3>2. FlattenSeq(s \o v) = FlattenSeq(s) \o FlattenSeq(v) BY <3>1
    <3> HIDE DEF T, v, x
    <3>3. s \o u = Append(s \o v, x) /\ s \o v \in Seq(Seq(A)) BY <3>1
    <3>4. FlattenSeq(s \o u) = FlattenSeq(s \o v) \o x BY <3>1, <3>3, FlattenAppend
    <3>5. FlattenSeq(u) = FlattenSeq(v) \o x BY <3>1, FlattenAppend
    <3>6. FlattenSeq(s) \in Seq(A) /\ FlattenSeq(v) \in Seq(A) BY <3>1, FlattenTyped
    <3>7. \A a, b, c \in Seq(A) : (a \o b) \o c = a \o (b \o c) BY Regroup
    <3>8. (FlattenSeq(s) \o FlattenSeq(v)) \o x = FlattenSeq(s) \o (FlattenSeq(v) \o x)
      BY <3>1, <3>6, <3>7, Zenon
    <3>. QED BY <3>2, <3>4, <3>5, <3>8
  <2>2. n \in Nat OBVIOUS
  <2>. QED BY <2>1, <2>2
<1> HIDE DEF T
<1>3. T \in SUBSET Nat BY DEF T
<1>4. T = Nat BY <1>1, <1>2, <1>3, AllNumbers
<1>5. Len(t) \in Nat OBVIOUS
<1>. QED BY <1>4, <1>5, Zenon DEF T

LEMMA FlattenOne ==
  ASSUME NEW A, NEW x \in Seq(A)
  PROVE  FlattenSeq(<<x>>) = x
<1>1. <<>> \in Seq(Seq(A)) /\ Append(<<>>, x) = <<x>> OBVIOUS
<1>2. FlattenSeq(Append(<<>>, x)) = FlattenSeq(<<>>) \o x BY <1>1, FlattenAppend
<1>. QED BY <1>1, <1>2, FlattenEmpty, ConcatEmptySeq

(* What precedes an element, the element, what follows it.                 *)
LEMMA FlattenAt ==
  ASSUME NEW A, NEW s \in Seq(Seq(A)), NEW k \in 1 .. Len(s)
  PROVE  FlattenSeq(s) =
           (FlattenSeq(SubSeq(s, 1, k - 1)) \o s[k]) \o FlattenSeq(SubSeq(s, k + 1, Len(s)))
<1>1. Len(s) \in Nat /\ k \in Nat /\ s[k] \in Seq(A) BY LenProperties, ElementOfSeq
<1>2. SubSeq(s, 1, k - 1) \in Seq(Seq(A)) /\ SubSeq(s, k + 1, Len(s)) \in Seq(Seq(A)) BY <1>1
<1>3. SubSeq(s, 1, k - 1) \o SubSeq(s, k, k) = SubSeq(s, 1, k)
  <2>1. 1 \in 1 .. Len(s) + 1 /\ k - 1 \in 1 - 1 .. Len(s) /\ k \in k - 1 .. Len(s) /\ (k - 1) + 1 = k BY <1>1
  <2>2. SubSeq(s, 1, k - 1) \o SubSeq(s, (k - 1) + 1, k) = SubSeq(s, 1, k)
    BY ONLY <2>1, s \in Seq(Seq(A)), ConcatAdjacentSubSeq
  <2>. QED BY <2>1, <2>2
<1>4. SubSeq(s, k, k) = <<s[k]>>
  <2>1. k \in 1 .. Len(s) /\ k \in k .. Len(s) BY <1>1
  <2>2. SubSeq(s, k, k) = <<s[k]>> \o SubSeq(s, k + 1, k)
    BY ONLY <2>1, s \in Seq(Seq(A)), SubSeqRecursiveFirst
  <2>3. SubSeq(s, k + 1, k) = <<>> BY <1>1, SubSeqEmpty
  <2>4. <<s[k]>> \in Seq(Seq(A)) BY <1>1
  <2>. QED BY <2>2, <2>3, <2>4, ConcatEmptySeq
<1>5. SubSeq(s, 1, k) \o SubSeq(s, k + 1, Len(s)) = s
  <2>1. 1 \in 1 .. Len(s) + 1 /\ k \in 1 - 1 .. Len(s) /\ Len(s) \in k .. Len(s) BY <1>1
  <2>2. SubSeq(s, 1, k) \o SubSeq(s, k + 1, Len(s)) = SubSeq(s, 1, Len(s))
    BY ONLY <2>1, s \in Seq(Seq(A)), ConcatAdjacentSubSeq
  <2>. QED BY <2>2, SubSeqFull
<1>6. <<s[k]>> \in Seq(Seq(A)) BY <1>1
<1>7. FlattenSeq(SubSeq(s, 1, k)) = FlattenSeq(SubSeq(s, 1, k - 1)) \o s[k]
  <2>1. FlattenSeq(SubSeq(s, 1, k - 1) \o <<s[k]>>) = FlattenSeq(SubSeq(s, 1, k - 1)) \o FlattenSeq(<<s[k]>>)
    BY <1>2, <1>6, FlattenConcat
  <2>2. FlattenSeq(<<s[k]>>) = s[k] BY <1>1, FlattenOne
  <2>. QED BY <1>3, <1>4, <2>1, <2>2
<1>8. SubSeq(s, 1, k) \in Seq(Seq(A)) BY <1>1
<1>9. FlattenSeq(s) = FlattenSeq(SubSeq(s, 1, k)) \o FlattenSeq(SubSeq(s, k + 1, Len(s)))
  BY <1>2, <1>5, <1>8, FlattenConcat
<1>. QED BY <1>7, <1>9

(* It has the elements of its pieces.                                      *)
LEMMA FlattenElements ==
  ASSUME NEW A, NEW s \in Seq(Seq(A))
  PROVE  ToSet(FlattenSeq(s)) = UNION {ToSet(s[k]) : k \in 1 .. Len(s)}
<1> DEFINE T == {n \in Nat : \A u \in Seq(Seq(A)) : Len(u) = n =>
                   \A x : x \in ToSet(FlattenSeq(u)) <=> \E k \in 1 .. Len(u) : x \in ToSet(u[k])}
<1>1. 0 \in T
  <2>1. ASSUME NEW u \in Seq(Seq(A)), Len(u) = 0, NEW x
        PROVE  x \in ToSet(FlattenSeq(u)) <=> \E k \in 1 .. Len(u) : x \in ToSet(u[k])
    <3>1. u = <<>> /\ ToSet(<<>>) = {} BY <2>1 DEF ToSet
    <3>. QED BY <2>1, <3>1, FlattenEmpty
  <2>. QED BY <2>1
<1>2. ASSUME NEW n \in T PROVE n + 1 \in T
  <2>1. ASSUME NEW u \in Seq(Seq(A)), Len(u) = n + 1, NEW x
        PROVE  x \in ToSet(FlattenSeq(u)) <=> \E k \in 1 .. Len(u) : x \in ToSet(u[k])
    <3> DEFINE v == [i \in 1 .. n |-> u[i]]
    <3>1. /\ n \in Nat /\ v \in Seq(Seq(A)) /\ Len(v) = n /\ u[n + 1] \in Seq(A)
          /\ \A i \in 1 .. n : v[i] = u[i]
      BY <2>1
    <3>2. x \in ToSet(FlattenSeq(v)) <=> \E k \in 1 .. Len(v) : x \in ToSet(v[k]) BY <3>1
    <3> HIDE DEF T, v
    <3>3. FlattenSeq(u) = FlattenSeq(v) \o u[n + 1]
      <4>1. Len(u) = Len(v) + 1 /\ \A i \in 1 .. Len(v) : v[i] = u[i] BY <2>1, <3>1
      <4>2. FlattenSeq(u) = FlattenSeq(v) \o u[Len(u)] BY <3>1, <4>1, FlattenLonger
      <4>. QED BY <2>1, <4>2
    <3>4. FlattenSeq(v) \in Seq(A) BY <3>1, FlattenTyped
    <3>5. ASSUME NEW a \in Seq(A), NEW b \in Seq(A)
          PROVE  x \in ToSet(a \o b) <=> x \in ToSet(a) \/ x \in ToSet(b)
      <4>1. /\ Len(a \o b) = Len(a) + Len(b) /\ Len(a) \in Nat /\ Len(b) \in Nat /\ a \o b \in Seq(A)
            /\ \A i \in 1 .. Len(a) + Len(b) : (a \o b)[i] = IF i <= Len(a) THEN a[i] ELSE b[i - Len(a)]
        BY ConcatProperties
      <4>2. ASSUME NEW i \in 1 .. Len(a \o b), x = (a \o b)[i] PROVE x \in ToSet(a) \/ x \in ToSet(b)
        <5>1. CASE i <= Len(a)
          <6>1. i \in 1 .. Len(a) /\ x = a[i] BY <4>1, <4>2, <5>1
          <6>. QED BY <6>1 DEF ToSet
        <5>2. CASE ~ (i <= Len(a))
          <6>1. i - Len(a) \in 1 .. Len(b) /\ x = b[i - Len(a)] BY <4>1, <4>2, <5>2
          <6>. QED BY <6>1 DEF ToSet
        <5>. QED BY <5>1, <5>2
      <4>3. ASSUME NEW i \in 1 .. Len(a), x = a[i] PROVE x \in ToSet(a \o b)
        <5>1. i \in 1 .. Len(a \o b) /\ x = (a \o b)[i] BY <4>1, <4>3
        <5>. QED BY <4>1, <5>1 DEF ToSet
      <4>4. ASSUME NEW i \in 1 .. Len(b), x = b[i] PROVE x \in ToSet(a \o b)
        <5>1. Len(a) + i \in 1 .. Len(a \o b) /\ x = (a \o b)[Len(a) + i] BY <4>1, <4>4
        <5>2. DOMAIN (a \o b) = 1 .. Len(a \o b) BY <4>1
        <5>. QED BY <5>1, <5>2, Zenon DEF ToSet
      <4>5. x \in ToSet(a \o b) => x \in ToSet(a) \/ x \in ToSet(b)
        <5>1. DOMAIN (a \o b) = 1 .. Len(a \o b) BY <4>1
        <5>. QED BY <4>2, <5>1, Zenon DEF ToSet
      <4>6. (x \in ToSet(a) \/ x \in ToSet(b)) => x \in ToSet(a \o b)
        <5>1. DOMAIN a = 1 .. Len(a) /\ DOMAIN b = 1 .. Len(b) OBVIOUS
        <5>. QED BY <4>3, <4>4, <5>1, Zenon DEF ToSet
      <4>. QED BY <4>5, <4>6
    <3>6. x \in ToSet(FlattenSeq(u)) <=> x \in ToSet(FlattenSeq(v)) \/ x \in ToSet(u[n + 1])
      BY <3>1, <3>3, <3>4, <3>5
    <3>7. (\E k \in 1 .. Len(u) : x \in ToSet(u[k])) <=>
          (\E k \in 1 .. Len(v) : x \in ToSet(v[k])) \/ x \in ToSet(u[n + 1])
      <4>1. \A k : k \in 1 .. Len(u) <=> k \in 1 .. Len(v) \/ k = n + 1 BY <2>1, <3>1
      <4>2. \A k \in 1 .. Len(v) : v[k] = u[k] BY <3>1
      <4>. QED BY <4>1, <4>2, Zenon
    <3>. QED BY <3>2, <3>6, <3>7
  <2>2. n \in Nat OBVIOUS
  <2>. QED BY <2>1, <2>2
<1> HIDE DEF T
<1>3. T \in SUBSET Nat BY DEF T
<1>4. T = Nat BY <1>1, <1>2, <1>3, AllNumbers
<1>5. Len(s) \in Nat OBVIOUS
<1>6. \A x : x \in ToSet(FlattenSeq(s)) <=> \E k \in 1 .. Len(s) : x \in ToSet(s[k])
  BY <1>4, <1>5, Zenon DEF T
<1>. QED BY <1>6, Zenon

(* The middle of three sequences put together.                             *)
LEMMA MiddleOf ==
  ASSUME NEW A, NEW a \in Seq(A), NEW b \in Seq(A), NEW c \in Seq(A)
  PROVE  SubSeq((a \o b) \o c, Len(a) + 1, Len(a) + Len(b)) = b
<1> DEFINE s == (a \o b) \o c
<1>1. Len(a) \in Nat /\ Len(b) \in Nat /\ Len(c) \in Nat /\ a \o b \in Seq(A) /\ Len(a \o b) = Len(a) + Len(b)
  BY LenProperties, ConcatProperties
<1>2. /\ s \in Seq(A) /\ Len(s) = Len(a) + Len(b) + Len(c)
      /\ \A i \in 1 .. Len(a) + Len(b) : s[i] = (a \o b)[i]
  <2>1. /\ s \in Seq(A) /\ Len(s) = Len(a \o b) + Len(c)
        /\ \A i \in 1 .. Len(a \o b) + Len(c) :
             s[i] = IF i <= Len(a \o b) THEN (a \o b)[i] ELSE c[i - Len(a \o b)]
    BY <1>1, ConcatProperties
  <2> HIDE DEF s
  <2>. QED BY <1>1, <2>1
<1>3. \A i \in 1 .. Len(b) : (a \o b)[Len(a) + i] = b[i] BY <1>1, ConcatProperties
<1>4. PICK t : t = s OBVIOUS
<1>5. PICK m \in Int : m = Len(a) + 1 BY <1>1
<1>6. PICK n \in Int : n = Len(a) + Len(b) BY <1>1
<1> HIDE DEF s
<1>7. \A i \in m .. n : t[i] \in A BY <1>1, <1>2, <1>4, <1>5, <1>6, ElementOfSeq
<1>8. /\ SubSeq(t, m, n) \in Seq(A) /\ Len(SubSeq(t, m, n)) = IF m <= n THEN n - m + 1 ELSE 0
      /\ \A i \in 1 .. n - m + 1 : SubSeq(t, m, n)[i] = t[m + i - 1]
  BY <1>7, SubSeqProperties
<1>9. Len(SubSeq(t, m, n)) = Len(b) BY <1>1, <1>5, <1>6, <1>8
<1>10. ASSUME NEW i \in 1 .. Len(b) PROVE SubSeq(t, m, n)[i] = b[i]
  <2>1. i \in 1 .. n - m + 1 /\ m + i - 1 = Len(a) + i /\ Len(a) + i \in 1 .. Len(a) + Len(b)
    BY <1>1, <1>5, <1>6
  <2>. QED BY <1>2, <1>3, <1>4, <1>8, <2>1
<1>11. SubSeq(t, m, n) = b BY <1>8, <1>9, <1>10, SeqEqual
<1>. QED BY <1>4, <1>5, <1>6, <1>11 DEF s
===============================================================================
