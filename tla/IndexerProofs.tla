----------------------------- MODULE IndexerProofs -----------------------------
(***************************************************************************)
(* Theorems about Indexer, for all files, ignore rules, limits and numbers *)
(* of processes, and their proofs.                                         *)
(***************************************************************************)
EXTENDS Indexer, DataLemmas

-----------------------------------------------------------------------------
(* The numbers of a finite set, least first, and what stands at them.      *)

(* Every element of a finite set of numbers has its place in InOrder. *)
LEMMA InOrderHasAll ==
  ASSUME NEW S \in SUBSET Nat, IsFiniteSet(S)
  PROVE  /\ Cardinality(S) \in Nat /\ InOrder(S) \in [1 .. Cardinality(S) -> S]
         /\ \A n \in S : \E k \in 1 .. Cardinality(S) : InOrder(S)[k] = n
<1> DEFINE c == Cardinality(S)
           rank(n) == Cardinality({m \in S : m < n})
<1>1. PICK R : \A m, n \in S : <<m, n>> \in R <=> m < n
  <2> DEFINE Q == {q \in S \X S : q[1] < q[2]}
  <2>1. \A m, n : <<m, n>> \in Q <=> <<m, n>> \in S \X S /\ m < n OBVIOUS
  <2> HIDE DEF Q
  <2>. QED BY <2>1
<1>2. \A n \in S : rank(n) = Rank(S, R, n)
  <2>1. ASSUME NEW n \in S PROVE {m \in S : m < n} = {m \in S : <<m, n>> \in R}
    BY <1>1
  <2>. QED BY <2>1 DEF Rank
<1>3. /\ \A n \in S : <<n, n>> \notin R
      /\ \A l, m, n \in S : <<l, m>> \in R /\ <<m, n>> \in R => <<l, n>> \in R
      /\ \A m, n \in S : m = n \/ <<m, n>> \in R \/ <<n, m>> \in R
  <2>1. \A l, m, n \in S : l < m /\ m < n => l < n OBVIOUS
  <2>2. \A m, n \in S : m = n \/ m < n \/ n < m OBVIOUS
  <2>3. \A n \in S : ~ (n < n) OBVIOUS
  <2>. QED BY <1>1, <2>1, <2>2, <2>3, Zenon
<1>4. /\ c \in Nat
      /\ \A n \in S : Rank(S, R, n) \in 0 .. c - 1
      /\ \A m, n \in S : Rank(S, R, m) = Rank(S, R, n) => m = n
      /\ \A k \in 0 .. c - 1 : \E n \in S : Rank(S, R, n) = k
  <2>1. \A n \in S : <<n, n>> \notin R BY <1>3
  <2>2. \A l, m, n \in S : <<l, m>> \in R /\ <<m, n>> \in R => <<l, n>> \in R BY <1>3
  <2>3. \A m, n \in S : m = n \/ <<m, n>> \in R \/ <<n, m>> \in R BY <1>3
  <2>4. c \in Nat /\ \A n \in S : Rank(S, R, n) \in Below(c) BY <2>1, <2>2, <2>3, Ranks
  <2>5. \A m, n \in S : Rank(S, R, m) = Rank(S, R, n) => m = n BY <2>1, <2>2, <2>3, Ranks
  <2>6. RankSet(S, R) = Below(c) BY <2>1, <2>2, <2>3, Ranks
  <2> HIDE DEF c
  <2>. QED BY <2>4, <2>5, <2>6 DEF Below, RankSet
<1> HIDE DEF c
<1>5. InOrder(S) = [k \in 1 .. c |-> CHOOSE n \in S : rank(n) = k - 1] BY DEF InOrder, c
<1>6. ASSUME NEW k \in 1 .. c
      PROVE  InOrder(S)[k] \in S /\ rank(InOrder(S)[k]) = k - 1
  <2>1. InOrder(S)[k] = CHOOSE n \in S : rank(n) = k - 1 BY <1>5
  <2>2. k - 1 \in 0 .. c - 1 BY <1>4
  <2>3. \E n \in S : rank(n) = k - 1 BY <1>2, <1>4, <2>2
  <2> HIDE DEF rank
  <2>. QED BY <2>1, <2>3
<1>7. ASSUME NEW n \in S PROVE \E k \in 1 .. c : InOrder(S)[k] = n
  <2>1. rank(n) \in 0 .. c - 1 BY <1>2, <1>4
  <2>2. PICK k \in 1 .. c : k - 1 = rank(n)
    <3>1. rank(n) + 1 \in 1 .. c /\ (rank(n) + 1) - 1 = rank(n) BY <1>4, <2>1
    <3>. QED BY <3>1
  <2>3. InOrder(S)[k] \in S /\ rank(InOrder(S)[k]) = rank(n) BY <1>6, <2>2
  <2> HIDE DEF rank
  <2>. QED BY <1>2, <1>4, <2>3
<1>8. InOrder(S) \in [1 .. c -> S]
  <2>1. InOrder(S) = [k \in 1 .. c |-> InOrder(S)[k]] BY <1>5
  <2>. QED BY <1>6, <2>1
<1>. QED BY <1>4, <1>7, <1>8 DEF c

(* Kept keeps the elements at those numbers, and only them. *)
LEMMA KeptHasAll ==
  ASSUME NEW A, NEW s \in Seq(A), NEW S \in SUBSET (1 .. Len(s))
  PROVE  /\ Kept(s, S) \in Seq(A)
         /\ \A k \in 1 .. Len(Kept(s, S)) : \E n \in S : Kept(s, S)[k] = s[n]
         /\ \A n \in S : \E k \in 1 .. Len(Kept(s, S)) : Kept(s, S)[k] = s[n]
<1>1. IsFiniteSet(S) /\ S \in SUBSET Nat
  <2>1. IsFiniteSet(1 .. Len(s)) /\ 1 .. Len(s) \subseteq Nat BY Intervals, LenProperties
  <2>2. IsFiniteSet(S) BY ONLY <2>1, S \in SUBSET (1 .. Len(s)), FS_Subset
  <2>. QED BY <2>1, <2>2
<1> DEFINE c == Cardinality(S)
           f == InOrder(S)
<1>2. c \in Nat /\ f \in [1 .. c -> S] /\ \A n \in S : \E k \in 1 .. c : f[k] = n
  BY <1>1, InOrderHasAll
<1>3. Kept(s, S) = [k \in 1 .. c |-> s[f[k]]] BY DEF Kept
<1> HIDE DEF c, f
<1>4. \A n \in S : s[n] \in A BY ElementOfSeq
<1>5. \A k \in 1 .. c : f[k] \in S /\ s[f[k]] \in A BY <1>2, <1>4
<1>6. Kept(s, S) \in Seq(A) /\ Len(Kept(s, S)) = c BY <1>2, <1>3, <1>5
<1>7. \A k \in 1 .. c : Kept(s, S)[k] = s[f[k]] BY <1>3
<1>8. \A k \in 1 .. c : \E n \in S : Kept(s, S)[k] = s[n] BY <1>5, <1>7
<1>9. \A n \in S : \E k \in 1 .. c : Kept(s, S)[k] = s[n]
  <2>1. ASSUME NEW n \in S PROVE \E k \in 1 .. c : Kept(s, S)[k] = s[n]
    <3>1. PICK k \in 1 .. c : f[k] = n BY <1>2
    <3>. QED BY <1>7, <3>1
  <2>. QED BY <2>1
<1>. QED BY <1>6, <1>8, <1>9


-----------------------------------------------------------------------------
(* Pieces: the recursion has a solution, and flattened it is the sequence. *)

CutAt(h, s, end, i) ==
  h[i] = IF i > Len(s) THEN <<>> ELSE <<SubSeq(s, i, end[i])>> \o h[end[i] + 1]

(* The lines of a piece, and the next cut: a piece ends where it must. *)
LEMMA PieceIs ==
  ASSUME NEW A, NEW s \in Seq(A), NEW i \in 1 .. Len(s), NEW e \in i .. Len(s)
  PROVE  SubSeq(s, i, e) \in Seq(A) /\ SubSeq(s, i, e) \o SubSeq(s, e + 1, Len(s)) = SubSeq(s, i, Len(s))
<1>1. Len(s) \in Nat BY LenProperties
<1>2. SubSeq(s, i, e) \in Seq(A)
  <2>1. i \in Int /\ e \in Int /\ \A k \in i .. e : s[k] \in A BY <1>1, ElementOfSeq
  <2>. QED BY <2>1, SubSeqProperties
<1>3. i \in 1 .. Len(s) + 1 /\ e \in i - 1 .. Len(s) /\ Len(s) \in e .. Len(s) BY <1>1
<1>4. SubSeq(s, i, e) \o SubSeq(s, e + 1, Len(s)) = SubSeq(s, i, Len(s))
  BY ONLY <1>3, s \in Seq(A), ConcatAdjacentSubSeq
<1>. QED BY <1>2, <1>4

(* The recursion of Pieces has a solution, worked out from the end.        *)
LEMMA CutsExist ==
  ASSUME NEW A, NEW s \in Seq(A), NEW end \in [1 .. Len(s) -> 1 .. Len(s)],
         \A i \in 1 .. Len(s) : i <= end[i]
  PROVE  \E h : DOMAIN h = 1 .. Len(s) + 1 /\ h = [i \in 1 .. Len(s) + 1 |-> h[i]]
                /\ \A i \in 1 .. Len(s) + 1 : CutAt(h, s, end, i)
<1>0. PICK L \in Nat : L = Len(s) BY LenProperties
<1> DEFINE Is(h, n) == /\ h = [i \in L + 1 - n .. L + 1 |-> h[i]]
                       /\ \A i \in L + 1 - n .. L + 1 : CutAt(h, s, end, i)
           T == {n \in Nat : n <= L => \E h : Is(h, n)}
<1>1. 0 \in T
  <2> DEFINE h == [i \in L + 1 - 0 .. L + 1 |-> <<>>]
  <2>1. h = [i \in L + 1 - 0 .. L + 1 |-> h[i]] OBVIOUS
  <2>2. ASSUME NEW i \in L + 1 - 0 .. L + 1 PROVE h[i] = <<>> /\ i > Len(s) BY <1>0
  <2> HIDE DEF h
  <2>3. Is(h, 0) BY <2>1, <2>2 DEF CutAt
  <2>. QED BY <2>3
<1>2. ASSUME NEW n \in T PROVE n + 1 \in T
  <2>1. ASSUME n + 1 <= L PROVE \E g : Is(g, n + 1)
    <3>1. n \in Nat /\ n <= L BY <2>1
    <3>2. PICK h : Is(h, n) BY <3>1
    <3>3. PICK j \in 1 .. L : j = L - n BY <2>1, <3>1
    <3> DEFINE first == <<SubSeq(s, j, end[j])>> \o h[end[j] + 1]
               g == [i \in L + 1 - (n + 1) .. L + 1 |-> IF i = j THEN first ELSE h[i]]
    <3> HIDE DEF T
    <3>4. g = [i \in L + 1 - (n + 1) .. L + 1 |-> g[i]] OBVIOUS
    <3>5. \A i \in L + 1 - (n + 1) .. L + 1 : g[i] = IF i = j THEN first ELSE h[i] OBVIOUS
    <3> HIDE DEF g
    <3>6. ASSUME NEW i \in L + 1 - (n + 1) .. L + 1 PROVE CutAt(g, s, end, i)
      <4>1. CASE i = j
        <5>1. end[j] \in 1 .. L /\ j <= end[j] BY <1>0
        <5>2. end[j] + 1 \in L + 1 - (n + 1) .. L + 1 /\ end[j] + 1 # j BY <3>1, <3>3, <5>1
        <5>3. g[end[j] + 1] = h[end[j] + 1] BY <3>5, <5>2
        <5>4. g[j] = first BY <3>5, <4>1
        <5>5. ~ (j > Len(s)) BY <1>0
        <5>. QED BY <4>1, <5>3, <5>4, <5>5 DEF CutAt
      <4>2. CASE i # j
        <5>1. i \in L + 1 - n .. L + 1 BY <3>1, <3>3, <4>2
        <5>2. h[i] = IF i > Len(s) THEN <<>> ELSE <<SubSeq(s, i, end[i])>> \o h[end[i] + 1]
          BY <3>2, <5>1 DEF CutAt
        <5>3. g[i] = h[i] BY <3>5, <4>2
        <5>4. CASE i > Len(s) BY <5>2, <5>3, <5>4 DEF CutAt
        <5>5. CASE ~ (i > Len(s))
          <6>1. i \in 1 .. L /\ i > j BY <1>0, <3>1, <3>3, <5>1, <5>5
          <6>2. end[i] \in 1 .. L /\ i <= end[i] BY <1>0, <6>1
          <6>3. end[i] + 1 \in L + 1 - (n + 1) .. L + 1 /\ end[i] + 1 # j BY <3>1, <3>3, <6>1, <6>2
          <6>4. g[end[i] + 1] = h[end[i] + 1] BY <3>5, <6>3
          <6>. QED BY <5>2, <5>3, <5>5, <6>4 DEF CutAt
        <5>. QED BY <5>4, <5>5
      <4>. QED BY <4>1, <4>2
    <3>. QED BY <3>4, <3>6
  <2>2. n \in Nat OBVIOUS
  <2> HIDE DEF Is
  <2>. QED BY <2>1, <2>2
<1> HIDE DEF T
<1>3. T \in SUBSET Nat BY DEF T
<1>4. T = Nat BY <1>1, <1>2, <1>3, AllNumbers
<1>5. PICK h : Is(h, L)
  <2>1. L \in T BY <1>4
  <2> HIDE DEF Is
  <2>. QED BY <2>1 DEF T
<1>6. L + 1 - L = 1 OBVIOUS
<1>7. h = [i \in 1 .. L + 1 |-> h[i]] /\ \A i \in 1 .. L + 1 : CutAt(h, s, end, i) BY <1>5, <1>6
<1>8. DOMAIN h = 1 .. L + 1 BY <1>7
<1>. QED BY <1>0, <1>7, <1>8

(* The cuts cover the sequence, one after the other and without gaps. *)
LEMMA CutsAre ==
  ASSUME NEW A, NEW s \in Seq(A), NEW end \in [1 .. Len(s) -> 1 .. Len(s)],
         \A i \in 1 .. Len(s) : i <= end[i],
         NEW h, \A i \in 1 .. Len(s) + 1 : CutAt(h, s, end, i)
  PROVE  h[1] \in Seq(Seq(A)) /\ FlattenSeq(h[1]) = s
<1>0. PICK L \in Nat : L = Len(s) BY LenProperties
<1> DEFINE Good(i) == h[i] \in Seq(Seq(A)) /\ FlattenSeq(h[i]) = SubSeq(s, i, L)
           T == {n \in Nat : \A i \in 1 .. L + 1 : L + 1 - n <= i => Good(i)}
<1>1. Good(L + 1)
  <2>1. L + 1 \in 1 .. Len(s) + 1 /\ L + 1 > Len(s) /\ L < L + 1 BY <1>0
  <2>2. h[L + 1] = <<>> BY <2>1 DEF CutAt
  <2>3. SubSeq(s, L + 1, L) = <<>> BY <2>1, SubSeqEmpty
  <2>. QED BY <2>2, <2>3, FlattenEmpty, EmptySeq
<1>2. 0 \in T BY <1>1
<1>3. ASSUME NEW n \in T PROVE n + 1 \in T
  <2>1. ASSUME NEW i \in 1 .. L + 1, L + 1 - (n + 1) <= i PROVE Good(i)
    <3>1. n \in Nat OBVIOUS
    <3>2. CASE L + 1 - n <= i BY <3>2
    <3>3. CASE ~ (L + 1 - n <= i)
      <4>1. i \in 1 .. L BY <3>1, <3>3
      <4>2. PICK e \in i .. L : e = end[i]
        <5>1. i \in 1 .. Len(s) BY <1>0, <4>1
        <5>2. i <= end[i] /\ end[i] \in 1 .. L BY <1>0, <5>1
        <5>. QED BY <5>2
      <4>3. e + 1 \in 1 .. L + 1 /\ L + 1 - n <= e + 1 BY <2>1, <3>1, <4>1, <4>2
      <4>4. Good(e + 1) BY <4>3
      <4>5. h[i] = <<SubSeq(s, i, e)>> \o h[e + 1]
        <5>1. i \in 1 .. Len(s) + 1 /\ ~ (i > Len(s)) BY <1>0, <4>1
        <5>. QED BY <4>2, <5>1 DEF CutAt
      <4> HIDE DEF T
      <4>6. SubSeq(s, i, e) \in Seq(A) /\ SubSeq(s, i, e) \o SubSeq(s, e + 1, L) = SubSeq(s, i, L)
        BY <1>0, <4>1, <4>2, PieceIs
      <4>7. PICK x : x = SubSeq(s, i, e) OBVIOUS
      <4>8. PICK t : t = h[e + 1] OBVIOUS
      <4>9. x \in Seq(A) /\ t \in Seq(Seq(A)) /\ FlattenSeq(t) = SubSeq(s, e + 1, L) BY <4>4, <4>6, <4>7, <4>8
      <4>10. <<x>> \in Seq(Seq(A)) BY <4>9
      <4>11. <<x>> \o t \in Seq(Seq(A)) BY <4>9, <4>10, ConcatProperties
      <4>12. FlattenSeq(<<x>> \o t) = x \o FlattenSeq(t)
        <5>1. FlattenSeq(<<x>> \o t) = FlattenSeq(<<x>>) \o FlattenSeq(t) BY <4>9, <4>10, FlattenConcat
        <5>2. FlattenSeq(<<x>>) = x BY <4>9, FlattenOne
        <5>. QED BY <5>1, <5>2
      <4>. QED BY <4>5, <4>6, <4>7, <4>8, <4>9, <4>11, <4>12
    <3>. QED BY <3>2, <3>3
  <2>2. n \in Nat OBVIOUS
  <2> HIDE DEF Good
  <2>. QED BY <2>1, <2>2
<1> HIDE DEF T
<1>4. T \in SUBSET Nat BY DEF T
<1>5. T = Nat BY <1>2, <1>3, <1>4, AllNumbers
<1>6. Good(1)
  <2>1. L \in T BY <1>5
  <2>2. 1 \in 1 .. L + 1 /\ L + 1 - L <= 1 OBVIOUS
  <2> HIDE DEF Good
  <2>. QED BY <2>1, <2>2 DEF T
<1>7. SubSeq(s, 1, L) = s BY <1>0, SubSeqFull
<1>. QED BY <1>6, <1>7

(* Pieces, laid one after the other, are the sequence that was cut. *)
LEMMA PiecesAre ==
  ASSUME NEW A, NEW s \in Seq(A), NEW end \in [1 .. Len(s) -> 1 .. Len(s)],
         \A i \in 1 .. Len(s) : i <= end[i]
  PROVE  Pieces(s, end) \in Seq(Seq(A)) /\ FlattenSeq(Pieces(s, end)) = s
<1> DEFINE h == CHOOSE h : h = [i \in 1 .. Len(s) + 1 |->
                     IF i > Len(s) THEN <<>> ELSE <<SubSeq(s, i, end[i])>> \o h[end[i] + 1]]
<1>1. \E g : g = [i \in 1 .. Len(s) + 1 |->
                    IF i > Len(s) THEN <<>> ELSE <<SubSeq(s, i, end[i])>> \o g[end[i] + 1]]
  <2>1. PICK g : g = [i \in 1 .. Len(s) + 1 |-> g[i]] /\ \A i \in 1 .. Len(s) + 1 : CutAt(g, s, end, i)
    BY CutsExist
  <2>2. \A i \in 1 .. Len(s) + 1 :
          g[i] = IF i > Len(s) THEN <<>> ELSE <<SubSeq(s, i, end[i])>> \o g[end[i] + 1]
    BY <2>1, Zenon DEF CutAt
  <2>. QED BY <2>1, <2>2, Zenon
<1>2. h = [i \in 1 .. Len(s) + 1 |->
             IF i > Len(s) THEN <<>> ELSE <<SubSeq(s, i, end[i])>> \o h[end[i] + 1]]
  BY <1>1, Zenon
<1>3. Pieces(s, end) = h[1] BY Zenon DEF Pieces
<1>4. PICK f : f = h OBVIOUS
<1> HIDE DEF h
<1>5. \A i \in 1 .. Len(s) + 1 : CutAt(f, s, end, i) BY <1>2, <1>4, Zenon DEF CutAt
<1>6. f[1] \in Seq(Seq(A)) /\ FlattenSeq(f[1]) = s BY <1>5, CutsAre
<1>. QED BY <1>3, <1>4, <1>6

-----------------------------------------------------------------------------
(* What the embedder makes of texts.                                       *)

(* splitTextAtLines loses nothing: its pieces are the text. *)
LEMMA SplitTextIs ==
  ASSUME NEW A, NEW text \in Seq(A), NEW max \in Nat \ {0}
  PROVE  SplitTextAtLines(text, max) \in Seq(Seq(A)) /\ FlattenSeq(SplitTextAtLines(text, max)) = text
<1> DEFINE newlines(s) == {i \in s .. s + max - 1 : text[i] = Newline}
           cut(s) == IF newlines(s) = {} THEN s + max - 1
                     ELSE CHOOSE i \in newlines(s) : \A j \in newlines(s) : j <= i
           end == [s \in 1 .. Len(text) |-> IF Len(text) - s + 1 <= max THEN Len(text) ELSE cut(s)]
<1>0. Len(text) \in Nat BY LenProperties
<1>1. CASE Len(text) <= max
  <2>1. SplitTextAtLines(text, max) = <<text>> BY <1>1 DEF SplitTextAtLines
  <2>. QED BY <2>1, FlattenOne
<1>2. CASE ~ (Len(text) <= max)
  <2>1. SplitTextAtLines(text, max) = Pieces(text, end) BY <1>2 DEF SplitTextAtLines
  <2>2. ASSUME NEW s \in 1 .. Len(text), ~ (Len(text) - s + 1 <= max)
        PROVE  cut(s) \in s .. Len(text)
    <3>1. s + max - 1 \in s .. Len(text) BY <1>0, <2>2
    <3>2. CASE newlines(s) = {} BY <3>1, <3>2
    <3>3. CASE newlines(s) # {}
      <4>1. newlines(s) \in SUBSET Nat /\ s + max - 1 \in Nat /\ \A n \in newlines(s) : n <= s + max - 1
        BY <3>1
      <4>2. PICK S : S = newlines(s) OBVIOUS
      <4>3. \E n \in S : \A m \in S : m <= n
        <5>1. PICK b : b = s + max - 1 OBVIOUS
        <5>2. S \in SUBSET Nat /\ S # {} /\ b \in Nat /\ \A n \in S : n <= b BY <3>3, <4>1, <4>2, <5>1
        <5>. QED BY ONLY <5>2, GreatestNumber
      <4>4. cut(s) = CHOOSE i \in S : \A j \in S : j <= i BY <3>3, <4>2
      <4> HIDE DEF cut
      <4>5. cut(s) \in S BY <4>3, <4>4
      <4>6. cut(s) \in s .. s + max - 1 BY <4>2, <4>5
      <4>. QED BY <1>0, <3>1, <4>6
    <3>. QED BY <3>2, <3>3
  <2>3. ASSUME NEW s \in 1 .. Len(text) PROVE end[s] \in s .. Len(text)
    <3>1. end[s] = IF Len(text) - s + 1 <= max THEN Len(text) ELSE cut(s) OBVIOUS
    <3> HIDE DEF cut, end
    <3>. QED BY <1>0, <2>2, <3>1
  <2>4. end = [s \in 1 .. Len(text) |-> end[s]] OBVIOUS
  <2>5. PICK e : e = end OBVIOUS
  <2> HIDE DEF end, cut, newlines
  <2>6. \A s \in 1 .. Len(text) : e[s] \in 1 .. Len(text) /\ s <= e[s] BY <1>0, <2>3, <2>5
  <2>7. e \in [1 .. Len(text) -> 1 .. Len(text)] BY <2>4, <2>5, <2>6
  <2>8. Pieces(text, e) \in Seq(Seq(A)) /\ FlattenSeq(Pieces(text, e)) = text
    BY <2>6, <2>7, PiecesAre
  <2>. QED BY <2>1, <2>5, <2>8
<1>. QED BY <1>1, <1>2

(* buildEmbeddingRequests keeps every text, in order. *)
LEMMA RequestsAre ==
  ASSUME NEW A, NEW texts \in Seq(Seq(A)), NEW max
  PROVE  FlattenSeq(Requests(texts, max)) = texts
<1> DEFINE fits(s, e) == e = s \/ Len(FlattenSeq(SubSeq(texts, s, e))) <= max
           end(s) == CHOOSE e \in s .. Len(texts) : fits(s, e) /\ (e = Len(texts) \/ ~fits(s, e + 1))
           f == [s \in 1 .. Len(texts) |-> end(s)]
<1>0. Len(texts) \in Nat BY LenProperties
<1>1. Requests(texts, max) = Pieces(texts, f) BY DEF Requests
<1>2. ASSUME NEW s \in 1 .. Len(texts) PROVE end(s) \in s .. Len(texts)
  <2>1. PICK D : D = {e \in s .. Len(texts) : e = Len(texts) \/ ~fits(s, e + 1)} OBVIOUS
  <2>2. D \in SUBSET Nat /\ D # {} BY <1>0, <2>1
  <2>3. PICK e \in D : \A m \in D : e <= m BY <2>2, LeastNumber
  <2>4. fits(s, e)
    <3>1. CASE e = s BY <3>1
    <3>2. CASE e # s
      <4>1. e - 1 \in s .. Len(texts) /\ ~ (e <= e - 1) /\ (e - 1) + 1 = e /\ e - 1 # Len(texts)
        BY <1>0, <2>1, <3>2
      <4>2. e - 1 \notin D BY <2>3, <4>1
      <4> HIDE DEF fits
      <4>3. fits(s, (e - 1) + 1) BY <2>1, <4>1, <4>2
      <4>. QED BY <4>1, <4>3
    <3>. QED BY <3>1, <3>2
  <2> HIDE DEF fits
  <2>5. \E g \in s .. Len(texts) : fits(s, g) /\ (g = Len(texts) \/ ~fits(s, g + 1)) BY <2>1, <2>3, <2>4
  <2>. QED BY <2>5
<1>3. f = [s \in 1 .. Len(texts) |-> f[s]] /\ \A s \in 1 .. Len(texts) : f[s] = end(s) OBVIOUS
<1>4. PICK e : e = f OBVIOUS
<1> HIDE DEF f, end
<1>5. \A s \in 1 .. Len(texts) : e[s] \in 1 .. Len(texts) /\ s <= e[s] BY <1>0, <1>2, <1>3, <1>4
<1>6. e \in [1 .. Len(texts) -> 1 .. Len(texts)] BY <1>3, <1>4, <1>5
<1>7. FlattenSeq(Pieces(texts, e)) = texts BY <1>5, <1>6, PiecesAre
<1>. QED BY <1>1, <1>4, <1>7

(* A text's vector is made of its pieces.                                  *)
LEMMA VectorsAre ==
  ASSUME NEW A, NEW texts \in Seq(Seq(A)), NEW max \in Nat \ {0}, NEW k \in 1 .. Len(texts)
  PROVE  FlattenSeq(Vectors(texts, max)[k]) = texts[k]
<1>0. Len(texts) \in Nat BY LenProperties
<1>1. PICK q : q = [j \in 1 .. Len(texts) |-> SplitTextAtLines(texts[j], max)] OBVIOUS
<1>2. \A j \in 1 .. Len(texts) :
        SplitTextAtLines(texts[j], max) \in Seq(Seq(A)) /\ FlattenSeq(SplitTextAtLines(texts[j], max)) = texts[j]
  BY ElementOfSeq, SplitTextIs
<1>3. q \in Seq(Seq(Seq(A))) /\ Len(q) = Len(texts) BY <1>0, <1>1, <1>2
<1>4. Flat(texts, max) = FlattenSeq(q) BY <1>1 DEF Flat
<1>5. PICK before : before = SubSeq(q, 1, k - 1) OBVIOUS
<1>6. PICK after : after = SubSeq(q, k + 1, Len(q)) OBVIOUS
<1>7. before \in Seq(Seq(Seq(A))) /\ after \in Seq(Seq(Seq(A)))
  <2>1. \A j \in 1 .. Len(q) : q[j] \in Seq(Seq(A)) BY <1>3, ElementOfSeq
  <2>2. k - 1 \in Int /\ k + 1 \in Int /\ Len(q) \in Int /\ 1 \in Int BY <1>0, <1>3
  <2>3. (\A j \in 1 .. k - 1 : q[j] \in Seq(Seq(A))) /\ \A j \in k + 1 .. Len(q) : q[j] \in Seq(Seq(A))
    BY <1>0, <1>3, <2>1
  <2>. QED BY ONLY <1>5, <1>6, <2>2, <2>3, SubSeqProperties
<1>8. Flat(SubSeq(texts, 1, k - 1), max) = FlattenSeq(before)
  <2>1. PICK t : t = SubSeq(texts, 1, k - 1) OBVIOUS
  <2>2. Len(t) = k - 1 /\ \A j \in 1 .. k - 1 : t[j] = texts[j] BY <1>0, <2>1
  <2>3. before = [j \in 1 .. k - 1 |-> SplitTextAtLines(texts[j], max)]
    <3>1. before = [j \in 1 .. k - 1 |-> q[j]] BY <1>0, <1>3, <1>5
    <3>2. \A j \in 1 .. k - 1 : q[j] = SplitTextAtLines(texts[j], max) BY <1>0, <1>1
    <3>. QED BY <3>1, <3>2, Zenon
  <2>4. [j \in 1 .. Len(t) |-> SplitTextAtLines(t[j], max)] = before BY <2>2, <2>3, Zenon
  <2>. QED BY <2>1, <2>4 DEF Flat
<1>9. PICK a \in Seq(Seq(A)) : a = FlattenSeq(before) BY <1>7, FlattenTyped
<1>10. PICK c \in Seq(Seq(A)) : c = FlattenSeq(after) BY <1>7, FlattenTyped
<1>11. PICK b \in Seq(Seq(A)) : b = q[k] /\ b = SplitTextAtLines(texts[k], max) BY <1>1, <1>2
<1>12. FlattenSeq(q) = (a \o b) \o c
  <2>1. FlattenSeq(q) = (FlattenSeq(SubSeq(q, 1, k - 1)) \o q[k]) \o FlattenSeq(SubSeq(q, k + 1, Len(q)))
    <3>1. k \in 1 .. Len(q) BY <1>3
    <3>. QED BY ONLY <1>3, <3>1, FlattenAt
  <2>. QED BY <1>5, <1>6, <1>9, <1>10, <1>11, <2>1
<1>13. Flat(texts, max) \in Seq(Seq(A)) BY <1>3, <1>4, FlattenTyped
<1>14. FlattenSeq(Requests(Flat(texts, max), max)) = FlattenSeq(q) BY <1>4, <1>13, RequestsAre
<1>15. Vectors(texts, max)[k] = SubSeq(FlattenSeq(q), Len(a) + 1, Len(a) + Len(b))
  BY <1>8, <1>9, <1>11, <1>14 DEF Vectors
<1>16. Vectors(texts, max)[k] = b BY <1>12, <1>15, MiddleOf
<1>. QED BY <1>2, <1>11, <1>16

-----------------------------------------------------------------------------
(* What the splitter makes of a file.                                      *)

Char == STRING \cup {Newline}
Text == Seq(Char)
Path == Seq(STRING) \ {<<>>}
Chunk == [file : Path, first : Nat, last : Nat, text : Text]
NodeRecord == [first : Nat, last : Nat, label : BOOLEAN, size : Nat \ {0}]

(* The fields of a file and of its nodes. *)
LEMMA FileIs ==
  ASSUME NEW f \in File
  PROVE  /\ f.path \in Path /\ f.source \in BOOLEAN /\ f.readable \in BOOLEAN
         /\ f.lines \in Seq(Seq(STRING)) /\ Len(f.lines) \in Nat
         /\ f.nodes \in Seq(NodeRecord) /\ Len(f.nodes) \in Nat /\ DOMAIN f.nodes = 1 .. Len(f.nodes)
<1>1. /\ f.path \in Path /\ f.source \in BOOLEAN /\ f.readable \in BOOLEAN
      /\ f.lines \in Seq(Seq(STRING)) /\ f.nodes \in Seq(NodeRecord)
  BY Zenon DEF File, Path, NodeRecord
<1>. QED BY <1>1, LenProperties

(* A chunk of a file is what stands in its lines.                          *)
PartOf(c, f) ==
  /\ c \in Chunk /\ c.file = f.path
  /\ c.first \in 1 .. Len(f.lines) /\ c.last \in c.first .. Len(f.lines)
  /\ c.text = ExtractLines(f.lines, c.first, c.last)
Has(s, i) == \E k \in 1 .. Len(s) : i \in s[k].first .. s[k].last

(* The lines of a file, joined, are a text. *)
LEMMA LinesAreText ==
  ASSUME NEW lines \in Seq(Seq(STRING)), NEW first \in 1 .. Len(lines), NEW last \in first .. Len(lines)
  PROVE  /\ ExtractLines(lines, first, last) \in Text
         /\ \A i \in first .. last :
              ~IsBlank(lines[i]) => ~IsBlank(ExtractLines(lines, first, last))
<1>0. Len(lines) \in Nat BY LenProperties
<1>1. PICK q : q = [k \in 1 .. last - first + 1 |->
                      IF k = 1 THEN lines[first] ELSE <<Newline>> \o lines[first + k - 1]]
  OBVIOUS
<1>2. ASSUME NEW i \in first .. last PROVE lines[i] \in Text
  <2>1. lines[i] \in Seq(STRING) BY <1>0, ElementOfSeq
  <2>. QED BY <2>1, SeqMonotonic DEF Text, Char
<1>3. ASSUME NEW k \in 1 .. last - first + 1
      PROVE  q[k] \in Text /\ \A x \in ToSet(lines[first + k - 1]) : x \in ToSet(q[k])
  <2>1. lines[first + k - 1] \in Text BY <1>0, <1>2
  <2>2. CASE k = 1
    <3>1. q[k] = lines[first + k - 1] BY <1>0, <1>1, <2>2
    <3>. QED BY <2>1, <3>1
  <2>3. CASE k # 1
    <3>1. q[k] = <<Newline>> \o lines[first + k - 1] BY <1>1, <2>3
    <3>2. PICK t \in Text : t = lines[first + k - 1] BY <2>1
    <3>3. <<Newline>> \in Text BY DEF Text, Char
    <3>4. /\ <<Newline>> \o t \in Text /\ Len(<<Newline>> \o t) = 1 + Len(t) /\ Len(t) \in Nat
          /\ \A j \in 1 .. Len(t) : (<<Newline>> \o t)[j + 1] = t[j]
      BY <3>2, <3>3, ConcatProperties, LenProperties DEF Text
    <3>5. ASSUME NEW x \in ToSet(t) PROVE x \in ToSet(<<Newline>> \o t)
      <4>1. PICK j \in 1 .. Len(t) : x = t[j] BY <3>2 DEF ToSet, Text
      <4>2. j + 1 \in DOMAIN (<<Newline>> \o t) /\ (<<Newline>> \o t)[j + 1] = x
        BY <3>4, <4>1 DEF Text
      <4>. QED BY <4>2, Zenon DEF ToSet
    <3>. QED BY <3>1, <3>2, <3>4, <3>5
  <2>. QED BY <2>2, <2>3
<1>4. q \in Seq(Text) /\ Len(q) = last - first + 1
  <2>1. PICK n \in Nat : n = last - first + 1 BY <1>0
  <2>2. \A k \in 1 .. n : q[k] \in Text BY <1>3, <2>1
  <2> HIDE DEF Text
  <2>3. q = [k \in 1 .. n |-> q[k]] BY <1>1, <2>1
  <2>. QED BY <2>1, <2>2, <2>3
<1>5. ExtractLines(lines, first, last) = FlattenSeq(q) BY <1>1 DEF ExtractLines
<1>6. FlattenSeq(q) \in Text /\ ToSet(FlattenSeq(q)) = UNION {ToSet(q[k]) : k \in 1 .. Len(q)}
  BY <1>4, FlattenTyped, FlattenElements DEF Text
<1>7. ASSUME NEW i \in first .. last, ~IsBlank(lines[i]) PROVE ~IsBlank(FlattenSeq(q))
  <2>1. PICK j \in 1 .. Len(lines[i]) : lines[i][j] \notin {Newline, " "} BY <1>7 DEF IsBlank
  <2>2. PICK k \in 1 .. Len(q) : i = first + k - 1
    <3>1. i - first + 1 \in 1 .. Len(q) /\ i = first + (i - first + 1) - 1 BY <1>0, <1>4
    <3>. QED BY <3>1
  <2>3. lines[i][j] \in ToSet(lines[i]) BY <1>2 DEF ToSet, Text
  <2>4. lines[i][j] \in ToSet(q[k]) BY <1>3, <1>4, <2>2, <2>3
  <2>5. lines[i][j] \in ToSet(FlattenSeq(q)) BY <1>6, <2>4
  <2>6. PICK t \in Text : t = FlattenSeq(q) BY <1>6
  <2>7. PICK m \in 1 .. Len(t) : t[m] = lines[i][j]
    <3>1. DOMAIN t = 1 .. Len(t) BY <2>6 DEF Text
    <3>. QED BY <2>5, <2>6, <3>1, Zenon DEF ToSet
  <2>. QED BY <2>1, <2>6, <2>7 DEF IsBlank
<1>. QED BY <1>5, <1>6, <1>7

(* ChunkOf makes a part of the file of the lines it is given. *)
LEMMA ChunkOfIs ==
  ASSUME NEW f \in File, NEW first \in 1 .. Len(f.lines), NEW last \in first .. Len(f.lines)
  PROVE  /\ PartOf(ChunkOf(f, first, last), f)
         /\ ChunkOf(f, first, last).first = first /\ ChunkOf(f, first, last).last = last
         /\ ChunkOf(f, first, last).text = ExtractLines(f.lines, first, last)
<1>1. f.path \in Path /\ f.lines \in Seq(Seq(STRING)) /\ Len(f.lines) \in Nat BY FileIs
<1>2. ExtractLines(f.lines, first, last) \in Text BY <1>1, LinesAreText
<1>3. first \in Nat /\ last \in Nat BY <1>1
<1>. QED BY <1>1, <1>2, <1>3 DEF ChunkOf, PartOf, Chunk

(* The last multiple of a step that is not beyond a number.                *)
LEMMA LastStep ==
  ASSUME NEW d \in Nat, NEW s \in Nat \ {0}
  PROVE  \E e \in 0 .. d : e % s = 0 /\ d - e < s
<1>1. /\ s > 0 /\ d % s \in Int /\ d % s >= 0 /\ d % s < s /\ d \div s \in Int
      /\ d = s * (d \div s) + (d % s)
  OBVIOUS
<1>2. PICK q \in Int : q = d \div s BY <1>1
<1>3. PICK r \in Int : r = d % s BY <1>1
<1>4. d = s * q + r /\ r >= 0 /\ r < s BY <1>1, <1>2, <1>3
<1>5. q \in Nat
  <2>1. CASE q < 0
    <3>1. s * q <= (-s) BY <2>1, <1>1
    <3>. QED BY <1>4, <3>1, <1>1
  <2>. QED BY <2>1
<1>6. PICK e \in Int : e = s * q OBVIOUS
<1>7. e % s = 0 BY ONLY <1>1, <1>5, <1>6, s \in Nat
<1>8. e >= 0 BY <1>5, <1>6
<1>. QED BY <1>4, <1>6, <1>7, <1>8

(* The windows hold every line that is not blank: the last window that     *)
(* begins at or before it reaches it, or an earlier one reaches the end.   *)
LEMMA WindowsAre ==
  ASSUME NEW f \in File, NEW first \in 1 .. Len(f.lines) + 1, NEW last \in first - 1 .. Len(f.lines)
  PROVE  /\ Windows(f, first, last) \in Seq(Chunk)
         /\ \A k \in 1 .. Len(Windows(f, first, last)) : PartOf(Windows(f, first, last)[k], f)
         /\ \A i \in first .. last : ~IsBlank(f.lines[i]) => Has(Windows(f, first, last), i)
<1> DEFINE step == ChunkSize - Overlap
           starts(i) == (i - first) % step = 0
           end(i) == Smaller(i + ChunkSize - 1, last)
           blank(i) == IsBlank(ExtractLines(f.lines, i, end(i)))
           kept(i) == /\ starts(i) /\ ~blank(i)
                      /\ \A j \in first .. i - 1 : starts(j) /\ end(j) = last => blank(j)
           w == Windows(f, first, last)
<1>1. f.lines \in Seq(Seq(STRING)) /\ Len(f.lines) \in Nat BY FileIs
<1>2. ChunkSize \in Nat \ {0} /\ Overlap \in Nat /\ step \in Nat \ {0} /\ step <= ChunkSize
  BY ChunkingAssumption
<1>3. ASSUME NEW i \in first .. last
      PROVE  i \in 1 .. Len(f.lines) /\ end(i) \in i .. Len(f.lines) /\ end(i) <= last
  BY <1>1, <1>2 DEF Smaller
<1>4. PICK S : S = {i \in first .. last : kept(i)} OBVIOUS
<1>6. PICK from : from = InOrder(S) OBVIOUS
<1>7. PICK c : c = Cardinality(S) OBVIOUS
<1>8. /\ IsFiniteSet(S) /\ S \in SUBSET Nat /\ S \subseteq first .. last
      /\ c \in Nat /\ from \in [1 .. c -> S] /\ \A n \in S : \E k \in 1 .. c : from[k] = n
  <2>1. S \in SUBSET (1 .. last) /\ S \in SUBSET Nat /\ S \subseteq first .. last /\ last \in Nat
    BY <1>1, <1>4
  <2>2. IsFiniteSet(S)
    <3>1. IsFiniteSet(1 .. last) BY <2>1, Intervals
    <3>. QED BY ONLY <2>1, <3>1, FS_Subset
  <2>3. /\ Cardinality(S) \in Nat /\ InOrder(S) \in [1 .. Cardinality(S) -> S]
        /\ \A n \in S : \E k \in 1 .. Cardinality(S) : InOrder(S)[k] = n
    BY ONLY <2>1, <2>2, InOrderHasAll
  <2>. QED BY <1>6, <1>7, <2>1, <2>2, <2>3
<1>9. w = [k \in 1 .. Len(from) |-> ChunkOf(f, from[k], end(from[k]))]
  <2> HIDE DEF end, blank, starts
  <2>. QED BY <1>4, <1>6, Zenon DEF Windows, end, blank, starts
<1>10. Len(from) = c BY <1>8
<1>11. ASSUME NEW k \in 1 .. c
       PROVE  /\ from[k] \in S /\ w[k] = ChunkOf(f, from[k], end(from[k]))
              /\ PartOf(w[k], f) /\ w[k].first = from[k] /\ w[k].last = end(from[k])
  <2>1. from[k] \in S BY <1>8
  <2>2. from[k] \in 1 .. Len(f.lines) /\ end(from[k]) \in from[k] .. Len(f.lines) BY <1>3, <1>8, <2>1
  <2> HIDE DEF end
  <2>3. w[k] = ChunkOf(f, from[k], end(from[k])) BY <1>9, <1>10
  <2> HIDE DEF w
  <2>. QED BY <2>1, <2>2, <2>3, ChunkOfIs
<1>12. w = [k \in 1 .. c |-> w[k]] BY <1>9, <1>10
<1>13. w \in Seq(Chunk) /\ Len(w) = c
  <2>1. \A k \in 1 .. c : w[k] \in Chunk BY <1>11 DEF PartOf
  <2> HIDE DEF w
  <2>. QED BY <1>8, <1>12, <2>1
<1>14. ASSUME NEW i \in first .. last, ~IsBlank(f.lines[i]) PROVE Has(w, i)
  <2>1. PICK j \in first .. i : starts(j) /\ i - j < step
    <3>1. PICK s \in Nat \ {0} : s = step BY <1>2
    <3>2. PICK e \in 0 .. i - first : e % s = 0 /\ (i - first) - e < s
      <4>1. i - first \in Nat OBVIOUS
      <4>. QED BY <4>1, LastStep
    <3>3. PICK j \in first .. i : j = first + e BY <3>2
    <3>4. j - first = e /\ i - j < s BY <3>2, <3>3
    <3>. QED BY <3>1, <3>2, <3>3, <3>4
  <2>2. i <= end(j) BY <1>2, <2>1 DEF Smaller
  <2>3. j \in first .. last /\ ~blank(j)
    <3>1. j \in first .. last BY <2>1
    <3>2. j \in 1 .. Len(f.lines) /\ end(j) \in j .. Len(f.lines) /\ i \in j .. end(j)
      BY <1>3, <2>1, <2>2, <3>1
    <3> HIDE DEF end
    <3>. QED BY <1>1, <1>14, <3>1, <3>2, LinesAreText
  <2>4. CASE kept(j)
    <3>1. j \in S BY <1>4, <2>3, <2>4
    <3>2. PICK k \in 1 .. c : from[k] = j BY <1>8, <3>1
    <3>3. w[k].first = j /\ w[k].last = end(j) BY <1>11, <3>2
    <3>4. i \in j .. end(j) BY <1>3, <2>1, <2>2, <2>3
    <3> HIDE DEF w, end
    <3>. QED BY <1>13, <3>3, <3>4 DEF Has
  <2>5. CASE ~kept(j)
    <3>1. PICK D : D = {m \in first .. j - 1 : starts(m) /\ end(m) = last /\ ~blank(m)} OBVIOUS
    <3> HIDE DEF blank, starts
    <3>2. D \in SUBSET Nat /\ D # {} BY <2>1, <2>3, <2>5, <3>1
    <3>3. PICK m \in D : \A n \in D : m <= n BY <3>2, LeastNumber
    <3>4. m \in first .. j - 1 /\ starts(m) /\ end(m) = last /\ ~blank(m) BY <3>1, <3>3
    <3>5. ASSUME NEW n \in first .. m - 1, starts(n), end(n) = last PROVE blank(n)
      <4>1. n \notin D /\ n \in first .. j - 1 BY <3>3, <3>4, <3>5
      <4>. QED BY <3>1, <3>5, <4>1
    <3> HIDE DEF end
    <3>6. kept(m) BY <3>4, <3>5
    <3>7. m \in S BY <1>4, <2>3, <3>4, <3>6
    <3>8. PICK k \in 1 .. c : from[k] = m BY <1>8, <3>7
    <3>9. w[k].first = m /\ w[k].last = last BY <1>11, <3>4, <3>8
    <3>10. i \in m .. last BY <2>1, <3>4
    <3> HIDE DEF w
    <3>. QED BY <1>13, <3>9, <3>10 DEF Has
  <2>. QED BY <2>4, <2>5
<1>15. \A k \in 1 .. c : PartOf(w[k], f) BY <1>11
<1> HIDE DEF w
<1>16. \A i \in first .. last : ~IsBlank(f.lines[i]) => Has(w, i) BY <1>14
<1>. QED BY <1>13, <1>15, <1>16 DEF w

(* The elements of a flattened sequence are those of its pieces.           *)
LEMMA FlattenHas ==
  ASSUME NEW A, NEW s \in Seq(Seq(A))
  PROVE  /\ FlattenSeq(s) \in Seq(A)
         /\ \A k \in 1 .. Len(FlattenSeq(s)) :
              \E i \in 1 .. Len(s) : \E j \in 1 .. Len(s[i]) : FlattenSeq(s)[k] = s[i][j]
         /\ \A i \in 1 .. Len(s) : \A j \in 1 .. Len(s[i]) :
              \E k \in 1 .. Len(FlattenSeq(s)) : FlattenSeq(s)[k] = s[i][j]
<1>1. PICK t \in Seq(A) : t = FlattenSeq(s) BY FlattenTyped
<1>2. DOMAIN t = 1 .. Len(t) OBVIOUS
<1>3. \A i \in 1 .. Len(s) : s[i] \in Seq(A) /\ DOMAIN s[i] = 1 .. Len(s[i])
  <2>1. \A i \in 1 .. Len(s) : s[i] \in Seq(A) BY ElementOfSeq
  <2>. QED BY <2>1
<1>4. ToSet(t) = UNION {ToSet(s[i]) : i \in 1 .. Len(s)} BY <1>1, FlattenElements
<1>5. ASSUME NEW k \in 1 .. Len(t)
      PROVE  \E i \in 1 .. Len(s) : \E j \in 1 .. Len(s[i]) : t[k] = s[i][j]
  <2>1. t[k] \in ToSet(t) BY <1>2, Zenon DEF ToSet
  <2>2. PICK i \in 1 .. Len(s) : t[k] \in ToSet(s[i]) BY <1>4, <2>1, Zenon
  <2>3. PICK j \in 1 .. Len(s[i]) : t[k] = s[i][j]
    <3>1. DOMAIN s[i] = 1 .. Len(s[i]) BY <1>3
    <3>. QED BY <2>2, <3>1, Zenon DEF ToSet
  <2>. QED BY <2>3
<1>6. ASSUME NEW i \in 1 .. Len(s), NEW j \in 1 .. Len(s[i])
      PROVE  \E k \in 1 .. Len(t) : t[k] = s[i][j]
  <2>1. s[i][j] \in ToSet(s[i])
    <3>1. DOMAIN s[i] = 1 .. Len(s[i]) BY <1>3
    <3>. QED BY <3>1, Zenon DEF ToSet
  <2>2. s[i][j] \in ToSet(t) BY <1>4, <2>1, Zenon
  <2>. QED BY <1>2, <2>2, Zenon DEF ToSet
<1>. QED BY <1>1, <1>5, <1>6

(* The outermost labelled nodes: every labelled node is one or lies in one. *)
LEMMA DeclarationsAre ==
  ASSUME NEW f \in File, IsNested(f)
  PROVE  /\ Declarations(f) \in Seq({n \in 1 .. Len(f.nodes) : f.nodes[n].label})
         /\ \A n \in 1 .. Len(f.nodes) : f.nodes[n].label =>
              \E k \in 1 .. Len(Declarations(f)) :
                 LET m == Declarations(f)[k] IN
                 f.nodes[m].first <= f.nodes[n].first /\ f.nodes[n].last <= f.nodes[m].last
<1> DEFINE nodes == f.nodes
           inside(n, m) == m < n /\ n <= m + nodes[m].size - 1
           top(n) == nodes[n].label /\ \A m \in 1 .. Len(nodes) : nodes[m].label => ~inside(n, m)
<1>1. nodes \in Seq(NodeRecord) /\ Len(nodes) \in Nat /\ DOMAIN nodes = 1 .. Len(nodes) BY FileIs
<1>2. ASSUME NEW n \in 1 .. Len(nodes)
      PROVE  nodes[n].first \in Nat /\ nodes[n].last \in Nat /\ nodes[n].size \in Nat \ {0}
  <2>1. nodes[n] \in NodeRecord BY <1>1, ElementOfSeq
  <2>. QED BY <2>1 DEF NodeRecord
<1>3. \A m, n \in 1 .. Len(nodes) : inside(n, m) =>
        /\ nodes[m].first <= nodes[n].first /\ nodes[n].last <= nodes[m].last
        /\ n + nodes[n].size <= m + nodes[m].size
  <2>1. ASSUME NEW m \in 1 .. Len(nodes), NEW n \in 1 .. Len(nodes), inside(n, m)
        PROVE  /\ nodes[m].first <= nodes[n].first /\ nodes[n].last <= nodes[m].last
               /\ n + nodes[n].size <= m + nodes[m].size
    <3>1. m < n /\ n < m + nodes[m].size BY <1>2, <2>1
    <3>2. m \in DOMAIN f.nodes /\ n \in DOMAIN f.nodes BY <1>1
    <3>. QED BY <3>1, <3>2 DEF IsNested
  <2>. QED BY <2>1
<1>4. PICK S : S = {n \in 1 .. Len(nodes) : top(n)} OBVIOUS
<1>5. PICK c : c = Cardinality(S) OBVIOUS
<1>6. PICK d : d = Declarations(f) OBVIOUS
<1>7. c \in Nat /\ d \in [1 .. c -> S] /\ \A n \in S : \E k \in 1 .. c : d[k] = n
  <2>1. S \in SUBSET (1 .. Len(nodes)) BY <1>4
  <2>2. S \in SUBSET Nat /\ IsFiniteSet(S)
    <3>1. IsFiniteSet(1 .. Len(nodes)) /\ 1 .. Len(nodes) \subseteq Nat BY <1>1, Intervals
    <3>2. IsFiniteSet(S) BY ONLY <2>1, <3>1, FS_Subset
    <3>. QED BY <2>1, <3>1, <3>2
  <2>3. d = InOrder(S) BY <1>4, <1>6 DEF Declarations
  <2>4. /\ Cardinality(S) \in Nat /\ InOrder(S) \in [1 .. Cardinality(S) -> S]
        /\ \A n \in S : \E k \in 1 .. Cardinality(S) : InOrder(S)[k] = n
    BY ONLY <2>2, InOrderHasAll
  <2>. QED BY <1>5, <2>3, <2>4
<1>8. S \subseteq {n \in 1 .. Len(nodes) : nodes[n].label} BY <1>4
<1>9. d \in Seq({n \in 1 .. Len(nodes) : nodes[n].label}) /\ Len(d) = c
  <2>1. PICK B : B = {n \in 1 .. Len(nodes) : nodes[n].label} OBVIOUS
  <2>2. S \subseteq B BY <1>8, <2>1
  <2>3. d \in Seq(B) /\ Len(d) = c BY ONLY <1>7, <2>2
  <2>. QED BY <2>1, <2>3
<1>10. ASSUME NEW n \in 1 .. Len(nodes), nodes[n].label
       PROVE  \E k \in 1 .. c : nodes[d[k]].first <= nodes[n].first /\ nodes[n].last <= nodes[d[k]].last
  <2>1. PICK C : C = {m \in 1 .. Len(nodes) : nodes[m].label /\ (m = n \/ inside(n, m))} OBVIOUS
  <2>2. C \in SUBSET Nat /\ C # {}
    <3> HIDE DEF inside
    <3>. QED BY <1>10, <2>1
  <2>3. PICK m \in C : \A l \in C : m <= l BY <2>2, LeastNumber
  <2>4. m \in 1 .. Len(nodes) /\ nodes[m].label /\ (m = n \/ inside(n, m))
    <3> HIDE DEF inside
    <3>. QED BY <2>1, <2>3
  <2>5. ASSUME NEW l \in 1 .. Len(nodes), nodes[l].label, inside(m, l) PROVE FALSE
    <3>1. m + nodes[m].size <= l + nodes[l].size BY <1>3, <2>4, <2>5
    <3>2. inside(n, l)
      <4>1. l < m /\ m <= n BY <2>4, <2>5
      <4>2. n <= m + nodes[m].size - 1
        <5>1. CASE m = n
          <6>1. nodes[m].size \in Nat \ {0} BY <1>2, <2>4
          <6>. QED BY <2>4, <5>1, <6>1
        <5>2. CASE inside(n, m) BY <5>2
        <5>. QED BY <2>4, <5>1, <5>2
      <4>3. PICK a \in Nat : a = nodes[m].size BY <1>2, <2>4
      <4>4. PICK b \in Nat : b = nodes[l].size BY <1>2
      <4>5. PICK e \in Nat : e = m BY <2>4
      <4>6. e + a <= l + b BY <3>1, <4>3, <4>4, <4>5
      <4>7. n <= e + a - 1 BY <4>2, <4>3, <4>5
      <4>8. l < n /\ n <= l + b - 1 BY <1>1, <4>1, <4>5, <4>6, <4>7
      <4>. QED BY <4>4, <4>8
    <3>3. l < m BY <2>5
    <3> HIDE DEF inside
    <3>4. l \in C BY <2>1, <2>5, <3>2
    <3>. QED BY <2>3, <2>4, <3>3, <3>4
  <2>6. m \in S
    <3> HIDE DEF inside
    <3>. QED BY <1>4, <2>4, <2>5
  <2>7. PICK k \in 1 .. c : d[k] = m BY <1>7, <2>6
  <2>8. nodes[m].first <= nodes[n].first /\ nodes[n].last <= nodes[m].last
    <3>1. CASE m = n
      <4>1. nodes[n].first <= nodes[n].first /\ nodes[n].last <= nodes[n].last BY <1>2
      <4>. QED BY <3>1, <4>1, Zenon
    <3>2. CASE inside(n, m)
      <4> HIDE DEF inside
      <4>. QED BY <1>3, <2>4, <3>2
    <3>. QED BY <2>4, <3>1, <3>2
  <2>. QED BY <2>7, <2>8
<1>. QED BY <1>6, <1>9, <1>10

(* Split: parts of the file, and each wanted line in one of them. *)
LEMMA SplitIs ==
  ASSUME NEW f \in File, IsNested(f), NEW max
  PROVE  /\ Split(f, max) \in Seq(Chunk)
         /\ \A k \in 1 .. Len(Split(f, max)) : PartOf(Split(f, max)[k], f)
         /\ \A i \in WantedLines(f) : Has(Split(f, max), i)
<1> DEFINE nodes == f.nodes
           chunk(n) == ChunkOf(f, nodes[n].first, nodes[n].last)
           long(c) == c.last - c.first + 1 > MaxChunkLines \/ Len(c.text) > max
           pieces(n) == IF long(chunk(n)) THEN Windows(f, chunk(n).first, chunk(n).last) ELSE <<chunk(n)>>
           Labelled == {n \in 1 .. Len(nodes) : nodes[n].label}
<1>1. /\ f.lines \in Seq(Seq(STRING)) /\ Len(f.lines) \in Nat
      /\ nodes \in Seq(NodeRecord) /\ Len(nodes) \in Nat /\ DOMAIN nodes = 1 .. Len(nodes)
  BY FileIs
<1>2. PICK d : d = Declarations(f) OBVIOUS
<1>3. /\ d \in Seq(Labelled)
      /\ \A n \in Labelled : \E k \in 1 .. Len(d) :
           nodes[d[k]].first <= nodes[n].first /\ nodes[n].last <= nodes[d[k]].last
  BY <1>2, DeclarationsAre
<1>4. ASSUME NEW n \in 1 .. Len(nodes)
      PROVE  nodes[n].first \in 1 .. Len(f.lines) /\ nodes[n].last \in nodes[n].first .. Len(f.lines)
  <2>1. nodes[n] \in NodeRecord BY <1>1, ElementOfSeq
  <2>2. nodes[n].first \in Nat /\ nodes[n].last \in Nat BY <2>1 DEF NodeRecord
  <2>3. 1 <= nodes[n].first /\ nodes[n].first <= nodes[n].last /\ nodes[n].last <= Len(f.lines)
    BY <1>1 DEF IsNested
  <2>. QED BY <1>1, <2>2, <2>3
<1>5. ASSUME NEW n \in 1 .. Len(nodes)
      PROVE  /\ pieces(n) \in Seq(Chunk)
             /\ \A k \in 1 .. Len(pieces(n)) : PartOf(pieces(n)[k], f)
             /\ \A i \in nodes[n].first .. nodes[n].last : ~IsBlank(f.lines[i]) => Has(pieces(n), i)
  <2>1. PICK a \in 1 .. Len(f.lines) : a = nodes[n].first BY <1>4
  <2>2. PICK b \in a .. Len(f.lines) : b = nodes[n].last BY <1>4, <2>1
  <2>3. PartOf(chunk(n), f) /\ chunk(n).first = a /\ chunk(n).last = b BY <2>1, <2>2, ChunkOfIs
  <2>4. CASE long(chunk(n))
    <3>1. pieces(n) = Windows(f, a, b)
      <4> HIDE DEF chunk, long
      <4>. QED BY <2>3, <2>4
    <3>2. a \in 1 .. Len(f.lines) + 1 /\ b \in a - 1 .. Len(f.lines) BY <1>1
    <3> HIDE DEF pieces
    <3>. QED BY <2>1, <2>2, <3>1, <3>2, WindowsAre
  <2>5. CASE ~long(chunk(n))
    <3>1. pieces(n) = <<chunk(n)>>
      <4> HIDE DEF chunk, long
      <4>. QED BY <2>5
    <3>2. chunk(n) \in Chunk BY <2>3 DEF PartOf
    <3>3. ASSUME NEW i \in a .. b PROVE Has(<<chunk(n)>>, i)
      <4> HIDE DEF chunk
      <4>1. 1 \in 1 .. Len(<<chunk(n)>>) /\ <<chunk(n)>>[1] = chunk(n) OBVIOUS
      <4>. QED BY <2>3, <4>1 DEF Has
    <3> HIDE DEF pieces, chunk
    <3>. QED BY <2>1, <2>2, <2>3, <3>1, <3>2, <3>3
  <2>. QED BY <2>4, <2>5
<1> HIDE DEF pieces, long
<1>6. Split(f, max) = IF d = <<>> THEN Windows(f, 1, Len(f.lines))
                      ELSE FlattenSeq([k \in 1 .. Len(d) |-> pieces(d[k])])
  BY <1>2, Zenon DEF Split, pieces, long
<1>7. ASSUME NEW i \in WantedLines(f)
      PROVE  /\ i \in 1 .. Len(f.lines) /\ ~IsBlank(f.lines[i])
             /\ Labelled = {} \/ \E n \in Labelled : nodes[n].first <= i /\ i <= nodes[n].last
  BY Zenon DEF WantedLines
<1> HIDE DEF nodes
<1>8. CASE d = <<>>
  <2>1. Split(f, max) = Windows(f, 1, Len(f.lines)) BY <1>6, <1>8
  <2>2. 1 \in 1 .. Len(f.lines) + 1 /\ Len(f.lines) \in 1 - 1 .. Len(f.lines) BY <1>1
  <2>3. /\ Windows(f, 1, Len(f.lines)) \in Seq(Chunk)
        /\ \A k \in 1 .. Len(Windows(f, 1, Len(f.lines))) : PartOf(Windows(f, 1, Len(f.lines))[k], f)
        /\ \A i \in 1 .. Len(f.lines) : ~IsBlank(f.lines[i]) => Has(Windows(f, 1, Len(f.lines)), i)
    BY ONLY <2>2, f \in File, WindowsAre
  <2>. QED BY <1>7, <2>1, <2>3
<1>9. CASE d # <<>>
  <2>1. PICK q : q = [k \in 1 .. Len(d) |-> pieces(d[k])] OBVIOUS
  <2>2. Len(d) \in Nat /\ \A k \in 1 .. Len(d) : d[k] \in Labelled /\ d[k] \in 1 .. Len(nodes)
    BY <1>3, LenProperties, ElementOfSeq
  <2>3. \A k \in 1 .. Len(d) : q[k] = pieces(d[k]) BY <2>1
  <2>4. \A k \in 1 .. Len(d) : q[k] \in Seq(Chunk) BY <1>5, <2>2, <2>3
  <2>5. q \in Seq(Seq(Chunk)) /\ Len(q) = Len(d)
    <3>1. q = [k \in 1 .. Len(d) |-> q[k]] BY <2>1
    <3>. QED BY <2>2, <2>4, <3>1
  <2>6. Split(f, max) = FlattenSeq(q) BY <1>6, <1>9, <2>1
  <2>7. /\ FlattenSeq(q) \in Seq(Chunk)
        /\ \A k \in 1 .. Len(FlattenSeq(q)) :
             \E i \in 1 .. Len(q) : \E j \in 1 .. Len(q[i]) : FlattenSeq(q)[k] = q[i][j]
        /\ \A i \in 1 .. Len(q) : \A j \in 1 .. Len(q[i]) :
             \E k \in 1 .. Len(FlattenSeq(q)) : FlattenSeq(q)[k] = q[i][j]
    BY <2>5, FlattenHas
  <2>8. PICK t : t = FlattenSeq(q) OBVIOUS
  <2>9. ASSUME NEW k \in 1 .. Len(t) PROVE PartOf(t[k], f)
    <3>1. PICK n \in 1 .. Len(q) : \E j \in 1 .. Len(q[n]) : t[k] = q[n][j] BY <2>7, <2>8
    <3>2. PICK j \in 1 .. Len(q[n]) : t[k] = q[n][j] BY <3>1
    <3>3. q[n] = pieces(d[n]) /\ d[n] \in 1 .. Len(nodes) BY <2>2, <2>3, <2>5
    <3>. QED BY <1>5, <3>2, <3>3
  <2>10. ASSUME NEW i \in WantedLines(f) PROVE Has(t, i)
    <3>1. i \in 1 .. Len(f.lines) /\ ~IsBlank(f.lines[i]) BY <1>7
    <3>2. Labelled # {}
      <4>1. PICK B : B = Labelled OBVIOUS
      <4>2. d \in Seq(B) BY <1>3, <4>1
      <4>3. 1 \in 1 .. Len(d) BY <1>9, <4>2
      <4> HIDE DEF Labelled
      <4>. QED BY <2>2, <4>3
    <3>3. PICK n \in Labelled : nodes[n].first <= i /\ i <= nodes[n].last BY <1>7, <3>2
    <3>4. PICK k \in 1 .. Len(d) :
            nodes[d[k]].first <= nodes[n].first /\ nodes[n].last <= nodes[d[k]].last
      BY <1>3
    <3>5. PICK m \in 1 .. Len(nodes) : m = d[k] BY <2>2
    <3>6. /\ nodes[m].first \in Nat /\ nodes[m].last \in Nat /\ i \in Nat
          /\ nodes[n].first \in Nat /\ nodes[n].last \in Nat
      <4>1. PICK e \in 1 .. Len(nodes) : e = n OBVIOUS
      <4>2. nodes[e].first \in Nat /\ nodes[e].last \in Nat BY <1>1, <1>4
      <4>3. nodes[m].first \in Nat /\ nodes[m].last \in Nat BY <1>1, <1>4
      <4>. QED BY <1>1, <3>1, <4>1, <4>2, <4>3
    <3>7. i \in nodes[m].first .. nodes[m].last
      <4>1. PICK a \in Nat : a = nodes[m].first BY <3>6
      <4>2. PICK b \in Nat : b = nodes[m].last BY <3>6
      <4>3. PICK x \in Nat : x = nodes[n].first BY <3>6
      <4>4. PICK y \in Nat : y = nodes[n].last BY <3>6
      <4>5. a <= x /\ y <= b BY <3>4, <3>5, <4>1, <4>2, <4>3, <4>4, Zenon
      <4>6. x <= i /\ i <= y BY <3>3, <4>3, <4>4
      <4>7. i \in a .. b BY <3>6, <4>5, <4>6
      <4>. QED BY <4>1, <4>2, <4>7
    <3>8. Has(pieces(m), i) BY <1>5, <3>1, <3>7
    <3>9. q[k] = pieces(m) BY <2>3, <3>5
    <3>10. PICK j \in 1 .. Len(q[k]) : i \in q[k][j].first .. q[k][j].last
      BY <3>8, <3>9 DEF Has
    <3>11. PICK l \in 1 .. Len(t) : t[l] = q[k][j] BY <2>5, <2>7, <2>8
    <3>. QED BY <3>10, <3>11 DEF Has
  <2>. QED BY <2>6, <2>7, <2>8, <2>9, <2>10
<1>. QED BY <1>8, <1>9

-----------------------------------------------------------------------------
(* What a walk keeps: the patterns a directory or a file matches name it.  *)

(* The elements of a part of a sequence. *)
LEMMA PartIs ==
  ASSUME NEW A, NEW s \in Seq(A), NEW i \in 1 .. Len(s), NEW j \in i .. Len(s)
  PROVE  /\ SubSeq(s, i, j) \in Seq(A) /\ Len(SubSeq(s, i, j)) = j - i + 1
         /\ \A k \in 1 .. j - i + 1 : SubSeq(s, i, j)[k] = s[i + k - 1]
<1>1. i \in Int /\ j \in Int /\ i <= j BY LenProperties
<1>2. \A k \in i .. j : s[k] \in A BY ElementOfSeq
<1>3. SubSeq(s, i, j) \in Seq(A) /\ Len(SubSeq(s, i, j)) = j - i + 1
  BY <1>1, <1>2, SubSeqProperties
<1>4. \A k \in 1 .. j - i + 1 : SubSeq(s, i, j)[k] = s[i + k - 1]
  BY <1>1, <1>2, SubSeqProperties
<1>. QED BY <1>3, <1>4

(* A part of a part is a part. *)
LEMMA PartOfPart ==
  ASSUME NEW A, NEW s \in Seq(A), NEW i \in 1 .. Len(s), NEW j \in i .. Len(s),
         NEW k \in 1 .. j - i + 1, NEW l \in k .. j - i + 1
  PROVE  SubSeq(SubSeq(s, i, j), k, l) = SubSeq(s, i + k - 1, i + l - 1)
<1>1. PICK L \in Nat : L = Len(s) BY LenProperties
<1>2. PICK t : t = SubSeq(s, i, j) OBVIOUS
<1>3. /\ t \in Seq(A) /\ Len(t) = j - i + 1
      /\ \A n \in 1 .. j - i + 1 : t[n] = s[i + n - 1]
  BY <1>2, PartIs
<1>4. PICK u : u = SubSeq(t, k, l) OBVIOUS
<1>5. u \in Seq(A) /\ Len(u) = l - k + 1 /\ \A n \in 1 .. l - k + 1 : u[n] = t[k + n - 1]
  <2>1. k \in 1 .. Len(t) /\ l \in k .. Len(t) BY <1>3
  <2>. QED BY <1>3, <1>4, <2>1, PartIs
<1>6. PICK a \in 1 .. L : a = i + k - 1 BY <1>1
<1>7. PICK b \in a .. L : b = i + l - 1 BY <1>1, <1>6
<1>8. PICK v : v = SubSeq(s, a, b) OBVIOUS
<1>9. v \in Seq(A) /\ Len(v) = b - a + 1 /\ \A n \in 1 .. b - a + 1 : v[n] = s[a + n - 1]
  BY <1>1, <1>8, PartIs
<1>10. Len(u) = Len(v)
  <2>1. b - a + 1 = l - k + 1 BY <1>1, <1>6, <1>7
  <2>. QED BY <1>5, <1>9, <2>1
<1>11. ASSUME NEW n \in 1 .. Len(u) PROVE u[n] = v[n]
  <2>1. n \in 1 .. l - k + 1 /\ n \in 1 .. b - a + 1 BY <1>5, <1>9, <1>10, <1>11
  <2>2. u[n] = t[k + n - 1] /\ v[n] = s[a + n - 1] BY <1>5, <1>9, <2>1
  <2>3. k + n - 1 \in 1 .. j - i + 1 /\ i + (k + n - 1) - 1 = a + n - 1 BY <1>1, <1>6, <2>1
  <2>4. t[k + n - 1] = s[i + (k + n - 1) - 1] BY <1>3, <2>3
  <2>. QED BY <2>2, <2>3, <2>4
<1>12. u = v BY <1>5, <1>9, <1>10, <1>11, SeqEqual
<1>. QED BY <1>2, <1>4, <1>6, <1>7, <1>8, <1>12

(* The last element of a sequence that is not empty. *)
LEMMA LastIs ==
  ASSUME NEW path \in Path, NEW i \in 1 .. Len(path)
  PROVE  /\ SubSeq(path, 1, i) \in Path /\ Len(SubSeq(path, 1, i)) = i
         /\ <<Last(SubSeq(path, 1, i))>> = SubSeq(path, i, i)
         /\ \A k \in 1 .. i : <<SubSeq(path, 1, i)[k]>> = SubSeq(path, k, k)
<1>1. path \in Seq(STRING) /\ Len(path) \in Nat BY LenProperties DEF Path
<1>2. PICK t : t = SubSeq(path, 1, i) OBVIOUS
<1>3. 1 \in 1 .. Len(path) /\ i \in 1 .. Len(path) /\ i - 1 + 1 = i BY <1>1
<1>4. t \in Seq(STRING) /\ Len(t) = i - 1 + 1 /\ \A k \in 1 .. i - 1 + 1 : t[k] = path[1 + k - 1]
  BY <1>1, <1>2, <1>3, PartIs
<1>5. ASSUME NEW k \in 1 .. i PROVE <<t[k]>> = SubSeq(path, k, k)
  <2>1. PICK n \in 1 .. Len(path) : n = k /\ n - n + 1 = 1 /\ 1 + n - 1 = n BY <1>1
  <2>2. PICK u : u = SubSeq(path, n, n) OBVIOUS
  <2>3. n \in n .. Len(path) /\ n + 1 - 1 = n /\ 1 \in 1 .. n - n + 1 BY <1>1, <2>1
  <2>4. u \in Seq(STRING) /\ Len(u) = n - n + 1 /\ \A m \in 1 .. n - n + 1 : u[m] = path[n + m - 1]
    BY <1>1, <2>2, <2>3, PartIs
  <2>5. u[1] = path[n] BY <2>3, <2>4
  <2>6. t[k] = path[n]
    <3>1. k \in 1 .. i - 1 + 1 BY <1>3
    <3>. QED BY <1>4, <2>1, <3>1
  <2>7. u = <<path[n]>> BY <2>1, <2>4, <2>5
  <2>. QED BY <2>1, <2>2, <2>6, <2>7
<1>6. t # <<>> /\ Len(t) = i BY <1>3, <1>4
<1>7. Last(t) = t[i] BY <1>6 DEF Last
<1>8. t \in Path BY <1>4, <1>6 DEF Path
<1>9. i \in 1 .. i BY <1>3
<1>. QED BY <1>2, <1>5, <1>6, <1>7, <1>8, <1>9

(* A pattern spans as many segments as it has.                             *)
LEMMA SegmentsOne ==
  ASSUME NEW segs, NEW path \in Path, NEW i \in 1 .. Len(path), NEW j \in 1 .. Len(path),
         Globs(segs, SubSeq(path, i, j)), Len(segs) \in Nat, Len(segs) # 0
  PROVE  i <= j /\ Len(segs) = j - i + 1
<1>1. path \in Seq(STRING) /\ Len(path) \in Nat BY LenProperties DEF Path
<1>2. Len(segs) = Len(SubSeq(path, i, j)) BY DEF Globs
<1>3. i <= j
  <2>1. CASE j < i
    <3>1. SubSeq(path, i, j) = <<>> BY <1>1, <2>1, SubSeqEmpty
    <3>. QED BY <1>2, <3>1
  <2>. QED BY <1>1, <2>1
<1>4. j \in i .. Len(path) BY <1>1, <1>3
<1>. QED BY <1>1, <1>2, <1>3, <1>4, PartIs

(* The fields of a pattern in force.                                       *)
LEMMA PatternIs ==
  ASSUME NEW patterns \in SUBSET Rule, \A pat \in patterns : pat.segs # <<>>, NEW pat \in patterns
  PROVE  /\ Len(pat.segs) \in Nat /\ Len(pat.segs) # 0
         /\ pat.glob \in BOOLEAN /\ pat.anchored \in BOOLEAN
<1>1. pat.segs \in Seq(SUBSET STRING) /\ pat.glob \in BOOLEAN /\ pat.anchored \in BOOLEAN
  BY Zenon DEF Rule
<1>2. pat.segs # <<>> OBVIOUS
<1>. QED BY <1>1, <1>2

(* What a pattern matches it names.                                        *)
LEMMA MatchedIsNamed ==
  ASSUME NEW path \in Path, NEW to \in 1 .. Len(path), NEW pat,
         Len(pat.segs) \in Nat, MatchesPattern(SubSeq(path, 1, to), pat)
  PROVE  Named(path, pat)
<1>1. path \in Seq(STRING) /\ Len(path) \in Nat BY LenProperties DEF Path
<1>2. PICK h : h = SubSeq(path, 1, to) OBVIOUS
<1>3. /\ h \in Path /\ Len(h) = to /\ <<Last(h)>> = SubSeq(path, to, to)
      /\ \A k \in 1 .. to : <<h[k]>> = SubSeq(path, k, k)
  BY <1>2, LastIs
<1>4. ASSUME NEW k \in 1 .. Len(path), Globs(pat.segs, SubSeq(path, k, k)) PROVE Named(path, pat)
  <2>1. k \in 1 .. Len(path) /\ k \in k .. Len(path) /\ k - k + 1 = 1 BY <1>1
  <2>2. Len(SubSeq(path, k, k)) = 1 BY <1>1, <2>1, PartIs
  <2>3. Len(pat.segs) = 1 BY <1>4, <2>2 DEF Globs
  <2>. QED BY <1>4, <2>3 DEF Named
<1>5. ASSUME NEW j \in 1 .. to PROVE SubSeq(h, j, to) = SubSeq(path, j, to)
  <2>1. /\ 1 \in 1 .. Len(path) /\ to \in 1 .. Len(path) /\ j \in 1 .. to - 1 + 1 /\ to \in j .. to - 1 + 1
        /\ 1 + j - 1 = j /\ 1 + to - 1 = to
    BY <1>1
  <2>2. SubSeq(SubSeq(path, 1, to), j, to) = SubSeq(path, 1 + j - 1, 1 + to - 1)
    BY ONLY <1>1, <2>1, PartOfPart
  <2>. QED BY <1>2, <2>1, <2>2
<1>6. PICK from : from = IF pat.anchored THEN {h} ELSE Tails(h) OBVIOUS
<1>7. ASSUME NEW tail \in from
      PROVE  \E j \in 1 .. to : (pat.anchored => j = 1) /\ tail = SubSeq(path, j, to)
  <2>1. CASE pat.anchored
    <3>1. tail = SubSeq(path, 1, to) /\ 1 \in 1 .. to BY <1>1, <1>2, <1>6, <1>7, <2>1
    <3>. QED BY <3>1
  <2>2. CASE ~pat.anchored
    <3>1. PICK j \in 1 .. to : tail = SubSeq(h, j, to)
      <4>1. tail \in Tails(h) BY <1>6, <1>7, <2>2
      <4>. QED BY <1>3, <4>1 DEF Tails
    <3>. QED BY <1>5, <2>2, <3>1
  <2>. QED BY <2>1, <2>2
<1>8. \/ Globs(pat.segs, <<Last(h)>>)
      \/ pat.glob /\ \E tail \in from : Globs(pat.segs, tail)
      \/ ~pat.glob /\ Len(pat.segs) = 1 /\ \E i \in 1 .. Len(h) : Globs(pat.segs, <<h[i]>>)
      \/ ~pat.glob /\ Len(pat.segs) > 1 /\ \E tail \in from : \E part \in Heads(tail) : Globs(pat.segs, part)
  BY <1>2, <1>6, Zenon DEF MatchesPattern
<1>9. CASE Globs(pat.segs, <<Last(h)>>) BY <1>3, <1>4, <1>9
<1>10. CASE \E tail \in from : Globs(pat.segs, tail)
  <2>1. PICK j \in 1 .. to : (pat.anchored => j = 1) /\ Globs(pat.segs, SubSeq(path, j, to))
    BY <1>7, <1>10
  <2>2. j \in 1 .. Len(path) BY <1>1
  <2>. QED BY <2>1, <2>2, Zenon DEF Named
<1>11. CASE \E i \in 1 .. Len(h) : Globs(pat.segs, <<h[i]>>)
  <2>1. PICK i \in 1 .. to : Globs(pat.segs, SubSeq(path, i, i)) BY <1>3, <1>11
  <2>2. i \in 1 .. Len(path) BY <1>1
  <2>. QED BY <1>4, <2>1, <2>2
<1>12. CASE \E tail \in from : \E part \in Heads(tail) : Globs(pat.segs, part)
  <2>1. PICK tail \in from : \E part \in Heads(tail) : Globs(pat.segs, part) BY <1>12
  <2>2. PICK j \in 1 .. to : (pat.anchored => j = 1) /\ tail = SubSeq(path, j, to) BY <1>7
  <2>3. j \in 1 .. Len(path) /\ to \in j .. Len(path) BY <1>1
  <2>4. Len(tail) = to - j + 1 BY <1>1, <2>2, <2>3, PartIs
  <2>5. PICK l \in 1 .. to - j + 1 : Globs(pat.segs, SubSeq(tail, 1, l)) BY <2>1, <2>4 DEF Heads
  <2>6. PICK n \in 1 .. Len(path) : n = j + l - 1 BY <1>1, <2>3
  <2>7. 1 \in 1 .. to - j + 1 /\ l \in 1 .. to - j + 1 /\ j + 1 - 1 = j BY <1>1, <2>3
  <2>8. SubSeq(SubSeq(path, j, to), 1, l) = SubSeq(path, j + 1 - 1, j + l - 1)
    BY ONLY <1>1, <2>3, <2>7, PartOfPart
  <2>9. Globs(pat.segs, SubSeq(path, j, n)) BY <2>2, <2>5, <2>6, <2>7, <2>8
  <2>. QED BY <2>2, <2>3, <2>6, <2>9, Zenon DEF Named
<1>. QED BY <1>8, <1>9, <1>10, <1>11, <1>12

(* What a pattern names up to `to` it matches as far as `end`, a glob only *)
(* as far as `to`.                                                         *)
LEMMA NamedIsMatched ==
  ASSUME NEW path \in Path, NEW pat, Len(pat.segs) \in Nat, Len(pat.segs) # 0,
         pat.glob \in BOOLEAN, pat.anchored \in BOOLEAN,
         NEW i \in 1 .. Len(path), NEW to \in 1 .. Len(path), NEW end \in to .. Len(path),
         pat.anchored /\ Len(pat.segs) > 1 => i = 1, pat.glob => end = to,
         Globs(pat.segs, SubSeq(path, i, to))
  PROVE  MatchesPattern(SubSeq(path, 1, end), pat)
<1>1. path \in Seq(STRING) /\ Len(path) \in Nat BY LenProperties DEF Path
<1>2. i <= to /\ Len(pat.segs) = to - i + 1 BY SegmentsOne
<1>3. end \in 1 .. Len(path) /\ to \in i .. Len(path) BY <1>1, <1>2
<1>4. PICK h : h = SubSeq(path, 1, end) OBVIOUS
<1>5. /\ h \in Path /\ Len(h) = end /\ <<Last(h)>> = SubSeq(path, end, end)
      /\ \A k \in 1 .. end : <<h[k]>> = SubSeq(path, k, k)
  BY <1>3, <1>4, LastIs
<1>6. PICK from : from = IF pat.anchored THEN {h} ELSE Tails(h) OBVIOUS
<1>7. CASE Len(pat.segs) = 1
  <2>1. i = to
    <3>1. 1 = to - i + 1 BY <1>2, <1>7
    <3>. QED BY <1>1, <3>1
  <2>2. CASE pat.glob
    <3>1. Globs(pat.segs, <<Last(h)>>) BY <1>5, <2>1, <2>2
    <3>. QED BY <1>4, <3>1, Zenon DEF MatchesPattern
  <2>3. CASE ~pat.glob
    <3>1. i \in 1 .. Len(h) BY <1>1, <1>3, <1>5
    <3>2. Globs(pat.segs, <<h[i]>>) BY <1>5, <2>1, <3>1
    <3>. QED BY <1>4, <1>7, <2>3, <3>1, <3>2, Zenon DEF MatchesPattern
  <2>. QED BY <2>2, <2>3
<1>8. CASE Len(pat.segs) > 1
  <2>1. i \in 1 .. end /\ 1 \in 1 .. Len(path) /\ end \in i .. Len(path) BY <1>1, <1>2, <1>3
  <2>2. PICK tail : tail = SubSeq(path, i, end) OBVIOUS
  <2>3. tail \in from
    <3>1. CASE pat.anchored
      <4>1. i = 1 BY <1>8, <3>1
      <4>. QED BY <1>4, <1>6, <2>2, <3>1, <4>1
    <3>2. CASE ~pat.anchored
      <4>1. /\ 1 \in 1 .. Len(path) /\ end \in 1 .. Len(path) /\ i \in 1 .. end - 1 + 1
            /\ end \in i .. end - 1 + 1 /\ 1 + i - 1 = i /\ 1 + end - 1 = end
        BY <1>1, <1>3, <2>1
      <4>2. SubSeq(SubSeq(path, 1, end), i, end) = SubSeq(path, 1 + i - 1, 1 + end - 1)
        BY ONLY <1>1, <4>1, PartOfPart
      <4>3. tail = SubSeq(h, i, Len(h)) /\ i \in 1 .. Len(h) BY <1>4, <1>5, <2>1, <2>2, <4>1, <4>2
      <4>4. tail \in Tails(h) BY <4>3 DEF Tails
      <4>. QED BY <1>6, <3>2, <4>4
    <3>. QED BY <3>1, <3>2
  <2>4. CASE pat.glob
    <3>1. Globs(pat.segs, tail) BY <2>2, <2>4
    <3>. QED BY <1>4, <1>6, <2>3, <2>4, <3>1, Zenon DEF MatchesPattern
  <2>5. CASE ~pat.glob
    <3>1. Len(tail) = end - i + 1 BY <1>1, <2>1, <2>2, PartIs
    <3>2. PICK n \in 1 .. end - i + 1 : n = to - i + 1 BY <1>1, <1>2, <1>3
    <3>3. 1 \in 1 .. end - i + 1 /\ n \in 1 .. end - i + 1 /\ i + 1 - 1 = i /\ i + n - 1 = to
      BY <1>1, <1>2, <1>3, <3>2
    <3>4. i \in 1 .. Len(path) /\ end \in i .. Len(path) BY <2>1
    <3>5. SubSeq(SubSeq(path, i, end), 1, n) = SubSeq(path, i + 1 - 1, i + n - 1)
      BY ONLY <1>1, <3>3, <3>4, PartOfPart
    <3>6. SubSeq(tail, 1, n) = SubSeq(path, i, to) BY <2>2, <3>3, <3>5
    <3>7. SubSeq(tail, 1, n) \in Heads(tail) BY <3>1, <3>2 DEF Heads
    <3>8. Globs(pat.segs, SubSeq(tail, 1, n)) BY <3>6
    <3>. QED BY <1>4, <1>6, <1>8, <2>3, <2>5, <3>7, <3>8, Zenon DEF MatchesPattern
  <2>. QED BY <2>4, <2>5
<1>9. Len(pat.segs) = 1 \/ Len(pat.segs) > 1
  <2>1. PICK n \in Nat \ {0} : n = Len(pat.segs) OBVIOUS
  <2>2. n = 1 \/ n > 1 OBVIOUS
  <2>. QED BY <2>1, <2>2
<1>. QED BY <1>7, <1>8, <1>9

(* A walk keeps the sources no pattern names.                              *)
LEMMA KeepsUnnamed ==
  ASSUME NEW path \in Path, NEW patterns \in SUBSET Rule, \A pat \in patterns : pat.segs # <<>>
  PROVE  (\A above \in Heads(path) : ~Matches(above, patterns))
         <=> \A pat \in patterns : ~Named(path, pat)
<1>1. path \in Seq(STRING) /\ Len(path) \in Nat BY LenProperties DEF Path
<1>2. ASSUME NEW to \in 1 .. Len(path), NEW pat \in patterns, MatchesPattern(SubSeq(path, 1, to), pat)
      PROVE  Named(path, pat)
  <2>1. Len(pat.segs) \in Nat BY PatternIs
  <2>. QED BY <1>2, <2>1, MatchedIsNamed
<1>3. ASSUME NEW pat \in patterns, Named(path, pat)
      PROVE  \E to \in 1 .. Len(path) : MatchesPattern(SubSeq(path, 1, to), pat)
  <2>1. /\ Len(pat.segs) \in Nat /\ Len(pat.segs) # 0
        /\ pat.glob \in BOOLEAN /\ pat.anchored \in BOOLEAN
    BY PatternIs
  <2>2. PICK i \in 1 .. Len(path), to \in 1 .. Len(path) :
          /\ pat.anchored /\ Len(pat.segs) > 1 => i = 1
          /\ Globs(pat.segs, SubSeq(path, i, to))
    BY <1>3 DEF Named
  <2>3. to \in to .. Len(path) BY <1>1
  <2>4. MatchesPattern(SubSeq(path, 1, to), pat) BY <2>1, <2>2, <2>3, NamedIsMatched
  <2>. QED BY <2>4
<1>. QED BY <1>2, <1>3, Zenon DEF Heads, Matches

(* A file that a pattern leaves out matches it.                            *)
LEMMA LeftOutMatches ==
  ASSUME NEW path \in Path, NEW patterns \in SUBSET Rule, \A pat \in patterns : pat.segs # <<>>,
         NEW pat \in patterns, LeftOut(path, pat)
  PROVE  Matches(path, patterns)
<1>1. path \in Seq(STRING) /\ Len(path) \in Nat BY LenProperties DEF Path
<1>2. /\ Len(pat.segs) \in Nat /\ Len(pat.segs) # 0
      /\ pat.glob \in BOOLEAN /\ pat.anchored \in BOOLEAN
  BY PatternIs
<1>3. PICK i \in 1 .. Len(path), to \in 1 .. Len(path) :
        /\ pat.anchored /\ Len(pat.segs) > 1 => i = 1
        /\ pat.glob => to = Len(path)
        /\ Globs(pat.segs, SubSeq(path, i, to))
  BY DEF LeftOut
<1>4. PICK end \in to .. Len(path) : end = Len(path) BY <1>1
<1>5. MatchesPattern(SubSeq(path, 1, end), pat) BY <1>2, <1>3, <1>4, NamedIsMatched
<1>6. SubSeq(path, 1, end) = path BY <1>1, <1>4, SubSeqFull
<1>. QED BY <1>5, <1>6, Zenon DEF Matches

(* The files of a walk that can be read are the wanted ones.               *)
Read(files, patterns) ==
  LET walked == Walk(files, patterns) IN Kept(walked, {k \in 1 .. Len(walked) : walked[k].readable})

(* What an index reads: the wanted files, each of them. *)
LEMMA ReadIs ==
  ASSUME NEW files \in Seq(File), NEW patterns \in SUBSET Rule, \A pat \in patterns : pat.segs # <<>>
  PROVE  /\ Read(files, patterns) \in Seq(File)
         /\ \A k \in 1 .. Len(Read(files, patterns)) : Read(files, patterns)[k] \in Wanted(files, patterns)
         /\ \A f \in Wanted(files, patterns) :
              \E k \in 1 .. Len(Read(files, patterns)) : Read(files, patterns)[k] = f
<1> DEFINE unnamed(f) == \A pat \in patterns : ~Named(f.path, pat)
<1>a. PICK walked : walked = Walk(files, patterns) OBVIOUS
<1>b. PICK read : read = Read(files, patterns) OBVIOUS
<1>0. read = Kept(walked, {k \in 1 .. Len(walked) : walked[k].readable}) BY <1>a, <1>b, Zenon DEF Read
<1>1. PICK S : S = {k \in 1 .. Len(files) :
                      files[k].source /\ \A above \in Heads(files[k].path) : ~Matches(above, patterns)}
  OBVIOUS
<1>2. ASSUME NEW k \in 1 .. Len(files) PROVE k \in S <=> files[k].source /\ unnamed(files[k])
  <2>1. files[k] \in File BY ElementOfSeq
  <2>2. files[k].path \in Path BY <2>1, FileIs
  <2>3. (\A above \in Heads(files[k].path) : ~Matches(above, patterns)) <=> unnamed(files[k])
    BY <2>2, KeepsUnnamed
  <2> HIDE DEF unnamed
  <2>. QED BY <1>1, <2>3, Zenon
<1>3. S \in SUBSET (1 .. Len(files)) BY <1>1
<1>4. walked = Kept(files, S) BY <1>a, <1>1, Zenon DEF Walk
<1>5. /\ walked \in Seq(File)
      /\ \A k \in 1 .. Len(walked) : \E n \in S : walked[k] = files[n]
      /\ \A n \in S : \E k \in 1 .. Len(walked) : walked[k] = files[n]
  <2>1. /\ Kept(files, S) \in Seq(File)
        /\ \A k \in 1 .. Len(Kept(files, S)) : \E n \in S : Kept(files, S)[k] = files[n]
        /\ \A n \in S : \E k \in 1 .. Len(Kept(files, S)) : Kept(files, S)[k] = files[n]
    BY ONLY files \in Seq(File), <1>3, KeptHasAll
  <2>. QED BY <1>4, <2>1
<1>6. PICK R : R = {k \in 1 .. Len(walked) : walked[k].readable} OBVIOUS
<1>7. R \in SUBSET (1 .. Len(walked)) BY <1>6
<1>8. /\ read \in Seq(File)
      /\ \A k \in 1 .. Len(read) : \E n \in R : read[k] = walked[n]
      /\ \A n \in R : \E k \in 1 .. Len(read) : read[k] = walked[n]
  <2>1. /\ Kept(walked, R) \in Seq(File)
        /\ \A k \in 1 .. Len(Kept(walked, R)) : \E n \in R : Kept(walked, R)[k] = walked[n]
        /\ \A n \in R : \E k \in 1 .. Len(Kept(walked, R)) : Kept(walked, R)[k] = walked[n]
    BY ONLY <1>5, <1>7, KeptHasAll
  <2>2. read = Kept(walked, R) BY <1>0, <1>6, Zenon
  <2>. QED BY <2>1, <2>2
<1>9. ASSUME NEW f
      PROVE  f \in Wanted(files, patterns)
             <=> (\E k \in 1 .. Len(files) : f = files[k]) /\ f.source /\ f.readable /\ unnamed(f)
  BY Zenon DEF Wanted
<1> HIDE DEF unnamed
<1>10. ASSUME NEW k \in 1 .. Len(read) PROVE read[k] \in Wanted(files, patterns)
  <2>1. PICK n \in R : read[k] = walked[n] BY <1>8
  <2>2. n \in 1 .. Len(walked) /\ walked[n].readable BY <1>6
  <2>3. PICK m \in S : walked[n] = files[m] BY <1>5, <2>2
  <2>4. m \in 1 .. Len(files) /\ files[m].source /\ unnamed(files[m]) BY <1>2, <1>3
  <2>. QED BY <1>9, <2>1, <2>2, <2>3, <2>4, Zenon
<1>11. ASSUME NEW f \in Wanted(files, patterns) PROVE \E k \in 1 .. Len(read) : read[k] = f
  <2>1. PICK m \in 1 .. Len(files) : f = files[m] BY <1>9, Zenon
  <2>2. f.source /\ f.readable /\ unnamed(f) BY <1>9, Zenon
  <2>3. m \in S BY <1>2, <2>1, <2>2, Zenon
  <2>4. PICK n \in 1 .. Len(walked) : walked[n] = f BY <1>5, <2>1, <2>3
  <2>5. n \in R BY <1>6, <2>2, <2>4, Zenon
  <2>. QED BY <1>8, <2>4, <2>5
<1>. QED BY <1>b, <1>8, <1>10, <1>11

(* The chunks are parts of wanted files and hold all their wanted lines.   *)
MadeOf(chunks, W) == \A k \in 1 .. Len(chunks) : \E f \in W : f \in File /\ PartOf(chunks[k], f)
Cover(chunks, W) ==
  \A f \in W : \A i \in WantedLines(f) :
    \E k \in 1 .. Len(chunks) : chunks[k].file = f.path /\ i \in chunks[k].first .. chunks[k].last

(* The chunks of a project: parts of wanted files, and each wanted line in one of them. *)
LEMMA ChunksAre ==
  ASSUME NEW files \in Seq(File), \A k \in 1 .. Len(files) : IsNested(files[k]),
         NEW patterns \in SUBSET Rule, \A pat \in patterns : pat.segs # <<>>, NEW max
  PROVE  /\ Chunks(files, patterns, max) \in Seq(Chunk)
         /\ MadeOf(Chunks(files, patterns, max), Wanted(files, patterns))
         /\ Cover(Chunks(files, patterns, max), Wanted(files, patterns))
<1>1. PICK read : read = Read(files, patterns) OBVIOUS
<1>3. PICK W : W = Wanted(files, patterns) OBVIOUS
<1>4. /\ read \in Seq(File) /\ Len(read) \in Nat
      /\ \A k \in 1 .. Len(read) : read[k] \in W
      /\ \A f \in W : \E k \in 1 .. Len(read) : read[k] = f
  <2>1. Read(files, patterns) \in Seq(File) BY ReadIs
  <2>2. \A k \in 1 .. Len(Read(files, patterns)) : Read(files, patterns)[k] \in Wanted(files, patterns)
    BY ReadIs
  <2>3. \A f \in Wanted(files, patterns) :
          \E k \in 1 .. Len(Read(files, patterns)) : Read(files, patterns)[k] = f
    BY ReadIs
  <2>. QED BY <1>1, <1>3, <2>1, <2>2, <2>3, LenProperties
<1>2. W \subseteq {files[k] : k \in 1 .. Len(files)} BY <1>3, Zenon DEF Wanted
<1>5. ASSUME NEW f \in W PROVE f \in File /\ IsNested(f)
  <2>1. PICK k \in 1 .. Len(files) : f = files[k] BY <1>2
  <2>. QED BY <2>1, ElementOfSeq
<1>6. PICK q : q = [k \in 1 .. Len(read) |-> Split(read[k], max)] OBVIOUS
<1>7. Chunks(files, patterns, max) = FlattenSeq(q) BY <1>1, <1>6, Zenon DEF Chunks, Read
<1>8. ASSUME NEW k \in 1 .. Len(read)
      PROVE  /\ read[k] \in W /\ read[k] \in File
             /\ q[k] \in Seq(Chunk)
             /\ \A j \in 1 .. Len(q[k]) : PartOf(q[k][j], read[k])
             /\ \A i \in WantedLines(read[k]) : Has(q[k], i)
  <2>1. read[k] \in W /\ read[k] \in File /\ IsNested(read[k]) BY <1>4, <1>5
  <2>2. q[k] = Split(read[k], max) BY <1>6
  <2>. QED BY <2>1, <2>2, SplitIs
<1>9. q \in Seq(Seq(Chunk)) /\ Len(q) = Len(read)
  <2>1. q = [k \in 1 .. Len(read) |-> q[k]] BY <1>6
  <2>2. \A k \in 1 .. Len(read) : q[k] \in Seq(Chunk) BY <1>8
  <2>. QED BY <1>4, <2>1, <2>2
<1>10. PICK t : t = FlattenSeq(q) OBVIOUS
<1>11. /\ t \in Seq(Chunk)
       /\ \A k \in 1 .. Len(t) : \E i \in 1 .. Len(q) : \E j \in 1 .. Len(q[i]) : t[k] = q[i][j]
       /\ \A i \in 1 .. Len(q) : \A j \in 1 .. Len(q[i]) : \E k \in 1 .. Len(t) : t[k] = q[i][j]
  <2>1. /\ FlattenSeq(q) \in Seq(Chunk)
        /\ \A k \in 1 .. Len(FlattenSeq(q)) :
             \E i \in 1 .. Len(q) : \E j \in 1 .. Len(q[i]) : FlattenSeq(q)[k] = q[i][j]
        /\ \A i \in 1 .. Len(q) : \A j \in 1 .. Len(q[i]) :
             \E k \in 1 .. Len(FlattenSeq(q)) : FlattenSeq(q)[k] = q[i][j]
    BY <1>9, FlattenHas
  <2>. QED BY <1>10, <2>1
<1>12. ASSUME NEW k \in 1 .. Len(t) PROVE \E f \in W : f \in File /\ PartOf(t[k], f)
  <2>1. PICK n \in 1 .. Len(q) : \E j \in 1 .. Len(q[n]) : t[k] = q[n][j] BY <1>11
  <2>2. PICK j \in 1 .. Len(q[n]) : t[k] = q[n][j] BY <2>1
  <2>. QED BY <1>8, <1>9, <2>2
<1>13. ASSUME NEW f \in W, NEW i \in WantedLines(f)
       PROVE  \E k \in 1 .. Len(t) : t[k].file = f.path /\ i \in t[k].first .. t[k].last
  <2>1. PICK n \in 1 .. Len(q) : read[n] = f BY <1>4, <1>9
  <2>2. PICK j \in 1 .. Len(q[n]) : i \in q[n][j].first .. q[n][j].last BY <1>8, <1>9, <2>1 DEF Has
  <2>3. PICK k \in 1 .. Len(t) : t[k] = q[n][j] BY <1>11
  <2>4. t[k].file = f.path BY <1>8, <1>9, <2>1, <2>3 DEF PartOf
  <2>. QED BY <2>2, <2>3, <2>4
<1>14. MadeOf(t, W) BY <1>12 DEF MadeOf
<1>15. Cover(t, W) BY <1>13 DEF Cover
<1>. QED BY <1>3, <1>7, <1>10, <1>11, <1>14, <1>15

-----------------------------------------------------------------------------
(* A batch: the rows of the chunks after the first `done`.                 *)

RowOf(row, chunk) ==
  /\ row.file = chunk.file /\ row.first = chunk.first /\ row.last = chunk.last
  /\ row.text = chunk.text /\ FlattenSeq(row.vector) = row.text
RowsOf(rows, chunks, from, to) ==
  /\ \A row \in rows : \E k \in from .. to : RowOf(row, chunks[k])
  /\ \A k \in from .. to : \E row \in rows : RowOf(row, chunks[k])

BatchPart(chunks, done) == SubSeq(chunks, done + 1, Smaller(done + BatchSize, Len(chunks)))
Texts(batch) == [k \in 1 .. Len(batch) |-> batch[k].text]
RowIs(row, chunk, vector) ==
  row = [file |-> chunk.file, first |-> chunk.first, last |-> chunk.last, text |-> chunk.text,
         vector |-> vector]

(* BatchOf, unfolded. *)
LEMMA BatchOfParts ==
  ASSUME NEW chunks, NEW done, NEW limit
  PROVE  /\ BatchOf(chunks, done, limit).size = Len(BatchPart(chunks, done))
         /\ \A row : row \in BatchOf(chunks, done, limit).rows <=>
              \E k \in 1 .. Len(BatchPart(chunks, done)) :
                RowIs(row, BatchPart(chunks, done)[k], Vectors(Texts(BatchPart(chunks, done)), limit)[k])
<1> DEFINE bat == BatchPart(chunks, done)
           vec == Vectors(Texts(bat), limit)
           rows == {[file |-> bat[k].file, first |-> bat[k].first, last |-> bat[k].last,
                     text |-> bat[k].text, vector |-> vec[k]] : k \in 1 .. Len(bat)}
<1>1. BatchOf(chunks, done, limit).size = Len(bat) BY ONLY Zenon DEF BatchOf, BatchPart
<1>2. BatchOf(chunks, done, limit).rows = rows BY ONLY Zenon DEF BatchOf, BatchPart, Texts
<1>3. \A row : row \in rows <=> \E k \in 1 .. Len(bat) : RowIs(row, bat[k], vec[k])
  <2> HIDE DEF bat, vec
  <2>. QED BY DEF RowIs
<1> HIDE DEF rows
<1>. QED BY <1>1, <1>2, <1>3

(* A batch: the rows of the next chunks; it is empty only after the last one. *)
LEMMA BatchOfIs ==
  ASSUME NEW chunks \in Seq(Chunk), NEW done \in 0 .. Len(chunks), NEW limit \in Nat \ {0}
  PROVE  /\ BatchOf(chunks, done, limit).size \in Nat
         /\ done + BatchOf(chunks, done, limit).size \in done .. Len(chunks)
         /\ BatchOf(chunks, done, limit).size = 0 => done = Len(chunks)
         /\ RowsOf(BatchOf(chunks, done, limit).rows, chunks,
                   done + 1, done + BatchOf(chunks, done, limit).size)
<1>1. PICK L \in Nat : L = Len(chunks) BY LenProperties
<1>2. PICK to \in done .. L : to = Smaller(done + BatchSize, Len(chunks)) /\ (to = done => done = L)
  <2>1. BatchSize \in Nat \ {0} BY IndexerAssumption
  <2>. QED BY <1>1, <2>1 DEF Smaller
<1>3. PICK batch : batch = SubSeq(chunks, done + 1, to) OBVIOUS
<1>4. PICK n \in Nat : n = to - done BY <1>1
<1>5. /\ batch \in Seq(Chunk) /\ Len(batch) = n
      /\ \A k \in 1 .. n : batch[k] = chunks[done + k] /\ done + k \in 1 .. L
  <2>1. \A k \in done + 1 .. to : chunks[k] \in Chunk BY <1>1, ElementOfSeq
  <2>2. done + 1 \in Int /\ to \in Int BY <1>1
  <2>3. batch \in Seq(Chunk) BY ONLY <1>3, <2>1, <2>2, SubSeqProperties
  <2>4. Len(batch) = n BY <1>1, <1>3, <1>4
  <2>5. ASSUME NEW k \in 1 .. n PROVE batch[k] = chunks[done + k] /\ done + k \in 1 .. L
    BY <1>1, <1>3, <1>4
  <2>. QED BY <2>3, <2>4, <2>5
<1>6. PICK texts : texts = [k \in 1 .. Len(batch) |-> batch[k].text] OBVIOUS
<1>7. texts \in Seq(Text) /\ Len(texts) = n /\ \A k \in 1 .. n : texts[k] = batch[k].text
  <2>1. \A k \in 1 .. n : batch[k] \in Chunk BY <1>5, ElementOfSeq
  <2>2. \A k \in 1 .. n : batch[k].text \in Text BY <2>1 DEF Chunk
  <2> HIDE DEF Text
  <2>. QED BY <1>4, <1>5, <1>6, <2>2
<1>8. PICK vectors : vectors = Vectors(texts, limit) OBVIOUS
<1>9. ASSUME NEW k \in 1 .. n PROVE FlattenSeq(vectors[k]) = texts[k]
  <2>1. texts \in Seq(Seq(Char)) /\ k \in 1 .. Len(texts) BY <1>7 DEF Text
  <2>. QED BY <1>8, <2>1, VectorsAre
<1>10. PICK b : b = BatchOf(chunks, done, limit) OBVIOUS
<1>11. /\ b.size = Len(batch)
       /\ \A row : row \in b.rows <=> \E k \in 1 .. Len(batch) :
            row = [file |-> batch[k].file, first |-> batch[k].first, last |-> batch[k].last,
                   text |-> batch[k].text, vector |-> vectors[k]]
  <2>1. batch = BatchPart(chunks, done) BY <1>2, <1>3 DEF BatchPart
  <2>2. texts = Texts(batch) BY <1>6 DEF Texts
  <2>3. b.size = Len(batch) BY <1>10, <2>1, BatchOfParts
  <2>4. \A row : row \in b.rows <=> \E k \in 1 .. Len(batch) : RowIs(row, batch[k], vectors[k])
    BY <1>8, <1>10, <2>1, <2>2, BatchOfParts, Zenon
  <2>. QED BY <2>3, <2>4, Zenon DEF RowIs
<1>12. b.size = n /\ done + n = to BY <1>4, <1>5, <1>11
<1>13. ASSUME NEW row \in b.rows PROVE \E k \in done + 1 .. to : RowOf(row, chunks[k])
  <2>1. PICK k \in 1 .. n :
          row = [file |-> batch[k].file, first |-> batch[k].first, last |-> batch[k].last,
                 text |-> batch[k].text, vector |-> vectors[k]]
    BY <1>5, <1>11
  <2>2. batch[k] = chunks[done + k] /\ FlattenSeq(vectors[k]) = batch[k].text BY <1>5, <1>7, <1>9
  <2>3. RowOf(row, chunks[done + k]) BY <2>1, <2>2 DEF RowOf
  <2>4. done + k \in done + 1 .. to BY <1>1, <1>12
  <2>. QED BY <2>3, <2>4
<1>14. ASSUME NEW m \in done + 1 .. to PROVE \E row \in b.rows : RowOf(row, chunks[m])
  <2>1. PICK k \in 1 .. n : m = done + k
    <3>1. m - done \in 1 .. n /\ m = done + (m - done) BY <1>1, <1>12
    <3>. QED BY <3>1
  <2>2. PICK row : row = [file |-> batch[k].file, first |-> batch[k].first, last |-> batch[k].last,
                          text |-> batch[k].text, vector |-> vectors[k]]
    OBVIOUS
  <2>3. batch[k] = chunks[m] /\ FlattenSeq(vectors[k]) = batch[k].text BY <1>5, <1>7, <1>9, <2>1
  <2>4. RowOf(row, chunks[m]) BY <2>2, <2>3 DEF RowOf
  <2>5. row \in b.rows BY <1>5, <1>11, <2>2
  <2>. QED BY <2>4, <2>5
<1>15. RowsOf(b.rows, chunks, done + 1, done + b.size) BY <1>12, <1>13, <1>14 DEF RowsOf
<1>16. done + b.size \in done .. Len(chunks) /\ b.size \in Nat BY <1>1, <1>12
<1>17. b.size = 0 => done = Len(chunks)
  <2>1. CASE b.size = 0
    <3>1. to = done BY <1>12, <2>1
    <3>. QED BY <1>1, <1>2, <3>1
  <2>. QED BY <2>1
<1>. QED BY <1>10, <1>15, <1>16, <1>17

-----------------------------------------------------------------------------
(* The data a process holds.                                               *)

PCs == {"idle"} \cup IndexPCs \cup ClearPCs \cup ReadPCs
ChunksOf(x) == Chunks(Trees[x.of], Effective(RuleSets[x.now.rules]), x.max)

ProcOK(x) ==
  /\ x \in Proc
  /\ x.pc \in IndexPCs => x.max \in Limits /\ x.limit \in 1 .. x.max
  /\ x.pc \in (IndexPCs \ {"rules"}) \cup {"query"} => x.now.rules \in 1 .. Len(RuleSets)
  /\ x.pc \in {"embed", "insert"} => x.of \in 1 .. Len(Trees) /\ x.done \in 0 .. Len(ChunksOf(x))
  /\ x.pc \notin {"embed", "insert"} => x.done = 0

BatchFor(x) == Batches[x.of][x.now.rules][x.max][x.done][x.limit]

(* The rules in force are rules. *)
LEMMA RulesAre ==
  ASSUME NEW r \in 1 .. Len(RuleSets)
  PROVE  Effective(RuleSets[r]) \in SUBSET Rule /\ \A pat \in Effective(RuleSets[r]) : pat.segs # <<>>
<1>1. RuleSets \in Seq(SUBSET Rule) BY IndexerAssumption
<1>2. r \in DOMAIN RuleSets /\ RuleSets[r] \in SUBSET Rule BY <1>1, ElementOfSeq
<1>3. \A line \in Effective(RuleSets[r]) : line.segs # <<>> BY <1>2, IndexerAssumption
<1>4. Effective(RuleSets[r]) \subseteq RuleSets[r] BY DEF Effective
<1>. QED BY <1>2, <1>3, <1>4

(* The files at any time are files. *)
LEMMA TreesAre ==
  ASSUME NEW t \in 1 .. Len(Trees)
  PROVE  Trees[t] \in Seq(File) /\ \A k \in 1 .. Len(Trees[t]) : IsNested(Trees[t][k])
<1>1. Trees \in Seq(Seq(File)) BY IndexerAssumption
<1>2. t \in DOMAIN Trees /\ Trees[t] \in Seq(File) BY <1>1, ElementOfSeq
<1>3. DOMAIN Trees[t] = 1 .. Len(Trees[t]) BY <1>2
<1>4. \A k \in DOMAIN Trees[t] : IsNested(Trees[t][k]) BY <1>2, IndexerAssumption
<1>. QED BY <1>2, <1>3, <1>4

(* BatchOfIs, of the batch a process is at. *)
LEMMA BatchIs ==
  ASSUME NEW x, ProcOK(x), x.pc \in {"embed", "insert"}
  PROVE  /\ ChunksOf(x) \in Seq(Chunk)
         /\ BatchFor(x).size \in Nat
         /\ x.done + BatchFor(x).size \in x.done .. Len(ChunksOf(x))
         /\ BatchFor(x).size = 0 => x.done = Len(ChunksOf(x))
         /\ RowsOf(BatchFor(x).rows, ChunksOf(x), x.done + 1, x.done + BatchFor(x).size)
<1>1. x.pc \in IndexPCs /\ x.pc # "rules" BY DEF IndexPCs
<1>2. x.of \in 1 .. Len(Trees) /\ x.now.rules \in 1 .. Len(RuleSets) /\ x.max \in Limits
      /\ x.done \in 0 .. Len(ChunksOf(x)) /\ x.limit \in 1 .. x.max /\ x.limit \in Nat \ {0}
  <2>1. x.of \in 1 .. Len(Trees) /\ x.now.rules \in 1 .. Len(RuleSets) /\ x.max \in Limits
        /\ x.done \in 0 .. Len(ChunksOf(x)) /\ x.limit \in 1 .. x.max
    BY <1>1, Zenon DEF ProcOK
  <2>2. x.max \in Nat BY <2>1, IndexerAssumption
  <2>. QED BY <2>1, <2>2
<1>3. PICK c : c = ChunksOf(x) OBVIOUS
<1>4. Batches[x.of][x.now.rules][x.max] =
        [done \in 0 .. Len(ChunksOf(x)) |-> [limit \in 1 .. x.max |-> BatchOf(ChunksOf(x), done, limit)]]
  BY <1>2, Zenon DEF Batches, ChunksOf
<1>5. PICK done \in 0 .. Len(c) : done = x.done BY <1>2, <1>3
<1>6. PICK limit \in Nat \ {0} : limit = x.limit BY <1>2
<1>7. BatchFor(x) = BatchOf(c, done, limit)
  <2>1. done \in 0 .. Len(ChunksOf(x)) /\ limit \in 1 .. x.max BY <1>2, <1>3, <1>5, <1>6
  <2>2. Batches[x.of][x.now.rules][x.max][done][limit] = BatchOf(ChunksOf(x), done, limit)
    <3>1. PICK g : g = Batches[x.of][x.now.rules][x.max] OBVIOUS
    <3>2. g[done] = [l \in 1 .. x.max |-> BatchOf(ChunksOf(x), done, l)] BY <1>4, <2>1, <3>1, Zenon
    <3>3. g[done][limit] = BatchOf(ChunksOf(x), done, limit) BY <2>1, <3>2, Zenon
    <3>. QED BY <3>1, <3>3
  <2>. QED BY <1>3, <1>5, <1>6, <2>2 DEF BatchFor
<1>8. ChunksOf(x) \in Seq(Chunk) BY <1>2, RulesAre, TreesAre, ChunksAre DEF ChunksOf
<1>9. /\ BatchOf(c, done, limit).size \in Nat
      /\ done + BatchOf(c, done, limit).size \in done .. Len(c)
      /\ BatchOf(c, done, limit).size = 0 => done = Len(c)
      /\ RowsOf(BatchOf(c, done, limit).rows, c, done + 1, done + BatchOf(c, done, limit).size)
  <2>1. c \in Seq(Chunk) BY <1>3, <1>8
  <2>. QED BY <2>1, BatchOfIs
<1>. QED BY <1>3, <1>5, <1>6, <1>7, <1>8, <1>9

-----------------------------------------------------------------------------
(* What always holds of the data.                                          *)

RowOK(row) == row.file \in Path /\ FlattenSeq(row.vector) = row.text
ReplyOK(r) ==
  /\ r.said \in {"", "indexed", "current", "stale", "none", "cleared", "hits", "failed"}
  /\ \A file \in r.files : \A pat \in Effective(RuleSets[r.rules]) : ~LeftOut(file, pat)

ProcsOK == proc = [p \in Procs |-> proc[p]] /\ \A p \in Procs : ProcOK(proc[p])
RepliesOK == reply = [p \in Procs |-> reply[p]] /\ \A p \in Procs : ReplyOK(reply[p])
MainOK ==
  /\ main = [there |-> main.there, rows |-> main.rows] /\ main.there \in BOOLEAN
  /\ (~main.there => main.rows = {}) /\ \A row \in main.rows : RowOK(row)
MetaOK == meta = [there |-> meta.there, record |-> meta.record] /\ meta.there \in BOOLEAN /\ meta.record \in Record
ProjectOK == tree \in 1 .. Len(Trees) /\ head \in 0 .. Len(Trees) /\ rules \in 1 .. Len(RuleSets)
CountsOK == torn \in BOOLEAN /\ commands \in 0 .. MaxCommands /\ faults \in 0 .. MaxFaults
DataOK == ProcsOK /\ RepliesOK /\ MainOK /\ MetaOK /\ ProjectOK /\ CountsOK

(* What holds as long as no two writers met, nothing changed under an      *)
(* index and no metadata outlived its own.                                 *)

OneWriter == \A p, q \in Procs : Writing(p) /\ Writing(q) => p = q

(* What an index process read is as it was.                                *)
IsFresh(p) ==
  /\ proc[p].pc \in IndexPCs => proc[p].now.commit = head
  /\ proc[p].pc \in IndexPCs \ {"rules"} => proc[p].now.rules = rules
  /\ proc[p].pc \in {"embed", "insert"} => proc[p].of = tree

(* How far it is: the rows are those of the chunks it has done.            *)
IsBuilding(p) ==
  /\ proc[p].pc \in {"dropMeta", "clearMeta", "createMain"} => ~main.there
  /\ proc[p].pc \in {"createMeta", "walk", "embed", "insert"} => main.there
  /\ proc[p].pc \in {"createMain", "createMeta", "walk", "embed", "insert"} => meta.record = NoRecord
  /\ proc[p].pc \in {"createMeta", "walk"} => main.rows = {}
  /\ proc[p].pc \in {"embed", "insert"} => RowsOf(main.rows, ChunksOf(proc[p]), 1, proc[p].done)

(* The chunks of the whole project, under some limit.                      *)
IsWhole(rows, t, r) ==
  LET wanted == Wanted(Trees[t], Effective(RuleSets[r])) IN
  /\ \A f \in wanted : \A i \in WantedLines(f) :
       \E row \in rows : row.file = f.path /\ i \in row.first .. row.last
  /\ \A row \in rows : \E f \in wanted :
       row.file = f.path /\ row.text = ExtractLines(f.lines, row.first, row.last)
IsDescribed ==
  meta.record # NoRecord =>
    /\ meta.record = [commit |-> made.head, rules |-> made.rules]
    /\ main.there => IsWhole(main.rows, made.tree, made.rules)
    /\ ~main.there => \E p \in Procs : proc[p].pc \in {"dropMeta", "clearMeta"}

Order == OneWriter /\ (\A p \in Procs : IsFresh(p) /\ IsBuilding(p)) /\ IsDescribed
OrderOK == ~torn => Order

-----------------------------------------------------------------------------
(* One process moves, the others stay where they are.                      *)

Others(p) == \A q \in Procs \ {p} : proc'[q] = proc[q]
OtherReplies(p) == \A q \in Procs \ {p} : reply'[q] = reply[q]
Answers == {"", "indexed", "current", "stale", "none", "cleared", "hits", "failed"}

(* A process that moves to data that is in order leaves all of it in order. *)
LEMMA Moves ==
  ASSUME ProcsOK, NEW p \in Procs, NEW x, ProcOK(x), proc' = [proc EXCEPT ![p] = x]
  PROVE  ProcsOK' /\ proc'[p] = x /\ Others(p)
<1>1. proc = [q \in Procs |-> proc[q]] /\ \A q \in Procs : ProcOK(proc[q]) BY DEF ProcsOK
<1>2. proc'[p] = x /\ Others(p) BY <1>1 DEF Others
<1>3. proc' = [q \in Procs |-> proc'[q]] BY <1>1
<1>4. \A q \in Procs : ProcOK(proc'[q]) BY <1>1, <1>2 DEF Others
<1>. QED BY <1>2, <1>3, <1>4 DEF ProcsOK, ProcOK

(* The same of replies. *)
LEMMA Replies ==
  ASSUME RepliesOK, NEW p \in Procs, NEW r, ReplyOK(r), reply' = [reply EXCEPT ![p] = r]
  PROVE  RepliesOK' /\ reply'[p] = r /\ OtherReplies(p)
<1>1. reply = [q \in Procs |-> reply[q]] /\ \A q \in Procs : ReplyOK(reply[q]) BY DEF RepliesOK
<1>2. reply'[p] = r /\ OtherReplies(p) BY <1>1 DEF OtherReplies
<1>3. reply' = [q \in Procs |-> reply'[q]] BY <1>1
<1>4. \A q \in Procs : ReplyOK(reply'[q]) BY <1>1, <1>2 DEF OtherReplies
<1>. QED BY <1>2, <1>3, <1>4 DEF RepliesOK, ReplyOK

(* An idle process holds nothing. *)
LEMMA IdleOK == ProcOK(Idle)
<1>1. Idle \in Proc
  <2>1. MaxAttempts \in Nat BY IndexerAssumption
  <2>2. 0 \in 0 .. Len(Trees) /\ 0 \in 0 .. Len(RuleSets) /\ 0 \in 0 .. MaxAttempts
    BY <2>1, IndexerAssumption
  <2>. QED BY <2>2 DEF Idle, Proc, NoRecord, Record
<1>2. Idle.pc = "idle" /\ Idle.done = 0 BY DEF Idle
<1>. QED BY <1>1, <1>2 DEF ProcOK, IndexPCs

(* A command that ends. *)
LEMMA SaysMoves ==
  ASSUME ProcsOK, RepliesOK, NEW p \in Procs, NEW said \in Answers, Says(p, said)
  PROVE  /\ ProcsOK' /\ proc'[p] = Idle /\ Others(p)
         /\ RepliesOK' /\ reply'[p] = [NoReply EXCEPT !.said = said] /\ reply'[p].said = said
         /\ OtherReplies(p)
<1>1. proc' = [proc EXCEPT ![p] = Idle] /\ reply' = [reply EXCEPT ![p] = [NoReply EXCEPT !.said = said]]
  BY DEF Says
<1>2. PICK r : r = [NoReply EXCEPT !.said = said] OBVIOUS
<1>3. r.said = said /\ r.files = {} BY <1>2 DEF NoReply
<1>4. ReplyOK(r) BY <1>3 DEF ReplyOK, Answers
<1>. QED BY <1>1, <1>2, <1>3, <1>4, IdleOK, Moves, Replies

(* A step along the program keeps the process's data.                      *)
LEMMA Goings ==
  ASSUME NEW x, ProcOK(x), NEW pc \in PCs,
         pc \in IndexPCs => x.pc \in IndexPCs,
         pc \in (IndexPCs \ {"rules"}) \cup {"query"} => x.pc \in (IndexPCs \ {"rules"}) \cup {"query"},
         pc \in {"embed", "insert"} <=> x.pc \in {"embed", "insert"}
  PROVE  ProcOK([x EXCEPT !.pc = pc])
<1>1. x \in Proc BY DEF ProcOK
<1>2. PICK y : y = [x EXCEPT !.pc = pc] OBVIOUS
<1>3. /\ y \in Proc /\ y.pc = pc /\ y.max = x.max /\ y.limit = x.limit /\ y.now = x.now
      /\ y.of = x.of /\ y.done = x.done
  BY <1>1, <1>2 DEF Proc, PCs
<1>4. ChunksOf(y) = ChunksOf(x) BY <1>3 DEF ChunksOf
<1>5. ProcOK(y) BY <1>3, <1>4, Zenon DEF ProcOK
<1>. QED BY <1>2, <1>5

SameData(x, y) ==
  y.now = x.now /\ y.of = x.of /\ y.max = x.max /\ y.limit = x.limit /\ y.done = x.done

(* A process that goes on within its command. *)
LEMMA GoesMoves ==
  ASSUME ProcsOK, NEW p \in Procs, NEW pc \in PCs, Goes(p, pc),
         pc \in IndexPCs => proc[p].pc \in IndexPCs,
         pc \in (IndexPCs \ {"rules"}) \cup {"query"} => proc[p].pc \in (IndexPCs \ {"rules"}) \cup {"query"},
         pc \in {"embed", "insert"} <=> proc[p].pc \in {"embed", "insert"}
  PROVE  ProcsOK' /\ proc'[p].pc = pc /\ SameData(proc[p], proc'[p]) /\ Others(p)
<1>1. ProcOK(proc[p]) /\ proc[p] \in Proc BY DEF ProcsOK, ProcOK
<1>2. PICK x : x = [proc[p] EXCEPT !.pc = pc] OBVIOUS
<1>3. ProcOK(x) BY <1>1, <1>2, Goings
<1>4. proc' = [proc EXCEPT ![p] = x]
  <2>1. proc' = [proc EXCEPT ![p].pc = pc] BY DEF Goes
  <2>. QED BY <1>2, <2>1
<1>5. x.pc = pc /\ SameData(proc[p], x) BY <1>1, <1>2 DEF SameData, Proc
<1>. QED BY <1>3, <1>4, <1>5, Moves

-----------------------------------------------------------------------------
(* Every step keeps the data.                                              *)

StoreOK == MainOK /\ MetaOK

(* The store, left alone. *)
LEMMA StoreStays ==
  ASSUME StoreOK, UNCHANGED storeVars
  PROVE  StoreOK' /\ main' = main /\ meta' = meta /\ made' = made
BY DEF StoreOK, MainOK, MetaOK, RowOK, storeVars

(* The cap of a limit by another is one of the two. *)
LEMMA CapIs ==
  ASSUME NEW detected \in Limits, NEW cap \in {0} \cup Limits
  PROVE  CapMaxInputChars(detected, cap) \in Limits
<1>1. \A n \in Limits : n # 0 BY IndexerAssumption
<1>. QED BY <1>1 DEF CapMaxInputChars, Smaller

(* A command begins. *)
LEMMA BeginsData ==
  ASSUME ProcsOK, RepliesOK, ProjectOK, NEW p \in Procs, Begins(p)
  PROVE  /\ ProcsOK' /\ Others(p) /\ RepliesOK' /\ reply'[p] = NoReply /\ OtherReplies(p)
         /\ \/ proc'[p].pc = "rules" /\ proc'[p].now.commit = head
            \/ proc'[p].pc \in {"clear", "status", "search"}
<1>1. RepliesOK' /\ reply'[p] = NoReply /\ OtherReplies(p)
  <2>1. ReplyOK(NoReply) BY DEF ReplyOK, NoReply
  <2>2. reply' = [reply EXCEPT ![p] = NoReply] BY DEF Begins
  <2>. QED BY <2>1, <2>2, Replies
<1>2. ASSUME NEW force \in BOOLEAN, NEW chars \in Limits, NEW x,
             x = [Idle EXCEPT !.pc = "rules", !.force = force, !.now.commit = head, !.max = chars, !.limit = chars],
             proc' = [proc EXCEPT ![p] = x]
      PROVE  ProcsOK' /\ Others(p) /\ proc'[p].pc = "rules" /\ proc'[p].now.commit = head
  <2>1. chars \in Nat \ {0} /\ chars \in 1 .. chars BY IndexerAssumption
  <2>2. Idle \in Proc BY IdleOK DEF ProcOK
  <2>3. [NoRecord EXCEPT !.commit = head] \in Record /\ [NoRecord EXCEPT !.commit = head].commit = head
    <3>1. 0 \in 0 .. Len(RuleSets) BY IndexerAssumption
    <3>. QED BY <3>1 DEF NoRecord, Record, ProjectOK
  <2>4. Idle.now = NoRecord BY DEF Idle
  <2>5. PICK now \in Record : now = [NoRecord EXCEPT !.commit = head] /\ now.commit = head BY <2>3
  <2>6. x = [Idle EXCEPT !.pc = "rules", !.force = force, !.now = now, !.max = chars, !.limit = chars]
    BY <1>2, <2>2, <2>4, <2>5 DEF Idle, NoRecord
  <2>7. /\ x \in Proc /\ x.pc = "rules" /\ x.max = chars /\ x.limit = chars /\ x.now = now /\ x.done = Idle.done
    BY <2>1, <2>2, <2>6 DEF Proc, IndexPCs
  <2>8. ProcOK(x) BY <2>1, <2>7 DEF ProcOK, Idle
  <2>. QED BY <1>2, <2>5, <2>7, <2>8, Moves
<1>3. ASSUME NEW pc \in {"clear", "status", "search"}, NEW x, x = [Idle EXCEPT !.pc = pc],
             proc' = [proc EXCEPT ![p] = x]
      PROVE  ProcsOK' /\ Others(p) /\ proc'[p].pc = pc
  <2>1. pc \in PCs /\ pc \notin IndexPCs /\ pc # "query" BY DEF PCs, IndexPCs, ClearPCs, ReadPCs
  <2>2. ProcOK(x)
    <3>1. Idle.pc \notin {"embed", "insert"} /\ pc \notin {"embed", "insert"} BY DEF Idle
    <3>. QED BY <1>3, <2>1, <3>1, IdleOK, Goings
  <2>3. x.pc = pc BY <1>3 DEF Idle
  <2>. QED BY <1>3, <2>2, <2>3, Moves
<1>4. \/ \E force \in BOOLEAN, detected \in Limits, cap \in {0} \cup Limits :
           proc' = [proc EXCEPT ![p] = [Idle EXCEPT !.pc = "rules", !.force = force, !.now.commit = head,
                      !.max = CapMaxInputChars(detected, cap), !.limit = CapMaxInputChars(detected, cap)]]
      \/ \E pc \in {"clear", "status", "search"} : proc' = [proc EXCEPT ![p] = [Idle EXCEPT !.pc = pc]]
  BY Zenon DEF Begins
<1>5. CASE \E force \in BOOLEAN, detected \in Limits, cap \in {0} \cup Limits :
             proc' = [proc EXCEPT ![p] = [Idle EXCEPT !.pc = "rules", !.force = force, !.now.commit = head,
                        !.max = CapMaxInputChars(detected, cap), !.limit = CapMaxInputChars(detected, cap)]]
  BY <1>1, <1>2, <1>5, CapIs
<1>6. CASE \E pc \in {"clear", "status", "search"} : proc' = [proc EXCEPT ![p] = [Idle EXCEPT !.pc = pc]]
  BY <1>1, <1>3, <1>6
<1>. QED BY <1>4, <1>5, <1>6

(* cs index reads the rules. *)
LEMMA ReadsRulesData ==
  ASSUME ProcsOK, ProjectOK, NEW p \in Procs, ReadsRules(p)
  PROVE  /\ ProcsOK' /\ Others(p) /\ proc[p].pc = "rules" /\ proc'[p].pc \in {"dimension", "check"}
         /\ proc'[p].now.commit = proc[p].now.commit /\ proc'[p].now.rules = rules
<1>1. ProcOK(proc[p]) /\ proc[p].pc = "rules" BY DEF ProcsOK, ReadsRules, At
<1>2. PICK pc \in {"dimension", "check"} : pc = IF proc[p].force THEN "dimension" ELSE "check" OBVIOUS
<1>3. proc[p] \in Proc /\ proc[p].now \in Record BY <1>1 DEF ProcOK, Proc
<1>4. PICK now : now = [proc[p].now EXCEPT !.rules = rules] OBVIOUS
<1>5. now \in Record /\ now.rules = rules /\ now.commit = proc[p].now.commit
      /\ rules \in 1 .. Len(RuleSets)
  <2>1. rules \in 1 .. Len(RuleSets) /\ rules \in 0 .. Len(RuleSets) BY DEF ProjectOK
  <2>. QED BY <1>3, <1>4, <2>1 DEF Record
<1>6. PICK x : x = [proc[p] EXCEPT !.now = now, !.pc = pc] OBVIOUS
<1>7. /\ x \in Proc /\ x.pc = pc /\ x.now = now /\ x.max = proc[p].max /\ x.limit = proc[p].limit
      /\ x.done = proc[p].done
  BY <1>3, <1>5, <1>6 DEF Proc, IndexPCs
<1>8. pc \in IndexPCs /\ pc \notin {"embed", "insert"} /\ proc[p].pc \in IndexPCs BY <1>1 DEF IndexPCs
<1>9. ProcOK(x) BY <1>1, <1>5, <1>7, <1>8 DEF ProcOK
<1>10. proc' = [proc EXCEPT ![p] = x]
  <2>1. proc' = [proc EXCEPT ![p].now.rules = rules, ![p].pc = pc] BY <1>2 DEF ReadsRules
  <2>. QED BY <1>3, <1>4, <1>6, <2>1 DEF ProcsOK, Proc
<1>. QED BY <1>1, <1>5, <1>7, <1>9, <1>10, Moves

(* cs index before it writes: it asks the store, and goes on or is done. *)
LEMMA LooksData ==
  ASSUME ProcsOK, RepliesOK, NEW p \in Procs,
         Checks(p) \/ ChecksMeta(p) \/ DetectsDimension(p) \/ Recreates(p)
  PROVE  /\ ProcsOK' /\ RepliesOK' /\ Others(p) /\ UNCHANGED storeVars
         /\ proc[p].pc \in {"check", "checkMeta", "dimension", "recreate"}
         /\ \/ proc'[p] = Idle
            \/ /\ SameData(proc[p], proc'[p])
               /\ \/ proc'[p].pc \in {"checkMeta", "dimension", "recreate", "dropMain"}
                  \/ ~main.there /\ proc'[p].pc = "createMain"
<1>1. ASSUME UNCHANGED reply PROVE RepliesOK' BY <1>1 DEF RepliesOK, ReplyOK
<1>2. ASSUME proc[p].pc \in {"check", "checkMeta", "dimension", "recreate"},
             NEW pc \in {"checkMeta", "dimension", "recreate", "dropMain", "createMain"}, Goes(p, pc)
      PROVE  ProcsOK' /\ Others(p) /\ SameData(proc[p], proc'[p]) /\ proc'[p].pc = pc
  <2>1. /\ pc \in PCs /\ pc \in IndexPCs \ {"rules"} /\ pc \notin {"embed", "insert"}
        /\ proc[p].pc \in IndexPCs \ {"rules"} /\ proc[p].pc \notin {"embed", "insert"}
    BY <1>2 DEF PCs, IndexPCs
  <2>. QED BY <1>2, <2>1, GoesMoves
<1>3. CASE Checks(p)
  <2>1. PICK pc \in {"checkMeta", "dimension"} : Goes(p, pc) BY <1>3 DEF Checks
  <2>2. proc[p].pc = "check" /\ UNCHANGED reply /\ UNCHANGED storeVars BY <1>3 DEF Checks, At
  <2>. QED BY <1>1, <1>2, <2>1, <2>2
<1>4. CASE ChecksMeta(p)
  <2>1. proc[p].pc = "checkMeta" /\ UNCHANGED storeVars BY <1>4 DEF ChecksMeta, At
  <2>2. CASE Goes(p, "dimension") /\ UNCHANGED reply BY <1>1, <1>2, <2>1, <2>2
  <2>3. CASE Says(p, "current")
    <3>1. "current" \in Answers BY DEF Answers
    <3>. QED BY <2>1, <2>3, <3>1, SaysMoves
  <2>. QED BY <1>4, <2>2, <2>3 DEF ChecksMeta
<1>5. CASE DetectsDimension(p)
  <2>1. proc[p].pc = "dimension" /\ Goes(p, "recreate") /\ UNCHANGED reply /\ UNCHANGED storeVars
    BY <1>5 DEF DetectsDimension, At
  <2>. QED BY <1>1, <1>2, <2>1
<1>6. CASE Recreates(p)
  <2>1. proc[p].pc = "recreate" /\ UNCHANGED reply /\ UNCHANGED storeVars BY <1>6 DEF Recreates, At
  <2>2. CASE main.there /\ Goes(p, "dropMain") BY <1>1, <1>2, <2>1, <2>2
  <2>3. CASE ~main.there /\ Goes(p, "createMain") BY <1>1, <1>2, <2>1, <2>3
  <2>. QED BY <1>6, <2>2, <2>3 DEF Recreates
<1>. QED BY <1>3, <1>4, <1>5, <1>6

(* cs index drops the chunks, then the metadata. *)
LEMMA DropsData ==
  ASSUME ProcsOK, RepliesOK, StoreOK, NEW p \in Procs, Drops(p)
  PROVE  /\ ProcsOK' /\ RepliesOK' /\ StoreOK' /\ Others(p) /\ SameData(proc[p], proc'[p])
         /\ \/ /\ proc[p].pc = "dropMain" /\ proc'[p].pc = "dropMeta"
               /\ main' = NoMain /\ UNCHANGED <<meta, made>>
            \/ /\ proc[p].pc = "dropMeta" /\ proc'[p].pc = "createMain"
               /\ meta' = NoMeta /\ UNCHANGED <<main, made>>
<1>1. RepliesOK' BY DEF Drops, RepliesOK, ReplyOK
<1>2. ASSUME proc[p].pc \in {"dropMain", "dropMeta"}, NEW pc \in {"dropMeta", "createMain"}, Goes(p, pc)
      PROVE  ProcsOK' /\ Others(p) /\ SameData(proc[p], proc'[p]) /\ proc'[p].pc = pc
  <2>1. /\ pc \in PCs /\ pc \in IndexPCs \ {"rules"} /\ pc \notin {"embed", "insert"}
        /\ proc[p].pc \in IndexPCs \ {"rules"} /\ proc[p].pc \notin {"embed", "insert"}
    BY <1>2 DEF PCs, IndexPCs
  <2>. QED BY <1>2, <2>1, GoesMoves
<1>3. CASE At(p, "dropMain") /\ DropMain /\ Goes(p, "dropMeta")
  <2>1. main' = NoMain /\ UNCHANGED <<meta, made>> BY <1>3 DEF DropMain
  <2>2. StoreOK' BY <2>1 DEF StoreOK, MainOK, MetaOK, NoMain
  <2>. QED BY <1>1, <1>2, <1>3, <2>1, <2>2 DEF At
<1>4. CASE At(p, "dropMeta") /\ DropMeta /\ Goes(p, "createMain")
  <2>1. meta' = NoMeta /\ UNCHANGED <<main, made>> BY <1>4 DEF DropMeta
  <2>2. NoRecord \in Record /\ NoMeta.record = NoRecord /\ NoMeta.there = FALSE
        /\ NoMeta = [there |-> NoMeta.there, record |-> NoMeta.record]
    <3>1. 0 \in 0 .. Len(RuleSets) /\ 0 \in 0 .. Len(Trees) BY IndexerAssumption
    <3>. QED BY <3>1 DEF NoRecord, Record, NoMeta
  <2>3. StoreOK' BY <2>1, <2>2 DEF StoreOK, MainOK, MetaOK, RowOK
  <2>. QED BY <1>1, <1>2, <1>4, <2>1, <2>3 DEF At
<1>. QED BY <1>3, <1>4 DEF Drops

(* cs index creates both collections. *)
LEMMA CreatesData ==
  ASSUME ProcsOK, RepliesOK, StoreOK, NEW p \in Procs, Creates(p)
  PROVE  /\ ProcsOK' /\ RepliesOK' /\ StoreOK' /\ Others(p)
         /\ \/ /\ proc[p].pc = "createMain" /\ proc'[p].pc = "createMeta" /\ SameData(proc[p], proc'[p])
               /\ main'.rows = main.rows /\ main'.there /\ UNCHANGED <<meta, made>>
            \/ /\ proc[p].pc = "createMeta" /\ proc'[p].pc = "walk" /\ SameData(proc[p], proc'[p])
               /\ meta'.record = meta.record /\ UNCHANGED <<main, made>>
            \/ /\ proc[p].pc \in {"createMain", "createMeta"} /\ proc'[p] = Idle
               /\ UNCHANGED storeVars
<1>1. ASSUME UNCHANGED reply PROVE RepliesOK' BY <1>1 DEF RepliesOK, ReplyOK
<1>2. ASSUME proc[p].pc \in {"createMain", "createMeta"}, NEW pc \in {"createMeta", "walk"}, Goes(p, pc)
      PROVE  ProcsOK' /\ Others(p) /\ SameData(proc[p], proc'[p]) /\ proc'[p].pc = pc
  <2>1. /\ pc \in PCs /\ pc \in IndexPCs \ {"rules"} /\ pc \notin {"embed", "insert"}
        /\ proc[p].pc \in IndexPCs \ {"rules"} /\ proc[p].pc \notin {"embed", "insert"}
    BY <1>2 DEF PCs, IndexPCs
  <2>. QED BY <1>2, <2>1, GoesMoves
<1>3. CASE At(p, "createMain") /\ CreateMain /\ Goes(p, "createMeta") /\ UNCHANGED reply
  <2>1. main = [there |-> main.there, rows |-> main.rows] BY DEF StoreOK, MainOK
  <2>2. main' = [main EXCEPT !.there = TRUE] /\ UNCHANGED <<meta, made>> BY <1>3 DEF CreateMain
  <2>3. main' = [there |-> TRUE, rows |-> main.rows] BY <2>1, <2>2
  <2>4. main'.there = TRUE /\ main'.rows = main.rows BY <2>3
  <2>5. StoreOK' BY <2>2, <2>3, <2>4 DEF StoreOK, MainOK, MetaOK, RowOK
  <2>. QED BY <1>1, <1>2, <1>3, <2>2, <2>4, <2>5 DEF At
<1>4. CASE At(p, "createMeta") /\ CreateMeta /\ Goes(p, "walk") /\ UNCHANGED reply
  <2>1. meta = [there |-> meta.there, record |-> meta.record] /\ meta.record \in Record
    BY DEF StoreOK, MetaOK
  <2>2. meta' = [meta EXCEPT !.there = TRUE] /\ UNCHANGED <<main, made>> BY <1>4 DEF CreateMeta
  <2>3. meta' = [there |-> TRUE, record |-> meta.record] BY <2>1, <2>2
  <2>4. meta'.there = TRUE /\ meta'.record = meta.record BY <2>3
  <2>5. StoreOK' BY <2>1, <2>2, <2>3, <2>4 DEF StoreOK, MainOK, MetaOK, RowOK
  <2>. QED BY <1>1, <1>2, <1>4, <2>2, <2>4, <2>5 DEF At
<1>5. CASE proc[p].pc \in {"createMain", "createMeta"} /\ Says(p, "failed") /\ UNCHANGED storeVars
  <2>1. "failed" \in Answers BY DEF Answers
  <2>. QED BY <1>5, <2>1, SaysMoves, StoreStays
<1>. QED BY <1>3, <1>4, <1>5 DEF Creates, At

(* cs index reads the files. *)
LEMMA WalksData ==
  ASSUME ProcsOK, RepliesOK, StoreOK, ProjectOK, NEW p \in Procs, Walks(p)
  PROVE  /\ ProcsOK' /\ RepliesOK' /\ StoreOK' /\ Others(p) /\ UNCHANGED storeVars
         /\ proc[p].pc = "walk" /\ proc'[p].pc = "embed" /\ proc'[p].of = tree
         /\ proc'[p].now = proc[p].now /\ proc'[p].done = 0
<1>1. RepliesOK' BY DEF Walks, RepliesOK, ReplyOK
<1>2. StoreOK' /\ UNCHANGED storeVars BY StoreStays DEF Walks
<1>3. ProcOK(proc[p]) /\ proc[p].pc = "walk" BY DEF ProcsOK, Walks, At
<1>4. proc[p] \in Proc BY <1>3 DEF ProcOK
<1>5. PICK x : x = [proc[p] EXCEPT !.of = tree, !.pc = "embed", !.attempt = 1] OBVIOUS
<1>6. tree \in 1 .. Len(Trees) /\ tree \in 0 .. Len(Trees) /\ 1 \in 0 .. MaxAttempts
  BY IndexerAssumption DEF ProjectOK
<1>7. /\ x \in Proc /\ x.pc = "embed" /\ x.of = tree /\ x.now = proc[p].now /\ x.max = proc[p].max
      /\ x.limit = proc[p].limit /\ x.done = proc[p].done
  BY <1>4, <1>5, <1>6 DEF Proc, IndexPCs
<1>8. /\ proc[p].max \in Limits /\ proc[p].limit \in 1 .. proc[p].max
      /\ proc[p].now.rules \in 1 .. Len(RuleSets) /\ proc[p].done = 0
  BY <1>3 DEF ProcOK, IndexPCs
<1>9. 0 \in 0 .. Len(ChunksOf(x))
  <2>1. ChunksOf(x) \in Seq(Chunk)
    BY <1>6, <1>7, <1>8, RulesAre, TreesAre, ChunksAre DEF ChunksOf
  <2>. QED BY <2>1, LenProperties
<1>10. ProcOK(x) BY <1>6, <1>7, <1>8, <1>9 DEF ProcOK
<1>11. proc' = [proc EXCEPT ![p] = x]
  <2>1. proc' = [proc EXCEPT ![p].of = tree, ![p].pc = "embed", ![p].attempt = 1] BY DEF Walks
  <2>. QED BY <1>4, <1>5, <2>1 DEF ProcsOK, Proc
<1>. QED BY <1>1, <1>2, <1>3, <1>7, <1>8, <1>10, <1>11, Moves

(* A batch is embedded, tried again under a lower limit, or fails. *)
LEMMA EmbedsData ==
  ASSUME ProcsOK, RepliesOK, StoreOK, NEW p \in Procs, Embeds(p)
  PROVE  /\ ProcsOK' /\ RepliesOK' /\ StoreOK' /\ Others(p) /\ UNCHANGED storeVars
         /\ proc[p].pc = "embed"
         /\ \/ proc'[p] = Idle
            \/ /\ proc'[p].pc \in {"embed", "insert"}
               /\ proc'[p].now = proc[p].now /\ proc'[p].of = proc[p].of
               /\ proc'[p].max = proc[p].max /\ proc'[p].done = proc[p].done
<1> DEFINE half == proc[p].limit \div 2
           next == IF half < MinChars THEN MinChars ELSE half
<1>1. ASSUME UNCHANGED reply PROVE RepliesOK' BY <1>1 DEF RepliesOK, ReplyOK
<1>2. StoreOK' /\ UNCHANGED storeVars BY StoreStays DEF Embeds
<1>3. ProcOK(proc[p]) /\ proc[p].pc = "embed" BY DEF ProcsOK, Embeds, At
<1>4. proc[p] \in Proc BY <1>3 DEF ProcOK
<1>5. \/ Goes(p, "insert") /\ UNCHANGED reply
      \/ /\ next < proc[p].limit /\ proc[p].attempt < MaxAttempts
         /\ proc' = [proc EXCEPT ![p].limit = next, ![p].attempt = @ + 1] /\ UNCHANGED reply
      \/ Says(p, "failed")
  BY Zenon DEF Embeds
<1>6. CASE Goes(p, "insert") /\ UNCHANGED reply
  <2>1. /\ "insert" \in PCs /\ "insert" \in IndexPCs \ {"rules"} /\ "insert" \in {"embed", "insert"}
        /\ proc[p].pc \in IndexPCs \ {"rules"} /\ proc[p].pc \in {"embed", "insert"}
    BY <1>3 DEF PCs, IndexPCs
  <2>2. ProcsOK' /\ proc'[p].pc = "insert" /\ SameData(proc[p], proc'[p]) /\ Others(p)
    BY <1>6, <2>1, GoesMoves
  <2>. QED BY <1>1, <1>2, <1>3, <1>6, <2>2 DEF SameData
<1>7. CASE /\ next < proc[p].limit /\ proc[p].attempt < MaxAttempts
           /\ proc' = [proc EXCEPT ![p].limit = next, ![p].attempt = @ + 1] /\ UNCHANGED reply
  <2>1. proc[p].max \in Limits /\ proc[p].limit \in 1 .. proc[p].max /\ proc[p].max \in Nat
    BY <1>3, IndexerAssumption DEF ProcOK, IndexPCs
  <2>2. PICK limit \in Nat : limit = next /\ limit \in 1 .. proc[p].max
    <3>1. MinChars \in Nat \ {0} BY IndexerAssumption
    <3>2. half \in Int BY <2>1
    <3> HIDE DEF half
    <3>. QED BY <1>7, <2>1, <3>1, <3>2
  <2> HIDE DEF next
  <2>3. proc[p].attempt + 1 \in 0 .. MaxAttempts
    <3>1. proc[p].attempt \in 0 .. MaxAttempts /\ MaxAttempts \in Nat BY <1>4, IndexerAssumption DEF Proc
    <3>. QED BY <1>7, <3>1
  <2>4. PICK x : x = [proc[p] EXCEPT !.limit = limit, !.attempt = proc[p].attempt + 1] OBVIOUS
  <2>5. /\ x \in Proc /\ x.pc = "embed" /\ x.of = proc[p].of /\ x.now = proc[p].now
        /\ x.max = proc[p].max /\ x.limit = limit /\ x.done = proc[p].done
    BY <1>3, <1>4, <2>3, <2>4 DEF Proc
  <2>6. ChunksOf(x) = ChunksOf(proc[p]) BY <2>5 DEF ChunksOf
  <2>7. ProcOK(x) BY <1>3, <2>1, <2>2, <2>5, <2>6 DEF ProcOK
  <2>8. proc' = [proc EXCEPT ![p] = x] BY <1>4, <1>7, <2>2, <2>4 DEF ProcsOK, Proc
  <2>. QED BY <1>1, <1>2, <1>3, <1>7, <2>5, <2>7, <2>8, Moves
<1>8. CASE Says(p, "failed")
  <2>1. "failed" \in Answers BY DEF Answers
  <2>. QED BY <1>2, <1>3, <1>8, <2>1, SaysMoves
<1>. QED BY <1>5, <1>6, <1>7, <1>8

(* A batch is inserted. *)
LEMMA InsertsData ==
  ASSUME ProcsOK, RepliesOK, StoreOK, NEW p \in Procs, Inserts(p)
  PROVE  /\ ProcsOK' /\ RepliesOK' /\ StoreOK' /\ Others(p)
         /\ proc[p].pc = "insert" /\ UNCHANGED <<meta, made>> /\ main'.there = main.there
         /\ \/ proc'[p] = Idle /\ main' = main
            \/ /\ main'.rows = main.rows \cup BatchFor(proc[p]).rows
               /\ proc'[p].pc = "embed" /\ proc'[p].now = proc[p].now /\ proc'[p].of = proc[p].of
               /\ proc'[p].max = proc[p].max
               /\ proc'[p].done = proc[p].done + BatchFor(proc[p]).size
<1>1. ProcOK(proc[p]) /\ proc[p].pc = "insert" BY DEF ProcsOK, Inserts, At
<1>2. proc[p] \in Proc BY <1>1 DEF ProcOK
<1>3. Batch(p) = BatchFor(proc[p]) BY DEF Batch, BatchFor
<1>4. CASE /\ main.there /\ main' = [main EXCEPT !.rows = @ \cup Batch(p).rows]
           /\ proc' = [proc EXCEPT ![p].done = @ + Batch(p).size, ![p].pc = "embed", ![p].attempt = 1]
           /\ UNCHANGED <<reply, meta, made>>
  <2>1. PICK b : b = BatchFor(proc[p]) OBVIOUS
  <2>2. PICK c : c = ChunksOf(proc[p]) OBVIOUS
  <2>3. PICK d : d = proc[p].done OBVIOUS
  <2>4. /\ c \in Seq(Chunk) /\ b.size \in Nat /\ d + b.size \in d .. Len(c)
        /\ RowsOf(b.rows, c, d + 1, d + b.size)
    BY <1>1, <2>1, <2>2, <2>3, BatchIs
  <2>5. d \in 0 .. Len(c) /\ Len(c) \in Nat BY <1>1, <2>2, <2>3, <2>4, LenProperties DEF ProcOK
  <2>6. main = [there |-> main.there, rows |-> main.rows] BY DEF StoreOK, MainOK
  <2>7. main' = [there |-> main.there, rows |-> main.rows \cup b.rows] BY <1>3, <1>4, <2>1, <2>6
  <2>8. main'.there = main.there /\ main'.rows = main.rows \cup b.rows BY <2>7
  <2>9. ASSUME NEW row \in b.rows PROVE RowOK(row)
    <3>1. PICK k \in d + 1 .. d + b.size : RowOf(row, c[k]) BY <2>4 DEF RowsOf
    <3>2. k \in 1 .. Len(c) BY <2>4, <2>5
    <3>3. c[k].file \in Path
      <4>1. c[k] \in Chunk BY <2>4, <3>2, ElementOfSeq
      <4>. QED BY <4>1 DEF Chunk
    <3>. QED BY <3>1, <3>3 DEF RowOf, RowOK
  <2>10. \A row \in main.rows : RowOK(row) BY DEF StoreOK, MainOK
  <2>11. MainOK'
    <3>1. \A row \in main'.rows : RowOK(row) BY <2>8, <2>9, <2>10
    <3>. QED BY <1>4, <2>7, <2>8, <3>1 DEF StoreOK, MainOK, RowOK
  <2>12. StoreOK' /\ RepliesOK' BY <1>4, <2>11 DEF StoreOK, MetaOK, RepliesOK, ReplyOK
  <2>13. 1 \in 0 .. MaxAttempts BY IndexerAssumption
  <2>14. PICK n \in 0 .. Len(c) : n = d + b.size BY <2>4, <2>5
  <2>15. PICK x : x = [proc[p] EXCEPT !.done = n, !.pc = "embed", !.attempt = 1] OBVIOUS
  <2>16. /\ x \in Proc /\ x.pc = "embed" /\ x.of = proc[p].of /\ x.now = proc[p].now
         /\ x.max = proc[p].max /\ x.limit = proc[p].limit /\ x.done = n
    <3>1. n \in Nat BY <2>5
    <3>. QED BY ONLY <1>2, <2>13, <2>15, <3>1 DEF Proc, IndexPCs
  <2>17. ChunksOf(x) = c BY <2>2, <2>16 DEF ChunksOf
  <2>18. ProcOK(x) BY <1>1, <2>16, <2>17 DEF ProcOK, IndexPCs
  <2>19. proc' = [proc EXCEPT ![p] = x]
    BY <1>2, <1>3, <1>4, <2>1, <2>3, <2>14, <2>15 DEF ProcsOK, Proc
  <2>. QED BY <1>1, <1>4, <2>1, <2>3, <2>8, <2>12, <2>14, <2>16, <2>18, <2>19, Moves
<1>5. CASE Says(p, "failed") /\ UNCHANGED storeVars
  <2>1. "failed" \in Answers BY DEF Answers
  <2>2. UNCHANGED <<main, meta, made>> BY <1>5 DEF storeVars
  <2>. QED BY <1>1, <1>5, <2>1, <2>2, SaysMoves, StoreStays
<1>. QED BY <1>4, <1>5 DEF Inserts

(* SetMetadata, after the last batch. *)
LEMMA DescribesData ==
  ASSUME ProcsOK, RepliesOK, StoreOK, NEW p \in Procs, Describes(p)
  PROVE  /\ ProcsOK' /\ RepliesOK' /\ StoreOK' /\ Others(p)
         /\ proc[p].pc = "embed" /\ proc'[p] = Idle /\ main' = main
         /\ proc[p].done = Len(ChunksOf(proc[p]))
         /\ \/ UNCHANGED storeVars
            \/ /\ meta'.record = proc[p].now
               /\ made' = [tree |-> tree, head |-> head, rules |-> rules]
<1>1. ProcOK(proc[p]) /\ proc[p].pc = "embed" BY DEF ProcsOK, Describes, At
<1>2. Batch(p) = BatchFor(proc[p]) BY DEF Batch, BatchFor
<1>3. proc[p].done = Len(ChunksOf(proc[p]))
  <2>1. BatchFor(proc[p]).size = 0 BY <1>2 DEF Describes
  <2>. QED BY <1>1, <2>1, BatchIs
<1>4. CASE /\ meta' = [meta EXCEPT !.record = proc[p].now]
           /\ made' = [tree |-> tree, head |-> head, rules |-> rules]
           /\ Says(p, "indexed") /\ UNCHANGED main
  <2>1. "indexed" \in Answers BY DEF Answers
  <2>2. meta = [there |-> meta.there, record |-> meta.record] /\ proc[p].now \in Record
    BY <1>1 DEF StoreOK, MetaOK, ProcOK, Proc
  <2>3. meta' = [there |-> meta.there, record |-> proc[p].now] BY <1>4, <2>2
  <2>4. meta'.there = meta.there /\ meta'.record = proc[p].now BY <2>3
  <2>5. StoreOK' BY <1>4, <2>2, <2>3, <2>4 DEF StoreOK, MainOK, MetaOK, RowOK
  <2>. QED BY <1>1, <1>3, <1>4, <2>1, <2>4, <2>5, SaysMoves
<1>5. CASE Says(p, "failed") /\ UNCHANGED storeVars
  <2>1. "failed" \in Answers BY DEF Answers
  <2>2. UNCHANGED main BY <1>5 DEF storeVars
  <2>. QED BY <1>1, <1>3, <1>5, <2>1, <2>2, SaysMoves, StoreStays
<1>. QED BY <1>4, <1>5 DEF Describes

(* cs clear. *)
LEMMA ClearsData ==
  ASSUME ProcsOK, RepliesOK, StoreOK, NEW p \in Procs, Clears(p)
  PROVE  /\ ProcsOK' /\ RepliesOK' /\ StoreOK' /\ Others(p)
         /\ \/ proc[p].pc = "clear" /\ proc'[p].pc = "clearMain" /\ UNCHANGED storeVars
            \/ proc[p].pc = "clear" /\ proc'[p] = Idle /\ UNCHANGED storeVars
            \/ /\ proc[p].pc = "clearMain" /\ proc'[p].pc = "clearMeta"
               /\ main' = NoMain /\ UNCHANGED <<meta, made>>
            \/ /\ proc[p].pc = "clearMeta" /\ proc'[p] = Idle
               /\ meta' = NoMeta /\ UNCHANGED <<main, made>>
<1>1. ASSUME UNCHANGED reply PROVE RepliesOK' BY <1>1 DEF RepliesOK, ReplyOK
<1>2. ASSUME proc[p].pc \in {"clear", "clearMain"}, NEW pc \in {"clearMain", "clearMeta"}, Goes(p, pc)
      PROVE  ProcsOK' /\ Others(p) /\ proc'[p].pc = pc
  <2>1. /\ pc \in PCs /\ pc \notin IndexPCs /\ pc \notin {"embed", "insert", "query"}
        /\ proc[p].pc \notin {"embed", "insert"}
    BY <1>2 DEF PCs, IndexPCs, ClearPCs
  <2>. QED BY <1>2, <2>1, GoesMoves
<1>3. "none" \in Answers /\ "cleared" \in Answers BY DEF Answers
<1>4. CASE At(p, "clear") /\ Goes(p, "clearMain") /\ UNCHANGED reply /\ UNCHANGED storeVars
  BY <1>1, <1>2, <1>4, StoreStays DEF At
<1>5. CASE At(p, "clear") /\ Says(p, "none") /\ UNCHANGED storeVars
  BY <1>3, <1>5, SaysMoves, StoreStays DEF At
<1>6. CASE At(p, "clearMain") /\ DropMain /\ Goes(p, "clearMeta") /\ UNCHANGED reply
  <2>1. main' = NoMain /\ UNCHANGED <<meta, made>> BY <1>6 DEF DropMain
  <2>2. StoreOK' BY <2>1 DEF StoreOK, MainOK, MetaOK, NoMain
  <2>. QED BY <1>1, <1>2, <1>6, <2>1, <2>2 DEF At
<1>7. CASE At(p, "clearMeta") /\ DropMeta /\ Says(p, "cleared")
  <2>1. meta' = NoMeta /\ UNCHANGED <<main, made>> BY <1>7 DEF DropMeta
  <2>2. NoRecord \in Record /\ NoMeta.record = NoRecord /\ NoMeta.there = FALSE
        /\ NoMeta = [there |-> NoMeta.there, record |-> NoMeta.record]
    <3>1. 0 \in 0 .. Len(RuleSets) /\ 0 \in 0 .. Len(Trees) BY IndexerAssumption
    <3>. QED BY <3>1 DEF NoRecord, Record, NoMeta
  <2>3. StoreOK' BY <2>1, <2>2 DEF StoreOK, MainOK, MetaOK, RowOK
  <2>. QED BY <1>3, <1>7, <2>1, <2>3, SaysMoves DEF At
<1>. QED BY <1>4, <1>5, <1>6, <1>7 DEF Clears

(* Commands that write nothing.                                            *)
LEMMA ReadsData ==
  ASSUME ProcsOK, RepliesOK, StoreOK, ProjectOK, NEW p \in Procs, Reports(p) \/ Searches(p)
  PROVE  /\ ProcsOK' /\ RepliesOK' /\ StoreOK' /\ Others(p) /\ UNCHANGED storeVars
         /\ proc[p].pc \in ReadPCs /\ proc'[p].pc \in {"idle", "statusMeta", "query"}
<1>1. ASSUME UNCHANGED reply PROVE RepliesOK' BY <1>1 DEF RepliesOK, ReplyOK
<1>2. UNCHANGED storeVars /\ StoreOK' BY StoreStays DEF Reports, Searches
<1>3. Answers \subseteq Answers /\ Idle.pc = "idle" BY DEF Idle
<1>4. ASSUME NEW said \in Answers, Says(p, said)
      PROVE  ProcsOK' /\ RepliesOK' /\ Others(p) /\ proc'[p].pc = "idle"
  BY <1>3, <1>4, SaysMoves
<1>5. ProcOK(proc[p]) /\ proc[p] \in Proc BY DEF ProcsOK, ProcOK
<1>6. CASE At(p, "status") /\ Goes(p, "statusMeta") /\ UNCHANGED reply
  <2>1. /\ "statusMeta" \in PCs /\ "statusMeta" \notin IndexPCs /\ "statusMeta" \notin {"embed", "insert", "query"}
        /\ proc[p].pc \notin {"embed", "insert"} /\ proc[p].pc \in ReadPCs
    BY <1>6 DEF PCs, IndexPCs, ReadPCs, At
  <2>2. ProcsOK' /\ Others(p) /\ proc'[p].pc = "statusMeta" BY <1>6, <2>1, GoesMoves
  <2>. QED BY <1>1, <1>2, <1>6, <2>1, <2>2
<1>7. CASE At(p, "status") /\ Says(p, "none")
  <2>1. "none" \in Answers /\ proc[p].pc \in ReadPCs BY <1>7 DEF Answers, ReadPCs, At
  <2>. QED BY <1>2, <1>4, <1>7, <2>1
<1>8. CASE At(p, "statusMeta") /\ Says(p, StalenessInfo(meta.record, head, rules))
  <2>1. StalenessInfo(meta.record, head, rules) \in Answers /\ proc[p].pc \in ReadPCs
    BY <1>8 DEF StalenessInfo, Answers, ReadPCs, At
  <2>. QED BY <1>2, <1>4, <1>8, <2>1
<1>9. CASE /\ At(p, "search") /\ proc' = [proc EXCEPT ![p].pc = "query", ![p].now.rules = rules]
           /\ UNCHANGED reply
  <2>1. PICK now : now = [proc[p].now EXCEPT !.rules = rules] OBVIOUS
  <2>2. proc[p].now \in Record BY <1>5 DEF Proc
  <2>3. now \in Record /\ now.rules = rules /\ rules \in 1 .. Len(RuleSets)
    <3>1. rules \in 1 .. Len(RuleSets) /\ rules \in 0 .. Len(RuleSets) BY DEF ProjectOK
    <3>. QED BY <2>1, <2>2, <3>1 DEF Record
  <2>4. PICK x : x = [proc[p] EXCEPT !.pc = "query", !.now = now] OBVIOUS
  <2>5. x \in Proc /\ x.pc = "query" /\ x.now = now /\ x.done = proc[p].done
    BY <1>5, <2>3, <2>4 DEF Proc, ReadPCs
  <2>6. x.pc \notin IndexPCs /\ x.pc \notin {"embed", "insert"} /\ proc[p].pc \notin {"embed", "insert"}
        /\ proc[p].pc \in ReadPCs
    BY <1>9, <2>5 DEF At, IndexPCs, ReadPCs
  <2>7. ProcOK(x) BY <1>5, <2>3, <2>5, <2>6 DEF ProcOK
  <2>8. proc' = [proc EXCEPT ![p] = x] BY <1>5, <1>9, <2>1, <2>4 DEF ProcsOK, Proc
  <2>. QED BY <1>1, <1>2, <1>9, <2>5, <2>6, <2>7, <2>8, Moves
<1>10. CASE At(p, "query") /\ Says(p, "failed")
  <2>1. "failed" \in Answers /\ proc[p].pc \in ReadPCs BY <1>10 DEF Answers, ReadPCs, At
  <2>. QED BY <1>2, <1>4, <1>10, <2>1
<1>11. ASSUME At(p, "query"), proc' = [proc EXCEPT ![p] = Idle], NEW hits \in Nearest,
              reply' = [reply EXCEPT ![p] =
                [said |-> "hits", rules |-> proc[p].now.rules,
                 files |-> {file \in hits : ~Matches(file, Effective(RuleSets[proc[p].now.rules]))}]]
       PROVE  /\ ProcsOK' /\ RepliesOK' /\ Others(p) /\ proc'[p].pc = "idle" /\ proc[p].pc \in ReadPCs
  <2>1. ProcsOK' /\ Others(p) /\ proc'[p].pc = "idle" /\ proc[p].pc \in ReadPCs
    BY <1>3, <1>11, IdleOK, Moves DEF At, ReadPCs
  <2>2. PICK n \in 1 .. Len(RuleSets) : n = proc[p].now.rules BY <1>5, <1>11 DEF At, ProcOK
  <2>3. PICK files : files = {file \in hits : ~Matches(file, Effective(RuleSets[n]))} OBVIOUS
  <2>4. PICK r : r = [said |-> "hits", rules |-> n, files |-> files] OBVIOUS
  <2>5. ASSUME NEW file \in files, NEW pat \in Effective(RuleSets[n]) PROVE ~LeftOut(file, pat)
    <3>1. file \in hits /\ ~Matches(file, Effective(RuleSets[n])) BY <2>3
    <3>2. PICK row \in main.rows : file = row.file BY <1>11, <3>1 DEF Nearest
    <3>3. file \in Path BY <3>2 DEF StoreOK, MainOK, RowOK
    <3>4. Effective(RuleSets[n]) \in SUBSET Rule /\ \A rule \in Effective(RuleSets[n]) : rule.segs # <<>>
      BY RulesAre
    <3>. QED BY <2>5, <3>1, <3>3, <3>4, LeftOutMatches
  <2>6. ReplyOK(r) BY <2>4, <2>5 DEF ReplyOK
  <2>7. reply' = [reply EXCEPT ![p] = r] BY <1>11, <2>2, <2>3, <2>4
  <2>. QED BY <2>1, <2>6, <2>7, Replies
<1>12. CASE Reports(p) BY <1>6, <1>7, <1>8, <1>12 DEF Reports
<1>13. CASE Searches(p)
  <2>1. \/ At(p, "search") /\ proc' = [proc EXCEPT ![p].pc = "query", ![p].now.rules = rules] /\ UNCHANGED reply
        \/ At(p, "query") /\ Says(p, "failed")
        \/ /\ At(p, "query") /\ proc' = [proc EXCEPT ![p] = Idle]
           /\ \E hits \in Nearest :
                reply' = [reply EXCEPT ![p] =
                  [said |-> "hits", rules |-> proc[p].now.rules,
                   files |-> {file \in hits : ~Matches(file, Effective(RuleSets[proc[p].now.rules]))}]]
    BY <1>13, Zenon DEF Searches
  <2>. QED BY <1>2, <1>9, <1>10, <1>11, <2>1
<1>. QED BY <1>12, <1>13

(* A call fails or the process is killed; only a dropped drop tears. *)
LEMMA FailsData ==
  ASSUME ProcsOK, RepliesOK, StoreOK, CountsOK, NEW p \in Procs, Fails(p)
  PROVE  /\ ProcsOK' /\ RepliesOK' /\ StoreOK' /\ Others(p) /\ UNCHANGED storeVars /\ CountsOK'
         /\ ~torn' => ~torn /\ proc'[p] = Idle /\ proc[p].pc \notin {"dropMeta", "clearMeta"}
<1>1. ASSUME UNCHANGED reply PROVE RepliesOK' BY <1>1 DEF RepliesOK, ReplyOK
<1>2. StoreOK' /\ UNCHANGED storeVars BY StoreStays DEF Fails
<1>3. torn' = (torn \/ proc[p].pc \in {"dropMeta", "clearMeta"}) BY DEF Fails
<1>4. CountsOK'
  <2>1. torn' \in BOOLEAN BY <1>3, Zenon
  <2>2. faults' \in 0 .. MaxFaults
    <3>1. faults' = faults + 1 /\ faults < MaxFaults /\ MaxFaults \in Nat BY IndexerAssumption DEF Fails
    <3>. QED BY <3>1 DEF CountsOK
  <2>3. commands' \in 0 .. MaxCommands BY DEF Fails, CountsOK
  <2>. QED BY <2>1, <2>2, <2>3 DEF CountsOK
<1>5. "failed" \in Answers /\ "cleared" \in Answers BY DEF Answers
<1>6. CASE Says(p, "failed") BY <1>2, <1>3, <1>4, <1>5, <1>6, SaysMoves
<1>7. CASE At(p, "clearMeta") /\ Says(p, "cleared") BY <1>2, <1>3, <1>4, <1>5, <1>7, SaysMoves
<1>8. CASE At(p, "dropMeta") /\ Goes(p, "createMain") /\ UNCHANGED reply
  <2>1. /\ "createMain" \in PCs /\ "createMain" \in IndexPCs \ {"rules"} /\ "createMain" \notin {"embed", "insert"}
        /\ proc[p].pc \in IndexPCs \ {"rules"} /\ proc[p].pc \notin {"embed", "insert"}
        /\ proc[p].pc = "dropMeta"
    BY <1>8 DEF PCs, IndexPCs, At
  <2>2. ProcsOK' /\ Others(p) BY <1>8, <2>1, GoesMoves
  <2>. QED BY <1>1, <1>2, <1>3, <1>4, <1>8, <2>1, <2>2
<1>. QED BY <1>6, <1>7, <1>8 DEF Fails

(* The project changes. *)
LEMMA ChangesData ==
  ASSUME DataOK, Changes
  PROVE  DataOK'
<1>1. ProcsOK' /\ RepliesOK' BY DEF DataOK, Changes, ProcsOK, ProcOK, RepliesOK, ReplyOK
<1>2. MainOK' /\ MetaOK' BY StoreStays DEF DataOK, StoreOK, Changes
<1>3. ProjectOK'
  <2>1. RuleSets \in Seq(SUBSET Rule) /\ Len(RuleSets) \in Nat /\ Trees \in Seq(Seq(File)) /\ Len(Trees) \in Nat
    BY IndexerAssumption, LenProperties
  <2>2. tree \in 1 .. Len(Trees) /\ head \in 0 .. Len(Trees) /\ rules \in 1 .. Len(RuleSets)
    BY DEF DataOK, ProjectOK
  <2>3. CASE tree < Len(Trees) /\ tree' = tree + 1 /\ UNCHANGED <<head, rules>>
    BY <2>1, <2>2, <2>3 DEF ProjectOK
  <2>4. CASE head' = tree /\ UNCHANGED <<tree, rules>> BY <2>1, <2>2, <2>4 DEF ProjectOK
  <2>5. CASE rules < Len(RuleSets) /\ rules' = rules + 1 /\ UNCHANGED <<tree, head>>
    BY <2>1, <2>2, <2>5 DEF ProjectOK
  <2>. QED BY <2>3, <2>4, <2>5 DEF Changes
<1>4. CountsOK'
  <2>1. torn' \in BOOLEAN BY Zenon DEF Changes
  <2>. QED BY <2>1 DEF Changes, DataOK, CountsOK, countVars
<1>. QED BY <1>1, <1>2, <1>3, <1>4 DEF DataOK

-----------------------------------------------------------------------------
(* The data, from the first state on.                                      *)

(* Nothing is indexed and nobody runs. *)
LEMMA InitData == Init => DataOK
<1> SUFFICES ASSUME Init PROVE DataOK OBVIOUS
<1>1. Len(Trees) \in Nat \ {0} /\ Len(RuleSets) \in Nat \ {0}
  <2>1. Trees \in Seq(Seq(File)) /\ Trees # <<>> /\ RuleSets \in Seq(SUBSET Rule) /\ RuleSets # <<>>
    BY IndexerAssumption
  <2>. QED BY <2>1, EmptySeq, LenProperties
<1>2. ProcsOK BY IdleOK DEF Init, ProcsOK
<1>3. RepliesOK
  <2>1. ReplyOK(NoReply) BY DEF ReplyOK, NoReply
  <2>. QED BY <2>1 DEF Init, RepliesOK
<1>4. MainOK BY DEF Init, MainOK, NoMain
<1>5. MetaOK
  <2>1. NoRecord \in Record BY <1>1 DEF NoRecord, Record
  <2>. QED BY <2>1 DEF Init, MetaOK, NoMeta
<1>6. ProjectOK BY <1>1 DEF Init, ProjectOK
<1>7. CountsOK
  <2>1. torn \in BOOLEAN BY Zenon DEF Init
  <2>2. commands \in 0 .. MaxCommands /\ faults \in 0 .. MaxFaults
    <3>1. MaxCommands \in Nat /\ MaxFaults \in Nat /\ commands = 0 /\ faults = 0 BY IndexerAssumption DEF Init
    <3>. QED BY <3>1
  <2>. QED BY <2>1, <2>2 DEF CountsOK
<1>. QED BY <1>2, <1>3, <1>4, <1>5, <1>6, <1>7 DEF DataOK

(* A beginning command keeps all the data in order. *)
LEMMA BeginsKeeps == ASSUME DataOK, NEW p \in Procs, Begins(p) PROVE DataOK'
<1>1. ProcsOK' /\ RepliesOK' BY BeginsData DEF DataOK
<1>2. MainOK' /\ MetaOK'
  <2>1. StoreOK /\ UNCHANGED storeVars BY DEF DataOK, StoreOK, Begins
  <2>. QED BY <2>1, StoreStays DEF StoreOK
<1>3. ProjectOK' BY DEF DataOK, ProjectOK, Begins, projectVars
<1>4. CountsOK'
  <2>1. torn' \in BOOLEAN BY Zenon DEF Begins
  <2>2. commands' \in 0 .. MaxCommands
    <3>1. commands' = commands + 1 /\ commands < MaxCommands /\ MaxCommands \in Nat
      BY IndexerAssumption DEF Begins
    <3>. QED BY <3>1 DEF DataOK, CountsOK
  <2>3. faults' \in 0 .. MaxFaults BY DEF Begins, DataOK, CountsOK
  <2>. QED BY <2>1, <2>2, <2>3 DEF CountsOK
<1>. QED BY <1>1, <1>2, <1>3, <1>4 DEF DataOK

(* So does every step of a command. *)
LEMMA StepsKeep == ASSUME DataOK, NEW p \in Procs, Steps(p) PROVE DataOK'
<1>1. ProcsOK /\ RepliesOK /\ StoreOK /\ ProjectOK BY DEF DataOK, StoreOK
<1>2. UNCHANGED <<projectVars, torn, countVars>>
  BY DEF Steps, Index, Clears, Reports, Searches
<1>3. ProjectOK' /\ CountsOK' BY <1>2 DEF DataOK, ProjectOK, CountsOK, projectVars, countVars
<1>4. ASSUME UNCHANGED storeVars PROVE StoreOK' BY <1>1, <1>4, StoreStays
<1>5. ProcsOK' /\ RepliesOK' /\ StoreOK'
  <2>1. CASE ReadsRules(p)
    <3>1. UNCHANGED reply /\ UNCHANGED storeVars BY <2>1 DEF ReadsRules
    <3>2. RepliesOK' BY <1>1, <3>1 DEF RepliesOK, ReplyOK
    <3>. QED BY <1>1, <1>4, <2>1, <3>1, <3>2, ReadsRulesData
  <2>2. CASE Checks(p) \/ ChecksMeta(p) \/ DetectsDimension(p) \/ Recreates(p)
    BY <1>1, <1>4, <2>2, LooksData
  <2>3. CASE Drops(p) BY <1>1, <2>3, DropsData
  <2>4. CASE Creates(p) BY <1>1, <2>4, CreatesData
  <2>5. CASE Walks(p) BY <1>1, <2>5, WalksData
  <2>6. CASE Embeds(p) BY <1>1, <2>6, EmbedsData
  <2>7. CASE Inserts(p) BY <1>1, <2>7, InsertsData
  <2>8. CASE Describes(p) BY <1>1, <2>8, DescribesData
  <2>9. CASE Clears(p) BY <1>1, <2>9, ClearsData
  <2>10. CASE Reports(p) \/ Searches(p) BY <1>1, <2>10, ReadsData
  <2>. QED BY <2>1, <2>2, <2>3, <2>4, <2>5, <2>6, <2>7, <2>8, <2>9, <2>10 DEF Steps, Index
<1>. QED BY <1>3, <1>5 DEF DataOK, StoreOK

(* So does a failure. *)
LEMMA FailsKeeps == ASSUME DataOK, NEW p \in Procs, Fails(p) PROVE DataOK'
<1>1. ProcsOK /\ RepliesOK /\ StoreOK /\ CountsOK BY DEF DataOK, StoreOK
<1>2. ProcsOK' /\ RepliesOK' /\ StoreOK' /\ CountsOK' BY <1>1, FailsData
<1>3. ProjectOK' BY DEF Fails, DataOK, ProjectOK, projectVars
<1>. QED BY <1>2, <1>3 DEF DataOK, StoreOK

(* DataOK is inductive. *)
LEMMA NextData == DataOK /\ [Next]_vars => DataOK'
<1> SUFFICES ASSUME DataOK, [Next]_vars PROVE DataOK' OBVIOUS
<1>1. ASSUME NEW p \in Procs, Begins(p) \/ Steps(p) \/ Fails(p) PROVE DataOK'
  BY <1>1, BeginsKeeps, StepsKeep, FailsKeeps
<1>2. CASE Changes BY <1>2, ChangesData
<1>3. CASE UNCHANGED vars
  BY <1>3 DEF vars, storeVars, projectVars, countVars, DataOK, ProcsOK, ProcOK, RepliesOK, ReplyOK,
              MainOK, RowOK, MetaOK, ProjectOK, CountsOK
<1>. QED BY <1>1, <1>2, <1>3 DEF Next

(* Every command, whatever fails and whoever else runs, leaves the data in *)
(* order: what processes hold is of the files and rules they read, a row's *)
(* vector is of its text, a reply shows no file its rules leave out.       *)
THEOREM DataHolds == Spec => []DataOK
BY InitData, NextData, PTL DEF Spec

-----------------------------------------------------------------------------
(* The theorems about the data.                                            *)

(* Every variable keeps to its type, whatever fails: a collection that is  *)
(* not there has no rows, metadata is a commit and a rule set or nothing   *)
(* of both, and a process's attempts and batches stay within their bounds. *)
THEOREM IndexerTypes == Spec => []TypeOK
<1>1. DataOK => TypeOK
  BY DEF DataOK, ProcsOK, ProcOK, RepliesOK, ReplyOK, MainOK, MetaOK, ProjectOK, CountsOK, TypeOK
<1>. QED BY <1>1, DataHolds, PTL

(* Embed's vectors are of the texts they are asked for: however the batch  *)
(* was cut into requests, whichever limit it was embedded under and        *)
(* whatever failed before, every row's vector is of its own text.          *)
THEOREM IndexerVectors == Spec => []VectorsFitTheirText
<1>1. DataOK => VectorsFitTheirText BY DEF DataOK, MainOK, RowOK, VectorsFitTheirText
<1>. QED BY <1>1, DataHolds, PTL

(* Search's filter, which matches the path as a whole, leaves nothing that *)
(* the patterns name: whichever rules and files the index was made of.     *)
THEOREM IndexerSearches == Spec => []SearchIsFiltered
<1>1. DataOK => SearchIsFiltered BY DEF DataOK, RepliesOK, ReplyOK, SearchIsFiltered
<1>. QED BY <1>1, DataHolds, PTL

-----------------------------------------------------------------------------
(* Every step keeps the order, as long as nothing is torn.                 *)

(* A process that is not at a write owes nothing. *)
LEMMA IdleIsFree ==
  ASSUME NEW p \in Procs, proc'[p].pc \in {"idle", "status", "search", "statusMeta", "query"}
  PROVE  ~Writing(p)' /\ IsFresh(p)' /\ IsBuilding(p)'
BY DEF Writing, IsFresh, IsBuilding, IndexPCs, ClearPCs

(* A step that writes nothing to the store. *)
LEMMA QuietOrder ==
  ASSUME Order, NEW p \in Procs, Others(p), UNCHANGED storeVars, UNCHANGED projectVars,
         proc[p].pc \notin {"dropMeta", "clearMeta"},
         Writing(p)' => \A q \in Procs \ {p} : ~Writing(q),
         IsFresh(p)', IsBuilding(p)'
  PROVE  Order'
<1>1. UNCHANGED <<main, meta, made, tree, head, rules>> BY DEF storeVars, projectVars
<1>2. \A q \in Procs \ {p} : proc'[q] = proc[q] BY DEF Others
<1>3. \A q \in Procs \ {p} : Writing(q)' = Writing(q) BY <1>2 DEF Writing
<1>4. OneWriter' BY <1>3 DEF Order, OneWriter
<1>5. \A q \in Procs \ {p} : IsFresh(q)' /\ IsBuilding(q)'
  BY <1>1, <1>2 DEF Order, IsFresh, IsBuilding, ChunksOf
<1>6. IsDescribed' BY <1>1, <1>2 DEF Order, IsDescribed, IsWhole
<1>. QED BY <1>4, <1>5, <1>6 DEF Order

(* A step of the only writer. *)
LEMMA WriterOrder ==
  ASSUME Order, NEW p \in Procs, Others(p), UNCHANGED projectVars, Writing(p),
         IsFresh(p)', IsBuilding(p)', IsDescribed'
  PROVE  Order'
<1>1. UNCHANGED <<tree, head, rules>> BY DEF projectVars
<1>2. \A q \in Procs \ {p} : proc'[q] = proc[q] /\ ~Writing(q) BY DEF Others, Order, OneWriter
<1>3. \A q \in Procs \ {p} : ~Writing(q)' BY <1>2 DEF Writing
<1>4. OneWriter' BY <1>3 DEF OneWriter
<1>5. \A q \in Procs \ {p} : IsFresh(q)' /\ IsBuilding(q)'
  BY <1>3 DEF IsFresh, IsBuilding, Writing, IndexPCs, ClearPCs
<1>. QED BY <1>4, <1>5 DEF Order

(* A writer that begins is alone, or the store counts as torn. *)
LEMMA BeginsOrder == ASSUME DataOK, Order, NEW p \in Procs, Begins(p), ~torn' PROVE Order'
<1>1. Others(p) /\ (\/ proc'[p].pc = "rules" /\ proc'[p].now.commit = head
                    \/ proc'[p].pc \in {"clear", "status", "search"})
  BY BeginsData DEF DataOK
<1>2. UNCHANGED storeVars /\ UNCHANGED projectVars /\ proc[p].pc = "idle" BY DEF Begins, At
<1>3. Writing(p)' => \A q \in Procs \ {p} : ~Writing(q) BY DEF Begins
<1>4. IsFresh(p)' /\ IsBuilding(p)'
  BY <1>1, <1>2 DEF IsFresh, IsBuilding, IndexPCs, projectVars
<1>. QED BY <1>1, <1>2, <1>3, <1>4, QuietOrder

(* A writer is the only one. *)
LEMMA Alone ==
  ASSUME Order, NEW p \in Procs, Writing(p)
  PROVE  \A q \in Procs \ {p} : ~Writing(q) /\ proc[q].pc \notin {"dropMeta", "clearMeta"}
BY DEF Order, OneWriter, Writing, IndexPCs, ClearPCs

(* The rules are those of the moment. *)
LEMMA ReadsRulesOrder ==
  ASSUME DataOK, Order, NEW p \in Procs, ReadsRules(p), UNCHANGED projectVars PROVE Order'
<1>1. /\ Others(p) /\ proc[p].pc = "rules" /\ proc'[p].pc \in {"dimension", "check"}
      /\ proc'[p].now.commit = proc[p].now.commit /\ proc'[p].now.rules = rules
  BY ReadsRulesData DEF DataOK
<1>2. UNCHANGED storeVars /\ UNCHANGED <<tree, head, rules>> BY DEF ReadsRules, projectVars
<1>3. Writing(p) BY <1>1 DEF Writing, IndexPCs
<1>4. proc[p].now.commit = head BY <1>1 DEF Order, IsFresh, IndexPCs
<1>5. IsFresh(p)' /\ IsBuilding(p)' BY <1>1, <1>2, <1>4 DEF IsFresh, IsBuilding
<1>. QED BY <1>1, <1>2, <1>3, <1>5, Alone, QuietOrder

(* Without chunks there is no metadata, so no drop is needed. *)
LEMMA LooksOrder ==
  ASSUME DataOK, Order, NEW p \in Procs, UNCHANGED projectVars,
         Checks(p) \/ ChecksMeta(p) \/ DetectsDimension(p) \/ Recreates(p)
  PROVE  Order'
<1>1. /\ Others(p) /\ UNCHANGED storeVars /\ proc[p].pc \in {"check", "checkMeta", "dimension", "recreate"}
      /\ \/ proc'[p] = Idle
         \/ /\ SameData(proc[p], proc'[p])
            /\ \/ proc'[p].pc \in {"checkMeta", "dimension", "recreate", "dropMain"}
               \/ ~main.there /\ proc'[p].pc = "createMain"
  BY LooksData DEF DataOK
<1>2. UNCHANGED <<main, meta, made, tree, head, rules>> BY <1>1 DEF storeVars, projectVars
<1>3. Writing(p) BY <1>1 DEF Writing, IndexPCs
<1>4. proc[p].now.commit = head /\ proc[p].now.rules = rules BY <1>1 DEF Order, IsFresh, IndexPCs
<1>5. CASE proc'[p] = Idle
  <2>1. proc'[p].pc = "idle" BY <1>5 DEF Idle
  <2>. QED BY <1>1, <1>3, <2>1, Alone, IdleIsFree, QuietOrder
<1>6. CASE SameData(proc[p], proc'[p]) /\ proc'[p].pc \in {"checkMeta", "dimension", "recreate", "dropMain"}
  <2>1. IsFresh(p)' /\ IsBuilding(p)' BY <1>2, <1>4, <1>6 DEF IsFresh, IsBuilding, SameData
  <2>. QED BY <1>1, <1>3, <2>1, Alone, QuietOrder
<1>7. CASE SameData(proc[p], proc'[p]) /\ ~main.there /\ proc'[p].pc = "createMain"
  <2>1. meta.record = NoRecord
    <3>1. \A q \in Procs : proc[q].pc \notin {"dropMeta", "clearMeta"} BY <1>1, <1>3, Alone
    <3>. QED BY <1>7, <3>1 DEF Order, IsDescribed
  <2>2. IsFresh(p)' /\ IsBuilding(p)' BY <1>2, <1>4, <1>7, <2>1 DEF IsFresh, IsBuilding, SameData
  <2>. QED BY <1>1, <1>3, <2>2, Alone, QuietOrder
<1>. QED BY <1>1, <1>5, <1>6, <1>7

(* Between the two drops metadata has no chunks, and its dropper is there. *)
LEMMA DropsOrder ==
  ASSUME DataOK, Order, NEW p \in Procs, Drops(p), UNCHANGED projectVars PROVE Order'
<1>1. /\ Others(p) /\ SameData(proc[p], proc'[p])
      /\ \/ /\ proc[p].pc = "dropMain" /\ proc'[p].pc = "dropMeta"
            /\ main' = NoMain /\ UNCHANGED <<meta, made>>
         \/ /\ proc[p].pc = "dropMeta" /\ proc'[p].pc = "createMain"
            /\ meta' = NoMeta /\ UNCHANGED <<main, made>>
  BY DropsData DEF DataOK, StoreOK
<1>2. UNCHANGED <<tree, head, rules>> BY DEF projectVars
<1>3. Writing(p) BY <1>1 DEF Writing, IndexPCs
<1>4. proc[p].now.commit = head /\ proc[p].now.rules = rules BY <1>1 DEF Order, IsFresh, IndexPCs
<1>5. IsFresh(p)' BY <1>1, <1>2, <1>4 DEF IsFresh, SameData
<1>6. CASE /\ proc[p].pc = "dropMain" /\ proc'[p].pc = "dropMeta"
           /\ main' = NoMain /\ UNCHANGED <<meta, made>>
  <2>1. ~main'.there BY <1>6 DEF NoMain
  <2>2. IsBuilding(p)' BY <1>6, <2>1 DEF IsBuilding
  <2>3. \A q \in Procs : proc[q].pc \notin {"dropMeta", "clearMeta"} BY <1>3, <1>6, Alone
  <2>4. IsDescribed' BY <1>6, <2>1 DEF Order, IsDescribed
  <2>. QED BY <1>1, <1>3, <1>5, <2>2, <2>4, WriterOrder
<1>7. CASE /\ proc[p].pc = "dropMeta" /\ proc'[p].pc = "createMain"
           /\ meta' = NoMeta /\ UNCHANGED <<main, made>>
  <2>1. meta'.record = NoRecord BY <1>7 DEF NoMeta
  <2>2. ~main.there BY <1>7 DEF Order, IsBuilding
  <2>3. IsBuilding(p)' BY <1>7, <2>1, <2>2 DEF IsBuilding
  <2>4. IsDescribed' BY <2>1 DEF IsDescribed
  <2>. QED BY <1>1, <1>3, <1>5, <2>3, <2>4, WriterOrder
<1>. QED BY <1>1, <1>6, <1>7

(* The collection of chunks is new: it has no rows. *)
LEMMA CreatesOrder ==
  ASSUME DataOK, Order, NEW p \in Procs, Creates(p), UNCHANGED projectVars PROVE Order'
<1>1. /\ Others(p)
      /\ \/ /\ proc[p].pc = "createMain" /\ proc'[p].pc = "createMeta" /\ SameData(proc[p], proc'[p])
            /\ main'.rows = main.rows /\ main'.there /\ UNCHANGED <<meta, made>>
         \/ /\ proc[p].pc = "createMeta" /\ proc'[p].pc = "walk" /\ SameData(proc[p], proc'[p])
            /\ meta'.record = meta.record /\ UNCHANGED <<main, made>>
         \/ /\ proc[p].pc \in {"createMain", "createMeta"} /\ proc'[p] = Idle
            /\ UNCHANGED storeVars
  BY CreatesData DEF DataOK, StoreOK
<1>2. UNCHANGED <<tree, head, rules>> BY DEF projectVars
<1>3. proc[p].pc \in {"createMain", "createMeta"} /\ Writing(p) BY <1>1 DEF Writing, IndexPCs
<1>4. proc[p].now.commit = head /\ proc[p].now.rules = rules /\ meta.record = NoRecord
  BY <1>3 DEF Order, IsFresh, IsBuilding, IndexPCs
<1>5. CASE /\ proc[p].pc = "createMain" /\ proc'[p].pc = "createMeta" /\ SameData(proc[p], proc'[p])
           /\ main'.rows = main.rows /\ main'.there /\ UNCHANGED <<meta, made>>
  <2>1. main.rows = {} BY <1>5 DEF DataOK, MainOK, Order, IsBuilding
  <2>2. IsFresh(p)' BY <1>2, <1>4, <1>5 DEF IsFresh, SameData
  <2>3. IsBuilding(p)' BY <1>4, <1>5, <2>1 DEF IsBuilding
  <2>4. IsDescribed' BY <1>4, <1>5 DEF IsDescribed
  <2>. QED BY <1>1, <1>3, <2>2, <2>3, <2>4, WriterOrder
<1>6. CASE /\ proc[p].pc = "createMeta" /\ proc'[p].pc = "walk" /\ SameData(proc[p], proc'[p])
           /\ meta'.record = meta.record /\ UNCHANGED <<main, made>>
  <2>1. main.rows = {} /\ main.there BY <1>6 DEF Order, IsBuilding
  <2>2. IsFresh(p)' BY <1>2, <1>4, <1>6 DEF IsFresh, SameData
  <2>3. IsBuilding(p)' BY <1>4, <1>6, <2>1 DEF IsBuilding
  <2>4. IsDescribed' BY <1>4, <1>6 DEF IsDescribed
  <2>. QED BY <1>1, <1>3, <2>2, <2>3, <2>4, WriterOrder
<1>7. CASE proc'[p] = Idle /\ UNCHANGED storeVars
  <2>1. proc'[p].pc = "idle" BY <1>7 DEF Idle
  <2>. QED BY <1>1, <1>3, <1>7, <2>1, Alone, IdleIsFree, QuietOrder
<1>. QED BY <1>1, <1>5, <1>6, <1>7

(* The files are those of the moment, no chunk is done. *)
LEMMA WalksOrder ==
  ASSUME DataOK, Order, NEW p \in Procs, Walks(p), UNCHANGED projectVars PROVE Order'
<1>1. /\ Others(p) /\ UNCHANGED storeVars
      /\ proc[p].pc = "walk" /\ proc'[p].pc = "embed" /\ proc'[p].of = tree
      /\ proc'[p].now = proc[p].now /\ proc'[p].done = 0
  BY WalksData DEF DataOK, StoreOK
<1>2. UNCHANGED <<main, meta, made, tree, head, rules>> BY <1>1 DEF storeVars, projectVars
<1>3. Writing(p) BY <1>1 DEF Writing, IndexPCs
<1>4. proc[p].now.commit = head /\ proc[p].now.rules = rules BY <1>1 DEF Order, IsFresh, IndexPCs
<1>5. meta.record = NoRecord /\ main.there /\ main.rows = {} BY <1>1 DEF Order, IsBuilding
<1>6. RowsOf(main.rows, ChunksOf(proc'[p]), 1, 0) BY <1>5 DEF RowsOf
<1>7. IsFresh(p)' BY <1>1, <1>2, <1>4 DEF IsFresh
<1>8. IsBuilding(p)' BY <1>1, <1>2, <1>5, <1>6 DEF IsBuilding, ChunksOf
<1>. QED BY <1>1, <1>3, <1>7, <1>8, Alone, QuietOrder

(* Embedding writes nothing. *)
LEMMA EmbedsOrder ==
  ASSUME DataOK, Order, NEW p \in Procs, Embeds(p), UNCHANGED projectVars PROVE Order'
<1>1. /\ Others(p) /\ UNCHANGED storeVars /\ proc[p].pc = "embed"
      /\ \/ proc'[p] = Idle
         \/ /\ proc'[p].pc \in {"embed", "insert"}
            /\ proc'[p].now = proc[p].now /\ proc'[p].of = proc[p].of
            /\ proc'[p].max = proc[p].max /\ proc'[p].done = proc[p].done
  BY EmbedsData DEF DataOK, StoreOK
<1>2. UNCHANGED <<main, meta, made, tree, head, rules>> BY <1>1 DEF storeVars, projectVars
<1>3. Writing(p) BY <1>1 DEF Writing, IndexPCs
<1>4. CASE proc'[p] = Idle
  <2>1. proc'[p].pc = "idle" BY <1>4 DEF Idle
  <2>. QED BY <1>1, <1>3, <2>1, Alone, IdleIsFree, QuietOrder
<1>5. CASE /\ proc'[p].pc \in {"embed", "insert"}
           /\ proc'[p].now = proc[p].now /\ proc'[p].of = proc[p].of
           /\ proc'[p].max = proc[p].max /\ proc'[p].done = proc[p].done
  <2>1. /\ proc[p].now.commit = head /\ proc[p].now.rules = rules /\ proc[p].of = tree
        /\ meta.record = NoRecord /\ main.there
        /\ RowsOf(main.rows, ChunksOf(proc[p]), 1, proc[p].done)
    BY <1>1 DEF Order, IsFresh, IsBuilding, IndexPCs
  <2>2. ChunksOf(proc[p])' = ChunksOf(proc[p]) BY <1>5 DEF ChunksOf
  <2>3. IsFresh(p)' BY <1>2, <1>5, <2>1 DEF IsFresh
  <2>4. IsBuilding(p)' BY <1>2, <1>5, <2>1, <2>2 DEF IsBuilding
  <2>. QED BY <1>1, <1>3, <2>3, <2>4, Alone, QuietOrder
<1>. QED BY <1>1, <1>4, <1>5

(* The rows of adjacent ranges of chunks. *)
LEMMA RowsJoin ==
  ASSUME NEW c, NEW n \in Nat, NEW m \in Nat, NEW R, NEW S,
         RowsOf(R, c, 1, n), RowsOf(S, c, n + 1, n + m)
  PROVE  RowsOf(R \cup S, c, 1, n + m)
<1>1. ASSUME NEW row \in R \cup S PROVE \E k \in 1 .. n + m : RowOf(row, c[k])
  <2>1. CASE row \in R
    <3>1. PICK k \in 1 .. n : RowOf(row, c[k]) BY <2>1 DEF RowsOf
    <3>2. k \in 1 .. n + m OBVIOUS
    <3>. QED BY <3>1, <3>2
  <2>2. CASE row \in S
    <3>1. PICK k \in n + 1 .. n + m : RowOf(row, c[k]) BY <2>2 DEF RowsOf
    <3>2. k \in 1 .. n + m OBVIOUS
    <3>. QED BY <3>1, <3>2
  <2>. QED BY <2>1, <2>2
<1>2. ASSUME NEW k \in 1 .. n + m PROVE \E row \in R \cup S : RowOf(row, c[k])
  <2>1. CASE k \in 1 .. n
    <3>1. \E row \in R : RowOf(row, c[k]) BY <2>1 DEF RowsOf
    <3>. QED BY <3>1
  <2>2. CASE k \in n + 1 .. n + m
    <3>1. \E row \in S : RowOf(row, c[k]) BY <2>2 DEF RowsOf
    <3>. QED BY <3>1
  <2>. QED BY <2>1, <2>2
<1>. QED BY <1>1, <1>2 DEF RowsOf

(* The batch's rows join those of the chunks before. *)
LEMMA InsertsOrder ==
  ASSUME DataOK, Order, NEW p \in Procs, Inserts(p), UNCHANGED projectVars PROVE Order'
<1>1. /\ Others(p) /\ proc[p].pc = "insert" /\ UNCHANGED <<meta, made>> /\ main'.there = main.there
      /\ \/ proc'[p] = Idle /\ main' = main
         \/ /\ main'.rows = main.rows \cup BatchFor(proc[p]).rows
            /\ proc'[p].pc = "embed" /\ proc'[p].now = proc[p].now /\ proc'[p].of = proc[p].of
            /\ proc'[p].max = proc[p].max
            /\ proc'[p].done = proc[p].done + BatchFor(proc[p]).size
  BY InsertsData DEF DataOK, StoreOK
<1>2. UNCHANGED <<tree, head, rules>> BY DEF projectVars
<1>3. Writing(p) BY <1>1 DEF Writing, IndexPCs
<1>4. CASE proc'[p] = Idle /\ main' = main
  <2>1. proc'[p].pc = "idle" /\ UNCHANGED storeVars BY <1>1, <1>4 DEF Idle, storeVars
  <2>. QED BY <1>1, <1>3, <2>1, Alone, IdleIsFree, QuietOrder
<1>5. CASE /\ main'.rows = main.rows \cup BatchFor(proc[p]).rows
           /\ proc'[p].pc = "embed" /\ proc'[p].now = proc[p].now /\ proc'[p].of = proc[p].of
           /\ proc'[p].max = proc[p].max
           /\ proc'[p].done = proc[p].done + BatchFor(proc[p]).size
  <2>1. /\ proc[p].now.commit = head /\ proc[p].now.rules = rules /\ proc[p].of = tree
        /\ meta.record = NoRecord /\ main.there
        /\ RowsOf(main.rows, ChunksOf(proc[p]), 1, proc[p].done)
    BY <1>1 DEF Order, IsFresh, IsBuilding, IndexPCs
  <2>2. ChunksOf(proc[p])' = ChunksOf(proc[p]) BY <1>5 DEF ChunksOf
  <2>3. ProcOK(proc[p]) BY DEF DataOK, ProcsOK
  <2>4. PICK n \in Nat : n = proc[p].done BY <2>3 DEF ProcOK, Proc
  <2>5. PICK m \in Nat : m = BatchFor(proc[p]).size BY <1>1, <2>3, BatchIs
  <2>6. RowsOf(BatchFor(proc[p]).rows, ChunksOf(proc[p]), n + 1, n + m)
    BY <1>1, <2>3, <2>4, <2>5, BatchIs
  <2>7. RowsOf(main'.rows, ChunksOf(proc'[p]), 1, proc'[p].done)
    <3>1. PICK c : c = ChunksOf(proc[p]) OBVIOUS
    <3>2. RowsOf(main.rows \cup BatchFor(proc[p]).rows, c, 1, n + m)
      BY <2>1, <2>4, <2>6, <3>1, RowsJoin
    <3>. QED BY <1>5, <2>2, <2>4, <2>5, <3>1, <3>2
  <2>8. IsFresh(p)' BY <1>2, <1>5, <2>1 DEF IsFresh
  <2>9. IsBuilding(p)' BY <1>1, <1>5, <2>1, <2>7 DEF IsBuilding
  <2>10. IsDescribed' BY <1>1, <2>1 DEF IsDescribed
  <2>. QED BY <1>1, <1>3, <2>8, <2>9, <2>10, WriterOrder
<1>. QED BY <1>1, <1>4, <1>5

(* All the chunks are the whole index. *)
LEMMA AllIsWhole ==
  ASSUME NEW rows, NEW t \in 1 .. Len(Trees), NEW r \in 1 .. Len(RuleSets), NEW max, NEW c,
         c = Chunks(Trees[t], Effective(RuleSets[r]), max), RowsOf(rows, c, 1, Len(c))
  PROVE  IsWhole(rows, t, r)
<1>1. PICK W : W = Wanted(Trees[t], Effective(RuleSets[r])) OBVIOUS
<1>2. /\ \A k \in 1 .. Len(c) : \E f \in W : f \in File /\ PartOf(c[k], f)
      /\ \A f \in W : \A i \in WantedLines(f) :
           \E k \in 1 .. Len(c) : c[k].file = f.path /\ i \in c[k].first .. c[k].last
  <2>1. MadeOf(c, W) /\ Cover(c, W) BY <1>1, RulesAre, TreesAre, ChunksAre
  <2>. QED BY <2>1 DEF MadeOf, Cover
<1>3. ASSUME NEW f \in W, NEW i \in WantedLines(f)
      PROVE  \E row \in rows : row.file = f.path /\ i \in row.first .. row.last
  <2>1. PICK k \in 1 .. Len(c) : c[k].file = f.path /\ i \in c[k].first .. c[k].last BY <1>2
  <2>2. PICK row \in rows : RowOf(row, c[k]) BY DEF RowsOf
  <2>. QED BY <2>1, <2>2 DEF RowOf
<1>4. ASSUME NEW row \in rows
      PROVE  \E f \in W : row.file = f.path /\ row.text = ExtractLines(f.lines, row.first, row.last)
  <2>1. PICK k \in 1 .. Len(c) : RowOf(row, c[k]) BY DEF RowsOf
  <2>2. PICK f \in W : PartOf(c[k], f) BY <1>2
  <2>. QED BY <2>1, <2>2 DEF RowOf, PartOf
<1>. QED BY <1>1, <1>3, <1>4 DEF IsWhole

(* The metadata written is that of the files and rules that were read. *)
LEMMA DescribesOrder ==
  ASSUME DataOK, Order, NEW p \in Procs, Describes(p), UNCHANGED projectVars PROVE Order'
<1>1. /\ Others(p) /\ proc[p].pc = "embed" /\ proc'[p] = Idle /\ main' = main
      /\ proc[p].done = Len(ChunksOf(proc[p]))
      /\ \/ UNCHANGED storeVars
         \/ /\ meta'.record = proc[p].now
            /\ made' = [tree |-> tree, head |-> head, rules |-> rules]
  BY DescribesData DEF DataOK, StoreOK
<1>2. proc'[p].pc = "idle" /\ Writing(p) BY <1>1 DEF Idle, Writing, IndexPCs
<1>3. CASE UNCHANGED storeVars BY <1>1, <1>2, <1>3, Alone, IdleIsFree, QuietOrder
<1>4. CASE meta'.record = proc[p].now /\ made' = [tree |-> tree, head |-> head, rules |-> rules]
  <2>1. /\ proc[p].now.commit = head /\ proc[p].now.rules = rules /\ proc[p].of = tree
        /\ main.there /\ RowsOf(main.rows, ChunksOf(proc[p]), 1, proc[p].done)
    BY <1>1 DEF Order, IsFresh, IsBuilding, IndexPCs
  <2>2. proc[p].now \in Record BY DEF DataOK, ProcsOK, ProcOK, Proc
  <2>3. proc[p].now = [commit |-> head, rules |-> rules] BY <2>1, <2>2 DEF Record
  <2>4. made'.tree = tree /\ made'.head = head /\ made'.rules = rules BY <1>4
  <2>5. IsWhole(main.rows, tree, rules)
    <3>1. tree \in 1 .. Len(Trees) /\ rules \in 1 .. Len(RuleSets) BY DEF DataOK, ProjectOK
    <3>2. PICK c : c = ChunksOf(proc[p]) OBVIOUS
    <3>3. c = Chunks(Trees[tree], Effective(RuleSets[rules]), proc[p].max)
      BY <2>1, <3>2 DEF ChunksOf
    <3>4. RowsOf(main.rows, c, 1, Len(c)) BY <1>1, <2>1, <3>2
    <3>. QED BY <3>1, <3>3, <3>4, AllIsWhole
  <2>6. meta'.record = [commit |-> made'.head, rules |-> made'.rules] BY <1>4, <2>3, <2>4
  <2>7. main'.there /\ IsWhole(main'.rows, made'.tree, made'.rules) BY <1>1, <2>1, <2>4, <2>5
  <2>8. IsDescribed' BY <2>6, <2>7 DEF IsDescribed, IsWhole
  <2>. QED BY <1>1, <1>2, <2>8, IdleIsFree, WriterOrder
<1>. QED BY <1>1, <1>3, <1>4

(* cs clear drops in the same order. *)
LEMMA ClearsOrder ==
  ASSUME DataOK, Order, NEW p \in Procs, Clears(p) PROVE Order'
<1>1. /\ Others(p)
      /\ \/ proc[p].pc = "clear" /\ proc'[p].pc = "clearMain" /\ UNCHANGED storeVars
         \/ proc[p].pc = "clear" /\ proc'[p] = Idle /\ UNCHANGED storeVars
         \/ /\ proc[p].pc = "clearMain" /\ proc'[p].pc = "clearMeta"
            /\ main' = NoMain /\ UNCHANGED <<meta, made>>
         \/ /\ proc[p].pc = "clearMeta" /\ proc'[p] = Idle
            /\ meta' = NoMeta /\ UNCHANGED <<main, made>>
  BY ClearsData DEF DataOK, StoreOK
<1>2. UNCHANGED projectVars BY DEF Clears
<1>3. proc[p].pc \in ClearPCs /\ Writing(p) BY <1>1 DEF Writing, ClearPCs
<1>4. CASE proc[p].pc = "clear" /\ proc'[p].pc = "clearMain" /\ UNCHANGED storeVars
  <2>1. IsFresh(p)' /\ IsBuilding(p)' BY <1>4 DEF IsFresh, IsBuilding, IndexPCs
  <2>. QED BY <1>1, <1>2, <1>3, <1>4, <2>1, Alone, QuietOrder
<1>5. CASE proc[p].pc = "clear" /\ proc'[p] = Idle /\ UNCHANGED storeVars
  <2>1. proc'[p].pc = "idle" BY <1>5 DEF Idle
  <2>. QED BY <1>1, <1>2, <1>3, <1>5, <2>1, Alone, IdleIsFree, QuietOrder
<1>6. CASE /\ proc[p].pc = "clearMain" /\ proc'[p].pc = "clearMeta"
           /\ main' = NoMain /\ UNCHANGED <<meta, made>>
  <2>1. ~main'.there BY <1>6 DEF NoMain
  <2>2. IsFresh(p)' /\ IsBuilding(p)' BY <1>6, <2>1 DEF IsFresh, IsBuilding, IndexPCs
  <2>3. IsDescribed' BY <1>6, <2>1 DEF Order, IsDescribed
  <2>. QED BY <1>1, <1>2, <1>3, <2>2, <2>3, WriterOrder
<1>7. CASE /\ proc[p].pc = "clearMeta" /\ proc'[p] = Idle
           /\ meta' = NoMeta /\ UNCHANGED <<main, made>>
  <2>1. proc'[p].pc = "idle" /\ meta'.record = NoRecord BY <1>7 DEF Idle, NoMeta
  <2>2. IsDescribed' BY <2>1 DEF IsDescribed
  <2>. QED BY <1>1, <1>2, <1>3, <2>1, <2>2, IdleIsFree, WriterOrder
<1>. QED BY <1>1, <1>4, <1>5, <1>6, <1>7

(* Commands that write nothing change nothing. *)
LEMMA ReadsOrder ==
  ASSUME DataOK, Order, NEW p \in Procs, Reports(p) \/ Searches(p) PROVE Order'
<1>1. /\ Others(p) /\ UNCHANGED storeVars
      /\ proc[p].pc \in ReadPCs /\ proc'[p].pc \in {"idle", "statusMeta", "query"}
  BY ReadsData DEF DataOK, StoreOK
<1>2. UNCHANGED projectVars BY DEF Reports, Searches
<1>3. proc[p].pc \notin {"dropMeta", "clearMeta"} BY <1>1 DEF ReadPCs
<1>4. ~Writing(p)' /\ IsFresh(p)' /\ IsBuilding(p)' BY <1>1, IdleIsFree
<1>. QED BY <1>1, <1>2, <1>3, <1>4, QuietOrder

(* A failure leaves the store as it is, and no metadata without chunks. *)
LEMMA FailsOrder ==
  ASSUME DataOK, Order, NEW p \in Procs, Fails(p), ~torn' PROVE Order'
<1>1. Others(p) /\ UNCHANGED storeVars /\ proc'[p] = Idle /\ proc[p].pc \notin {"dropMeta", "clearMeta"}
  BY FailsData DEF DataOK, StoreOK
<1>2. UNCHANGED projectVars BY DEF Fails
<1>3. proc'[p].pc = "idle" BY <1>1 DEF Idle
<1>4. ~Writing(p)' /\ IsFresh(p)' /\ IsBuilding(p)' BY <1>3, IdleIsFree
<1>. QED BY <1>1, <1>2, <1>4, QuietOrder

(* The project only changes between indexes, or the store counts as torn. *)
LEMMA ChangesOrder == ASSUME Order, Changes, ~torn' PROVE Order'
<1>1. UNCHANGED <<proc, main, meta, made>> /\ \A p \in Procs : proc[p].pc \notin IndexPCs
  BY DEF Changes, storeVars
<1>2. OneWriter' BY <1>1 DEF Order, OneWriter, Writing
<1>3. \A p \in Procs : IsFresh(p)' BY <1>1 DEF IsFresh, IndexPCs
<1>4. \A p \in Procs : IsBuilding(p)' BY <1>1 DEF Order, IsBuilding, ChunksOf
<1>5. IsDescribed' BY <1>1 DEF Order, IsDescribed, IsWhole
<1>. QED BY <1>2, <1>3, <1>4, <1>5 DEF Order

(* Every step of a command keeps the order. *)
LEMMA StepsOrder == ASSUME DataOK, OrderOK, NEW p \in Procs, Steps(p) PROVE OrderOK'
<1>1. UNCHANGED <<projectVars, torn, countVars>> BY DEF Steps, Index, Clears, Reports, Searches
<1>2. SUFFICES ASSUME ~torn' PROVE Order' BY DEF OrderOK
<1>3. Order BY <1>1, <1>2 DEF OrderOK
<1>4. UNCHANGED projectVars BY <1>1
<1>5. CASE Index(p)
  BY <1>3, <1>4, <1>5, ReadsRulesOrder, LooksOrder, DropsOrder, CreatesOrder, WalksOrder, EmbedsOrder,
     InsertsOrder, DescribesOrder DEF Index
<1>6. CASE Clears(p) BY <1>3, <1>6, ClearsOrder
<1>7. CASE Reports(p) \/ Searches(p) BY <1>3, <1>7, ReadsOrder
<1>. QED BY <1>5, <1>6, <1>7 DEF Steps

(* OrderOK is inductive, given DataOK. *)
LEMMA NextOrder == DataOK /\ OrderOK /\ [Next]_vars => OrderOK'
<1> SUFFICES ASSUME DataOK, OrderOK, [Next]_vars PROVE OrderOK' OBVIOUS
<1>1. ASSUME NEW p \in Procs, Begins(p) PROVE OrderOK'
  <2>1. ~torn' => ~torn BY <1>1 DEF Begins
  <2>. QED BY <1>1, <2>1, BeginsOrder DEF OrderOK
<1>2. ASSUME NEW p \in Procs, Fails(p) PROVE OrderOK'
  <2>1. ~torn' => ~torn BY <1>2 DEF Fails
  <2>. QED BY <1>2, <2>1, FailsOrder DEF OrderOK
<1>3. CASE Changes
  <2>1. ~torn' => ~torn BY <1>3 DEF Changes
  <2>. QED BY <1>3, <2>1, ChangesOrder DEF OrderOK
<1>4. CASE UNCHANGED vars
  <2>1. UNCHANGED <<proc, main, meta, made, tree, head, rules, torn>>
    BY <1>4 DEF vars, storeVars, projectVars
  <2>. QED BY <2>1 DEF OrderOK, Order, OneWriter, Writing, IsFresh, IsBuilding, ChunksOf, IsDescribed, IsWhole
<1>. QED BY <1>1, <1>2, <1>3, <1>4, StepsOrder DEF Next

(* There is no metadata at first. *)
LEMMA InitOrder == Init => OrderOK
<1> SUFFICES ASSUME Init PROVE Order BY DEF OrderOK
<1>1. \A p \in Procs : proc[p].pc = "idle" BY DEF Init, Idle
<1>2. OneWriter BY <1>1 DEF OneWriter, Writing, IndexPCs, ClearPCs
<1>3. \A p \in Procs : IsFresh(p) /\ IsBuilding(p) BY <1>1 DEF IsFresh, IsBuilding, IndexPCs
<1>4. IsDescribed BY DEF Init, NoMeta, IsDescribed
<1>. QED BY <1>2, <1>3, <1>4 DEF Order

(* And as long as nothing is torn, the store follows its only writer: rows *)
(* are those of the chunks done so far, and metadata, written after the    *)
(* last of them, is of the whole.                                          *)
THEOREM OrderHolds == Spec => [](DataOK /\ OrderOK)
<1>1. Init => DataOK /\ OrderOK BY InitData, InitOrder
<1>2. DataOK /\ OrderOK /\ [Next]_vars => (DataOK /\ OrderOK)' BY NextData, NextOrder
<1>. QED BY <1>1, <1>2, PTL DEF Spec

-----------------------------------------------------------------------------
(* The theorems about the order of steps.                                  *)

(* Metadata is written last and dropped with the chunks it describes: an   *)
(* index whose metadata is there was made by a run that came to its end,   *)
(* and holds each wanted line of that commit and nothing else, unless two  *)
(* commands wrote at once, the project changed under one or the error of   *)
(* dropping the metadata was dropped.                                      *)
THEOREM IndexerComplete == Spec => []IndexIsComplete
<1>1. DataOK /\ OrderOK => IndexIsComplete
  <2> SUFFICES ASSUME OrderOK, main.there, meta.record # NoRecord, ~torn
               PROVE  /\ meta.record = [commit |-> made.head, rules |-> made.rules]
                      /\ IsWhole(main.rows, made.tree, made.rules)
    BY Zenon DEF IndexIsComplete, IsWhole
  <2>. QED BY DEF OrderOK, Order, IsDescribed
<1>. QED BY <1>1, OrderHolds, PTL

(* A reply that becomes "current" was said by its own process. *)
LEMMA Saying ==
  ASSUME RepliesOK, NEW p \in Procs, NEW q \in Procs, NEW said, Says(q, said),
         reply'[p].said = "current", reply[p].said # "current"
  PROVE  p = q /\ said = "current"
<1>1. reply' = [reply EXCEPT ![q] = [NoReply EXCEPT !.said = said]]
      /\ reply = [r \in Procs |-> reply[r]]
  BY DEF Says, RepliesOK
<1>2. p = q BY <1>1
<1>3. reply'[p].said = said BY <1>1, <1>2 DEF NoReply
<1>. QED BY <1>2, <1>3

(* Only a check of the metadata and a status report say "current". *)
LEMMA OnlyCurrent ==
  ASSUME RepliesOK, NEW p \in Procs, NEW q \in Procs, Begins(q) \/ Steps(q) \/ Fails(q),
         reply'[p].said = "current", reply[p].said # "current"
  PROVE  /\ p = q
         /\ \/ At(p, "checkMeta") /\ ~IsStale(meta.record, proc[p].now.commit, proc[p].now.rules)
            \/ At(p, "statusMeta") /\ StalenessInfo(meta.record, head, rules) = "current"
<1>1. reply' # reply OBVIOUS
<1>2. ASSUME NEW said \in {"failed", "none", "cleared", "indexed"} PROVE ~Says(q, said)
  BY <1>2, Saying
<1>3. reply = [r \in Procs |-> reply[r]] BY DEF RepliesOK
<1>4. ~Begins(q)
  <2>1. SUFFICES ASSUME Begins(q) PROVE FALSE OBVIOUS
  <2>2. reply' = [reply EXCEPT ![q] = NoReply] BY <2>1 DEF Begins
  <2>. QED BY <1>3, <2>2 DEF NoReply
<1>5. ~Fails(q) BY <1>1, <1>2 DEF Fails
<1>6. ~ReadsRules(q) /\ ~Checks(q) /\ ~DetectsDimension(q) /\ ~Recreates(q) /\ ~Drops(q) /\ ~Walks(q)
  BY <1>1 DEF ReadsRules, Checks, DetectsDimension, Recreates, Drops, Walks
<1>7. ~Creates(q) /\ ~Inserts(q) /\ ~Describes(q) /\ ~Clears(q)
  BY <1>1, <1>2 DEF Creates, Inserts, Describes, Clears
<1>8. ~Embeds(q) BY <1>1, <1>2, Zenon DEF Embeds
<1>9. ~Searches(q)
  <2>1. SUFFICES ASSUME Searches(q) PROVE FALSE OBVIOUS
  <2>2. PICK r : r.said = "hits" /\ reply' = [reply EXCEPT ![q] = r]
    BY <1>1, <1>2, <2>1 DEF Searches
  <2>. QED BY <1>3, <2>2
<1>10. CASE ChecksMeta(q)
  <2>1. Says(q, "current") /\ ~IsStale(meta.record, proc[q].now.commit, proc[q].now.rules)
        /\ At(q, "checkMeta")
    BY <1>1, <1>10 DEF ChecksMeta
  <2>. QED BY <2>1, Saying
<1>11. CASE Reports(q)
  <2>1. At(q, "statusMeta") /\ Says(q, StalenessInfo(meta.record, head, rules))
    BY <1>1, <1>2, <1>11 DEF Reports
  <2>. QED BY <2>1, Saying
<1>. QED BY <1>4, <1>5, <1>6, <1>7, <1>8, <1>9, <1>10, <1>11 DEF Steps, Index

(* "Up to date", from cs index or from cs status, is never said of an      *)
(* index of another commit, of other rules or of none: both verdicts read  *)
(* the metadata and none of the rows it is about.                          *)
THEOREM IndexerCurrent == Spec => CurrentIsCurrent
<1> DEFINE Truth(p) ==
      /\ reply'[p].said = "current" /\ reply[p].said # "current"
      /\ ~torn /\ \A q \in Procs \ {p} : ~Writing(q)
      => main.there /\ head # 0 /\ made.head = head /\ made.rules = rules
<1>1. DataOK /\ OrderOK /\ [Next]_vars => [\A p \in Procs : Truth(p)]_vars
  <2> SUFFICES ASSUME DataOK, OrderOK, Next, NEW p \in Procs, ~torn,
                      reply'[p].said = "current", reply[p].said # "current",
                      \A q \in Procs \ {p} : ~Writing(q)
               PROVE  main.there /\ head # 0 /\ made.head = head /\ made.rules = rules
    OBVIOUS
  <2>1. RepliesOK /\ Order BY DEF DataOK, OrderOK
  <2>2. ~Changes BY DEF Changes
  <2>3. PICK q \in Procs : Begins(q) \/ Steps(q) \/ Fails(q) BY <2>2 DEF Next
  <2>4. \/ At(p, "checkMeta") /\ ~IsStale(meta.record, proc[p].now.commit, proc[p].now.rules)
        \/ At(p, "statusMeta") /\ StalenessInfo(meta.record, head, rules) = "current"
    BY <2>1, <2>3, OnlyCurrent
  <2>5. meta.record.commit = head /\ meta.record.rules = rules /\ head # 0
    <3>1. CASE At(p, "checkMeta") /\ ~IsStale(meta.record, proc[p].now.commit, proc[p].now.rules)
      <4>1. proc[p].now.commit = head /\ proc[p].now.rules = rules
        BY <2>1, <3>1 DEF At, Order, IsFresh, IndexPCs
      <4>. QED BY <3>1, <4>1 DEF IsStale
    <3>2. CASE At(p, "statusMeta") /\ StalenessInfo(meta.record, head, rules) = "current"
      BY <3>2 DEF StalenessInfo
    <3>. QED BY <2>4, <3>1, <3>2
  <2>6. meta.record # NoRecord BY <2>5 DEF NoRecord
  <2>7. \A r \in Procs : proc[r].pc \notin {"dropMeta", "clearMeta"}
    <3>1. proc[p].pc \notin {"dropMeta", "clearMeta"} BY <2>4 DEF At
    <3>. QED BY <3>1 DEF Writing, IndexPCs, ClearPCs
  <2>8. main.there /\ meta.record = [commit |-> made.head, rules |-> made.rules]
    BY <2>1, <2>6, <2>7 DEF Order, IsDescribed
  <2>. QED BY <2>5, <2>8
<1>. QED BY <1>1, OrderHolds, PTL DEF Spec, CurrentIsCurrent
===============================================================================
