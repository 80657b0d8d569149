-------------------------- MODULE AlgorithmsProofs --------------------------
(***************************************************************************)
(* What is shown to readers, for every curve, every budget and every       *)
(* series: a thinned curve keeps its ends and its extremes (CurveInvariant *)
(* says what curves there are), and the buckets of both tiers tell of      *)
(* exactly the samples that were sealed, however the windows were cut      *)
(* (SeriesInv: the tiers are made of the samples before the edge); their   *)
(* charts draw no line where nothing was measured and none that is flat    *)
(* over samples that are not (Drawing).  A table of any size comes back    *)
(* from its block, the upload that lists show counts every difference of   *)
(* its span once (Sealed), and an overview sums what all instances have    *)
(* (CellFills, Lined).                                                     *)
(***************************************************************************)
EXTENDS ArithmeticProofs, Algorithms

-----------------------------------------------------------------------------
LEMMA PickedSteps ==
  ASSUME NEW P, NEW in \in Seq(P), NEW kept
  PROVE  \E h : /\ h[0] = <<>> /\ Picked(in, kept) = h[Len(in)]
               /\ \A i \in 1..Len(in) :
                     h[i] = IF i \in kept THEN Append(h[i - 1], in[i]) ELSE h[i - 1]
<1> DEFINE n == Len(in)
           V == Seq(P)
           F == [p \in V \X (1..n) |-> IF p[2] \in kept THEN Append(p[1], in[p[2]]) ELSE p[1]]
           ids == [i \in DOMAIN in |-> i]
           E(g) == g = [s \in SUBSET DOMAIN ids |->
                          IF s = {} THEN <<>>
                          ELSE IF ids[Max(s)] \in kept
                               THEN Append(g[s \ {Max(s)}], in[ids[Max(s)]]) ELSE g[s \ {Max(s)}]]
<1>1. n \in Nat /\ DOMAIN ids = 1..n /\ \A i \in 1..n : ids[i] = i
  OBVIOUS
<1>2. <<>> \in V /\ F \in [V \X (1..n) -> V]
  OBVIOUS
<1>3. PICK it : Folds(it, V, <<>>, F, n)
  <2> HIDE DEF V, F, n
  <2> QED
    BY <1>1, <1>2, FoldExists
<1>4. ASSUME NEW s \in SUBSET (1..n), s # {} PROVE Max(s) \in 1..n /\ s \ {Max(s)} \in SUBSET (1..n)
  <2> HIDE DEF n
  <2> QED
    BY <1>1, <1>4, MaxOf
<1>5. E(it)
  <2>1. ASSUME NEW s \in SUBSET (1..n), s # {}
        PROVE  it[s] = IF ids[Max(s)] \in kept
                       THEN Append(it[s \ {Max(s)}], in[ids[Max(s)]]) ELSE it[s \ {Max(s)}]
    <3>1. PICK m \in 1..n : m = Max(s) /\ ids[Max(s)] = m
      BY <1>1, <1>4, <2>1
    <3>2. PICK v \in V : v = it[s \ {m}]
      BY <1>3, <1>4, <2>1, <3>1 DEF Folds
    <3>3. it[s] = F[<<v, m>>]
      BY <1>3, <2>1, <3>1, <3>2 DEF Folds
    <3>4. F[<<v, m>>] = IF m \in kept THEN Append(v, in[m]) ELSE v
      OBVIOUS
    <3> QED
      BY <3>1, <3>2, <3>3, <3>4
  <2> HIDE DEF F, V, n, ids
  <2> QED
    BY <1>1, <1>3, <2>1 DEF Folds
<1>6. PICK ch : ch = (CHOOSE g : E(g)) /\ E(ch)
  <2> HIDE DEF E
  <2> QED
    BY <1>5
<1>7. Picked(in, kept) = ch[DOMAIN ids]
  BY <1>6 DEF Picked, FoldLeftDomain, FoldLeft, MapThenFoldSet
<1>8. ASSUME NEW i \in 1..n PROVE ch[1..i] = IF i \in kept THEN Append(ch[1..i - 1], in[i]) ELSE ch[1..i - 1]
  <2>1. Max(1..i) = i /\ (1..i) \ {i} = 1..i - 1 /\ 1..i \in SUBSET (1..n) /\ 1..i # {}
    BY PrefixMax
  <2>2. ids[i] = i
    BY <1>1
  <2> HIDE DEF n, ids
  <2>3. ch[1..i] = IF 1..i = {} THEN <<>>
                   ELSE IF ids[Max(1..i)] \in kept
                        THEN Append(ch[(1..i) \ {Max(1..i)}], in[ids[Max(1..i)]])
                        ELSE ch[(1..i) \ {Max(1..i)}]
    BY <1>1, <1>6, <2>1, ZenonT(60)
  <2> QED
    BY <2>1, <2>2, <2>3
<1>9. ch[1..0] = <<>>
  <2>1. 1..0 = {} /\ 1..0 \in SUBSET (1..n)
    OBVIOUS
  <2> HIDE DEF n, ids
  <2> QED
    BY <1>6, <1>1, <2>1
<1> DEFINE h == [k \in 0..n |-> ch[1..k]]
<1> HIDE DEF ids
<1> QED
  <2>1. h[0] = <<>> /\ h[n] = ch[1..n] /\ \A i \in 1..n : h[i] = ch[1..i] /\ h[i - 1] = ch[1..i - 1]
    BY <1>9, <1>1
  <2> HIDE DEF h
  <2>2. Picked(in, kept) = h[n]
    BY <1>1, <1>7, <2>1
  <2> QED
    BY <2>1, <2>2, <1>8

-----------------------------------------------------------------------------
PointKinds == {"observation", "gap", "flat_5pct", "weighted_mean", "aligned_sum"}

CurvePoint == [at : Nat, num : Nat, den : Nat, kind : PointKinds, flagged : BOOLEAN]

(* A curve: points in the order of their times.                            *)
IsCurve(in) ==
  /\ in \in Seq(CurvePoint) /\ Len(in) > 0
  /\ \A i, j \in 1..Len(in) : i < j => in[i].at < in[j].at

LEMMA MinOf ==
  ASSUME NEW S \in SUBSET Nat, S # {}
  PROVE  Min(S) \in S /\ \A k \in S : Min(S) <= k
<1>1. PICK m \in S : \A k \in S : m <= k
  BY LeastNumber
<1> QED
  BY <1>1 DEF Min

(* What Picked gives: the kept points in their order, one for each.        *)
LEMMA PickedAre ==
  ASSUME NEW in, IsCurve(in), NEW kept \in SUBSET (1..Len(in))
  PROVE  LET out == Picked(in, kept)
         IN /\ out \in Seq(CurvePoint)
            /\ {out[j] : j \in 1..Len(out)} = {in[i] : i \in kept}
            /\ \A j \in 1..Len(out) - 1 : out[j].at < out[j + 1].at
            /\ IsFiniteSet(kept) /\ Len(out) = Cardinality(kept)
<1>1. PICK h : /\ h[0] = <<>> /\ Picked(in, kept) = h[Len(in)]
               /\ \A i \in 1..Len(in) :
                     h[i] = IF i \in kept THEN Append(h[i - 1], in[i]) ELSE h[i - 1]
  BY PickedSteps DEF IsCurve
<1> DEFINE n == Len(in)
           Good(k) == /\ h[k] \in Seq(CurvePoint)
                      /\ \A j \in 1..Len(h[k]) : \E i \in kept \cap (1..k) : h[k][j] = in[i]
                      /\ \A i \in kept \cap (1..k) : \E j \in 1..Len(h[k]) : h[k][j] = in[i]
                      /\ \A j \in 1..Len(h[k]) - 1 : h[k][j].at < h[k][j + 1].at
                      /\ IsFiniteSet(kept \cap (1..k)) /\ Len(h[k]) = Cardinality(kept \cap (1..k))
           T == {k \in Nat : k <= n => Good(k)}
<1>2. 0 \in T
  <2>1. kept \cap (1..0) = {} /\ IsFiniteSet({}) /\ Cardinality({}) = 0
    BY FS_EmptySet
  <2>2. h[0] = <<>> /\ Len(<<>>) = 0 /\ <<>> \in Seq(CurvePoint)
    BY <1>1
  <2>3. Good(0)
    BY <2>1, <2>2
  <2> QED
    BY <2>3
<1>n. n \in Nat
  BY DEF IsCurve
<1>3. ASSUME NEW k \in Nat, Good(k), k + 1 <= n PROVE Good(k + 1)
  <2>1. Good(k) /\ k + 1 \in 1..n /\ (k + 1) - 1 = k /\ k < k + 1 /\ k + 1 \in Nat
    <3> HIDE DEF Good, n, T
    <3> QED
      BY <1>3, <1>n
  <2>2. CASE k + 1 \notin kept
    <3>1. kept \cap (1..k + 1) = kept \cap (1..k)
      BY <2>2
    <3>2. h[k + 1] = h[k]
      BY <1>1, <2>1, <2>2
    <3> QED
      BY <2>1, <3>1, <3>2
  <2>3. CASE k + 1 \in kept
    <3> DEFINE K == kept \cap (1..k)
               o == h[k]
               p == in[k + 1]
    <3>1. kept \cap (1..k + 1) = K \cup {k + 1} /\ k + 1 \notin K
      BY <2>3
    <3>2. h[k + 1] = Append(o, p)
      BY <1>1, <2>1, <2>3
    <3>3. p \in CurvePoint /\ p.at \in Nat /\ \A i \in K : in[i].at \in Nat /\ in[i].at < p.at
      <4>1. in \in Seq(CurvePoint) /\ p \in CurvePoint
        BY <2>1 DEF IsCurve
      <4>2. \A i \in 1..n : in[i] \in CurvePoint
        BY <4>1
      <4>3. ASSUME NEW i \in K PROVE in[i].at \in Nat /\ in[i].at < p.at
        <5>1. i \in 1..n /\ i < k + 1
          BY <2>1
        <5> QED
          BY <5>1, <4>2, <2>1 DEF IsCurve, CurvePoint
      <4> QED
        BY <4>1, <4>3 DEF CurvePoint
    <3>4. /\ o \in Seq(CurvePoint)
          /\ \A j \in 1..Len(o) : \E i \in K : o[j] = in[i]
          /\ \A i \in K : \E j \in 1..Len(o) : o[j] = in[i]
          /\ \A j \in 1..Len(o) - 1 : o[j].at < o[j + 1].at
          /\ IsFiniteSet(K) /\ Len(o) = Cardinality(K)
      BY <2>1
    <3> HIDE DEF K, o, p, Good, n, T
    <3>5. IsFiniteSet(K \cup {k + 1}) /\ Cardinality(K \cup {k + 1}) = Len(o) + 1
      BY <3>1, <3>4, FS_AddElement
    <3>6. /\ Append(o, p) \in Seq(CurvePoint) /\ Len(Append(o, p)) = Len(o) + 1 /\ Len(o) \in Nat
          /\ Append(o, p)[Len(o) + 1] = p
          /\ \A j \in 1..Len(o) : Append(o, p)[j] = o[j]
      BY <3>3, <3>4
    <3>7. ASSUME NEW j \in 1..Len(o) + 1 PROVE \E i \in K \cup {k + 1} : Append(o, p)[j] = in[i]
      <4>1. CASE j = Len(o) + 1
        BY <4>1, <3>6 DEF p
      <4>2. CASE j \in 1..Len(o)
        BY <4>2, <3>4, <3>6, SMTT(30)
      <4> QED
        BY <4>1, <4>2, <3>6
    <3>8. ASSUME NEW i \in K \cup {k + 1} PROVE \E j \in 1..Len(o) + 1 : Append(o, p)[j] = in[i]
      <4>1. CASE i = k + 1
        <5>1. Len(o) + 1 \in 1..Len(o) + 1
          BY <3>6
        <5> QED
          BY <4>1, <5>1, <3>6 DEF p
      <4>2. CASE i \in K
        <5>1. PICK j \in 1..Len(o) : o[j] = in[i]
          BY <4>2, <3>4
        <5>2. j \in 1..Len(o) + 1
          BY <3>6
        <5> QED
          BY <5>1, <5>2, <3>6
      <4> QED
        BY <4>1, <4>2
    <3>9. ASSUME NEW j \in 1..Len(o) PROVE Append(o, p)[j].at < Append(o, p)[j + 1].at
      <4>1. CASE j = Len(o)
        BY <4>1, <3>3, <3>4, <3>6
      <4>2. CASE j \in 1..Len(o) - 1
        BY <4>2, <3>4, <3>6
      <4> QED
        BY <4>1, <4>2, <3>6
    <3> DEFINE q == Append(o, p)
    <3>10. /\ h[k + 1] = q /\ Len(q) = Len(o) + 1 /\ (Len(o) + 1) - 1 = Len(o)
           /\ kept \cap (1..k + 1) = K \cup {k + 1}
      BY <3>1, <3>2, <3>6
    <3>11. /\ q \in Seq(CurvePoint)
           /\ \A j \in 1..Len(q) : \E i \in K \cup {k + 1} : q[j] = in[i]
           /\ \A i \in K \cup {k + 1} : \E j \in 1..Len(q) : q[j] = in[i]
           /\ \A j \in 1..Len(q) - 1 : q[j].at < q[j + 1].at
           /\ IsFiniteSet(K \cup {k + 1}) /\ Len(q) = Cardinality(K \cup {k + 1})
      BY <3>5, <3>6, <3>7, <3>8, <3>9, <3>10
    <3> HIDE DEF q
    <3> QED
      BY <3>10, <3>11 DEF Good
  <2> QED
    BY <2>2, <2>3
<1>4. n \in Nat /\ n \in T
  <2>1. ASSUME NEW k \in Nat, k \in T PROVE k + 1 \in T
    <3> HIDE DEF Good, n
    <3> QED
      BY <1>3, <1>n, <2>1
  <2> HIDE DEF T
  <2> QED
    BY <1>2, <1>n, <2>1, Induction
<1>5. kept \cap (1..n) = kept
  OBVIOUS
<1>6. Good(n)
  BY <1>4, <1>n
<1> DEFINE out == Picked(in, kept)
<1>7. out = h[n]
  BY <1>1
<1>8. /\ out \in Seq(CurvePoint)
      /\ \A j \in 1..Len(out) : \E i \in kept : out[j] = in[i]
      /\ \A i \in kept : \E j \in 1..Len(out) : out[j] = in[i]
      /\ \A j \in 1..Len(out) - 1 : out[j].at < out[j + 1].at
      /\ IsFiniteSet(kept) /\ Len(out) = Cardinality(kept)
  <2> HIDE DEF out, n
  <2> QED
    BY <1>5, <1>6, <1>7
<1> HIDE DEF out
<1>9. {out[j] : j \in 1..Len(out)} = {in[i] : i \in kept}
  <2> DEFINE A == {out[j] : j \in 1..Len(out)}
             B == {in[i] : i \in kept}
  <2>1. \A x \in A : x \in B
    BY <1>8
  <2>2. ASSUME NEW x \in B PROVE x \in A
    <3>1. PICK i \in kept : x = in[i]
      OBVIOUS
    <3>2. PICK j \in 1..Len(out) : out[j] = in[i]
      BY <1>8
    <3> QED
      BY <3>1, <3>2
  <2> HIDE DEF A, B
  <2>3. A = B
    BY <2>1, <2>2
  <2> QED
    BY <2>3 DEF A, B
<1> QED
  BY <1>8, <1>9 DEF out

LEMMA OneMoreAtMost ==
  ASSUME NEW Q, NEW x, NEW k \in Nat, IsFiniteSet(Q), Cardinality(Q) <= k
  PROVE  /\ IsFiniteSet(Q \cup {x}) /\ Cardinality(Q \cup {x}) \in Nat
         /\ Cardinality(Q \cup {x}) <= k + 1
<1>1. /\ IsFiniteSet(Q \cup {x})
      /\ Cardinality(Q \cup {x}) = IF x \in Q THEN Cardinality(Q) ELSE Cardinality(Q) + 1
  BY FS_AddElement
<1>2. Cardinality(Q) \in Nat
  BY FS_CardinalityType
<1> QED
  BY <1>1, <1>2

LEMMA SixAtMost ==
  ASSUME NEW a, NEW b, NEW c, NEW d, NEW e, NEW f, NEW S, S \subseteq {a, b, c, d, e, f}
  PROVE  IsFiniteSet(S) /\ Cardinality(S) \in Nat /\ Cardinality(S) <= 6
<1> DEFINE Few(Q, k) == IsFiniteSet(Q) /\ Cardinality(Q) <= k
<1>1. Few({}, 0)
  BY FS_EmptySet
<1>2. ASSUME NEW Q, NEW x, NEW k \in Nat, Few(Q, k) PROVE Few(Q \cup {x}, k + 1)
  BY <1>2, OneMoreAtMost
<1> DEFINE A1 == {} \cup {a}
           A2 == A1 \cup {b}
           A3 == A2 \cup {c}
           A4 == A3 \cup {d}
           A5 == A4 \cup {e}
           A6 == A5 \cup {f}
<1> HIDE DEF Few, A1, A2, A3, A4, A5, A6
<1>3. 0 + 1 = 1 /\ 1 + 1 = 2 /\ 2 + 1 = 3 /\ 3 + 1 = 4 /\ 4 + 1 = 5 /\ 5 + 1 = 6
  OBVIOUS
<1>4. \A k \in {0, 1, 2, 3, 4, 5} : k \in Nat
  OBVIOUS
<1>5. Few(A1, 1)
  BY <1>1, <1>2, <1>3, <1>4 DEF A1
<1>6. Few(A2, 2)
  BY <1>5, <1>2, <1>3, <1>4 DEF A2
<1>7. Few(A3, 3)
  BY <1>6, <1>2, <1>3, <1>4 DEF A3
<1>8. Few(A4, 4)
  BY <1>7, <1>2, <1>3, <1>4 DEF A4
<1>9. Few(A5, 5)
  BY <1>8, <1>2, <1>3, <1>4 DEF A5
<1>10. Few(A6, 6)
  BY <1>9, <1>2, <1>3, <1>4 DEF A6
<1>11. S \subseteq A6 /\ IsFiniteSet(A6) /\ Cardinality(A6) <= 6
  BY <1>10 DEF Few, A6, A5, A4, A3, A2, A1
<1>12. IsFiniteSet(S) /\ Cardinality(S) <= Cardinality(A6)
  BY <1>11, FS_Subset
<1>13. Cardinality(S) \in Nat /\ Cardinality(A6) \in Nat
  BY <1>11, <1>12, FS_CardinalityType
<1> QED
  BY <1>11, <1>12, <1>13

-----------------------------------------------------------------------------
(* A finite set has a least element in any order that may have ties.       *)
LEMMA LeastIn ==
  ASSUME NEW n \in Nat, NEW S \in SUBSET (1..n), S # {}, NEW R,
         \A i, j \in S : <<i, j>> \notin R \/ <<j, i>> \notin R,
         \A i, j, k \in S : <<i, j>> \notin R /\ <<j, k>> \notin R => <<i, k>> \notin R
  PROVE  LET best == {i \in S : \A j \in S : <<j, i>> \notin R}
         IN Min(best) \in best /\ \A b \in best : Min(best) <= b
<1> DEFINE Best(Q, i) == i \in Q /\ \A j \in Q : <<j, i>> \notin R
           T == {k \in Nat : \A Q \in SUBSET S : Q \subseteq 1..k /\ Q # {} => \E i : Best(Q, i)}
<1>1. 0 \in T
  <2>1. 1..0 = {}
    OBVIOUS
  <2> QED
    BY <2>1
<1>2. ASSUME NEW k \in Nat, k \in T PROVE k + 1 \in T
  <2> SUFFICES ASSUME NEW Q \in SUBSET S, Q \subseteq 1..k + 1, Q # {} PROVE \E i : Best(Q, i)
    OBVIOUS
  <2>1. Q \ {k + 1} \in SUBSET S /\ Q \ {k + 1} \subseteq 1..k
    OBVIOUS
  <2>2. CASE Q \ {k + 1} = {}
    <3>1. Q = {k + 1}
      BY <2>2
    <3> QED
      BY <3>1
  <2>3. CASE Q \ {k + 1} # {}
    <3>1. PICK i : Best(Q \ {k + 1}, i)
      BY <1>2, <2>1, <2>3
    <3>2. CASE k + 1 \notin Q \/ <<k + 1, i>> \notin R
      <4>1. Best(Q, i)
        BY <3>1, <3>2
      <4> QED
        BY <4>1
    <3>3. CASE k + 1 \in Q /\ <<k + 1, i>> \in R
      <4>1. <<i, k + 1>> \notin R /\ <<k + 1, k + 1>> \notin R
        BY <3>1, <3>3
      <4>2. \A j \in Q \ {k + 1} : <<j, k + 1>> \notin R
        BY <3>1, <3>3, <4>1
      <4>3. Best(Q, k + 1)
        BY <3>3, <4>1, <4>2
      <4> QED
        BY <4>3
    <3> QED
      BY <3>2, <3>3
  <2> QED
    BY <2>2, <2>3
<1>3. n \in T
  <2> HIDE DEF T
  <2> QED
    BY <1>1, <1>2, Induction
<1>4. PICK i : Best(S, i)
  BY <1>3
<1> DEFINE best == {b \in S : \A j \in S : <<j, b>> \notin R}
<1>5. i \in best /\ best \in SUBSET Nat
  <2>1. \A b \in best : b \in Nat
    OBVIOUS
  <2> QED
    BY <1>4, <2>1
<1> HIDE DEF best
<1>6. Min(best) \in best /\ \A b \in best : Min(best) <= b
  BY <1>5, MinOf
<1> QED
  BY <1>6 DEF best

(* The order of numbers has ties, and no number is before itself.          *)
LEMMA BelowOrders ==
  ASSUME NEW p \in CurvePoint, NEW q \in CurvePoint, NEW r \in CurvePoint,
         ~IsGap(p), ~IsGap(q), ~IsGap(r)
  PROVE  /\ ~Below(p, q) \/ ~Below(q, p)
         /\ ~Below(p, q) /\ ~Below(q, r) => ~Below(p, r)
<1> DEFINE a == p.num b == p.den c == q.num d == q.den e == r.num f == r.den
<1>1. a \in Nat /\ c \in Nat /\ e \in Nat /\ b \in Nat \ {0} /\ d \in Nat \ {0} /\ f \in Nat \ {0}
  BY DEF CurvePoint, IsGap
<1>2. \A x, y \in Nat : x * y \in Nat /\ x * y = y * x
  OBVIOUS
<1> HIDE DEF a, b, c, d, e, f
<1>3. ~(a * d < c * b) \/ ~(c * b < a * d)
  BY <1>1, <1>2
<1>4. ASSUME c * b <= a * d, e * d <= c * f PROVE e * b <= a * f
  <2>1. (e * d) * b <= (c * f) * b
    BY <1>1, <1>2, <1>4, Scaled
  <2>2. (c * b) * f <= (a * d) * f
    BY <1>1, <1>2, <1>4, Scaled
  <2>3. (c * f) * b = (c * b) * f /\ (e * d) * b = (e * b) * d /\ (a * d) * f = (a * f) * d
    BY <1>1
  <2>4. (e * b) * d <= (a * f) * d
    BY <1>1, <1>2, <2>1, <2>2, <2>3
  <2>5. \A x, y \in Nat : x * d <= y * d => x <= y
    <3>1. ASSUME NEW x \in Nat, NEW y \in Nat, y + 1 <= x PROVE y * d < x * d
      <4>1. (y + 1) * d <= x * d
        BY <1>1, <3>1, Scaled
      <4>2. (y + 1) * d = y * d + d
        BY <1>1
      <4> QED
        BY <1>1, <1>2, <4>1, <4>2
    <3>2. \A x, y \in Nat : x * d \in Nat /\ y * d \in Nat
      BY <1>1, <1>2
    <3> QED
      BY <3>1, <3>2
  <2>6. e * b \in Nat /\ a * f \in Nat
    BY <1>1, <1>2
  <2> QED
    BY <2>4, <2>5, <2>6
<1>5. /\ ~Below(p, q) <=> c * b <= a * d
      /\ ~Below(q, p) <=> a * d <= c * b
      /\ ~Below(q, r) <=> e * d <= c * f
      /\ ~Below(p, r) <=> e * b <= a * f
  <2>1. /\ Below(p, q) <=> a * d < c * b
        /\ Below(q, p) <=> c * b < a * d
        /\ Below(q, r) <=> c * f < e * d
        /\ Below(p, r) <=> a * f < e * b
    BY DEF Below, a, b, c, d, e, f
  <2>2. a * d \in Nat /\ c * b \in Nat /\ c * f \in Nat /\ e * d \in Nat /\ a * f \in Nat /\ e * b \in Nat
    BY <1>1, <1>2
  <2> QED
    BY <2>1, <2>2
<1>6. a * d <= c * b \/ c * b <= a * d
  BY <1>1, <1>2
<1> QED
  BY <1>4, <1>5, <1>6

Numbers(in, S) == {i \in S : ~IsGap(in[i])}

LEMMA LowestIs ==
  ASSUME NEW in, IsCurve(in), NEW nums \in SUBSET (1..Len(in)), nums # {},
         \A i \in nums : ~IsGap(in[i])
  PROVE  LET low == {i \in nums : \A j \in nums : ~Below(in[j], in[i])}
         IN Lowest(in, nums) \in low /\ \A i \in low : Lowest(in, nums) <= i
<1> DEFINE n == Len(in)
           R == {x \in (1..n) \X (1..n) : Below(in[x[1]], in[x[2]])}
           low == {i \in nums : \A j \in nums : ~Below(in[j], in[i])}
           best == {i \in nums : \A j \in nums : <<j, i>> \notin R}
<1>1. n \in Nat /\ \A i \in nums : in[i] \in CurvePoint /\ i \in 1..n
  BY DEF IsCurve
<1>2. \A i, j \in nums : <<i, j>> \in R <=> Below(in[i], in[j])
  BY <1>1
<1>3. /\ \A i, j \in nums : <<i, j>> \notin R \/ <<j, i>> \notin R
      /\ \A i, j, k \in nums : <<i, j>> \notin R /\ <<j, k>> \notin R => <<i, k>> \notin R
  <2> HIDE DEF R, n
  <2> QED
    BY <1>1, <1>2, BelowOrders
<1>4. best = low
  <2> HIDE DEF R
  <2> QED
    BY <1>2
<1>5. Min(best) \in best /\ \A i \in best : Min(best) <= i
  <2> HIDE DEF R, n
  <2> QED
    BY <1>1, <1>3, LeastIn
<1> HIDE DEF best
<1> QED
  BY <1>4, <1>5 DEF Lowest

LEMMA HighestIs ==
  ASSUME NEW in, IsCurve(in), NEW nums \in SUBSET (1..Len(in)), nums # {},
         \A i \in nums : ~IsGap(in[i])
  PROVE  LET high == {i \in nums : \A j \in nums : ~Below(in[i], in[j])}
         IN Highest(in, nums) \in high /\ \A i \in high : Highest(in, nums) <= i
<1> DEFINE n == Len(in)
           R == {x \in (1..n) \X (1..n) : Below(in[x[2]], in[x[1]])}
           high == {i \in nums : \A j \in nums : ~Below(in[i], in[j])}
           best == {i \in nums : \A j \in nums : <<j, i>> \notin R}
<1>1. n \in Nat /\ \A i \in nums : in[i] \in CurvePoint /\ i \in 1..n
  BY DEF IsCurve
<1>2. \A i, j \in nums : <<i, j>> \in R <=> Below(in[j], in[i])
  BY <1>1
<1>3. /\ \A i, j \in nums : <<i, j>> \notin R \/ <<j, i>> \notin R
      /\ \A i, j, k \in nums : <<i, j>> \notin R /\ <<j, k>> \notin R => <<i, k>> \notin R
  <2> HIDE DEF R, n
  <2> QED
    BY <1>1, <1>2, BelowOrders
<1>4. best = high
  <2> HIDE DEF R
  <2> QED
    BY <1>2
<1>5. Min(best) \in best /\ \A i \in best : Min(best) <= i
  <2> HIDE DEF R, n
  <2> QED
    BY <1>1, <1>3, LeastIn
<1> HIDE DEF best
<1> QED
  BY <1>4, <1>5 DEF Highest

-----------------------------------------------------------------------------
LEMMA MaxIn ==
  ASSUME NEW n \in Nat, NEW S \in SUBSET (1..n), S # {}
  PROVE  Max(S) \in S
  BY MaxOf

(* A cell keeps six of its points at most, among them both ends and the    *)
(* lowest and highest, and a gap if it has one.                            *)
LEMMA KeptOfCell ==
  ASSUME NEW in, IsCurve(in), NEW cell \in SUBSET (1..Len(in)), cell # {}
  PROVE  LET nums == {i \in cell : ~IsGap(in[i])}
         IN /\ Kept(in, cell) \subseteq cell
            /\ Cardinality(Kept(in, cell)) \in Nat /\ Cardinality(Kept(in, cell)) <= 6
            /\ IsFiniteSet(Kept(in, cell))
            /\ {Min(cell), Max(cell)} \subseteq Kept(in, cell)
            /\ nums # {} => {Lowest(in, nums), Highest(in, nums)} \subseteq Kept(in, cell)
            /\ cell \ nums # {} => Kept(in, cell) \cap (cell \ nums) # {}
<1> DEFINE n == Len(in)
           nums == {i \in cell : ~IsGap(in[i])}
           marked == {i \in nums : in[i].flagged}
<1>0. n \in Nat /\ nums \in SUBSET (1..n) /\ (cell \ nums) \in SUBSET (1..n) /\ marked \in SUBSET (1..n)
  <2>1. n \in Nat
    BY DEF IsCurve
  <2>2. nums \in SUBSET cell /\ (cell \ nums) \in SUBSET cell /\ marked \in SUBSET nums
    OBVIOUS
  <2> HIDE DEF nums, marked, n
  <2> QED
    BY <2>1, <2>2 DEF n
<1>1. Min(cell) \in cell /\ Max(cell) \in cell
  <2>1. cell \in SUBSET Nat
    <3>1. \A i \in cell : i \in Nat
      OBVIOUS
    <3> QED
      BY <3>1
  <2> HIDE DEF n
  <2> QED
    BY <1>0, <2>1, MinOf, MaxIn
<1>2. nums # {} => Lowest(in, nums) \in nums /\ Highest(in, nums) \in nums
  <2>1. \A i \in nums : ~IsGap(in[i])
    OBVIOUS
  <2> HIDE DEF nums
  <2> QED
    BY <1>0, <2>1, LowestIs, HighestIs
<1>3. /\ cell \ nums # {} => Max(cell \ nums) \in cell \ nums
      /\ marked # {} => Max(marked) \in marked
  <2> HIDE DEF n, nums, marked
  <2> QED
    BY <1>0, MaxIn
<1> HIDE DEF n, nums
<1>4. Kept(in, cell) = {Min(cell), Max(cell)}
         \cup (IF nums = {} THEN {} ELSE {Lowest(in, nums), Highest(in, nums)})
         \cup LastOf(cell \ nums) \cup LastOf(marked)
  BY DEF Kept, nums
<1>5. LastOf(cell \ nums) \subseteq {Max(cell \ nums)} /\ LastOf(marked) \subseteq {Max(marked)}
  BY DEF LastOf
<1>6. Kept(in, cell) \subseteq {Min(cell), Max(cell), Lowest(in, nums), Highest(in, nums),
                                Max(cell \ nums), Max(marked)}
  BY <1>4, <1>5
<1>7. Kept(in, cell) \subseteq cell
  <2>1. nums \subseteq cell /\ marked \subseteq nums
    BY DEF nums
  <2>2. LastOf(cell \ nums) \subseteq cell /\ LastOf(marked) \subseteq cell
    BY <1>3, <2>1 DEF LastOf
  <2>3. (IF nums = {} THEN {} ELSE {Lowest(in, nums), Highest(in, nums)}) \subseteq cell
    BY <1>2, <2>1
  <2> HIDE DEF marked
  <2> QED
    BY <1>1, <1>4, <2>2, <2>3
<1>8. Cardinality(Kept(in, cell)) \in Nat /\ Cardinality(Kept(in, cell)) <= 6 /\ IsFiniteSet(Kept(in, cell))
  BY <1>6, SixAtMost
<1>9. /\ {Min(cell), Max(cell)} \subseteq Kept(in, cell)
      /\ nums # {} => {Lowest(in, nums), Highest(in, nums)} \subseteq Kept(in, cell)
  BY <1>4
<1>10. cell \ nums # {} => Kept(in, cell) \cap (cell \ nums) # {}
  <2> SUFFICES ASSUME cell \ nums # {} PROVE Max(cell \ nums) \in Kept(in, cell) \cap (cell \ nums)
    OBVIOUS
  <2>1. Max(cell \ nums) \in LastOf(cell \ nums)
    BY DEF LastOf
  <2> HIDE DEF marked
  <2> QED
    BY <1>3, <1>4, <2>1
<1> QED
  BY <1>7, <1>8, <1>9, <1>10 DEF nums

LEMMA LargerThanOne ==
  ASSUME NEW x \in Int
  PROVE  Max({1, x}) = IF 1 >= x THEN 1 ELSE x
  BY LargerOfTwo

(* The cells of a curve are numbered from 0, one for six points of the     *)
(* budget.                                                                 *)
LEMMA CellsFit ==
  ASSUME NEW in, IsCurve(in), NEW budget \in Nat, budget >= 6
  PROVE  LET C == Max({1, budget \div 6})
         IN /\ C \in Nat /\ 6 * C <= budget
            /\ \A i \in 1..Len(in) : CellOf(in, i, budget) \in 0..C - 1
<1> DEFINE C == Max({1, budget \div 6})
           n == Len(in)
           span == in[n].at + 1 - in[1].at
<1>1. C = budget \div 6 /\ C \in Nat \ {0} /\ 6 * C <= budget
  <2>1. budget \div 6 \in Nat /\ budget \div 6 >= 1 /\ 6 * (budget \div 6) <= budget
    OBVIOUS
  <2> QED
    BY <2>1, LargerThanOne
<1>2. n \in Nat \ {0} /\ \A i \in 1..n : in[i].at \in Nat
  <2>1. in \in Seq(CurvePoint) /\ n > 0
    BY DEF IsCurve
  <2>2. n \in Nat /\ \A i \in 1..n : in[i] \in CurvePoint
    BY <2>1
  <2> QED
    BY <2>1, <2>2, SMTT(30) DEF CurvePoint
<1> HIDE DEF n, C
<1>3. ASSUME NEW i \in 1..n PROVE in[1].at <= in[i].at /\ in[i].at <= in[n].at
  <2>1. CASE i = 1 /\ i = n
    BY <2>1, <1>2
  <2>2. CASE i = 1 /\ i # n
    BY <2>2, <1>2 DEF IsCurve, n
  <2>3. CASE i # 1 /\ i = n
    BY <2>3, <1>2 DEF IsCurve, n
  <2>4. CASE i # 1 /\ i # n
    <3>1. 1 < i /\ i < n /\ 1 \in 1..n /\ n \in 1..n
      BY <2>4, <1>2
    <3> QED
      BY <3>1, <1>2 DEF IsCurve, n
  <2> QED
    BY <2>1, <2>2, <2>3, <2>4
<1>4. span \in Nat \ {0} /\ Max({1, span}) = span
  <2>1. 1 \in 1..n /\ n \in 1..n
    BY <1>2
  <2>2. span \in Nat \ {0}
    BY <1>2, <1>3, <2>1
  <2> HIDE DEF span
  <2> QED
    BY <2>2, LargerThanOne
<1>5. ASSUME NEW i \in 1..n PROVE CellOf(in, i, budget) \in 0..C - 1
  <2> DEFINE x == in[i].at - in[1].at
             q == (x * C) \div span
  <2>1. CellOf(in, i, budget) = q
    BY <1>4 DEF CellOf, C, n
  <2>2. x \in Nat /\ x + 1 <= span
    <3>1. 1 \in 1..n /\ n \in 1..n
      BY <1>2
    <3> QED
      BY <1>2, <1>3, <3>1
  <2> HIDE DEF x, span
  <2>3. x * C \in Nat /\ (x + 1) * C = x * C + C
    BY <1>1, <2>2
  <2>4. (x + 1) * C <= span * C /\ span * C = C * span
    BY <1>1, <1>4, <2>2, Scaled
  <2>5. q \in Nat /\ q * span \in Nat /\ q * span <= x * C
    BY <1>4, <2>3, DivMod
  <2> HIDE DEF q
  <2>6. q < C
    <3> SUFFICES ASSUME C <= q PROVE FALSE
      BY <1>1, <2>5
    <3>1. C * span <= q * span
      BY <1>1, <1>4, <2>5, Scaled
    <3>2. C * span \in Nat
      BY <1>1, <1>4
    <3> QED
      BY <3>1, <3>2, <1>1, <2>3, <2>4, <2>5
  <2> QED
    BY <1>1, <2>1, <2>5, <2>6
<1> QED
  BY <1>1, <1>5 DEF C, n

(* The kept points of all cells are within the budget.                     *)
LEMMA KeptFit ==
  ASSUME NEW in, IsCurve(in), NEW budget \in Nat, budget >= 6
  PROVE  LET kept == KeptAll(in, budget)
             group(i) == {j \in 1..Len(in) : CellOf(in, j, budget) = CellOf(in, i, budget)}
         IN /\ kept \in SUBSET (1..Len(in)) /\ IsFiniteSet(kept)
            /\ Cardinality(kept) \in Nat /\ Cardinality(kept) <= budget
            /\ \A i \in 1..Len(in) : Kept(in, group(i)) \subseteq kept
<1> DEFINE n == Len(in)
           C == Max({1, budget \div 6})
           cell == [i \in DOMAIN in |-> CellOf(in, i, budget)]
           of(c) == {i \in 1..n : cell[i] = c}
           kept == KeptAll(in, budget)
<1>1. C \in Nat /\ 6 * C <= budget /\ \A i \in 1..n : cell[i] = CellOf(in, i, budget) /\ cell[i] \in 0..C - 1
  <2>1. /\ C \in Nat /\ 6 * C <= budget
        /\ \A i \in 1..n : CellOf(in, i, budget) \in 0..C - 1
    BY CellsFit
  <2>2. DOMAIN in = 1..n
    BY DEF IsCurve
  <2> HIDE DEF C, n
  <2> QED
    BY <2>1, <2>2
<1>2. n \in Nat /\ DOMAIN in = 1..n
  BY DEF IsCurve
<1>3. kept = UNION {Kept(in, of(c)) : c \in {cell[i] : i \in 1..n}}
  BY <1>2 DEF KeptAll
<1> HIDE DEF C, cell
<1>4. ASSUME NEW c, of(c) # {}
      PROVE  /\ Kept(in, of(c)) \subseteq of(c) /\ Cardinality(Kept(in, of(c))) \in Nat
             /\ Cardinality(Kept(in, of(c))) <= 6 /\ IsFiniteSet(Kept(in, of(c)))
  <2>1. of(c) \in SUBSET (1..n)
    OBVIOUS
  <2> HIDE DEF of
  <2> QED
    BY <1>4, <2>1, KeptOfCell
<1> HIDE DEF kept
<1>5. ASSUME NEW i \in kept PROVE \E c \in 0..C - 1 : of(c) # {} /\ i \in Kept(in, of(c)) /\ i \in of(c)
  <2>1. PICK j \in 1..n : i \in Kept(in, of(cell[j]))
    BY <1>3
  <2>2. j \in of(cell[j])
    OBVIOUS
  <2>3. of(cell[j]) # {} /\ cell[j] \in 0..C - 1
    BY <1>1, <2>2
  <2>4. i \in of(cell[j])
    <3> HIDE DEF of
    <3> QED
      BY <1>4, <2>1, <2>3
  <2> QED
    BY <2>1, <2>3, <2>4
<1>6. kept \in SUBSET (1..n)
  BY <1>5
<1> DEFINE upTo(k) == {i \in kept : cell[i] < k}
           T == {k \in Nat : /\ IsFiniteSet(upTo(k)) /\ Cardinality(upTo(k)) \in Nat
                             /\ Cardinality(upTo(k)) <= 6 * k}
<1>n. \A i \in kept : cell[i] \in Nat /\ cell[i] < C /\ i \in 1..n
  BY <1>1, <1>6
<1>7. 0 \in T
  <2>1. upTo(0) = {}
    BY <1>n
  <2> HIDE DEF upTo
  <2> QED
    BY <2>1, FS_EmptySet
<1>8. ASSUME NEW k \in Nat, k \in T PROVE k + 1 \in T
  <2> DEFINE A == upTo(k)
             B == {i \in kept : cell[i] = k}
  <2>1. upTo(k + 1) = A \cup B
    <3>1. \A i \in kept : cell[i] < k + 1 <=> cell[i] < k \/ cell[i] = k
      BY <1>n
    <3> QED
      BY <3>1
  <2>2. IsFiniteSet(B) /\ Cardinality(B) \in Nat /\ Cardinality(B) <= 6
    <3>1. CASE B = {}
      BY <3>1, FS_EmptySet
    <3>2. CASE B # {}
      <4>1. B \subseteq Kept(in, of(k)) /\ of(k) # {}
        <5>1. ASSUME NEW i \in B PROVE i \in Kept(in, of(k)) /\ of(k) # {}
          <6>1. PICK c \in 0..C - 1 : of(c) # {} /\ i \in Kept(in, of(c)) /\ i \in of(c)
            BY <1>5
          <6>2. c = k
            BY <6>1
          <6> QED
            BY <6>1, <6>2
        <5> QED
          BY <3>2, <5>1
      <4> HIDE DEF B, of
      <4>2. /\ Cardinality(Kept(in, of(k))) \in Nat
            /\ Cardinality(Kept(in, of(k))) <= 6 /\ IsFiniteSet(Kept(in, of(k)))
        BY <1>4, <4>1
      <4>3. IsFiniteSet(B) /\ Cardinality(B) <= Cardinality(Kept(in, of(k)))
        BY <4>1, <4>2, FS_Subset
      <4>4. Cardinality(B) \in Nat
        BY <4>3, FS_CardinalityType
      <4> QED
        BY <4>2, <4>3, <4>4
    <3> QED
      BY <3>1, <3>2
  <2>3. IsFiniteSet(A) /\ Cardinality(A) \in Nat /\ Cardinality(A) <= 6 * k
    BY <1>8
  <2> HIDE DEF A, B, upTo
  <2>4. IsFiniteSet(A \cup B) /\ Cardinality(A \cup B) = Cardinality(A) + Cardinality(B) - Cardinality(A \cap B)
    BY <2>2, <2>3, FS_Union
  <2>5. IsFiniteSet(A \cap B) /\ Cardinality(A \cap B) \in Nat
    <3>1. A \cap B \in SUBSET A
      OBVIOUS
    <3>2. IsFiniteSet(A \cap B)
      BY <2>3, <3>1, FS_Subset
    <3> QED
      BY <3>2, FS_CardinalityType
  <2>6. Cardinality(A \cup B) \in Nat
    BY <2>4, FS_CardinalityType
  <2>7. Cardinality(A \cup B) <= 6 * (k + 1)
    <3> DEFINE a == Cardinality(A) b == Cardinality(B) d == Cardinality(A \cap B)
               u == Cardinality(A \cup B)
    <3>1. u = a + b - d /\ a \in Nat /\ b \in Nat /\ d \in Nat /\ a <= 6 * k /\ b <= 6
      BY <2>2, <2>3, <2>4, <2>5
    <3> HIDE DEF a, b, d, u
    <3>2. u <= 6 * (k + 1)
      BY <3>1
    <3> QED
      BY <3>2 DEF u
  <2>8. IsFiniteSet(upTo(k + 1)) /\ Cardinality(upTo(k + 1)) \in Nat /\ Cardinality(upTo(k + 1)) <= 6 * (k + 1)
    BY <2>1, <2>4, <2>6, <2>7, Zenon
  <2> QED
    BY <2>8
<1>9. C \in T
  <2> HIDE DEF T
  <2> QED
    BY <1>1, <1>7, <1>8, Induction
<1>10. upTo(C) = kept
  BY <1>n
<1>11. IsFiniteSet(kept) /\ Cardinality(kept) \in Nat /\ Cardinality(kept) <= budget
  <2> HIDE DEF upTo
  <2> QED
    BY <1>1, <1>9, <1>10
<1>12. ASSUME NEW i \in 1..n
       PROVE  Kept(in, {j \in 1..n : CellOf(in, j, budget) = CellOf(in, i, budget)}) \subseteq kept
  <2>1. {j \in 1..n : CellOf(in, j, budget) = CellOf(in, i, budget)} = of(cell[i])
    BY <1>1
  <2> HIDE DEF of
  <2> QED
    BY <1>3, <2>1
<1> QED
  BY <1>6, <1>11, <1>12 DEF kept, n

-----------------------------------------------------------------------------
LEMMA SetOf ==
  ASSUME NEW P, NEW s \in Seq(P)
  PROVE  ToSet(s) = {s[i] : i \in 1..Len(s)} /\ Len(s) \in Nat /\ DOMAIN s = 1..Len(s)
  BY DEF ToSet

(* The extreme of all numbers is the extreme of its cell.                  *)
LEMMA LowestOfCell ==
  ASSUME NEW in, IsCurve(in), NEW nums \in SUBSET (1..Len(in)), NEW S \in SUBSET nums,
         \A i \in nums : ~IsGap(in[i]), nums # {}, Lowest(in, nums) \in S
  PROVE  Lowest(in, S) = Lowest(in, nums)
<1> DEFINE low(Q) == {i \in Q : \A j \in Q : ~Below(in[j], in[i])}
           L == Lowest(in, nums)
           l == Lowest(in, S)
<1>1. L \in low(nums) /\ \A i \in low(nums) : L <= i
  BY LowestIs
<1>2. l \in low(S) /\ \A i \in low(S) : l <= i
  <2>1. S \in SUBSET (1..Len(in)) /\ S # {} /\ \A i \in S : ~IsGap(in[i])
    OBVIOUS
  <2> QED
    BY <2>1, LowestIs
<1> HIDE DEF L, l
<1>3. \A i \in nums : in[i] \in CurvePoint /\ i \in Nat
  BY DEF IsCurve
<1>4. L \in S /\ L \in low(S)
  BY <1>1 DEF L
<1>5. ASSUME NEW j \in nums PROVE ~Below(in[j], in[l])
  <2>1. ~Below(in[j], in[L]) /\ ~Below(in[L], in[l]) /\ l \in nums /\ L \in nums
    BY <1>1, <1>2, <1>4
  <2> QED
    BY <1>3, <2>1, BelowOrders
<1>6. l \in low(nums)
  BY <1>2, <1>5
<1>7. L <= l /\ l <= L /\ l \in Nat /\ L \in Nat
  BY <1>1, <1>2, <1>3, <1>4, <1>6
<1> QED
  BY <1>7 DEF L, l

LEMMA HighestOfCell ==
  ASSUME NEW in, IsCurve(in), NEW nums \in SUBSET (1..Len(in)), NEW S \in SUBSET nums,
         \A i \in nums : ~IsGap(in[i]), nums # {}, Highest(in, nums) \in S
  PROVE  Highest(in, S) = Highest(in, nums)
<1> DEFINE high(Q) == {i \in Q : \A j \in Q : ~Below(in[i], in[j])}
           L == Highest(in, nums)
           l == Highest(in, S)
<1>1. L \in high(nums) /\ \A i \in high(nums) : L <= i
  BY HighestIs
<1>2. l \in high(S) /\ \A i \in high(S) : l <= i
  <2>1. S \in SUBSET (1..Len(in)) /\ S # {} /\ \A i \in S : ~IsGap(in[i])
    OBVIOUS
  <2> QED
    BY <2>1, HighestIs
<1> HIDE DEF L, l
<1>3. \A i \in nums : in[i] \in CurvePoint /\ i \in Nat
  BY DEF IsCurve
<1>4. L \in S /\ L \in high(S)
  BY <1>1 DEF L
<1>5. ASSUME NEW j \in nums PROVE ~Below(in[l], in[j])
  <2>1. ~Below(in[L], in[j]) /\ ~Below(in[l], in[L]) /\ l \in nums /\ L \in nums
    BY <1>1, <1>2, <1>4
  <2> QED
    BY <1>3, <2>1, BelowOrders
<1>6. l \in high(nums)
  BY <1>2, <1>5
<1>7. L <= l /\ l <= L /\ l \in Nat /\ L \in Nat
  BY <1>1, <1>2, <1>3, <1>4, <1>6
<1> QED
  BY <1>7 DEF L, l

(* Thin answers any curve with points of it in their order, within the     *)
(* budget: both ends, the lowest and the highest, and a gap if there is    *)
(* one.                                                                    *)
THEOREM ThinKeeps ==
  ASSUME NEW in, IsCurve(in), NEW budget \in Nat, budget >= 6
  PROVE  LET out  == Thin(in, budget)
             nums == {i \in DOMAIN in : ~IsGap(in[i])}
         IN /\ Len(out) <= budget
            /\ \A i \in 1..Len(out) - 1 : out[i].at < out[i + 1].at
            /\ ToSet(out) \subseteq ToSet(in)
            /\ {in[1], in[Len(in)]} \subseteq ToSet(out)
            /\ nums # {} => {in[Lowest(in, nums)], in[Highest(in, nums)]} \subseteq ToSet(out)
            /\ (\E p \in ToSet(in) : IsGap(p)) => \E p \in ToSet(out) : IsGap(p)
<1> DEFINE n == Len(in)
           nums == {i \in DOMAIN in : ~IsGap(in[i])}
           kept == KeptAll(in, budget)
           all == Picked(in, kept)
           out == Thin(in, budget)
           group(i) == {j \in 1..n : CellOf(in, j, budget) = CellOf(in, i, budget)}
<1>1. n \in Nat \ {0} /\ DOMAIN in = 1..n /\ ToSet(in) = {in[i] : i \in 1..n} /\ in \in Seq(CurvePoint)
  <2>1. in \in Seq(CurvePoint) /\ n > 0
    BY DEF IsCurve
  <2> QED
    BY <2>1, SetOf
<1>2. /\ kept \in SUBSET (1..n) /\ Cardinality(kept) \in Nat /\ Cardinality(kept) <= budget
      /\ \A i \in 1..n : Kept(in, group(i)) \subseteq kept
  BY KeptFit
<1>3. /\ all \in Seq(CurvePoint) /\ {all[j] : j \in 1..Len(all)} = {in[i] : i \in kept}
      /\ \A j \in 1..Len(all) - 1 : all[j].at < all[j + 1].at
      /\ Len(all) = Cardinality(kept)
  <2> HIDE DEF kept
  <2> QED
    BY <1>2, PickedAre
<1>4. nums \in SUBSET (1..n) /\ \A i \in nums : ~IsGap(in[i])
  BY <1>1
<1>5. ASSUME NEW i \in 1..n
      PROVE  /\ i \in group(i) /\ group(i) \in SUBSET (1..n) /\ group(i) # {}
             /\ group(i) \in SUBSET Nat
  <2>1. i \in group(i) /\ group(i) \in SUBSET (1..n)
    OBVIOUS
  <2> HIDE DEF group
  <2>2. \A j \in group(i) : j \in Nat
    BY <2>1
  <2> QED
    BY <2>1, <2>2
<1>6. CASE n <= budget
  <2>1. out = in
    BY <1>6 DEF Thin
  <2>2. \A i \in 1..n - 1 : in[i].at < in[i + 1].at
    <3>1. ASSUME NEW i \in 1..n - 1 PROVE in[i].at < in[i + 1].at
      <4>1. i \in 1..n /\ i + 1 \in 1..n /\ i < i + 1
        BY <1>1
      <4> QED
        BY <4>1 DEF IsCurve
    <3> QED
      BY <3>1
  <2>3. nums # {} => Lowest(in, nums) \in nums /\ Highest(in, nums) \in nums
    <3> HIDE DEF nums
    <3> QED
      BY <1>4, LowestIs, HighestIs
  <2>4. 1 \in 1..n /\ n \in 1..n
    BY <1>1
  <2> HIDE DEF out, nums, n
  <2>5. nums # {} => {in[Lowest(in, nums)], in[Highest(in, nums)]} \subseteq ToSet(in)
    BY <1>1, <1>4, <2>3
  <2>6. {in[1], in[n]} \subseteq ToSet(in)
    BY <1>1, <2>4
  <2> QED
    BY <1>6, <2>1, <2>2, <2>5, <2>6 DEF out, nums, n
<1>7. CASE ~(n <= budget)
  <2>1. Min({Len(all), budget}) = Len(all)
    <3>1. Len(all) \in Nat /\ Len(all) <= budget
      BY <1>2, <1>3
    <3> HIDE DEF all
    <3>2. {Len(all), budget} \in SUBSET Nat
      BY <3>1
    <3>3. Min({Len(all), budget}) \in {Len(all), budget} /\ Min({Len(all), budget}) <= Len(all)
      BY <3>2, MinOf
    <3> QED
      BY <3>1, <3>3
  <2>2. out = all
    <3>1. out = SubSeq(all, 1, Len(all))
      BY <1>7, <2>1 DEF Thin
    <3> HIDE DEF out, all
    <3> QED
      BY <1>3, <3>1
  <2>3. ToSet(out) = {in[i] : i \in kept}
    <3> HIDE DEF out, all, kept
    <3> QED
      BY <1>3, <2>2, SetOf
  <2> HIDE DEF kept, all, out
  <2>4. \A i \in kept : in[i] \in ToSet(out)
    BY <2>3
  <2>5. 1 \in kept /\ n \in kept
    <3>1. 1 \in 1..n /\ n \in 1..n
      BY <1>1
    <3>2. /\ {Min(group(1)), Max(group(1))} \subseteq Kept(in, group(1))
          /\ {Min(group(n)), Max(group(n))} \subseteq Kept(in, group(n))
      <4> HIDE DEF group
      <4> QED
        BY <1>5, <3>1, KeptOfCell, ZenonT(60)
    <3>3. Min(group(1)) = 1
      <4>1. group(1) \in SUBSET Nat /\ 1 \in group(1) /\ \A j \in group(1) : j >= 1
        BY <1>5, <3>1
      <4> HIDE DEF group
      <4>2. Min(group(1)) \in group(1) /\ Min(group(1)) <= 1
        BY <4>1, MinOf
      <4> QED
        BY <4>1, <4>2
    <3>4. Max(group(n)) = n
      <4>1. group(n) \in SUBSET (1..n) /\ n \in group(n)
        BY <1>5, <3>1
      <4> HIDE DEF group
      <4>2. Max(group(n)) \in group(n) /\ \A j \in group(n) : j <= Max(group(n))
        BY <4>1, <1>1, MaxOf
      <4> QED
        BY <4>1, <4>2, <1>1
    <3> HIDE DEF group
    <3> QED
      BY <1>2, <3>1, <3>2, <3>3, <3>4
  <2>6. ASSUME nums # {} PROVE Lowest(in, nums) \in kept /\ Highest(in, nums) \in kept
    <3> DEFINE inner(i) == {j \in group(i) : ~IsGap(in[j])}
               L == Lowest(in, nums)
               H == Highest(in, nums)
    <3>1. L \in nums /\ H \in nums
      <4> HIDE DEF nums
      <4> QED
        BY <1>4, <2>6, LowestIs, HighestIs
    <3>2. ASSUME NEW i \in nums
          PROVE  /\ inner(i) \in SUBSET nums /\ i \in inner(i) /\ i \in 1..n
                 /\ {Lowest(in, inner(i)), Highest(in, inner(i))} \subseteq kept
      <4>1. inner(i) \in SUBSET nums /\ i \in inner(i) /\ i \in 1..n
        BY <1>1, <1>4, <1>5
      <4>2. {Lowest(in, inner(i)), Highest(in, inner(i))} \subseteq Kept(in, group(i))
        <5>1. inner(i) # {}
          BY <4>1
        <5>2. group(i) \in SUBSET (1..n) /\ group(i) # {}
          BY <1>5, <4>1
        <5> HIDE DEF group
        <5> QED
          BY <5>1, <5>2, KeptOfCell
      <4> HIDE DEF inner, group
      <4> QED
        BY <1>2, <4>1, <4>2
    <3> HIDE DEF nums, inner, group
    <3>3. Lowest(in, inner(L)) = L
      BY <1>4, <2>6, <3>1, <3>2, LowestOfCell
    <3>4. Highest(in, inner(H)) = H
      BY <1>4, <2>6, <3>1, <3>2, HighestOfCell
    <3> QED
      BY <3>1, <3>2, <3>3, <3>4
  <2>7. ASSUME NEW i \in 1..n, IsGap(in[i]) PROVE \E p \in ToSet(out) : IsGap(p)
    <3> DEFINE inner == {j \in group(i) : ~IsGap(in[j])}
    <3>1. group(i) \ inner # {} /\ \A j \in group(i) \ inner : IsGap(in[j])
      BY <1>5, <2>7
    <3>2. Kept(in, group(i)) \cap (group(i) \ inner) # {}
      <4>1. group(i) \in SUBSET (1..n) /\ group(i) # {}
        BY <1>5
      <4> HIDE DEF group
      <4> QED
        BY <3>1, <4>1, KeptOfCell
    <3>3. PICK j \in Kept(in, group(i)) : IsGap(in[j])
      BY <3>1, <3>2
    <3>4. j \in kept
      BY <1>2, <3>3
    <3> QED
      BY <2>4, <3>3, <3>4
  <2>8. Len(out) <= budget /\ \A i \in 1..Len(out) - 1 : out[i].at < out[i + 1].at
    BY <1>2, <1>3, <2>2
  <2>9. ToSet(out) \subseteq ToSet(in)
    BY <1>1, <1>2, <2>3
  <2>10. {in[1], in[n]} \subseteq ToSet(out)
    BY <2>4, <2>5
  <2>11. nums # {} => {in[Lowest(in, nums)], in[Highest(in, nums)]} \subseteq ToSet(out)
    BY <2>4, <2>6
  <2>12. (\E p \in ToSet(in) : IsGap(p)) => \E p \in ToSet(out) : IsGap(p)
    BY <1>1, <2>7
  <2> HIDE DEF nums, n
  <2> QED
    BY <2>8, <2>9, <2>10, <2>11, <2>12 DEF nums, n, out
<1> QED
  BY <1>6, <1>7

(* The curve of a behaviour: its times stay, its points are points.        *)
CurveInv ==
  kind = "curve" => IsCurve(curve) /\ Len(curve) = CurveLength /\ \A i \in 1..CurveLength : curve[i].at = TimeOf(i)

LEMMA TimesGrow ==
  ASSUME NEW i \in 1..CurveLength, NEW j \in 1..CurveLength, i < j
  PROVE  TimeOf(i) \in Nat /\ TimeOf(i) < TimeOf(j)
  BY CurveAssumption DEF TimeOf

LEMMA IsTimed ==
  ASSUME NEW c \in [1..CurveLength -> CurvePoint], \A i \in 1..CurveLength : c[i].at = TimeOf(i)
  PROVE  IsCurve(c) /\ Len(c) = CurveLength
<1>1. c \in Seq(CurvePoint) /\ Len(c) = CurveLength /\ Len(c) > 0
  BY CurveAssumption
<1>2. \A i, j \in 1..CurveLength : i < j => c[i].at < c[j].at
  BY TimesGrow
<1> QED
  BY <1>1, <1>2 DEF IsCurve

LEMMA TimeIsNat ==
  ASSUME NEW i \in 1..CurveLength
  PROVE  TimeOf(i) \in Nat
  BY CurveAssumption DEF TimeOf

LEMMA PointIs ==
  ASSUME NEW at \in Nat, NEW num \in Nat, NEW den \in Nat, NEW k \in PointKinds
  PROVE  /\ Point(at, num, den, k) \in CurvePoint /\ Point(at, num, den, k).at = at
         /\ [Point(at, num, den, k) EXCEPT !.flagged = TRUE] \in CurvePoint
         /\ [Point(at, num, den, k) EXCEPT !.flagged = TRUE].at = at
  BY DEF Point, CurvePoint

LEMMA PutPoints ==
  ASSUME NEW i \in 1..CurveLength
  PROVE  \A p \in {Point(TimeOf(i), 3, 1, "observation"), Point(TimeOf(i), 1, 1, "observation"),
                   Null(TimeOf(i)), [Point(TimeOf(i), 2, 1, "observation") EXCEPT !.flagged = TRUE]} :
            p \in CurvePoint /\ p.at = TimeOf(i)
<1>1. TimeOf(i) \in Nat /\ "observation" \in PointKinds /\ "gap" \in PointKinds
  BY TimeIsNat DEF PointKinds
<1> DEFINE t == TimeOf(i)
<1> HIDE DEF t
<1>2. Point(t, 3, 1, "observation") \in CurvePoint /\ Point(t, 3, 1, "observation").at = t
  BY <1>1, PointIs, ZenonT(60) DEF t, PointKinds
<1>3. Point(t, 1, 1, "observation") \in CurvePoint /\ Point(t, 1, 1, "observation").at = t
  BY <1>1, PointIs, ZenonT(60) DEF t, PointKinds
<1>4. Null(t) \in CurvePoint /\ Null(t).at = t
  BY <1>1, PointIs, ZenonT(60) DEF t, Null, PointKinds
<1>5. /\ [Point(t, 2, 1, "observation") EXCEPT !.flagged = TRUE] \in CurvePoint
      /\ [Point(t, 2, 1, "observation") EXCEPT !.flagged = TRUE].at = t
  BY <1>1, PointIs, ZenonT(60) DEF t, PointKinds
<1> QED
  BY <1>2, <1>3, <1>4, <1>5 DEF t

(* Curves are of the points that a Put can make, at the times of the       *)
(* curve: what Thin is given.                                              *)
THEOREM CurveInvariant == Spec => []CurveInv
<1>1. Init => CurveInv
  <2> SUFFICES ASSUME Init, kind = "curve"
               PROVE  /\ IsCurve(curve) /\ Len(curve) = CurveLength
                      /\ \A i \in 1..CurveLength : curve[i].at = TimeOf(i)
    BY DEF CurveInv
  <2>1. curve = [i \in 1..CurveLength |-> Point(TimeOf(i), 2, 1, "observation")]
    BY DEF Init
  <2>2. ASSUME NEW i \in 1..CurveLength
        PROVE  Point(TimeOf(i), 2, 1, "observation") \in CurvePoint /\ Point(TimeOf(i), 2, 1, "observation").at = TimeOf(i)
    BY TimeIsNat, PointIs, ZenonT(60) DEF PointKinds
  <2>3. curve \in [1..CurveLength -> CurvePoint] /\ \A i \in 1..CurveLength : curve[i].at = TimeOf(i)
    BY <2>1, <2>2
  <2> QED
    BY <2>3, IsTimed
<1>2. ASSUME CurveInv, [Next]_vars PROVE CurveInv'
  <2>1. CASE Put
    <3> SUFFICES ASSUME kind = "curve"
                 PROVE  /\ IsCurve(curve') /\ Len(curve') = CurveLength
                        /\ \A i \in 1..CurveLength : curve'[i].at = TimeOf(i)
      BY <2>1 DEF CurveInv, Put
    <3>1. PICK i, p :
                /\ i \in odd + 1..CurveLength
                /\ p \in {Point(TimeOf(i), 3, 1, "observation"), Point(TimeOf(i), 1, 1, "observation"),
                          Null(TimeOf(i)), [Point(TimeOf(i), 2, 1, "observation") EXCEPT !.flagged = TRUE]}
                /\ curve' = [curve EXCEPT ![i] = p]
      BY <2>1 DEF Put
    <3>2. curve \in Seq(CurvePoint) /\ Len(curve) = CurveLength /\ \A k \in 1..CurveLength : curve[k].at = TimeOf(k)
      BY <1>2 DEF CurveInv, IsCurve
    <3>3. curve \in [1..CurveLength -> CurvePoint]
      BY <3>2
    <3>4. i \in 1..CurveLength => p \in CurvePoint /\ p.at = TimeOf(i)
      <4> SUFFICES ASSUME i \in 1..CurveLength PROVE p \in CurvePoint /\ p.at = TimeOf(i)
        OBVIOUS
      <4> QED
        BY <3>1, PutPoints
    <3>5. curve' \in [1..CurveLength -> CurvePoint] /\ \A k \in 1..CurveLength : curve'[k].at = TimeOf(k)
      BY <3>1, <3>2, <3>3, <3>4
    <3> QED
      BY <3>5, IsTimed
  <2>2. CASE Observe \/ SealOne \/ Row \/ vars' = vars
    BY <1>2, <2>2 DEF CurveInv, Observe, SealOne, Row, vars
  <2> QED
    BY <1>2, <2>1, <2>2 DEF Next
<1> QED
  BY <1>1, <1>2, PTL DEF Spec

(* Thin answers with points of the curve, in order, within the budget, and *)
(* keeps its ends, its extremes and a gap: for every length and budget.    *)
THEOREM ThinHonestAlways == Spec => []ThinHonest
<1>1. CurveInv => ThinHonest
  <2> SUFFICES ASSUME CurveInv, kind = "curve", NEW budget \in Budgets
               PROVE  LET out  == Thin(curve, budget)
                          nums == {i \in DOMAIN curve : ~IsGap(curve[i])}
                      IN /\ Len(out) <= budget
                         /\ \A i \in 1..Len(out) - 1 : out[i].at < out[i + 1].at
                         /\ ToSet(out) \subseteq ToSet(curve)
                         /\ {curve[1], curve[CurveLength]} \subseteq ToSet(out)
                         /\ nums # {} => {curve[Lowest(curve, nums)], curve[Highest(curve, nums)]} \subseteq ToSet(out)
                         /\ (\E p \in ToSet(curve) : IsGap(p)) => \E p \in ToSet(out) : IsGap(p)
    BY DEF ThinHonest
  <2> DEFINE out  == Thin(curve, budget)
             nums == {i \in DOMAIN curve : ~IsGap(curve[i])}
  <2>1. budget \in Nat /\ budget >= 6 /\ IsCurve(curve) /\ Len(curve) = CurveLength
    BY CurveAssumption DEF CurveInv
  <2>2. /\ Len(out) <= budget
        /\ \A i \in 1..Len(out) - 1 : out[i].at < out[i + 1].at
        /\ ToSet(out) \subseteq ToSet(curve)
        /\ {curve[1], curve[Len(curve)]} \subseteq ToSet(out)
        /\ nums # {} => {curve[Lowest(curve, nums)], curve[Highest(curve, nums)]} \subseteq ToSet(out)
        /\ (\E p \in ToSet(curve) : IsGap(p)) => \E p \in ToSet(out) : IsGap(p)
    BY <2>1, ThinKeeps
  <2> HIDE DEF out, nums
  <2>3. {curve[1], curve[CurveLength]} \subseteq ToSet(out)
    BY <2>1, <2>2
  <2> QED
    BY <2>2, <2>3 DEF out, nums
<1> QED
  BY <1>1, CurveInvariant, PTL

-----------------------------------------------------------------------------
(* hi samples lie before t.                                                *)
Cut(s, t, hi) == hi \in 0..Len(s) /\ \A i \in 1..Len(s) : s[i].at < t <=> i <= hi

(* The tiers hold the samples of the sealed windows, and these alone.      *)
SeriesInv ==
  /\ IsSeries(samples) /\ edge \in Nat /\ edge % Window = 0
  /\ \E hi : /\ Cut(samples, edge, hi)
             /\ TierOf(one, samples, 0, hi, LeftOf(samples), Minute)
             /\ Covered(five, samples, hi, Window)

LEMMA NoTier ==
  ASSUME NEW res, NEW s, NEW P, NEW lo \in Nat
  PROVE  TierOf(<<>>, s, lo, lo, P, res)
<1> DEFINE b == [k \in 0..0 |-> lo]
<1>1. b \in [0..0 -> lo..lo] /\ b[0] = lo /\ Len(<<>>) = 0 /\ <<>> \in Seq(Buckets(res))
  OBVIOUS
<1> HIDE DEF b
<1>2. \A k \in 1..0 : FALSE
  OBVIOUS
<1>3. TierBy(b, <<>>, s, lo, lo, P, res)
  BY <1>1, <1>2 DEF TierBy
<1> QED
  BY <1>1, <1>3 DEF TierOf

LEMMA SeriesInit == Init => SeriesInv
<1> SUFFICES ASSUME Init PROVE SeriesInv
  OBVIOUS
<1>1. samples = <<>> /\ edge = 0 /\ one = <<>> /\ five = <<>>
  BY DEF Init
<1>2. IsSeries(samples) /\ edge \in Nat /\ edge % Window = 0 /\ Len(samples) = 0
  <2>1. Window \in Nat \ {0}
    BY RollupAssumption
  <2>2. 0 % Window = 0
    BY <2>1
  <2> QED
    BY <1>1, <2>2 DEF IsSeries
<1>3. Cut(samples, edge, 0)
  BY <1>1, <1>2 DEF Cut
<1>4. TierOf(one, samples, 0, 0, LeftOf(samples), Minute) /\ TierOf(five, samples, 0, 0, LeftOf(samples), Window)
  BY <1>1, NoTier
<1>5. Covered(five, samples, 0, Window)
  <2>1. Window \in Nat \ {0} /\ 0 \in 0..Len(samples)
    BY <1>2, RollupAssumption
  <2> QED
    BY <1>2, <1>4, <2>1, TierCovered
<1> QED
  BY <1>2, <1>3, <1>4, <1>5 DEF SeriesInv

(* What is sealed ends where the sealed windows end.                       *)
LEMMA CoveredEnds ==
  ASSUME NEW s, IsSeries(s), NEW res \in Nat \ {0}, NEW e \in Nat, e % res = 0, NEW hi, Cut(s, e, hi),
         NEW tier, Covered(tier, s, hi, res), NEW k \in 1..Len(tier)
  PROVE  tier[k].end <= e
<1>1. PICK c : Covers(c, tier, s, hi, res)
  BY DEF Covered
<1>2. Len(tier) \in Nat /\ Len(s) \in Nat /\ hi \in 0..Len(s)
  BY DEF Covered, IsSeries, Cut
<1>3. c[k - 1] \in 0..hi /\ c[k] \in 0..hi
  <2>1. k - 1 \in 0..Len(tier) /\ k \in 0..Len(tier)
    BY <1>2
  <2> QED
    BY <1>1, <2>1 DEF Covers
<1> DEFINE i == c[k]
           x == tier[k]
<1>4. i \in c[k - 1] + 1..c[k] /\ i \in 1..Len(s) /\ i <= hi
  <2>1. c[k - 1] < c[k]
    BY <1>1 DEF Covers, Tells
  <2> QED
    BY <1>2, <1>3, <2>1
<1>5. x.start = Start(s[i].at, res) /\ x \in Buckets(res)
  BY <1>1, <1>4 DEF Covers, Tells
<1> HIDE DEF i, x
<1>6. s[i].at \in Nat /\ s[i].at < e
  BY <1>4, SampleFields DEF Cut
<1>7. Start(s[i].at, res) + res <= e
  BY <1>6, BucketEnd
<1>8. x.end <= e
  BY <1>5, <1>7 DEF Buckets
<1> QED
  BY <1>8 DEF x

LEMMA MeasuredIs ==
  ASSUME IsSeries(samples), samples # <<>>, NEW sh \in Shapes, NEW r \in Readings
  PROVE  LET s == Measured(sh, r) IN s \in RawSample /\ s.at > Last(samples).at
<1> DEFINE prev == Last(samples)
           u == IF r.rise < 0 THEN 0 ELSE prev.uploaded + r.rise
           q == IF sh.flag THEN {"GapBefore"} ELSE {}
           s == [at |-> prev.at + sh.dt, seq |-> prev.seq + (IF sh.lost THEN 2 ELSE 1),
                 up |-> r.up, uploaded |-> u, valid |-> sh.valid, quality |-> q]
<1>1. Len(samples) \in 1..Len(samples) /\ prev = samples[Len(samples)]
  BY DEF IsSeries, Last
<1>2. prev.at \in Nat /\ prev.seq \in Nat /\ prev.uploaded \in Nat
  BY <1>1, SampleFields
<1>3. /\ sh.dt \in Nat \ {0} /\ sh.valid \in SUBSET {"Up", "Uploaded"} /\ r.up \in Nat /\ r.rise \in Int
  BY SeriesAssumption
<1>4. u \in Nat /\ q \in SUBSET Flags /\ prev.at + sh.dt \in Nat /\ prev.at + sh.dt > prev.at
      /\ prev.seq + (IF sh.lost THEN 2 ELSE 1) \in Nat
  <2> HIDE DEF prev
  <2>1. u \in Nat
    BY <1>2, <1>3
  <2>2. q \in SUBSET Flags
    BY DEF Flags
  <2>3. prev.at + sh.dt \in Nat /\ prev.at + sh.dt > prev.at
    BY <1>2, <1>3
  <2>4. prev.seq + (IF sh.lost THEN 2 ELSE 1) \in Nat
    BY <1>2
  <2> QED
    BY <2>1, <2>2, <2>3, <2>4
<1> HIDE DEF u, q, prev
<1>5. s \in RawSample /\ s.at > prev.at /\ s.quality = q
  BY <1>3, <1>4 DEF RawSample, Sample
<1>6. /\ Measured(sh, r) = IF Continuous(s, prev) /\ s.uploaded < prev.uploaded
                           THEN [s EXCEPT !.quality = s.quality \cup {"CounterReset"}] ELSE s
  BY DEF Measured, prev, u, q
<1> HIDE DEF s
<1>7. /\ [s EXCEPT !.quality = s.quality \cup {"CounterReset"}] \in RawSample
      /\ [s EXCEPT !.quality = s.quality \cup {"CounterReset"}].at > prev.at
  BY <1>4, <1>5 DEF RawSample, Sample, Flags
<1> QED
  BY <1>5, <1>6, <1>7 DEF prev

LEMMA SeriesObserve ==
  ASSUME SeriesInv, Observe
  PROVE  SeriesInv'
<1>1. PICK r \in Readings, sh \in Shapes :
        LET s == IF samples = <<>> THEN First(r) ELSE Measured(sh, r)
        IN s.at >= edge /\ samples' = Append(samples, s)
  BY DEF Observe
<1>2. PICK x : x = (IF samples = <<>> THEN First(r) ELSE Measured(sh, r))
  OBVIOUS
<1>3. samples' = Append(samples, x) /\ x.at >= edge /\ edge' = edge /\ one' = one /\ five' = five
  BY <1>1, <1>2 DEF Observe
<1>4. IsSeries(samples) /\ edge \in Nat /\ edge % Window = 0 /\ samples \in Seq(RawSample) /\ Len(samples) \in Nat
  BY DEF SeriesInv, IsSeries
<1>5. x \in RawSample /\ (samples # <<>> => x.at > Last(samples).at)
  <2>1. CASE samples = <<>>
    <3>1. r.up \in Nat /\ x = [at |-> 1, seq |-> 1, up |-> r.up, uploaded |-> 5, valid |-> {"Up", "Uploaded"},
                               quality |-> {}]
      BY <1>2, <2>1, SeriesAssumption DEF First
    <3> QED
      BY <2>1, <3>1 DEF RawSample, Sample
  <2>2. CASE samples # <<>>
    <3>1. x = Measured(sh, r)
      BY <1>2, <2>2
    <3> QED
      BY <1>4, <2>2, <3>1, MeasuredIs
  <2> QED
    BY <2>1, <2>2
<1> DEFINE L == Len(samples)
           n == Append(samples, x)
<1>6. n \in Seq(RawSample) /\ Len(n) = L + 1 /\ n[L + 1] = x /\ \A i \in 1..L : n[i] = samples[i]
  BY <1>4, <1>5
<1>7. \A i \in 1..L : samples[i].at \in Nat /\ samples[i].at < x.at
  <2>1. ASSUME NEW i \in 1..L PROVE samples[i].at \in Nat /\ samples[i].at < x.at
    <3>1. L \in 1..L /\ Last(samples) = samples[L] /\ samples # <<>>
      BY <1>4 DEF Last
    <3>2. samples[i].at <= samples[L].at /\ samples[i].at \in Nat /\ samples[L].at \in Nat
      <4>1. i = L \/ i < L
        BY <3>1
      <4>2. samples[i].at \in Nat /\ samples[L].at \in Nat
        BY <1>4, <3>1, SampleFields
      <4> QED
        BY <1>4, <3>1, <4>1, <4>2 DEF IsSeries
    <3>3. x.at \in Nat
      BY <1>5 DEF RawSample, Sample
    <3>4. samples[L].at < x.at
      BY <1>5, <3>1
    <3> HIDE DEF L
    <3> QED
      BY <3>2, <3>3, <3>4
  <2> QED
    BY <2>1
<1> HIDE DEF n
<1>8. IsSeries(n)
  <2>1. ASSUME NEW i \in 1..Len(n), NEW j \in 1..Len(n), i < j PROVE n[i].at < n[j].at
    <3>1. i \in 1..L
      BY <1>4, <1>6, <2>1
    <3>2. CASE j = L + 1
      BY <1>6, <1>7, <3>1, <3>2
    <3>3. CASE j # L + 1
      <4>1. j \in 1..L
        BY <1>4, <1>6, <3>3
      <4> QED
        BY <1>4, <1>6, <2>1, <3>1, <4>1 DEF IsSeries
    <3> QED
      BY <3>2, <3>3
  <2> QED
    BY <1>6, <2>1 DEF IsSeries
<1>9. IsSlice(samples, n, 0, L)
  BY <1>4, <1>6 DEF IsSlice
<1>10. PICK hi : /\ Cut(samples, edge, hi)
                 /\ TierOf(one, samples, 0, hi, LeftOf(samples), Minute)
                 /\ Covered(five, samples, hi, Window)
  BY DEF SeriesInv
<1>11. hi \in 0..L /\ \A i \in 1..L : samples[i].at < edge <=> i <= hi
  BY <1>10 DEF Cut
<1>12. Cut(n, edge, hi)
  <2>1. hi \in 0..Len(n)
    BY <1>4, <1>6, <1>11
  <2>2. ASSUME NEW i \in 1..Len(n) PROVE n[i].at < edge <=> i <= hi
    <3>1. CASE i = L + 1
      <4>1. n[i] = x /\ ~(i <= hi) /\ x.at \in Nat
        BY <1>4, <1>5, <1>6, <1>11, <3>1 DEF RawSample, Sample
      <4> QED
        BY <1>3, <1>4, <4>1
    <3>2. CASE i # L + 1
      <4>1. i \in 1..L
        BY <1>4, <1>6, <3>2
      <4> QED
        BY <1>6, <1>11, <4>1
    <3> QED
      BY <3>1, <3>2
  <2> QED
    BY <2>1, <2>2 DEF Cut
<1>13. TierOf(one, n, 0, hi, LeftOf(n), Minute)
  <2>1. Minute \in Nat \ {0} /\ edge % Minute = 0
    BY <1>4, RollupAssumption, WindowMinutes
  <2>2. Covered(one, samples, hi, Minute)
    BY <1>4, <1>10, <1>11, <2>1, TierCovered
  <2>3. hi < L - 0 \/ \A y \in ToSet(one) : n[0 + hi + 1].at >= y.end
    <3>1. CASE hi < L
      BY <1>4, <3>1
    <3>2. CASE ~(hi < L)
      <4>1. 0 + hi + 1 = L + 1
        BY <1>4, <1>11, <3>2
      <4>2. n[0 + hi + 1].at >= edge /\ n[0 + hi + 1].at \in Nat
        BY <1>3, <1>5, <1>6, <4>1 DEF RawSample, Sample
      <4>3. ASSUME NEW y \in ToSet(one) PROVE y.end <= edge /\ y.end \in Nat
        <5>1. PICK k \in 1..Len(one) : y = one[k]
          BY <2>2 DEF ToSet, Covered
        <5>2. y.end <= edge
          BY <1>4, <1>10, <2>1, <2>2, <5>1, CoveredEnds
        <5>3. y \in Buckets(Minute)
          BY <2>2, <5>1 DEF Covered
        <5> QED
          BY <5>2, <5>3 DEF Buckets, Bucket
      <4> QED
        BY <1>4, <4>2, <4>3
    <3> QED
      BY <3>1, <3>2
  <2>4. \A i \in 1..hi : LeftOf(samples)[i] \in Previouses
    BY <1>4, <1>11, LeftIn
  <2>5. \A i \in 1..hi : LeftOf(n)[0 + i] = LeftOf(samples)[i]
    <3>1. ASSUME NEW i \in 1..hi PROVE LeftOf(n)[0 + i] = LeftOf(samples)[i]
      <4>1. i \in 1..L /\ i \in 1..L + 1 /\ 0 + i = i
        BY <1>4, <1>11
      <4>2. i > 1 => i - 1 \in 1..L
        BY <4>1
      <4>3. n[i] = samples[i] /\ (i > 1 => n[i - 1] = samples[i - 1])
        BY <1>6, <4>1, <4>2
      <4> HIDE DEF L
      <4> QED
        BY <1>6, <4>1, <4>3 DEF LeftOf, L
    <3> QED
      BY <3>1
  <2>6. hi \in Nat /\ hi <= L - 0
    BY <1>4, <1>11
  <2> DEFINE P == LeftOf(n)
             Q == LeftOf(samples)
  <2> HIDE DEF P, Q, L
  <2>7. /\ TierOf(one, samples, 0, hi, Q, Minute) /\ (\A i \in 1..hi : Q[i] \in Previouses)
        /\ \A i \in 1..hi : P[0 + i] = Q[i]
    BY <1>10, <2>4, <2>5 DEF P, Q
  <2>8. TierOf(one, n, 0, 0 + hi, P, Minute)
    BY ONLY <1>8, <1>9, <2>1, <2>3, <2>6, <2>7, TierShift
  <2>9. 0 + hi = hi
    BY <2>6
  <2> QED
    BY <2>8, <2>9 DEF P
<1>14. Covered(five, n, hi, Window)
  <2>1. Window \in Nat \ {0}
    BY RollupAssumption
  <2> QED
    BY <1>4, <1>8, <1>9, <1>10, <1>11, <2>1, CoveredOn DEF L
<1>15. samples' = n
  BY <1>3 DEF n
<1>16. IsSeries(samples') /\ edge' \in Nat /\ edge' % Window = 0
  BY <1>3, <1>4, <1>8, <1>15
<1>17. /\ Cut(samples', edge', hi)
       /\ TierOf(one', samples', 0, hi, LeftOf(samples'), Minute)
       /\ Covered(five', samples', hi, Window)
  BY <1>3, <1>12, <1>13, <1>14, <1>15
<1> QED
  BY <1>16, <1>17 DEF SeriesInv

-----------------------------------------------------------------------------
LEMMA SeriesSeal ==
  ASSUME SeriesInv, SealOne
  PROVE  SeriesInv'
<1> DEFINE n == Len(samples)
<1>1. IsSeries(samples) /\ edge \in Nat /\ edge % Window = 0 /\ n \in Nat /\ DOMAIN samples = 1..n
      /\ Window \in Nat \ {0} /\ Minute \in Nat \ {0}
  BY RollupAssumption DEF SeriesInv, IsSeries
<1>2. PICK lo : /\ Cut(samples, edge, lo)
                /\ TierOf(one, samples, 0, lo, LeftOf(samples), Minute)
                /\ Covered(five, samples, lo, Window)
  BY DEF SeriesInv
<1>3. \A i \in 1..n : samples[i] \in RawSample /\ samples[i].at \in Nat
  BY <1>1, SampleFields
<1>4. lo \in 0..n /\ \A i \in 1..n : samples[i].at < edge <=> i <= lo
  BY <1>2 DEF Cut
(* The oldest window with frames.                                          *)
<1>5. lo + 1 \in 1..n /\ Min(Unsealed) = lo + 1 /\ samples[lo + 1].at >= edge
  <2>1. \A i \in 1..n : i \in Unsealed <=> i > lo
    BY <1>1, <1>3, <1>4 DEF Unsealed
  <2>2. Unsealed # {} /\ Unsealed \subseteq 1..n
    BY <1>1 DEF SealOne, Unsealed
  <2>3. lo + 1 \in Unsealed /\ \A y \in Unsealed : lo + 1 <= y
    <3>1. PICK y \in 1..n : y \in Unsealed
      BY <2>2
    <3>2. lo + 1 \in 1..n /\ lo + 1 > lo
      BY <1>1, <1>4, <2>1, <3>1
    <3>3. \A z \in Unsealed : z \in 1..n /\ z > lo
      BY <2>1, <2>2
    <3> QED
      BY <1>1, <1>4, <2>1, <3>2, <3>3
  <2>4. Min(Unsealed) \in Unsealed /\ \A y \in Unsealed : Min(Unsealed) <= y
    BY <2>3, LeastOf
  <2>5. Min(Unsealed) = lo + 1
    <3>1. Min(Unsealed) <= lo + 1 /\ lo + 1 <= Min(Unsealed)
      BY <2>3, <2>4
    <3>2. Min(Unsealed) \in Nat /\ lo + 1 \in Nat
      <4>1. Min(Unsealed) \in 1..n
        BY <2>2, <2>4
      <4> HIDE DEF n
      <4> QED
        BY <1>4, <4>1
    <3> HIDE DEF n
    <3> QED
      BY <3>1, <3>2
  <2>6. lo + 1 \in 1..n /\ samples[lo + 1].at >= edge
    BY <1>1, <2>2, <2>3 DEF Unsealed
  <2> QED
    BY <2>5, <2>6
<1> DEFINE start == Start(samples[lo + 1].at, Window)
<1>6. start \in Nat /\ start >= edge /\ start <= samples[lo + 1].at /\ samples[lo + 1].at < start + Window
      /\ start % Window = 0 /\ (start + Window) % Window = 0
  <2> DEFINE q == samples[lo + 1].at \div Window
  <2>1. samples[lo + 1].at \in Nat
    BY <1>3, <1>5
  <2>2. q \in Nat /\ q * Window \in Nat /\ start = q * Window
    BY <1>1, <2>1, DivMod DEF Start
  <2>3. start >= edge /\ start <= samples[lo + 1].at /\ samples[lo + 1].at < start + Window
    BY <1>1, <1>5, <2>1, BucketEnd, StartContains
  <2> HIDE DEF q, start
  <2>4. PICK w \in Nat \ {0} : w = Window
    BY <1>1
  <2>5. start = w * q + 0 /\ start + w = w * (q + 1) + 0 /\ 0 \in 0..w - 1 /\ q \in Int /\ q + 1 \in Int
    BY <2>2, <2>4
  <2>6. start % w = 0 /\ (start + w) % w = 0
    BY <2>5, Remainder
  <2> QED
    BY <2>2, <2>3, <2>4, <2>6
<1>7. PICK inside : inside = Within(samples, start, start + Window)
  OBVIOUS
<1>8. PICK before : before = Within(samples, 0, start)
  OBVIOUS
<1>9. PICK previous : previous = Previous(before, Head(inside))
  OBVIOUS
<1>10. PICK built : built = Build(inside, Minute, previous)
  OBVIOUS
<1>11. /\ edge' = start + Window /\ one' = one \o built /\ five' = five \o ToFive(built) /\ samples' = samples
  BY <1>5, <1>7, <1>8, <1>9, <1>10 DEF SealOne
<1> HIDE DEF start
(* Its samples are a stretch of the series behind what is sealed.          *)
<1>12. PICK hi : /\ IsSlice(inside, samples, lo, hi)
                 /\ \A i \in 1..n : samples[i].at < start + Window <=> i <= hi
  <2>1. PICK l, h : /\ IsSlice(inside, samples, l, h)
                    /\ \A i \in 1..n : /\ samples[i].at < start <=> i <= l
                                       /\ samples[i].at < start + Window <=> i <= h
    <3>1. start \in Int /\ start + Window \in Int /\ start <= start + Window
      BY <1>1, <1>6
    <3> QED
      BY <1>1, <1>7, <3>1, WithinIs
  <2>2. l \in 0..n
    BY <2>1 DEF IsSlice
  <2>3. l = lo
    <3>1. ~(lo + 1 <= l)
      BY <1>3, <1>5, <1>6, <2>1
    <3>2. lo <= l
      <4>1. CASE lo = 0
        BY <2>2, <4>1
      <4>2. CASE lo # 0
        <5>1. lo \in 1..n /\ samples[lo].at < edge /\ samples[lo].at \in Nat
          BY <1>1, <1>3, <1>4, <4>2
        <5>2. samples[lo].at < start
          BY <1>1, <1>6, <5>1
        <5> QED
          BY <2>1, <5>1, <5>2
      <4> QED
        BY <4>1, <4>2
    <3> QED
      BY <1>4, <2>2, <3>1, <3>2
  <2> QED
    BY <2>1, <2>3
<1>13. /\ hi \in 0..n /\ lo < hi /\ lo \in Nat /\ hi \in Nat
       /\ Len(inside) = hi - lo /\ \A i \in 1..hi - lo : inside[i] = samples[lo + i]
  BY <1>1, <1>4, <1>5, <1>6, <1>12 DEF IsSlice
<1>14. IsSeries(inside)
  BY <1>1, <1>12, SliceSeries
(* What comes before it.                                                   *)
<1>15. IF lo = 0 THEN before = <<>> ELSE before # <<>> /\ Last(before) = samples[lo]
  <2>1. PICK l, h : /\ IsSlice(before, samples, l, h)
                    /\ \A i \in 1..n : /\ samples[i].at < 0 <=> i <= l
                                       /\ samples[i].at < start <=> i <= h
    BY <1>1, <1>6, <1>8, WithinIs
  <2>2. l \in 0..n /\ h \in 0..n /\ l <= h /\ Len(before) = h - l /\ before \in Seq(RawSample)
        /\ \A i \in 1..h - l : before[i] = samples[l + i]
    BY <1>1, <2>1 DEF IsSlice
  <2>3. l = 0
    <3>1. l # 0 => l \in 1..n
      BY <2>2
    <3> QED
      <4>1. ASSUME l \in 1..n PROVE FALSE
        <5>1. samples[l].at < 0 /\ samples[l].at \in Nat
          BY <1>3, <2>1, <4>1
        <5> QED
          BY <5>1
      <4> QED
        BY <3>1, <4>1
  <2>4. h = lo
    <3>1. ~(lo + 1 <= h)
      BY <1>3, <1>5, <1>6, <2>1
    <3>2. lo <= h
      <4>1. CASE lo = 0
        BY <2>2, <4>1
      <4>2. CASE lo # 0
        <5>1. lo \in 1..n /\ samples[lo].at < edge /\ samples[lo].at \in Nat
          BY <1>1, <1>3, <1>4, <4>2
        <5>2. samples[lo].at < start
          BY <1>1, <1>6, <5>1
        <5> QED
          BY <2>1, <5>1, <5>2
      <4> QED
        BY <4>1, <4>2
    <3> QED
      BY <1>4, <2>2, <3>1, <3>2
  <2>5. Len(before) = lo /\ \A i \in 1..lo : before[i] = samples[i]
    <3>1. ASSUME NEW i \in 1..lo PROVE before[i] = samples[i]
      <4>1. i \in 1..h - l /\ l + i = i
        BY <1>13, <2>3, <2>4
      <4> QED
        BY <2>2, <4>1
    <3> QED
      BY <1>13, <2>2, <2>3, <2>4, <3>1
  <2>6. CASE lo = 0
    BY <2>2, <2>5, <2>6
  <2>7. CASE lo # 0
    <3>1. lo \in 1..lo /\ Last(before) = before[lo] /\ before # <<>>
      BY <1>13, <2>2, <2>5, <2>7 DEF Last
    <3> QED
      BY <2>5, <2>7, <3>1
  <2> QED
    BY <2>6, <2>7
(* The left endpoints of its samples.                                      *)
<1> DEFINE P == LeftOf(samples)
           Q == [i \in 1..hi - lo |-> IF i = 1 THEN previous ELSE <<inside[i - 1]>>]
<1>16. \A i \in 1..hi - lo : Start(samples[lo + i].at, Window) = start /\ lo + i \in 1..n
  <2>1. ASSUME NEW i \in 1..hi - lo PROVE Start(samples[lo + i].at, Window) = start /\ lo + i \in 1..n
    <3> DEFINE at == samples[lo + i].at
    <3>1. lo + i \in 1..n /\ lo + i <= hi /\ lo + 1 <= lo + i
      BY <1>1, <1>13
    <3>2. at \in Nat /\ at < start + Window
      BY <1>3, <1>12, <3>1
    <3>3. at >= start
      <4>1. lo + 1 = lo + i \/ samples[lo + 1].at < at
        BY <1>1, <1>5, <3>1 DEF IsSeries
      <4>2. samples[lo + 1].at \in Nat
        BY <1>3, <1>5
      <4> HIDE DEF at
      <4>3. samples[lo + 1].at <= at
        <5>1. CASE lo + 1 = lo + i
          <6>1. samples[lo + 1].at = at
            BY <5>1 DEF at
          <6> QED
            BY <3>2, <6>1
        <5>2. CASE lo + 1 # lo + i
          BY <3>2, <4>1, <4>2, <5>2
        <5> QED
          BY <5>1, <5>2
      <4> QED
        BY <1>6, <3>2, <4>2, <4>3
    <3> HIDE DEF at
    <3>4. Start(at, Window) + Window <= start + Window /\ Start(at, Window) >= start
      <4>1. start + Window \in Nat
        BY <1>1, <1>6
      <4> QED
        BY <1>1, <1>6, <3>2, <3>3, <4>1, BucketEnd
    <3>5. Start(at, Window) \in Nat
      BY <1>1, <3>2, DivMod DEF Start
    <3>6. Start(at, Window) = start
      BY <1>1, <1>6, <3>4, <3>5
    <3> QED
      BY <3>1, <3>6 DEF at
  <2> QED
    BY <2>1
<1>17. previous = P[lo + 1] /\ previous \in Previouses
  <2>1. 1 \in 1..hi - lo /\ inside # <<>> /\ Head(inside) = samples[lo + 1]
    <3>1. 1 \in 1..hi - lo
      BY <1>13
    <3>2. inside # <<>> /\ Head(inside) = inside[1]
      BY <1>13, <1>14 DEF IsSeries
    <3> QED
      BY <1>13, <3>1, <3>2
  <2>2. CASE lo = 0
    <3>1. previous = <<>>
      BY <1>9, <1>15, <2>2 DEF Previous
    <3>2. P[lo + 1] = <<>>
      BY <1>5, <2>2 DEF LeftOf
    <3> QED
      BY <3>1, <3>2 DEF Previouses
  <2>3. CASE lo # 0
    <3>1. previous = IF samples[lo + 1].seq = samples[lo].seq + 1 THEN <<samples[lo]>> ELSE <<>>
      BY <1>9, <1>15, <2>1, <2>3 DEF Previous
    <3>2. lo \in 1..n /\ lo + 1 > 1 /\ (lo + 1) - 1 = lo
      BY <1>4, <1>13, <2>3
    <3>3. Start(samples[lo].at, Window) # start
      <4>1. samples[lo].at \in Nat /\ samples[lo].at < edge
        BY <1>3, <1>4, <3>2
      <4>2. Start(samples[lo].at, Window) + Window <= edge
        BY <1>1, <4>1, BucketEnd
      <4>3. Start(samples[lo].at, Window) \in Nat
        BY <1>1, <4>1, DivMod DEF Start
      <4> QED
        BY <1>1, <1>6, <4>2, <4>3
    <3>4. P[lo + 1] = IF samples[lo + 1].seq = samples[lo].seq + 1 THEN <<samples[lo]>> ELSE <<>>
      <4>1. Start(samples[lo + 1].at, Window) = start
        BY <2>1, <1>16
      <4> QED
        BY <1>5, <3>2, <3>3, <4>1 DEF LeftOf
    <3>5. samples[lo] \in RawSample
      BY <1>3, <3>2
    <3> QED
      BY <3>1, <3>4, <3>5 DEF Previouses
  <2> QED
    BY <2>2, <2>3
<1>18. \A i \in 1..hi - lo : P[lo + i] = Q[i] /\ Q[i] \in Previouses
  <2>1. ASSUME NEW i \in 1..hi - lo PROVE P[lo + i] = Q[i] /\ Q[i] \in Previouses
    <3>1. CASE i = 1
      BY <1>17, <3>1
    <3>2. CASE i # 1
      <4>1. i - 1 \in 1..hi - lo /\ lo + (i - 1) = (lo + i) - 1 /\ lo + i > 1
        BY <1>13, <3>2
      <4>2. Q[i] = <<samples[(lo + i) - 1]>>
        BY <1>13, <3>2, <4>1
      <4>3. Start(samples[lo + i].at, Window) = start /\ Start(samples[(lo + i) - 1].at, Window) = start
            /\ lo + i \in 1..n /\ (lo + i) - 1 \in 1..n
        BY <1>16, <4>1
      <4>4. P[lo + i] = <<samples[(lo + i) - 1]>>
        BY <4>1, <4>3 DEF LeftOf
      <4>5. samples[(lo + i) - 1] \in RawSample
        BY <1>3, <4>3
      <4> HIDE DEF P, Q
      <4> QED
        BY <4>2, <4>4, <4>5 DEF Previouses
    <3> QED
      BY <3>1, <3>2
  <2> QED
    BY <2>1
<1> HIDE DEF P
(* The minute buckets join the first tier.                                 *)
<1>19. TierOf(built, inside, 0, hi - lo, Q, Minute)
  <2>1. TierOf(built, inside, 0, Len(inside),
               [i \in 1..Len(inside) |-> IF i = 1 THEN previous ELSE <<inside[i - 1]>>], Minute)
    BY <1>1, <1>10, <1>14, <1>17, BuildTier
  <2> QED
    BY <1>13, <2>1
<1> HIDE DEF Q
<1>20. \A x \in ToSet(built) : x.end <= start + Window /\ x.end \in Nat
  <2>1. ASSUME NEW x \in ToSet(built) PROVE x.end <= start + Window /\ x.end \in Nat
    <3>1. built \in Seq(Buckets(Minute)) /\ Len(built) \in Nat
      BY <1>19 DEF TierOf
    <3>2. PICK k \in 1..Len(built) : x = built[k]
      BY <3>1 DEF ToSet
    <3>3. PICK b : TierBy(b, built, inside, 0, hi - lo, Q, Minute)
      BY <1>19 DEF TierOf
    <3> DEFINE l == b[k - 1]
               e == b[k]
    <3>4. l \in 0..hi - lo /\ e \in 0..hi - lo /\ Made(x, inside, l, e, Q, Minute)
      <4>1. k - 1 \in 0..Len(built) /\ k \in 0..Len(built)
        BY <3>1
      <4> QED
        BY <3>2, <3>3, <4>1 DEF TierBy
    <3> HIDE DEF l, e
    <3>5. l \in Nat /\ e \in Nat /\ e <= Len(inside) /\ \A i \in l + 1..e : Q[i] \in Previouses
      BY <1>13, <1>18, <3>4
    <3>6. /\ l < e /\ x \in Buckets(Minute) /\ Clean(x) /\ x.end = x.start + Minute
          /\ \A i \in l + 1..e : x.start = Start(inside[i].at, Minute) /\ x.start <= inside[i].at /\ inside[i].at < x.end
      BY <1>1, <1>14, <3>4, <3>5, MadeIs
    <3>7. e \in l + 1..e /\ e \in 1..hi - lo /\ lo + e \in 1..n /\ lo + e <= hi
      BY <1>13, <1>16, <3>4, <3>6
    <3>8. inside[e].at \in Nat /\ inside[e].at < start + Window
      BY <1>3, <1>12, <1>13, <3>7
    <3>9. (start + Window) % Minute = 0 /\ start + Window \in Nat
      BY <1>1, <1>6, WindowMinutes
    <3>10. Start(inside[e].at, Minute) + Minute <= start + Window
      BY <1>1, <3>8, <3>9, BucketEnd
    <3>11. x.end \in Nat
      BY <3>6 DEF Buckets, Bucket
    <3> QED
      BY <3>6, <3>7, <3>10, <3>11
  <2> QED
    BY <2>1
<1>21. TierOf(built, samples, lo, hi, P, Minute)
  <2> DEFINE h == hi - lo
  <2>1. h \in Nat /\ lo + h = hi /\ h <= hi - lo
    BY <1>13
  <2>2. lo + h = Len(samples) \/ \A x \in ToSet(built) : samples[lo + h + 1].at >= x.end
    <3>1. CASE hi = n
      BY <2>1, <3>1
    <3>2. CASE hi # n
      <4>1. lo + h + 1 = hi + 1 /\ hi + 1 \in 1..n
        <5>1. hi + 1 \in 1..n
          <6> HIDE DEF n, h
          <6> QED
            BY <1>1, <1>13, <3>2
        <5> HIDE DEF h
        <5> QED
          BY <1>13, <2>1, <5>1
      <4>2. ~(samples[hi + 1].at < start + Window) /\ samples[hi + 1].at \in Nat
        BY <1>3, <1>12, <1>13, <4>1
      <4>3. start + Window \in Nat
        BY <1>1, <1>6
      <4> HIDE DEF h
      <4> QED
        BY <1>20, <4>1, <4>2, <4>3
    <3> QED
      BY <3>1, <3>2
  <2>3. /\ TierOf(built, inside, 0, h, Q, Minute) /\ (\A i \in 1..h : Q[i] \in Previouses)
        /\ \A i \in 1..h : P[lo + i] = Q[i]
    BY <1>18, <1>19
  <2> HIDE DEF h
  <2>4. TierOf(built, samples, lo, lo + h, P, Minute)
    BY ONLY <1>1, <1>12, <2>1, <2>2, <2>3, TierShift
  <2> QED
    BY <2>1, <2>4
<1>22. lo > 0 => /\ Start(samples[lo].at, Minute) # Start(samples[lo + 1].at, Minute)
                 /\ Start(samples[lo].at, Window) # Start(samples[lo + 1].at, Window)
  <2> SUFFICES ASSUME lo > 0
               PROVE  /\ Start(samples[lo].at, Minute) # Start(samples[lo + 1].at, Minute)
                      /\ Start(samples[lo].at, Window) # Start(samples[lo + 1].at, Window)
    OBVIOUS
  <2>1. samples[lo].at \in Nat /\ samples[lo].at < edge /\ samples[lo + 1].at \in Nat /\ edge % Minute = 0
    BY <1>1, <1>3, <1>4, <1>5, WindowMinutes
  <2>2. Start(samples[lo].at, Minute) + Minute <= edge /\ Start(samples[lo + 1].at, Minute) >= edge
    BY <1>1, <1>5, <2>1, BucketEnd
  <2>3. Start(samples[lo].at, Window) + Window <= edge /\ Start(samples[lo + 1].at, Window) >= edge
    BY <1>1, <1>5, <2>1, BucketEnd
  <2>4. Start(samples[lo].at, Minute) \in Nat /\ Start(samples[lo].at, Window) \in Nat
    BY <1>1, <2>1, DivMod DEF Start
  <2> QED
    BY <1>1, <2>2, <2>3, <2>4
<1>23. TierOf(one', samples, 0, hi, P, Minute)
  <2>1. TierOf(one, samples, 0, lo, P, Minute)
    BY <1>2 DEF P
  <2>2. 0 \in Nat /\ hi <= Len(samples) /\ (0 < lo /\ lo < hi => Start(samples[lo].at, Minute) # Start(samples[lo + 1].at, Minute))
    BY <1>13, <1>22
  <2>3. TierOf(one \o built, samples, 0, hi, P, Minute)
    BY ONLY <1>1, <1>13, <1>21, <2>1, <2>2, TierJoin
  <2> QED
    BY <1>11, <2>3
(* Their window joins the second.                                          *)
<1>24. Covered(five', samples, hi, Window)
  <2>1. \A i \in lo + 1..hi : Start(samples[i].at, Window) = start
    <3>1. ASSUME NEW i \in lo + 1..hi PROVE Start(samples[i].at, Window) = start
      <4>1. i - lo \in 1..hi - lo /\ lo + (i - lo) = i
        BY <1>13
      <4> QED
        BY <1>16, <4>1
    <3> QED
      BY <3>1
  <2>2. PICK x : ToFive(built) = <<x>> /\ Tells(x, samples, lo, hi, Window)
    <3>1. TierOf(built, samples, lo, hi, LeftOf(samples), Minute) /\ hi <= Len(samples)
      BY <1>13, <1>21 DEF P
    <3> QED
      BY <1>1, <1>13, <2>1, <3>1, FiveOfWindow
  <2>3. Covered(five \o <<x>>, samples, hi, Window)
    BY <1>1, <1>2, <1>13, <1>22, <2>2, CoveredMore
  <2> QED
    BY <1>11, <2>2, <2>3
<1>25. Cut(samples, start + Window, hi)
  BY <1>12, <1>13 DEF Cut
<1>26. IsSeries(samples') /\ edge' \in Nat /\ edge' % Window = 0
  BY <1>1, <1>6, <1>11
<1>27. /\ Cut(samples', edge', hi)
       /\ TierOf(one', samples', 0, hi, LeftOf(samples'), Minute)
       /\ Covered(five', samples', hi, Window)
  BY <1>11, <1>23, <1>24, <1>25 DEF P
<1> QED
  BY <1>26, <1>27 DEF SeriesInv

(* Whatever is observed and sealed, the minute buckets are made of the     *)
(* samples before the edge, each with the left endpoint that its window    *)
(* had, and the buckets of the second tier tell of the same samples.       *)
THEOREM SeriesInvariant == Spec => []SeriesInv
<1>1. ASSUME SeriesInv, [Next]_vars PROVE SeriesInv'
  <2>1. CASE Observe
    BY <1>1, <2>1, SeriesObserve
  <2>2. CASE SealOne
    BY <1>1, <2>2, SeriesSeal
  <2>3. CASE Row \/ Put \/ UNCHANGED vars
    <3>1. samples' = samples /\ edge' = edge /\ one' = one /\ five' = five
      BY <2>3 DEF Row, Put, vars
    <3> QED
      BY <1>1, <3>1 DEF SeriesInv
  <2> QED
    BY <1>1, <2>1, <2>2, <2>3 DEF Next
<1> QED
  BY <1>1, SeriesInit, PTL DEF Spec

-----------------------------------------------------------------------------
LEMMA StartMultiple ==
  ASSUME NEW at \in Nat, NEW res \in Nat \ {0}
  PROVE  Start(at, res) \in Nat /\ Start(at, res) % res = 0
<1> DEFINE q == at \div res
<1>1. q \in Nat /\ q * res \in Nat
  BY DivMod
<1> HIDE DEF q
<1>2. q * res = res * q + 0 /\ 0 \in 0..res - 1 /\ q \in Int
  BY <1>1
<1>3. PICK z : z = q * res
  OBVIOUS
<1>4. z % res = 0
  BY <1>2, <1>3, Remainder
<1> QED
  BY <1>1, <1>3, <1>4 DEF Start, q

(* Samples of different buckets are a bucket apart.                        *)
LEMMA StartsApart ==
  ASSUME NEW a \in Nat, NEW b \in Nat, a <= b, NEW res \in Nat \ {0}, Start(a, res) # Start(b, res)
  PROVE  Start(a, res) + res <= Start(b, res) /\ a < Start(b, res)
<1> DEFINE e == Start(b, res)
           d == Start(a, res)
<1>1. e \in Nat /\ e % res = 0 /\ d \in Nat /\ d % res = 0
  BY StartMultiple
<1>2. e <= b /\ b < e + res /\ d <= a /\ a < d + res
  BY StartContains
<1>3. (a < e => d + res <= e) /\ (a >= e => d >= e)
  BY <1>1, BucketEnd
<1>4. (b < d => e + res <= d) /\ (b >= d => e >= d)
  BY <1>1, BucketEnd
<1> HIDE DEF e, d
<1>5. d # e
  BY DEF d, e
<1> QED
  BY <1>1, <1>2, <1>3, <1>4, <1>5 DEF d, e

(* The samples in a bucket's span are those it tells of.                   *)
LEMMA SamplesOf ==
  ASSUME NEW s, IsSeries(s), NEW res \in Nat \ {0}, NEW e \in Nat, e % res = 0, NEW hi, Cut(s, e, hi),
         NEW c, NEW tier \in Seq(Buckets(res)), Covers(c, tier, s, hi, res),
         NEW k \in 1..Len(tier), NEW i \in 1..Len(s)
  PROVE  tier[k].start <= s[i].at /\ s[i].at < tier[k].end <=> i \in c[k - 1] + 1..c[k]
<1> DEFINE L == Len(tier)
           n == Len(s)
           x == tier[k]
           l == c[k - 1]
           h == c[k]
<1>1. L \in Nat /\ n \in Nat /\ hi \in 0..n /\ \A j \in 1..n : s[j].at \in Nat
  <2>1. \A j \in 1..n : s[j].at \in Nat
    BY SampleFields
  <2> QED
    BY <2>1 DEF IsSeries, Cut
<1>2. /\ l \in 0..hi /\ h \in 0..hi /\ l < h /\ x \in Buckets(res)
      /\ \A j \in l + 1..h : x.start = Start(s[j].at, res)
  <2>1. k - 1 \in 0..L /\ k \in 0..L
    BY <1>1
  <2> QED
    BY <2>1 DEF Covers, Tells
<1>3. x.end = x.start + res /\ x.start \in Nat
  BY <1>2 DEF Buckets, Bucket
<1>4. \A j, m \in 1..n : j <= m => s[j].at <= s[m].at
  <2>1. ASSUME NEW j \in 1..n, NEW m \in 1..n, j <= m PROVE s[j].at <= s[m].at
    <3>1. j = m \/ j < m
      BY <2>1
    <3> QED
      BY <1>1, <3>1 DEF IsSeries
  <2> QED
    BY <2>1
<1>5. l + 1 \in l + 1..h /\ h \in l + 1..h /\ l + 1 \in 1..n /\ h \in 1..n
  BY <1>1, <1>2, SMTT(30)
<1>6. k > 1 => l \in 1..n /\ s[l].at < x.start
  <2> SUFFICES ASSUME k > 1 PROVE l \in 1..n /\ s[l].at < x.start
    OBVIOUS
  <2>1. k - 1 \in 1..L /\ (k - 1) - 1 \in 0..L
    BY <1>1
  <2>2. c[(k - 1) - 1] < l /\ c[(k - 1) - 1] \in 0..hi
    BY <2>1 DEF Covers, Tells
  <2>3. l \in 1..n
    BY <1>1, <1>2, <2>2, SMTT(30)
  <2>4. Start(s[l].at, res) # Start(s[l + 1].at, res)
    BY DEF Covers
  <2> HIDE DEF l, x, n
  <2>5. s[l].at <= s[l + 1].at /\ s[l].at \in Nat /\ s[l + 1].at \in Nat
    BY <1>1, <1>4, <1>5, <2>3
  <2>6. x.start = Start(s[l + 1].at, res)
    BY <1>2, <1>5
  <2> QED
    BY <2>3, <2>4, <2>5, <2>6, StartsApart
<1>7. CASE i \in l + 1..h
  <2>1. x.start = Start(s[i].at, res) /\ s[i].at \in Nat
    BY <1>1, <1>2, <1>7
  <2> HIDE DEF x, l, h
  <2>2. x.start <= s[i].at /\ s[i].at < x.start + res
    BY <2>1, StartContains
  <2> QED
    BY <1>3, <1>7, <2>2 DEF x, l, h
<1>8. CASE i <= l
  <2>1. k > 1
    <3>1. CASE k = 1
      <4>1. l = 0
        BY <3>1 DEF Covers
      <4> QED
        BY <1>8, <4>1
    <3>2. CASE k # 1
      BY <1>1, <3>2
    <3> QED
      BY <3>1, <3>2
  <2>2. l \in 1..n /\ s[l].at < x.start
    BY <1>6, <2>1
  <2> HIDE DEF x, l, h, n
  <2>3. s[i].at <= s[l].at /\ s[i].at \in Nat /\ s[l].at \in Nat
    BY <1>1, <1>4, <1>8, <2>2 DEF n
  <2>4. ~(x.start <= s[i].at)
    BY <1>3, <2>2, <2>3
  <2>5. i \notin l + 1..h
    BY <1>2, <1>8
  <2> QED
    BY <2>4, <2>5 DEF x, l, h
<1>9. CASE i > h
  <2>1. x.end <= s[i].at
    <3>1. CASE k = L
      <4>1. h = hi
        BY <3>1 DEF Covers
      <4>2. ~(s[i].at < e)
        BY <1>1, <1>9, <4>1 DEF Cut
      <4>3. Covered(tier, s, hi, res)
        BY DEF Covered
      <4>4. x.end <= e
        BY <4>3, CoveredEnds
      <4>5. s[i].at \in Nat /\ x.end \in Nat
        BY <1>1, <1>3
      <4> HIDE DEF x
      <4> QED
        BY <4>2, <4>4, <4>5
    <3>2. CASE k # L
      <4>1. k + 1 \in 1..L /\ k + 1 > 1 /\ (k + 1) - 1 = k
        BY <1>1, <3>2
      <4>2. Start(s[h].at, res) # Start(s[h + 1].at, res)
        BY <4>1 DEF Covers
      <4> HIDE DEF x, l, h, n
      <4>3. h + 1 \in 1..n /\ h \in 1..n /\ h + 1 <= i /\ i \in 1..n
        BY <1>1, <1>5, <1>9 DEF n
      <4>4. s[h].at <= s[h + 1].at /\ s[h + 1].at <= s[i].at /\ s[h].at \in Nat /\ s[h + 1].at \in Nat /\ s[i].at \in Nat
        <5>1. h <= h + 1
          BY <4>3
        <5> QED
          BY <1>1, <1>4, <4>3, <5>1
      <4>5. Start(s[h].at, res) + res <= Start(s[h + 1].at, res)
        BY <4>2, <4>4, StartsApart
      <4>6. Start(s[h + 1].at, res) <= s[h + 1].at /\ Start(s[h + 1].at, res) \in Nat
        BY <4>4, StartContains, StartMultiple
      <4>7. x.start = Start(s[h].at, res)
        BY <1>2, <1>5
      <4> QED
        BY <1>3, <4>4, <4>5, <4>6, <4>7, SMTT(30)
    <3> QED
      BY <3>1, <3>2
  <2> HIDE DEF x, l, h
  <2>2. ~(s[i].at < x.end)
    BY <1>1, <1>3, <2>1
  <2>3. i \notin l + 1..h
    BY <1>2, <1>9
  <2> QED
    BY <2>2, <2>3 DEF x, l, h
<1> HIDE DEF l, h, x
<1>10. i \in l + 1..h \/ i <= l \/ i > h
  BY <1>1, <1>2
<1> QED
  BY <1>7, <1>8, <1>9, <1>10

(* A tier's buckets are in order and tell of the samples in their spans.   *)
LEMMA CoveredExact ==
  ASSUME NEW res \in Nat \ {0}, NEW hi, IsSeries(samples), edge \in Nat, edge % res = 0,
         Cut(samples, edge, hi), NEW tier, Covered(tier, samples, hi, res), NEW k \in 1..Len(tier)
  PROVE  LET x    == tier[k]
             seen == Speeds(x)
         IN /\ x.end <= edge /\ (k > 1 => tier[k - 1].end <= x.start)
            /\ Observations(x.up) = Cardinality(seen)
            /\ seen # {} =>
                 /\ \E s \in seen : x.up.min = s.up /\ x.up.minAt = s.at
                 /\ \E s \in seen : x.up.max = s.up /\ x.up.maxAt = s.at
                 /\ \A s \in seen : /\ x.up.min <= s.up /\ s.up <= x.up.max
                                    /\ s.up = x.up.min => x.up.minAt <= s.at
                                    /\ s.up = x.up.max => x.up.maxAt <= s.at
                 /\ x.up.min * x.up.weight <= x.up.sum /\ x.up.sum <= x.up.max * x.up.weight
<1> DEFINE L == Len(tier)
           n == Len(samples)
           x == tier[k]
           seen == Speeds(x)
<1>1. PICK c : Covers(c, tier, samples, hi, res)
  BY DEF Covered
<1>2. tier \in Seq(Buckets(res)) /\ L \in Nat /\ n \in Nat /\ hi \in 0..n
  BY DEF Covered, IsSeries, Cut
<1>3. x.end <= edge
  BY CoveredEnds
<1> DEFINE l == c[k - 1]
           h == c[k]
           U == Speedy(samples, l, h)
<1>4. l \in 0..hi /\ h \in 0..hi /\ Tells(x, samples, l, h, res)
  <2>1. k - 1 \in 0..L /\ k \in 0..L
    BY <1>2
  <2> QED
    BY <1>1, <2>1 DEF Covers
<1>5. k > 1 => tier[k - 1].end <= x.start
  <2> SUFFICES ASSUME k > 1 PROVE tier[k - 1].end <= x.start
    OBVIOUS
  <2>1. k - 1 \in 1..L /\ (k - 1) - 1 \in 0..L /\ k - 1 \in 0..L
    BY <1>2
  <2> DEFINE y == tier[k - 1]
             m == c[(k - 1) - 1]
  <2>2. m \in 0..hi /\ Tells(y, samples, m, l, res)
    BY <1>1, <2>1 DEF Covers
  <2>3. Start(samples[l].at, res) # Start(samples[l + 1].at, res)
    BY <1>1 DEF Covers
  <2> HIDE DEF y, m, l, h, x
  <2>4. l < h /\ m < l
    BY <1>4, <2>2 DEF Tells
  <2>5. l \in m + 1..l /\ l + 1 \in l + 1..h /\ l \in 1..n /\ l + 1 \in 1..n /\ l < l + 1
    BY <1>2, <1>4, <2>2, <2>4
  <2>6. y.start = Start(samples[l].at, res) /\ x.start = Start(samples[l + 1].at, res) /\ y.end = y.start + res
    BY <1>4, <2>2, <2>5 DEF Tells, Buckets
  <2>7. samples[l].at <= samples[l + 1].at /\ samples[l].at \in Nat /\ samples[l + 1].at \in Nat
    <3>1. samples[l].at \in Nat /\ samples[l + 1].at \in Nat
      BY <2>5, SampleFields
    <3>2. samples[l].at < samples[l + 1].at
      BY <2>5 DEF IsSeries
    <3> QED
      BY <3>1, <3>2
  <2>8. Start(samples[l].at, res) + res <= Start(samples[l + 1].at, res)
    BY <2>3, <2>7, StartsApart
  <2> QED
    BY <2>6, <2>8 DEF y
<1>6. \A i \in 1..n : x.start <= samples[i].at /\ samples[i].at < x.end <=> i \in l + 1..h
  BY <1>1, <1>2, SamplesOf
<1>7. x.start \in Nat /\ x.end \in Nat /\ \A i \in 1..n : samples[i].at \in Nat
  <2>1. \A i \in 1..n : samples[i].at \in Nat
    BY SampleFields
  <2>2. x \in Bucket(Flags)
    BY <1>4 DEF Tells, Buckets
  <2> QED
    BY <2>1, <2>2 DEF Bucket
<1>8. U \subseteq 1..n
  BY <1>2, <1>4 DEF Speedy
<1> HIDE DEF x, l, h
<1>9. seen = {samples[i] : i \in U}
  <2>1. ToSet(samples) = {samples[i] : i \in 1..n}
    BY <1>2 DEF ToSet, IsSeries
  <2>2. ASSUME NEW i \in 1..n
        PROVE  samples[i].at >= x.start /\ samples[i].at < x.end /\ "Up" \in samples[i].valid <=> i \in U
    BY <1>6, <1>7 DEF Speedy
  <2> HIDE DEF U
  <2> QED
    BY <1>8, <2>1, <2>2 DEF Speeds
<1>10. Cardinality(seen) = Cardinality(U)
  <2> DEFINE f == [i \in U |-> samples[i]]
  <2> HIDE DEF U, seen
  <2>1. f \in [U -> seen] /\ \A y \in seen : \E i \in U : f[i] = y
    BY <1>9
  <2>2. ASSUME NEW i \in U, NEW j \in U, f[i] = f[j] PROVE i = j
    <3>1. i \in 1..n /\ j \in 1..n /\ samples[i].at = samples[j].at /\ samples[i].at \in Nat
      BY <1>7, <1>8, <2>2
    <3>2. ~(i < j) /\ ~(j < i)
      BY <3>1 DEF IsSeries
    <3> HIDE DEF n
    <3> QED
      BY <3>1, <3>2
  <2> HIDE DEF f
  <2>3. f \in Bijection(U, seen)
    <3>1. f \in Injection(U, seen)
      BY <2>1, <2>2 DEF Injection, IsInjective
    <3>2. f \in Surjection(U, seen)
      BY <2>1 DEF Surjection
    <3> QED
      BY <3>1, <3>2 DEF Bijection
  <2>4. ExistsBijection(U, seen)
    BY <2>3 DEF ExistsBijection
  <2>5. IsFiniteSet(U)
    BY <1>4, SpeedyFinite DEF U
  <2> QED
    BY <2>4, <2>5, FS_Bijection
<1>11. Summary(x.up, samples, l, h)
  BY <1>4 DEF Tells
<1>12. Observations(x.up) = Cardinality(U) /\ Sound(x.up) /\ (U # {} => Observations(x.up) # 0)
  BY <1>4, <1>11, SpeedyFinite DEF Summary
<1>13. U # {} => x.up.min * x.up.weight <= x.up.sum /\ x.up.sum <= x.up.max * x.up.weight
  BY <1>12 DEF Sound, Told
<1>14. /\ U # {} => /\ \E i \in U : x.up.min = samples[i].up /\ x.up.minAt = samples[i].at
                    /\ \E i \in U : x.up.max = samples[i].up /\ x.up.maxAt = samples[i].at
       /\ \A i \in U : /\ x.up.min <= samples[i].up /\ samples[i].up <= x.up.max
                       /\ samples[i].up = x.up.min => x.up.minAt <= samples[i].at
                       /\ samples[i].up = x.up.max => x.up.maxAt <= samples[i].at
  BY <1>11 DEF Summary
<1>15. ASSUME seen # {}
       PROVE  /\ \E s \in seen : x.up.min = s.up /\ x.up.minAt = s.at
              /\ \E s \in seen : x.up.max = s.up /\ x.up.maxAt = s.at
              /\ \A s \in seen : /\ x.up.min <= s.up /\ s.up <= x.up.max
                                 /\ s.up = x.up.min => x.up.minAt <= s.at
                                 /\ s.up = x.up.max => x.up.maxAt <= s.at
              /\ x.up.min * x.up.weight <= x.up.sum /\ x.up.sum <= x.up.max * x.up.weight
  <2> HIDE DEF U, seen
  <2>1. U # {}
    BY <1>9, <1>15
  <2>2. (\E s \in seen : x.up.min = s.up /\ x.up.minAt = s.at) /\ \E s \in seen : x.up.max = s.up /\ x.up.maxAt = s.at
    BY <1>9, <1>14, <2>1
  <2>3. \A s \in seen : /\ x.up.min <= s.up /\ s.up <= x.up.max
                        /\ s.up = x.up.min => x.up.minAt <= s.at
                        /\ s.up = x.up.max => x.up.maxAt <= s.at
    BY <1>9, <1>14
  <2> QED
    BY <1>13, <2>1, <2>2, <2>3
<1> HIDE DEF U, seen
<1> QED
  BY <1>3, <1>5, <1>10, <1>12, <1>15 DEF x, seen

(* Every bucket of either tier holds the peaks of exactly the samples of   *)
(* its span, with their times, and a mean between them (rollup.go: Build,  *)
(* ToFive; history.go: sealOne).                                           *)
THEOREM BucketsExactAlways == Spec => []BucketsExact
<1>1. SeriesInv => BucketsExact
  <2> SUFFICES ASSUME SeriesInv PROVE BucketsExact
    OBVIOUS
  <2>1. PICK hi : /\ Cut(samples, edge, hi)
                  /\ TierOf(one, samples, 0, hi, LeftOf(samples), Minute)
                  /\ Covered(five, samples, hi, Window)
    BY DEF SeriesInv
  <2>2. /\ IsSeries(samples) /\ edge \in Nat /\ edge % Window = 0 /\ edge % Minute = 0
        /\ Minute \in Nat \ {0} /\ Window \in Nat \ {0} /\ hi \in 0..Len(samples)
    BY <2>1, RollupAssumption, WindowMinutes DEF SeriesInv, Cut
  <2>3. Covered(one, samples, hi, Minute)
    BY <2>1, <2>2, TierCovered
  <2> DEFINE Exact(x) ==
        /\ Observations(x.up) = Cardinality(Speeds(x))
        /\ Speeds(x) # {} =>
             /\ \E s \in Speeds(x) : x.up.min = s.up /\ x.up.minAt = s.at
             /\ \E s \in Speeds(x) : x.up.max = s.up /\ x.up.maxAt = s.at
             /\ \A s \in Speeds(x) : /\ x.up.min <= s.up /\ s.up <= x.up.max
                                     /\ s.up = x.up.min => x.up.minAt <= s.at
                                     /\ s.up = x.up.max => x.up.maxAt <= s.at
             /\ x.up.min * x.up.weight <= x.up.sum /\ x.up.sum <= x.up.max * x.up.weight
  <2>4. /\ \A k \in 1..Len(one) : /\ one[k].end <= edge /\ (k > 1 => one[k - 1].end <= one[k].start)
                                  /\ Exact(one[k])
        /\ \A k \in 1..Len(five) : /\ five[k].end <= edge /\ (k > 1 => five[k - 1].end <= five[k].start)
                                   /\ Exact(five[k])
    BY <2>1, <2>2, <2>3, CoveredExact
  <2>5. DOMAIN one = 1..Len(one) /\ DOMAIN five = 1..Len(five)
    BY <2>1, <2>3 DEF Covered
  <2>6. \A x \in ToSet(one) \cup ToSet(five) : Exact(x)
    <3> HIDE DEF Exact
    <3> QED
      BY <2>4, <2>5 DEF ToSet
  <2>7. \A tier \in {one, five} : \A i \in DOMAIN tier :
          tier[i].end <= edge /\ (i > 1 => tier[i - 1].end <= tier[i].start)
    BY <2>4, <2>5
  <2> QED
    BY <2>6, <2>7 DEF BucketsExact
<1> QED
  BY <1>1, SeriesInvariant, PTL

-----------------------------------------------------------------------------
(* RawObserved adds up what the series gains.                              *)
LEMMA RawObservedIs ==
  ASSUME NEW in, IsSeries(in)
  PROVE  \E H : Gains(H, in, Len(in)) /\ RawObserved(in) = H[Len(in)]
<1> DEFINE n == Len(in)
           add(v, i) == IF i = 1 THEN v ELSE v + Observed(in[i], in[i - 1])
           F == [p \in Nat \X (1..n) |-> add(p[1], p[2])]
           ids == [i \in DOMAIN in |-> i]
           E(g) == g = [s \in SUBSET DOMAIN ids |->
                          IF s = {} THEN 0 ELSE add(g[s \ {Max(s)}], ids[Max(s)])]
<1>1. n \in Nat /\ DOMAIN ids = 1..n /\ \A i \in 1..n : ids[i] = i
  BY DEF IsSeries
<1>2. ASSUME NEW i \in 1..n PROVE GainOf(in, i) \in Nat /\ \A v \in Nat : add(v, i) = v + GainOf(in, i)
  <2>1. LeftOf(in)[i] \in Previouses /\ Gained(in[i], LeftOf(in)[i]) = GainOf(in, i) /\ in[i] \in RawSample
    BY LeftIn, SampleFields DEF GainOf
  <2>2. GainOf(in, i) \in Nat
    BY <2>1, GainIn
  <2> QED
    BY <2>2 DEF GainOf
<1>3. F \in [Nat \X (1..n) -> Nat] /\ \A v \in Nat, i \in 1..n : F[<<v, i>>] = v + GainOf(in, i)
  <2> HIDE DEF add, n
  <2> QED
    BY <1>2
<1>4. PICK it : Folds(it, Nat, 0, F, n)
  <2> HIDE DEF F, n
  <2> QED
    BY <1>1, <1>3, FoldExists
<1>5. ASSUME NEW s \in SUBSET (1..n), s # {} PROVE Max(s) \in 1..n /\ s \ {Max(s)} \in SUBSET (1..n)
  <2> HIDE DEF n
  <2> QED
    BY <1>1, <1>5, MaxOf
<1>6. E(it)
  <2>1. ASSUME NEW s \in SUBSET (1..n), s # {}
        PROVE  it[s] = add(it[s \ {Max(s)}], ids[Max(s)])
    <3>1. PICK m \in 1..n : m = Max(s) /\ ids[Max(s)] = m
      BY <1>1, <1>5, <2>1
    <3>2. PICK v \in Nat : v = it[s \ {m}]
      BY <1>4, <1>5, <2>1, <3>1 DEF Folds
    <3>3. it[s] = F[<<v, m>>]
      BY <1>4, <2>1, <3>1, <3>2 DEF Folds
    <3>4. F[<<v, m>>] = add(v, m)
      BY <1>2, <1>3
    <3> HIDE DEF F, n, ids, add
    <3> QED
      BY <3>1, <3>2, <3>3, <3>4
  <2> HIDE DEF F, n, ids, add
  <2> QED
    BY <1>1, <1>4, <2>1 DEF Folds
<1>7. PICK ch : ch = (CHOOSE g : E(g)) /\ E(ch)
  <2> HIDE DEF E
  <2> QED
    BY <1>6
<1>8. RawObserved(in) = ch[DOMAIN ids]
  BY <1>7 DEF RawObserved, FoldLeftDomain, FoldLeft, MapThenFoldSet
<1>9. ASSUME NEW i \in 1..n PROVE ch[1..i] = add(ch[1..i - 1], i)
  <2>1. Max(1..i) = i /\ (1..i) \ {i} = 1..i - 1 /\ 1..i \in SUBSET (1..n) /\ 1..i # {}
    BY PrefixMax
  <2>2. ids[i] = i
    BY <1>1
  <2> HIDE DEF n, ids, add
  <2>3. ch[1..i] = IF 1..i = {} THEN 0 ELSE add(ch[(1..i) \ {Max(1..i)}], ids[Max(1..i)])
    BY <1>1, <1>7, <2>1, ZenonT(60)
  <2> QED
    BY <2>1, <2>2, <2>3
<1>10. ch[1..0] = 0
  <2>1. 1..0 = {} /\ 1..0 \in SUBSET (1..n)
    OBVIOUS
  <2> HIDE DEF n, ids, add
  <2> QED
    BY <1>7, <1>1, <2>1
<1> DEFINE H == [k \in 0..n |-> ch[1..k]]
<1>11. H[0] = 0 /\ H[n] = ch[1..n] /\ \A i \in 1..n : H[i] = add(H[i - 1], i)
  <2> HIDE DEF E, ids, add
  <2>1. H[0] = ch[1..0] /\ H[n] = ch[1..n] /\ \A i \in 1..n : H[i] = ch[1..i] /\ H[i - 1] = ch[1..i - 1]
    BY <1>1
  <2> HIDE DEF H
  <2> QED
    BY <1>9, <1>10, <2>1
<1>12. \A i \in 0..n : H[i] \in Nat
  <2> DEFINE T == {i \in 0..n : H[i] \in Nat}
  <2> HIDE DEF H, n, add
  <2>1. 0 \in T
    BY <1>1, <1>11
  <2>2. ASSUME NEW i \in 0 + 1..n, i - 1 \in T PROVE i \in T
    <3>1. i \in 1..n /\ i \in 0..n
      BY <1>1
    <3> QED
      BY <1>2, <1>11, <2>2, <3>1, SMTT(30)
  <2>3. \A i \in 0..n : i \in T
    <3> HIDE DEF T
    <3> QED
      BY <1>1, <2>1, <2>2, Upward
  <2> QED
    BY <2>3
<1> HIDE DEF E, ids, H
<1>13. \A i \in 1..n : H[i] = H[i - 1] + GainOf(in, i)
  <2>1. ASSUME NEW i \in 1..n PROVE H[i] = H[i - 1] + GainOf(in, i)
    <3>1. H[i - 1] \in Nat
      BY <1>1, <1>12
    <3> HIDE DEF add, n
    <3> QED
      BY <1>2, <1>11, <3>1
  <2> QED
    BY <2>1
<1>14. Gains(H, in, n)
  BY <1>11, <1>12, <1>13 DEF Gains
<1>15. RawObserved(in) = H[n]
  BY <1>1, <1>8, <1>11
<1> QED
  BY <1>14, <1>15

-----------------------------------------------------------------------------
(* A chart's fold over the buckets bs.                                     *)
ChartFold(it, D, bs, a, b, maxSpan) ==
    it = [s \in SUBSET D |-> IF s = {} THEN NewChart
                             ELSE AddBucket(it[s \ {Max(s)}], bs[Max(s)], a, b, maxSpan)]

LEMMA ChartFolds ==
  ASSUME NEW bs, NEW a, NEW b, NEW maxSpan, NEW n \in Nat
  PROVE  \E it : ChartFold(it, 1..n, bs, a, b, maxSpan)
<1> DEFINE Is(it, m) == ChartFold(it, 1..m, bs, a, b, maxSpan)
           T == {m \in Nat : \E it : Is(it, m)}
<1>1. 0 \in T
  <2> DEFINE it == [s \in SUBSET (1..0) |-> NewChart]
  <2>1. \A s \in SUBSET (1..0) : s = {}
    OBVIOUS
  <2>2. Is(it, 0)
    BY <2>1 DEF ChartFold
  <2> QED
    BY <2>2
<1>2. ASSUME NEW m \in Nat, m \in T PROVE m + 1 \in T
  <2>1. PICK old : Is(old, m)
    BY <1>2
  <2> DEFINE it == [s \in SUBSET (1..m + 1) |->
                      IF m + 1 \in s THEN AddBucket(old[s \ {m + 1}], bs[m + 1], a, b, maxSpan) ELSE old[s]]
  <2>2. ASSUME NEW s \in SUBSET (1..m + 1)
        PROVE  /\ m + 1 \notin s => s \in SUBSET (1..m)
               /\ s \ {m + 1} \in SUBSET (1..m) /\ s \ {m + 1} \in SUBSET (1..m + 1)
    OBVIOUS
  <2>3. ASSUME NEW s \in SUBSET (1..m + 1)
        PROVE  it[s] = IF s = {} THEN NewChart
                       ELSE AddBucket(it[s \ {Max(s)}], bs[Max(s)], a, b, maxSpan)
    <3>1. CASE m + 1 \in s
      <4>1. Max(s) \in s /\ \A k \in s : k <= Max(s)
        <5>1. m + 1 \in Nat /\ s \subseteq 1..m + 1 /\ s # {}
          BY <3>1
        <5> QED
          BY <5>1, MaxOf
      <4>2. Max(s) = m + 1
        <5>1. Max(s) \in 1..m + 1 /\ m + 1 <= Max(s)
          BY <4>1, <3>1
        <5> QED
          BY <5>1
      <4>3. it[s \ {m + 1}] = old[s \ {m + 1}]
        BY <2>2
      <4>4. it[s] = AddBucket(old[s \ {m + 1}], bs[m + 1], a, b, maxSpan)
        BY <3>1
      <4> HIDE DEF it
      <4> QED
        BY <3>1, <4>2, <4>3, <4>4
    <3>2. CASE m + 1 \notin s /\ s # {}
      <4>1. s \in SUBSET (1..m)
        BY <2>2, <3>2
      <4>2. Max(s) \in s
        BY <3>2, <4>1, MaxOf
      <4>3. s \ {Max(s)} \in SUBSET (1..m + 1) /\ m + 1 \notin s \ {Max(s)}
        BY <3>2
      <4>4. it[s \ {Max(s)}] = old[s \ {Max(s)}] /\ it[s] = old[s]
        BY <4>3, <3>2
      <4>5. old[s] = AddBucket(old[s \ {Max(s)}], bs[Max(s)], a, b, maxSpan)
        BY <2>1, <3>2, <4>1 DEF ChartFold
      <4> HIDE DEF it
      <4> QED
        BY <3>2, <4>4, <4>5
    <3>3. CASE s = {}
      <4>1. {} \in SUBSET (1..m)
        OBVIOUS
      <4>2. old[{}] = NewChart
        BY <2>1, <4>1 DEF ChartFold
      <4> QED
        BY <3>3, <4>2
    <3> QED
      BY <3>1, <3>2, <3>3
  <2>4. Is(it, m + 1)
    <3>1. it = [s \in SUBSET (1..m + 1) |-> it[s]]
      OBVIOUS
    <3> HIDE DEF it
    <3> QED
      BY <2>3, <3>1 DEF ChartFold
  <2>5. \E x : Is(x, m + 1)
    <3> HIDE DEF Is, it
    <3> QED
      BY <2>4
  <2> HIDE DEF Is, it
  <2> QED
    BY <2>5
<1> HIDE DEF T
<1>3. Nat \subseteq T
  BY <1>1, <1>2, Induction
<1> QED
  BY <1>3 DEF T

(* h traces a summary chart bucket by bucket.                              *)
ChartTrace(h, bs, n, a, b, maxSpan) ==
    /\ h[0] = NewChart
    /\ SummaryChart(bs, a, b, maxSpan) = EmitFlat(h[n])
    /\ \A i \in 1..n : h[i] = AddBucket(h[i - 1], bs[i], a, b, maxSpan)

LEMMA ChartSteps ==
  ASSUME NEW bs, NEW n \in Nat, DOMAIN bs = 1..n, NEW a, NEW b, NEW maxSpan
  PROVE  \E h : ChartTrace(h, bs, n, a, b, maxSpan)
<1> DEFINE E(g) == ChartFold(g, DOMAIN bs, bs, a, b, maxSpan)
<1>1. \E it : E(it)
  BY ChartFolds
<1>2. PICK ch : ch = (CHOOSE g : E(g)) /\ E(ch)
  <2> HIDE DEF E
  <2> QED
    BY <1>1
<1>3. SummaryChart(bs, a, b, maxSpan) = EmitFlat(ch[DOMAIN bs])
  BY <1>2 DEF SummaryChart, ChartFold, FoldLeft, MapThenFoldSet
<1>4. ASSUME NEW i \in 1..n PROVE ch[1..i] = AddBucket(ch[1..i - 1], bs[i], a, b, maxSpan)
  <2>1. Max(1..i) = i /\ (1..i) \ {i} = 1..i - 1 /\ 1..i \in SUBSET (1..n) /\ 1..i # {}
    BY PrefixMax
  <2>2. ch[1..i] = IF 1..i = {} THEN NewChart
                   ELSE AddBucket(ch[(1..i) \ {Max(1..i)}], bs[Max(1..i)], a, b, maxSpan)
    BY <1>2, <2>1 DEF ChartFold
  <2> QED
    BY <2>1, <2>2
<1>5. ch[1..0] = NewChart
  <2>1. 1..0 = {} /\ 1..0 \in SUBSET (1..n)
    OBVIOUS
  <2> QED
    BY <1>2, <2>1 DEF ChartFold
<1> DEFINE h == [k \in 0..n |-> ch[1..k]]
<1> HIDE DEF E
<1> QED
  <2>1. h[0] = NewChart /\ h[n] = ch[1..n] /\ \A i \in 1..n : h[i] = ch[1..i] /\ h[i - 1] = ch[1..i - 1]
    BY <1>5
  <2> HIDE DEF h
  <2>2. SummaryChart(bs, a, b, maxSpan) = EmitFlat(h[n])
    BY <1>3, <2>1
  <2>3. ChartTrace(h, bs, n, a, b, maxSpan)
    BY <2>1, <2>2, <1>4, <1>5 DEF ChartTrace
  <2> QED
    BY <2>3

(* Whatever is done with a bucket's speed, the observed upload is kept.    *)
LEMMA EmitKeeps ==
  ASSUME NEW c, IsChart(c)
  PROVE  IsChart(EmitFlat(c)) /\ EmitFlat(c).observed = c.observed
<1>1. CASE c.group = <<>>
  BY <1>1 DEF EmitFlat
<1>2. CASE c.group # <<>>
  BY <1>2 DEF EmitFlat, IsChart
<1> QED
  BY <1>1, <1>2

LEMMA BreakKeeps ==
  ASSUME NEW c, IsChart(c), NEW at
  PROVE  IsChart(Break(c, at)) /\ Break(c, at).observed = c.observed
<1>1. PICK e : e = EmitFlat(c) /\ IsChart(e) /\ e.observed = c.observed
  BY EmitKeeps
<1>2. Break(c, at) = [e EXCEPT !.points = Append(e.points, Null(at))]
  BY <1>1 DEF Break
<1> QED
  BY <1>1, <1>2 DEF IsChart

LEMMA SpeedKeeps ==
  ASSUME NEW c, IsChart(c), NEW x, NEW left, NEW partial, NEW maxSpan, x.up.weight \in Nat
  PROVE  LET n == AddSpeed(c, x, left, partial, maxSpan) IN IsChart(n) /\ n.observed = c.observed
<1> DEFINE n == AddSpeed(c, x, left, partial, maxSpan)
<1>1. CASE x.up.weight = 0
  <2>1. n = Break(c, left)
    BY <1>1 DEF AddSpeed
  <2> QED
    BY <2>1, BreakKeeps
<1>2. CASE x.up.weight > 0 /\ Accepts(c, x, partial, maxSpan)
  <2>1. n = [c EXCEPT !.group = Append(c.group, x), !.stat = MergeStat(c.stat, x.up)]
    BY <1>2 DEF AddSpeed
  <2> QED
    BY <2>1 DEF IsChart
<1>3. CASE x.up.weight # 0 /\ ~(x.up.weight > 0 /\ Accepts(c, x, partial, maxSpan))
  <2>1. PICK e : e = EmitFlat(c) /\ IsChart(e) /\ e.observed = c.observed
    BY EmitKeeps
  <2>2. n = IF Flat(x.up, x.quality) /\ ~partial
            THEN [e EXCEPT !.group = <<x>>, !.stat = x.up]
            ELSE [e EXCEPT !.points = Append(e.points, Point(left, x.up.sum, x.up.weight, "weighted_mean"))]
    BY <1>3, <2>1 DEF AddSpeed
  <2> QED
    BY <2>1, <2>2 DEF IsChart
<1> QED
  BY <1>1, <1>2, <1>3

LEMMA BucketKeeps ==
  ASSUME NEW c, IsChart(c), NEW x, NEW a, NEW b, NEW maxSpan, x.up.weight \in Nat,
         ~(x.start < a \/ x.end > b)
  PROVE  LET n == AddBucket(c, x, a, b, maxSpan)
         IN IsChart(n) /\ n.observed = c.observed + x.uploaded.delta
<1> DEFINE left == Max({x.start, a})
           broken == (c.lastEnd > 0 /\ x.start > c.lastEnd) \/ "GapBefore" \in x.quality
           partial == x.start < a \/ x.end > b
<1>1. PICK fresh : fresh = (IF broken THEN Break(c, left - 1) ELSE c)
  OBVIOUS
<1>2. IsChart(fresh) /\ fresh.observed = c.observed
  <2>1. CASE broken
    BY <1>1, <2>1, BreakKeeps
  <2>2. CASE ~broken
    BY <1>1, <2>2
  <2> QED
    BY <2>1, <2>2
<1>3. PICK m : m = AddSpeed(fresh, x, left, partial, maxSpan)
  OBVIOUS
<1>4. IsChart(m) /\ m.observed = fresh.observed
  BY <1>2, <1>3, SpeedKeeps
<1>5. AddBucket(c, x, a, b, maxSpan)
        = [m EXCEPT !.lastEnd = x.end, !.observed = IF partial THEN m.observed ELSE m.observed + x.uploaded.delta]
  BY <1>1, <1>3 DEF AddBucket
<1> HIDE DEF left, broken
<1> QED
  BY <1>2, <1>4, <1>5 DEF IsChart

(* A summary chart of a whole tier shows what its samples gained.          *)
LEMMA ChartObserves ==
  ASSUME NEW s, IsSeries(s), NEW res \in Nat \ {0}, NEW e \in Nat, e % res = 0, NEW hi, Cut(s, e, hi),
         NEW tier, Covered(tier, s, hi, res), NEW maxSpan, NEW H, Gains(H, s, hi)
  PROVE  SummaryChart(tier, 0, e, maxSpan).observed = H[hi]
<1> DEFINE L == Len(tier)
<1>1. PICK c : Covers(c, tier, s, hi, res)
  BY DEF Covered
<1>2. tier \in Seq(Buckets(res)) /\ L \in Nat /\ DOMAIN tier = 1..L /\ hi \in Nat
  BY DEF Covered, Cut, IsSeries
<1>3. PICK h : /\ h[0] = NewChart /\ SummaryChart(tier, 0, e, maxSpan) = EmitFlat(h[L])
               /\ \A i \in 1..L : h[i] = AddBucket(h[i - 1], tier[i], 0, e, maxSpan)
  <2>1. PICK n \in Nat : n = L
    BY <1>2
  <2>2. DOMAIN tier = 1..n
    BY <1>2, <2>1
  <2>3. \E h : ChartTrace(h, tier, n, 0, e, maxSpan)
    BY <2>2, ChartSteps
  <2> QED
    BY <2>1, <2>3 DEF ChartTrace
<1>4. c \in [0..L -> 0..hi] /\ c[0] = 0 /\ c[L] = hi
  BY <1>1 DEF Covers
<1> DEFINE T == {k \in 0..L : IsChart(h[k]) /\ h[k].observed = H[c[k]]}
<1>5. 0 \in T
  <2>1. IsChart(NewChart) /\ NewChart.observed = 0
    BY DEF IsChart, NewChart
  <2>2. H[0] = 0
    BY DEF Gains
  <2> QED
    BY <1>2, <1>3, <1>4, <2>1, <2>2
<1>6. ASSUME NEW k \in 0 + 1..L, k - 1 \in T PROVE k \in T
  <2>1. k \in 1..L /\ k - 1 \in 0..L /\ k \in 0..L
    BY <1>2
  <2> DEFINE x == tier[k]
             l == c[k - 1]
             m == c[k]
  <2>2. IsChart(h[k - 1]) /\ h[k - 1].observed = H[l] /\ h[k] = AddBucket(h[k - 1], x, 0, e, maxSpan)
    BY <1>3, <1>6, <2>1
  <2>3. l \in 0..hi /\ m \in 0..hi /\ Tells(x, s, l, m, res)
    BY <1>1, <1>4, <2>1 DEF Covers
  <2>4. x.end <= e
    BY <2>1, CoveredEnds
  <2> HIDE DEF x, l, m
  <2>5. x.start \in Nat /\ x.end \in Nat /\ x.up.weight \in Nat
    <3>1. x \in Bucket(Flags)
      BY <2>3 DEF Tells, Buckets
    <3>2. x.up \in Stat
      BY <3>1 DEF Bucket
    <3> QED
      BY <3>1, <3>2 DEF Bucket, Stat
  <2>6. ~(x.start < 0 \/ x.end > e)
    BY <2>4, <2>5
  <2>7. IsChart(h[k]) /\ h[k].observed = H[l] + x.uploaded.delta
    BY <2>2, <2>5, <2>6, BucketKeeps
  <2>8. x.uploaded.delta = H[m] - H[l] /\ H[m] \in Nat /\ H[l] \in Nat
    <3>1. H[m] \in Nat /\ H[l] \in Nat
      BY <2>3 DEF Gains
    <3>2. Gains(H, s, m)
      BY <1>2, <2>3 DEF Gains
    <3> QED
      BY <2>3, <3>1, <3>2 DEF Tells
  <2>9. h[k].observed = H[m]
    BY <2>7, <2>8
  <2> QED
    BY <2>1, <2>7, <2>9 DEF m
<1>7. L \in T
  <2> HIDE DEF T, L
  <2>1. \A k \in 0..L : k \in T
    <3>1. 0 \in Nat /\ 0 \in T /\ \A k \in 0 + 1..L : k - 1 \in T => k \in T
      BY <1>5, <1>6
    <3>2. L \in Nat
      BY <1>2 DEF L
    <3> QED
      BY ONLY <3>1, <3>2, Upward
  <2> QED
    BY <1>2, <2>1
<1> QED
  BY <1>3, <1>4, <1>7, EmitKeeps

(* The sealed samples are the samples before the edge.                     *)
LEMMA SealedIs ==
  ASSUME SeriesInv, NEW hi, Cut(samples, edge, hi)
  PROVE  IsSlice(SealedSamples, samples, 0, hi)
<1>1. IsSeries(samples) /\ edge \in Nat /\ Len(samples) \in Nat /\ hi \in 0..Len(samples)
  BY DEF SeriesInv, Cut, IsSeries
<1>2. PICK l, h : /\ IsSlice(SealedSamples, samples, l, h)
                  /\ \A i \in 1..Len(samples) : /\ samples[i].at < 0 <=> i <= l
                                                /\ samples[i].at < edge <=> i <= h
  <2>1. 0 \in Int /\ edge \in Int /\ 0 <= edge
    BY <1>1
  <2>2. \E l, h : /\ IsSlice(Within(samples, 0, edge), samples, l, h)
                 /\ \A i \in 1..Len(samples) : /\ samples[i].at < 0 <=> i <= l
                                               /\ samples[i].at < edge <=> i <= h
    BY <1>1, <2>1, WithinIs
  <2> QED
    BY <2>2, Zenon DEF SealedSamples
<1>3. l \in 0..Len(samples) /\ h \in 0..Len(samples)
  BY <1>1, <1>2 DEF IsSlice
<1>4. l = 0
  <2>1. ASSUME l \in 1..Len(samples) PROVE FALSE
    <3>1. samples[l].at < 0 /\ samples[l].at \in Nat
      BY <1>1, <1>2, <2>1, SampleFields
    <3> QED
      BY <3>1
  <2> QED
    BY <1>1, <1>3, <2>1
<1>5. h = hi
  <2>1. \A i \in 1..Len(samples) : i <= h <=> i <= hi
    BY <1>2 DEF Cut
  <2>2. h < hi => h + 1 \in 1..Len(samples)
    BY <1>1, <1>3
  <2>3. hi < h => hi + 1 \in 1..Len(samples)
    BY <1>1, <1>3
  <2> QED
    BY <1>1, <1>3, <2>1, <2>2, <2>3
<1> QED
  BY <1>2, <1>4, <1>5

(* A chart shows the same observed upload from raw samples and from either *)
(* tier, wherever the windows were cut (query.go: Series).                 *)
THEOREM DeltasExactAlways == Spec => []DeltasExact
<1>1. SeriesInv => DeltasExact
  <2> SUFFICES ASSUME SeriesInv PROVE DeltasExact
    OBVIOUS
  <2>1. PICK hi : /\ Cut(samples, edge, hi)
                  /\ TierOf(one, samples, 0, hi, LeftOf(samples), Minute)
                  /\ Covered(five, samples, hi, Window)
    BY DEF SeriesInv
  <2>2. /\ IsSeries(samples) /\ edge \in Nat /\ edge % Window = 0 /\ edge % Minute = 0
        /\ Minute \in Nat \ {0} /\ Window \in Nat \ {0} /\ hi \in 0..Len(samples) /\ Len(samples) \in Nat
    BY <2>1, RollupAssumption, WindowMinutes DEF SeriesInv, Cut, IsSeries
  <2>3. Covered(one, samples, hi, Minute)
    BY <2>1, <2>2, TierCovered
  <2>4. PICK sealed : sealed = SealedSamples
    OBVIOUS
  <2>5. IsSeries(sealed) /\ Len(sealed) = hi /\ \A i \in 1..hi : sealed[i] = samples[i]
    <3>1. IsSlice(sealed, samples, 0, hi)
      BY <2>1, <2>4, SealedIs
    <3>5. IsSeries(sealed) /\ Len(sealed) = hi - 0 /\ \A i \in 1..hi - 0 : sealed[i] = samples[0 + i]
      BY <2>2, <3>1, SliceSeries DEF IsSlice
    <3>6. ASSUME NEW i \in 1..hi PROVE sealed[i] = samples[i]
      <4>1. i \in 1..hi - 0 /\ 0 + i = i
        BY <2>2
      <4> QED
        BY <3>5, <4>1
    <3> QED
      BY <2>2, <3>5, <3>6
  <2>6. PICK H : Gains(H, sealed, hi) /\ RawObserved(sealed) = H[hi]
    BY <2>5, RawObservedIs
  <2>7. Gains(H, samples, hi)
    <3>1. ASSUME NEW i \in 1..hi PROVE GainOf(samples, i) = GainOf(sealed, i)
      <4>1. CASE i = 1
        BY <4>1 DEF GainOf
      <4>2. CASE i # 1
        <5>1. i - 1 \in 1..hi
          BY <2>2, <4>2
        <5> QED
          BY <2>5, <5>1 DEF GainOf
      <4> QED
        BY <4>1, <4>2
    <3> QED
      BY <2>6, <3>1 DEF Gains
  <2>8. SummaryChart(one, 0, edge, MaxSpan).observed = H[hi]
    BY <2>1, <2>2, <2>3, <2>7, ChartObserves
  <2>9. SummaryChart(five, 0, edge, MaxSpan).observed = H[hi]
    BY <2>1, <2>2, <2>7, ChartObserves
  <2> QED
    BY <2>4, <2>6, <2>8, <2>9 DEF DeltasExact
<1> QED
  BY <1>1, SeriesInvariant, PTL

-----------------------------------------------------------------------------
(* The buckets of two tiers of the same samples end at the same samples.   *)
LEMMA EndsNotBefore ==
  ASSUME NEW s, NEW res, NEW hi \in Nat, NEW A, NEW B, Len(A) \in Nat, Len(B) \in Nat,
         NEW P, NEW Q, NEW b, TierBy(b, A, s, 0, hi, P, res), NEW c, TierBy(c, B, s, 0, hi, Q, res),
         NEW k \in 1..Len(A), k \in 1..Len(B), b[k - 1] = c[k - 1]
  PROVE  ~(b[k] < c[k])
<1> SUFFICES ASSUME b[k] < c[k] PROVE FALSE
  OBVIOUS
<1>1. b[k - 1] \in Nat /\ b[k] \in Nat /\ c[k] \in Nat /\ c[k] <= hi
  <2>1. k - 1 \in 0..Len(A) /\ k \in 0..Len(A) /\ k \in 0..Len(B)
    OBVIOUS
  <2>2. b \in [0..Len(A) -> 0..hi] /\ c \in [0..Len(B) -> 0..hi]
    BY DEF TierBy
  <2>3. b[k - 1] \in 0..hi /\ b[k] \in 0..hi /\ c[k] \in 0..hi
    BY <2>1, <2>2
  <2> QED
    BY <2>3
<1>2. b[k - 1] < b[k]
  BY DEF TierBy, Made
<1>3. k + 1 \in 1..Len(A) /\ k + 1 > 1 /\ (k + 1) - 1 = k
  <2>1. k # Len(A)
    <3>1. k = Len(A) => b[k] = hi
      BY DEF TierBy
    <3> QED
      BY <1>1, <3>1
  <2> QED
    BY <2>1
<1>4. Start(s[b[k]].at, res) # Start(s[b[k] + 1].at, res)
  BY <1>3 DEF TierBy
<1>5. PICK y : MadeBy(y, B[k], s, c[k - 1], c[k], Q, res)
  BY DEF TierBy, Made
<1>6. b[k] \in c[k - 1] + 1..c[k] /\ b[k] + 1 \in c[k - 1] + 1..c[k]
  BY <1>1, <1>2
<1> QED
  BY <1>4, <1>5, <1>6 DEF MadeBy

LEMMA EndsMatch ==
  ASSUME NEW s, NEW res, NEW hi \in Nat, NEW A, NEW B, Len(A) \in Nat, Len(B) \in Nat,
         NEW P, NEW Q, NEW b, TierBy(b, A, s, 0, hi, P, res), NEW c, TierBy(c, B, s, 0, hi, Q, res)
  PROVE  Len(A) <= Len(B) /\ \A k \in 0..Len(A) : b[k] = c[k]
<1> DEFINE L == Len(A)
           T == {k \in 0..L : k <= Len(B) /\ b[k] = c[k]}
<1>1. 0 \in T
  BY DEF TierBy
<1>2. ASSUME NEW k \in 0 + 1..L, k - 1 \in T PROVE k \in T
  <2>1. k \in 1..L /\ k - 1 \in 0..L /\ k \in 0..L /\ k - 1 <= Len(B) /\ b[k - 1] = c[k - 1] /\ b[L] = hi
    BY <1>2 DEF TierBy
  <2>2. b[k - 1] < b[k] /\ b[k - 1] \in 0..hi /\ b[k] \in 0..hi
    BY <2>1 DEF TierBy, Made
  <2>3. k - 1 # Len(B)
    <3>1. k - 1 = Len(B) => c[k - 1] = hi
      BY DEF TierBy
    <3> QED
      BY <2>1, <2>2, <3>1
  <2>4. k \in 1..Len(B) /\ k \in 0..Len(B)
    BY <2>1, <2>3
  <2>5. c[k] \in 0..hi
    BY <2>4 DEF TierBy
  <2>6. ~(b[k] < c[k])
    BY <2>1, <2>4, EndsNotBefore
  <2>7. ~(c[k] < b[k])
    BY <2>1, <2>4, EndsNotBefore
  <2> QED
    BY <2>1, <2>2, <2>4, <2>5, <2>6, <2>7
<1> HIDE DEF T, L
<1>3. L \in Nat
  BY DEF L
<1>4. 0 \in Nat /\ \A k \in 0 + 1..L : k - 1 \in T => k \in T
  BY <1>2
<1>5. \A k \in 0..L : k \in T
  BY ONLY <1>1, <1>3, <1>4, Upward
<1>6. L \in 0..L
  BY <1>3
<1> QED
  BY <1>5, <1>6 DEF T, L

(* Two buckets that differ in the gap flag alone.                          *)
Alike(b, c) ==
  /\ b.start = c.start /\ b.end = c.end /\ b.count = c.count /\ b.validDuration = c.validDuration
  /\ b.up = c.up /\ b.uploaded = c.uploaded /\ b.quality \subseteq c.quality

(* n is b with the sample i added.                                         *)
IsAdded(n, b, s, i, prev) ==
  LET w == Weight(s, i, b.end)
  IN /\ n.start = b.start /\ n.end = b.end /\ n.count = b.count + 1
     /\ n.validDuration = IF "Up" \in s[i].valid THEN b.validDuration + w ELSE b.validDuration
     /\ n.up = IF "Up" \in s[i].valid THEN AddStat(b.up, s[i].up, s[i].at, w) ELSE b.up
     /\ n.uploaded = IF "Uploaded" \in s[i].valid THEN AddCounter(b.uploaded, s[i], prev) ELSE b.uploaded
     /\ n.quality = b.quality \cup s[i].quality
                       \cup (IF prev # <<>> /\ ~Continuous(s[i], prev[1]) THEN {"GapBefore"} ELSE {})
                       \cup (IF n.uploaded.reset THEN {"CounterReset"} ELSE {})

LEMMA SampleAdded ==
  ASSUME NEW s, IsSeries(s), NEW i \in 1..Len(s), NEW b, Clean(b), s[i].at < b.end,
         NEW prev \in Previouses, NEW n, n = AddSample(b, s, i, prev)
  PROVE  IsAdded(n, b, s, i, prev)
<1>1. PICK w : w = Weight(s, i, b.end)
  OBVIOUS
<1>2. /\ n.start = b.start /\ n.end = b.end /\ n.count = b.count + 1
      /\ n.validDuration = IF "Up" \in s[i].valid THEN b.validDuration + w ELSE b.validDuration
      /\ n.up = IF "Up" \in s[i].valid THEN AddStat(b.up, s[i].up, s[i].at, w) ELSE b.up
      /\ n.uploaded = IF "Uploaded" \in s[i].valid THEN AddCounter(b.uploaded, s[i], prev) ELSE b.uploaded
      /\ n.quality = b.quality \cup s[i].quality
                        \cup (IF prev # <<>> /\ ~Continuous(s[i], prev[1]) THEN {"GapBefore"} ELSE {})
                        \cup (IF n.uploaded.reset THEN {"CounterReset"} ELSE {})
  BY <1>1, AddedIs
<1> QED
  BY <1>1, <1>2 DEF IsAdded

(* A sample's bucket is the same with or without a left endpoint that the  *)
(* sample does not follow, but for the flag.                               *)
LEMMA AddAlike ==
  ASSUME NEW s, IsSeries(s), NEW i \in 1..Len(s), NEW d, Clean(d), s[i].at < d.end,
         NEW c, Clean(c), Alike(d, c), NEW p \in Previouses, NEW q \in Previouses,
         p = q \/ (p = <<>> /\ ~Continuous(s[i], q[1]))
  PROVE  /\ Alike(AddSample(d, s, i, p), AddSample(c, s, i, q))
         /\ p = q /\ d.quality = c.quality => AddSample(d, s, i, p).quality = AddSample(c, s, i, q).quality
<1>1. PICK m : m = AddSample(d, s, i, p)
  OBVIOUS
<1>2. PICK n : n = AddSample(c, s, i, q)
  OBVIOUS
<1>3. Weight(s, i, d.end) = Weight(s, i, c.end) /\ s[i].at < c.end
  BY DEF Alike
<1>5. IsAdded(m, d, s, i, p)
  BY <1>1, SampleAdded
<1>6. IsAdded(n, c, s, i, q)
  BY <1>2, <1>3, SampleAdded
<1>7. AddCounter(d.uploaded, s[i], p) = AddCounter(c.uploaded, s[i], q)
  <2>1. CASE p = q
    BY <2>1 DEF Alike
  <2>2. CASE p # q
    <3>1. ~Rises(c.uploaded, s[i], q) /\ ~Rises(c.uploaded, s[i], p) /\ d.uploaded = c.uploaded
      BY <2>2 DEF Rises, Alike
    <3> QED
      BY <3>1 DEF AddCounter
  <2> QED
    BY <2>1, <2>2
<1>8. m.uploaded = n.uploaded /\ m.up = n.up /\ m.validDuration = n.validDuration
  BY <1>3, <1>5, <1>6, <1>7 DEF Alike, IsAdded
<1>9. m.start = n.start /\ m.end = n.end /\ m.count = n.count
  BY <1>5, <1>6 DEF Alike, IsAdded
<1>10. m.quality \subseteq n.quality /\ (p = q /\ d.quality = c.quality => m.quality = n.quality)
  <2>1. d.quality \subseteq c.quality
    BY DEF Alike
  <2> QED
    BY <1>5, <1>6, <1>8, <2>1 DEF IsAdded
<1> QED
  BY <1>1, <1>2, <1>8, <1>9, <1>10 DEF Alike

(* The left endpoints of a series built in one pass.                       *)
BeforeOf(s) == [i \in 1..Len(s) |-> IF i = 1 THEN <<>> ELSE <<s[i - 1]>>]

LEMMA BeforeIn ==
  ASSUME NEW s, IsSeries(s), NEW i \in 1..Len(s)
  PROVE  /\ BeforeOf(s)[i] \in Previouses /\ LeftOf(s)[i] \in Previouses
         /\ LeftOf(s)[i] # BeforeOf(s)[i] =>
              /\ i > 1 /\ LeftOf(s)[i] = <<>> /\ ~Continuous(s[i], BeforeOf(s)[i][1])
              /\ Start(s[i].at, Window) # Start(s[i - 1].at, Window)
<1>1. Len(s) \in Nat
  BY DEF IsSeries
<1>2. LeftOf(s)[i] \in Previouses
  BY LeftIn
<1>3. CASE i = 1
  <2>1. BeforeOf(s)[i] = <<>> /\ LeftOf(s)[i] = <<>>
    BY <1>3 DEF BeforeOf, LeftOf
  <2> QED
    BY <2>1 DEF Previouses
<1>4. CASE i # 1
  <2>1. i > 1 /\ i - 1 \in 1..Len(s)
    BY <1>1, <1>4
  <2>2. s[i - 1] \in RawSample /\ BeforeOf(s)[i] = <<s[i - 1]>>
    BY <1>4, <2>1, SampleFields DEF BeforeOf
  <2>3. ASSUME LeftOf(s)[i] # <<s[i - 1]>>
        PROVE  /\ LeftOf(s)[i] = <<>> /\ ~Continuous(s[i], s[i - 1])
               /\ Start(s[i].at, Window) # Start(s[i - 1].at, Window)
    <3>1. /\ LeftOf(s)[i] = <<>> /\ s[i].seq # s[i - 1].seq + 1
          /\ Start(s[i].at, Window) # Start(s[i - 1].at, Window)
      BY <2>1, <2>3 DEF LeftOf
    <3> QED
      BY <3>1 DEF Continuous
  <2> QED
    BY <1>2, <2>1, <2>2, <2>3 DEF Previouses
<1> QED
  BY <1>3, <1>4

LEMMA MadeAlike ==
  ASSUME NEW s, IsSeries(s), NEW lo \in Nat, NEW hi \in Nat, hi <= Len(s),
         NEW x, Made(x, s, lo, hi, LeftOf(s), Minute), NEW y, Made(y, s, lo, hi, BeforeOf(s), Minute)
  PROVE  /\ Alike(x, y)
         /\ x.quality # y.quality => lo > 0 /\ Start(s[lo + 1].at, Window) # Start(s[lo].at, Window)
<1> DEFINE same == LeftOf(s)[lo + 1] = BeforeOf(s)[lo + 1]
<1>1. PICK g : MadeBy(g, x, s, lo, hi, LeftOf(s), Minute)
  BY DEF Made
<1>2. PICK h : MadeBy(h, y, s, lo, hi, BeforeOf(s), Minute)
  BY DEF Made
<1>3. lo < hi /\ Len(s) \in Nat /\ Minute \in Nat \ {0}
  BY RollupAssumption DEF Made, IsSeries
<1>4. \A i \in lo + 1..hi : i \in 1..Len(s)
  BY <1>3
<1>5. \A i \in lo + 1..hi : LeftOf(s)[i] \in Previouses /\ BeforeOf(s)[i] \in Previouses
  BY <1>4, BeforeIn
<1>6. /\ \A i \in lo..hi : /\ Clean(g[i]) /\ g[i].start = Start(s[lo + 1].at, Minute)
                           /\ g[i].end = g[i].start + Minute
                           /\ \A j \in lo + 1..hi : g[i].start <= s[j].at /\ s[j].at < g[i].end
  BY <1>1, <1>3, <1>5, StepsClean
<1>7. \A i \in lo..hi : /\ Clean(h[i]) /\ h[i].start = Start(s[lo + 1].at, Minute)
                        /\ h[i].end = h[i].start + Minute
                        /\ \A j \in lo + 1..hi : h[i].start <= s[j].at /\ s[j].at < h[i].end
  BY <1>2, <1>3, <1>5, StepsClean
<1> DEFINE T == {i \in lo..hi : Alike(g[i], h[i]) /\ (same => g[i].quality = h[i].quality)}
<1>8. lo \in T
  <2>1. g[lo] = h[lo]
    BY <1>1, <1>2 DEF MadeBy
  <2>2. lo \in lo..hi
    BY <1>3
  <2> HIDE DEF same
  <2> QED
    BY <2>1, <2>2 DEF Alike
<1>9. ASSUME NEW i \in lo + 1..hi, i - 1 \in T PROVE i \in T
  <2>1. /\ Alike(g[i - 1], h[i - 1]) /\ (same => g[i - 1].quality = h[i - 1].quality)
        /\ i - 1 \in lo..hi /\ i \in lo..hi /\ i \in 1..Len(s)
    BY <1>4, <1>9
  <2>2. g[i] = AddSample(g[i - 1], s, i, LeftOf(s)[i]) /\ h[i] = AddSample(h[i - 1], s, i, BeforeOf(s)[i])
    BY <1>1, <1>2 DEF MadeBy
  <2>3. Clean(g[i - 1]) /\ Clean(h[i - 1]) /\ s[i].at < g[i - 1].end
    BY <1>6, <1>7, <2>1
  <2>4. LeftOf(s)[i] = BeforeOf(s)[i] \/ (LeftOf(s)[i] = <<>> /\ ~Continuous(s[i], BeforeOf(s)[i][1]))
    BY <2>1, BeforeIn
  <2>5. same => LeftOf(s)[i] = BeforeOf(s)[i]
    <3>1. CASE i = lo + 1
      BY <3>1
    <3>2. CASE i # lo + 1
      <4>1. i - 1 \in lo + 1..hi
        BY <3>2
      <4>2. Start(s[i].at, Minute) = Start(s[i - 1].at, Minute)
        BY <1>1, <4>1 DEF MadeBy
      <4>3. s[i].at \in Nat /\ s[i - 1].at \in Nat
        BY <1>4, <4>1, SampleFields
      <4>4. Start(s[i].at, Window) = Start(s[i - 1].at, Window)
        BY <4>2, <4>3, WindowOfMinute
      <4> HIDE DEF same
      <4> QED
        BY <2>1, <4>4, BeforeIn
    <3> QED
      BY <3>1, <3>2
  <2>6. LeftOf(s)[i] \in Previouses /\ BeforeOf(s)[i] \in Previouses
    BY <1>5
  <2> HIDE DEF same
  <2>7. /\ Alike(g[i], h[i])
        /\ LeftOf(s)[i] = BeforeOf(s)[i] /\ g[i - 1].quality = h[i - 1].quality => g[i].quality = h[i].quality
    BY <2>1, <2>2, <2>3, <2>4, <2>6, AddAlike
  <2> QED
    BY <2>1, <2>5, <2>7
<1>10. hi \in T
  <2> HIDE DEF T
  <2>1. \A i \in lo..hi : i \in T
    BY <1>8, <1>9, Upward
  <2> QED
    BY <1>3, <2>1
<1>11. g[hi] = x /\ h[hi] = y
  BY <1>1, <1>2 DEF MadeBy
<1>12. ~same => lo > 0 /\ Start(s[lo + 1].at, Window) # Start(s[lo].at, Window)
  <2>1. lo + 1 \in 1..Len(s) /\ (lo + 1) - 1 = lo
    BY <1>3
  <2> QED
    BY <2>1, BeforeIn
<1> HIDE DEF same
<1> QED
  BY <1>10, <1>11, <1>12

-----------------------------------------------------------------------------
(* One pass over the sealed samples makes a tier of them, too.             *)
LEMMA WholeTier ==
  ASSUME SeriesInv, NEW hi, Cut(samples, edge, hi)
  PROVE  TierOf(Build(SealedSamples, Minute, <<>>), samples, 0, hi, BeforeOf(samples), Minute)
<1>1. /\ IsSeries(samples) /\ edge \in Nat /\ edge % Minute = 0 /\ Minute \in Nat \ {0}
      /\ hi \in 0..Len(samples) /\ Len(samples) \in Nat
  <2>1. IsSeries(samples) /\ edge \in Nat /\ edge % Window = 0 /\ hi \in 0..Len(samples)
    BY DEF SeriesInv, Cut
  <2>2. Minute \in Nat \ {0} /\ Len(samples) \in Nat
    BY <2>1, RollupAssumption DEF IsSeries
  <2>3. edge % Minute = 0
    BY <2>1, WindowMinutes
  <2> QED
    BY <2>1, <2>2, <2>3
<1>2. PICK t : t = SealedSamples
  OBVIOUS
<1>3. IsSlice(t, samples, 0, hi)
  BY <1>2, SealedIs
<1>4. IsSeries(t) /\ Len(t) = hi - 0 /\ \A i \in 1..hi - 0 : t[i] = samples[0 + i]
  BY <1>1, <1>3, SliceSeries DEF IsSlice
<1>5. Len(t) = hi /\ \A i \in 1..hi : t[i] = samples[i]
  <2>1. ASSUME NEW i \in 1..hi PROVE t[i] = samples[i]
    <3>1. i \in 1..hi - 0 /\ 0 + i = i
      BY <1>1
    <3> QED
      BY <1>4, <3>1
  <2> QED
    BY <1>1, <1>4, <2>1
<1>6. PICK tier : tier = Build(t, Minute, <<>>)
  OBVIOUS
<1>7. <<>> \in Previouses
  BY DEF Previouses
<1> DEFINE Q == [i \in 1..Len(t) |-> IF i = 1 THEN <<>> ELSE <<t[i - 1]>>]
<1>8. TierOf(tier, t, 0, Len(t), Q, Minute)
  BY <1>1, <1>4, <1>6, <1>7, BuildTier
<1>9. \A i \in 1..hi : Q[i] = BeforeOf(samples)[i]
  <2>1. ASSUME NEW i \in 1..hi PROVE Q[i] = BeforeOf(samples)[i]
    <3>1. i \in 1..Len(t) /\ i \in 1..Len(samples)
      BY <1>1, <1>5
    <3>2. i # 1 => i - 1 \in 1..hi
      BY <1>1
    <3> QED
      BY <1>5, <3>1, <3>2 DEF BeforeOf
  <2> QED
    BY <2>1
<1> HIDE DEF Q
<1>10. \A i \in 1..hi : BeforeOf(samples)[i] \in Previouses
  <2>1. \A i \in 1..hi : i \in 1..Len(samples)
    BY <1>1
  <2> QED
    BY <1>1, <2>1, BeforeIn
<1>11. ASSUME NEW x \in ToSet(tier) PROVE x.end \in Nat /\ x.end <= edge
  <2>1. tier \in Seq(Buckets(Minute)) /\ Len(tier) \in Nat
    BY <1>8 DEF TierOf
  <2>2. PICK k \in 1..Len(tier) : x = tier[k]
    BY <2>1 DEF ToSet
  <2>3. PICK b : TierBy(b, tier, t, 0, Len(t), Q, Minute)
    BY <1>8 DEF TierOf
  <2>4. k - 1 \in 0..Len(tier) /\ k \in 0..Len(tier)
    BY <2>1
  <2>5. PICK l \in 0..hi : l = b[k - 1]
    BY <1>5, <2>3, <2>4 DEF TierBy
  <2>6. PICK h \in 0..hi : h = b[k]
    BY <1>5, <2>3, <2>4 DEF TierBy
  <2>7. Made(x, t, l, h, Q, Minute)
    BY <2>2, <2>3, <2>5, <2>6 DEF TierBy
  <2>8. l \in Nat /\ h \in Nat /\ h <= Len(t) /\ \A i \in l + 1..h : i \in 1..hi
    BY <1>1, <1>5, <2>5, <2>6
  <2>9. \A i \in l + 1..h : Q[i] \in Previouses
    BY <1>9, <1>10, <2>8
  <2>10. /\ l < h /\ x \in Buckets(Minute) /\ Clean(x) /\ x.end = x.start + Minute
         /\ \A i \in l + 1..h : x.start = Start(t[i].at, Minute) /\ x.start <= t[i].at /\ t[i].at < x.end
    BY <1>1, <1>4, <2>7, <2>8, <2>9, MadeIs
  <2>11. h \in l + 1..h /\ h \in 1..Len(samples) /\ h <= hi
    BY <1>1, <2>5, <2>6, <2>10
  <2>12. samples[h].at \in Nat /\ samples[h].at < edge /\ t[h] = samples[h]
    <3>1. samples[h].at < edge
      BY <2>11 DEF Cut
    <3>2. samples[h].at \in Nat
      BY <1>1, <2>11, SampleFields
    <3> QED
      BY <1>5, <2>8, <2>11, <3>1, <3>2
  <2>13. x.start = Start(samples[h].at, Minute) /\ x.start <= samples[h].at
    BY <2>10, <2>11, <2>12
  <2>14. x.start \in Nat
    BY <1>1, <2>12, <2>13, StartMultiple
  <2>15. x.start + Minute <= edge
    BY <1>1, <2>12, <2>13, BucketEnd
  <2> QED
    BY <1>1, <2>10, <2>14, <2>15
<1>12. 0 + hi = Len(samples) \/ \A x \in ToSet(tier) : samples[0 + hi + 1].at >= x.end
  <2>1. CASE hi = Len(samples)
    BY <1>1, <2>1
  <2>2. CASE hi # Len(samples)
    <3>1. hi + 1 \in 1..Len(samples) /\ 0 + hi + 1 = hi + 1 /\ ~(hi + 1 <= hi)
      BY <1>1, <2>2
    <3>2. ~(samples[hi + 1].at < edge)
      BY <3>1 DEF Cut
    <3>3. samples[hi + 1].at \in Nat
      BY <1>1, <3>1, SampleFields
    <3>4. \A x \in ToSet(tier) : samples[hi + 1].at >= x.end
      BY <1>1, <1>11, <3>2, <3>3
    <3> QED
      BY <3>1, <3>4
  <2> QED
    BY <2>1, <2>2
<1>13. /\ hi \in Nat /\ hi <= hi - 0 /\ TierOf(tier, t, 0, hi, Q, Minute)
       /\ \A i \in 1..hi : Q[i] \in Previouses /\ BeforeOf(samples)[0 + i] = Q[i]
  <2>1. ASSUME NEW i \in 1..hi PROVE 0 + i = i
    BY <1>1
  <2>2. hi \in Nat /\ hi <= hi - 0
    BY <1>1
  <2> QED
    BY <1>5, <1>8, <1>9, <1>10, <2>1, <2>2
<1>14. TierOf(tier, samples, 0, 0 + hi, BeforeOf(samples), Minute)
  BY <1>1, <1>3, <1>12, <1>13, TierShift, ZenonT(60)
<1> QED
  BY <1>1, <1>2, <1>6, <1>14

LEMMA MadeStart ==
  ASSUME NEW s, IsSeries(s), NEW res \in Nat \ {0}, NEW lo \in Nat, NEW hi \in Nat, hi <= Len(s),
         NEW x, Made(x, s, lo, hi, LeftOf(s), res), NEW j \in lo + 1..hi
  PROVE  x.start = Start(s[j].at, res)
<1>1. Len(s) \in Nat
  BY DEF IsSeries
<1>2. ASSUME NEW i \in lo + 1..hi PROVE LeftOf(s)[i] \in Previouses
  <2>1. i \in 1..Len(s)
    BY <1>1
  <2> QED
    BY <2>1, BeforeIn
<1>3. PICK P : P = LeftOf(s) /\ Made(x, s, lo, hi, P, res) /\ \A i \in lo + 1..hi : P[i] \in Previouses
  BY <1>2
<1>4. /\ lo < hi /\ x \in Buckets(res) /\ Clean(x) /\ x.end = x.start + res
      /\ \A i \in lo + 1..hi : x.start = Start(s[i].at, res) /\ x.start <= s[i].at /\ s[i].at < x.end
  BY <1>3, MadeIs
<1> QED
  BY <1>4

(* Sealing window by window makes the buckets that one pass over the whole *)
(* series makes, but for the gap flag of the first bucket of a window.     *)
THEOREM SealedAsWholeAlways == Spec => []SealedAsWhole
<1>1. SeriesInv => SealedAsWhole
  <2> SUFFICES ASSUME SeriesInv PROVE SealedAsWhole
    OBVIOUS
  <2>1. PICK hi : /\ Cut(samples, edge, hi)
                  /\ TierOf(one, samples, 0, hi, LeftOf(samples), Minute)
    BY DEF SeriesInv
  <2>2. IsSeries(samples) /\ Minute \in Nat \ {0} /\ hi \in 0..Len(samples) /\ Len(samples) \in Nat
    BY <2>1, RollupAssumption DEF SeriesInv, Cut, IsSeries
  <2>3. PICK whole : whole = Build(SealedSamples, Minute, <<>>)
    OBVIOUS
  <2>4. TierOf(whole, samples, 0, hi, BeforeOf(samples), Minute)
    BY <2>1, <2>3, WholeTier
  <2>5. PICK b : TierBy(b, one, samples, 0, hi, LeftOf(samples), Minute)
    BY <2>1 DEF TierOf
  <2>6. PICK c : TierBy(c, whole, samples, 0, hi, BeforeOf(samples), Minute)
    BY <2>4 DEF TierOf
  <2>7. /\ one \in Seq(Buckets(Minute)) /\ whole \in Seq(Buckets(Minute)) /\ hi \in Nat
        /\ Len(one) \in Nat /\ Len(whole) \in Nat /\ DOMAIN one = 1..Len(one)
    BY <2>1, <2>2, <2>4 DEF TierOf
  <2>8. Len(one) <= Len(whole) /\ \A k \in 0..Len(one) : b[k] = c[k]
    BY <2>5, <2>6, <2>7, EndsMatch
  <2>9. Len(whole) <= Len(one)
    BY <2>5, <2>6, <2>7, EndsMatch
  <2>10. Len(one) = Len(whole)
    BY <2>7, <2>8, <2>9
  <2>11. ASSUME NEW i \in 1..Len(one)
         PROVE  /\ [one[i] EXCEPT !.quality = {}] = [whole[i] EXCEPT !.quality = {}]
                /\ one[i].quality \subseteq whole[i].quality
                /\ one[i].quality # whole[i].quality =>
                     i = 1 \/ Start(one[i - 1].start, Window) # Start(one[i].start, Window)
    <3>1. i - 1 \in 0..Len(one) /\ i \in 0..Len(one) /\ i \in 1..Len(whole)
      BY <2>7, <2>10
    <3>2. PICK l \in 0..hi : l = b[i - 1] /\ l = c[i - 1]
      BY <2>5, <2>8, <3>1 DEF TierBy
    <3>3. PICK h \in 0..hi : h = b[i] /\ h = c[i]
      BY <2>5, <2>8, <3>1 DEF TierBy
    <3>4. Made(one[i], samples, l, h, LeftOf(samples), Minute)
      BY <2>5, <3>2, <3>3 DEF TierBy
    <3>5. Made(whole[i], samples, l, h, BeforeOf(samples), Minute)
      BY <2>6, <3>1, <3>2, <3>3 DEF TierBy
    <3>6. l \in Nat /\ h \in Nat /\ h <= Len(samples) /\ l < h /\ l + 1 \in l + 1..h
      <4>1. l < h
        BY <3>4 DEF Made
      <4> QED
        BY <2>2, <4>1
    <3>7. /\ Alike(one[i], whole[i])
          /\ one[i].quality # whole[i].quality =>
               l > 0 /\ Start(samples[l + 1].at, Window) # Start(samples[l].at, Window)
      BY <2>2, <3>4, <3>5, <3>6, MadeAlike
    <3>8. one[i] \in Bucket(Flags) /\ whole[i] \in Bucket(Flags)
      <4>1. one[i] \in Buckets(Minute) /\ whole[i] \in Buckets(Minute)
        BY <2>7, <3>1
      <4> QED
        BY <4>1 DEF Buckets
    <3>9. [one[i] EXCEPT !.quality = {}] = [whole[i] EXCEPT !.quality = {}]
      <4>1. PICK x \in Bucket(Flags) : x = one[i]
        BY <3>8
      <4>2. PICK y \in Bucket(Flags) : y = whole[i]
        BY <3>8
      <4>3. [x EXCEPT !.quality = {}] = [y EXCEPT !.quality = {}]
        BY <3>7, <4>1, <4>2 DEF Alike, Bucket
      <4> QED
        BY <4>1, <4>2, <4>3
    <3>10. one[i].start = Start(samples[l + 1].at, Minute)
      BY <2>2, <3>4, <3>6, MadeStart
    <3>11. ASSUME i # 1 PROVE l \in 1..Len(samples) /\ one[i - 1].start = Start(samples[l].at, Minute)
      <4>1. i - 1 \in 1..Len(one) /\ (i - 1) - 1 \in 0..Len(one)
        BY <2>7, <3>11
      <4>2. PICK m \in 0..hi : m = b[(i - 1) - 1]
        BY <2>5, <4>1 DEF TierBy
      <4>3. Made(one[i - 1], samples, m, l, LeftOf(samples), Minute)
        BY <2>5, <3>2, <4>1, <4>2 DEF TierBy
      <4>4. m < l
        BY <4>3 DEF Made
      <4>5. m \in Nat /\ l \in m + 1..l /\ l \in Nat /\ l <= Len(samples) /\ l \in 1..Len(samples)
        BY <2>2, <4>4
      <4>6. one[i - 1].start = Start(samples[l].at, Minute)
        BY <2>2, <4>3, <4>5, MadeStart
      <4> QED
        BY <4>5, <4>6
    <3>12. ASSUME one[i].quality # whole[i].quality, i # 1
           PROVE  Start(one[i - 1].start, Window) # Start(one[i].start, Window)
      <4>1. l + 1 \in 1..Len(samples)
        BY <2>2, <3>6
      <4>2. samples[l].at \in Nat /\ samples[l + 1].at \in Nat
        BY <2>2, <3>11, <3>12, <4>1, SampleFields
      <4>3. Start(one[i - 1].start, Window) = Start(samples[l].at, Window)
        BY <3>11, <3>12, <4>2, WindowOfMinute
      <4>4. Start(one[i].start, Window) = Start(samples[l + 1].at, Window)
        BY <3>10, <4>2, WindowOfMinute
      <4> QED
        BY <3>7, <3>12, <4>3, <4>4
    <3> QED
      BY <3>7, <3>9, <3>12 DEF Alike
  <2> QED
    BY <2>3, <2>7, <2>10, <2>11 DEF SealedAsWhole
<1> QED
  BY <1>1, SeriesInvariant, PTL

-----------------------------------------------------------------------------
(* A point of a chart; a gap before the first bucket may be at -1.         *)
ChartPoint == [at : Int, num : Nat, den : Nat, kind : PointKinds, flagged : BOOLEAN]

(* A gap parts the points before t from those from t on.                   *)
Parts(ps, t) ==
  \E m \in 1..Len(ps) : /\ IsGap(ps[m])
                        /\ \A j \in 1..Len(ps) : (j < m => ps[j].at < t) /\ (j > m => ps[j].at >= t)

LEMMA PartsGrow ==
  ASSUME NEW ps \in Seq(ChartPoint), NEW t \in Int, Parts(ps, t), NEW p \in ChartPoint, p.at >= t
  PROVE  Parts(Append(ps, p), t)
<1>1. PICK m \in 1..Len(ps) : /\ IsGap(ps[m])
                              /\ \A j \in 1..Len(ps) : (j < m => ps[j].at < t) /\ (j > m => ps[j].at >= t)
  BY DEF Parts
<1>2. PICK n \in Nat : n = Len(ps)
  OBVIOUS
<1>3. PICK new : new = Append(ps, p)
  OBVIOUS
<1>4. Len(new) = n + 1 /\ new[n + 1] = p /\ \A j \in 1..n : new[j] = ps[j]
  BY <1>2, <1>3
<1>5. m \in 1..n /\ m \in 1..n + 1 /\ IsGap(new[m])
  BY <1>1, <1>2, <1>4
<1>6. ASSUME NEW j \in 1..n + 1 PROVE (j < m => new[j].at < t) /\ (j > m => new[j].at >= t)
  <2>1. CASE j = n + 1
    BY <1>4, <1>5, <2>1
  <2>2. CASE j # n + 1
    <3>1. j \in 1..n
      BY <1>2, <2>2
    <3> QED
      BY <1>1, <1>2, <1>4, <3>1
  <2> QED
    BY <2>1, <2>2
<1> QED
  BY <1>3, <1>4, <1>5, <1>6 DEF Parts

LEMMA PartsNew ==
  ASSUME NEW ps \in Seq(ChartPoint), NEW t \in Int, \A j \in 1..Len(ps) : ps[j].at < t,
         NEW p \in ChartPoint, IsGap(p)
  PROVE  Parts(Append(ps, p), t)
<1>1. PICK n \in Nat : n = Len(ps)
  OBVIOUS
<1>2. PICK new : new = Append(ps, p)
  OBVIOUS
<1>3. Len(new) = n + 1 /\ new[n + 1] = p /\ \A j \in 1..n : new[j] = ps[j]
  BY <1>1, <1>2
<1>4. ASSUME NEW j \in 1..n + 1 PROVE (j < n + 1 => new[j].at < t) /\ (j > n + 1 => new[j].at >= t)
  <2>1. j < n + 1 => j \in 1..n
    OBVIOUS
  <2> QED
    BY <1>1, <1>3, <2>1
<1> QED
  BY <1>2, <1>3, <1>4 DEF Parts

(* So no line is drawn over the moment t.                                  *)
LEMMA PartsLine ==
  ASSUME NEW ps \in Seq(ChartPoint), NEW t \in Int, Parts(ps, t), NEW from \in Int, from < t
  PROVE  ~Drawn(ps, from, t)
<1>1. PICK m \in 1..Len(ps) : /\ IsGap(ps[m])
                              /\ \A j \in 1..Len(ps) : (j < m => ps[j].at < t) /\ (j > m => ps[j].at >= t)
  BY DEF Parts
<1>2. SUFFICES ASSUME NEW i \in 1..Len(ps) - 1, ~IsGap(ps[i]), ~IsGap(ps[i + 1]),
                      ps[i].at <= from, ps[i + 1].at >= t
               PROVE  FALSE
  BY DEF Drawn
<1>3. i \in 1..Len(ps) /\ i + 1 \in 1..Len(ps) /\ Len(ps) \in Nat
  OBVIOUS
<1>4. ps[i].at \in Int /\ ps[i + 1].at \in Int
  <2>1. ps[i] \in ChartPoint /\ ps[i + 1] \in ChartPoint
    BY <1>3
  <2> QED
    BY <2>1 DEF ChartPoint
<1>5. ~(ps[i].at >= t) /\ ~(ps[i + 1].at < t)
  BY <1>2, <1>4
<1>6. ~(i > m) /\ ~(i + 1 < m)
  BY <1>1, <1>3, <1>5
<1>7. i = m \/ i + 1 = m
  BY <1>3, <1>6
<1> QED
  BY <1>1, <1>2, <1>7

-----------------------------------------------------------------------------
(* A sample within 5 % of a point.                                         *)
NearTo(s, p) == 100 * s.up * p.den >= 95 * p.num /\ 100 * s.up * p.den <= 105 * p.num

IsFlat(p) == p.kind = "flat_5pct"

(* Every sample under a segment drawn as flat is near to it.               *)
FlatPair(p, q, S) ==
  IsFlat(p) /\ IsFlat(q) /\ p.num = q.num /\ p.den = q.den =>
    \A s \in S : s.at \in p.at..q.at => NearTo(s, p)

Honest(ps, S) == \A i \in 1..Len(ps) - 1 : FlatPair(ps[i], ps[i + 1], S)

LEMMA HonestGrows ==
  ASSUME NEW ps \in Seq(ChartPoint), NEW S, Honest(ps, S), NEW p \in ChartPoint,
         ps # <<>> => FlatPair(ps[Len(ps)], p, S)
  PROVE  Honest(Append(ps, p), S)
<1>1. PICK n \in Nat : n = Len(ps)
  OBVIOUS
<1>2. PICK new : new = Append(ps, p)
  OBVIOUS
<1>3. Len(new) = n + 1 /\ new[n + 1] = p /\ \A j \in 1..n : new[j] = ps[j]
  BY <1>1, <1>2
<1>4. ASSUME NEW i \in 1..n PROVE FlatPair(new[i], new[i + 1], S)
  <2>1. CASE i = n
    <3>1. ps # <<>>
      BY <1>1, <2>1
    <3>2. FlatPair(ps[n], p, S)
      BY <1>1, <3>1
    <3> QED
      BY <1>3, <2>1, <3>2
  <2>2. CASE i # n
    <3>1. i \in 1..n - 1 /\ i + 1 \in 1..n
      BY <2>2
    <3>2. FlatPair(ps[i], ps[i + 1], S)
      BY <1>1, <3>1 DEF Honest
    <3> QED
      BY <1>3, <3>1, <3>2
  <2> QED
    BY <2>1, <2>2
<1>5. Len(new) - 1 = n
  BY <1>3
<1> QED
  BY <1>2, <1>4, <1>5 DEF Honest

-----------------------------------------------------------------------------
(* What a chart draws next is not before this.                             *)
Low(c, t) == IF c.group = <<>> THEN t ELSE c.group[1].start

Covering(c, t, S) ==
  c.group # <<>> =>
    \A s \in S : c.group[1].start <= s.at /\ s.at < t =>
      \E i \in 1..Len(c.group) : c.group[i].up.min <= s.up /\ s.up <= c.group[i].up.max

(* A chart that has drawn everything before t, and parts its points at     *)
(* every moment of B; S are the samples with a speed.                      *)
Drawing(c, t, B, S, maxSpan) ==
  /\ Grouped(c, maxSpan, Flags) /\ c.points \in Seq(ChartPoint)
  /\ \A j \in 1..Len(c.points) : c.points[j].at < t
  /\ c.group # <<>> => c.group[Len(c.group)].end = t /\ c.group[1].start < t
  /\ \A u \in B : Parts(c.points, u) /\ u <= Low(c, t)
  /\ Honest(c.points, S)
  /\ c.points # <<>> /\ IsFlat(c.points[Len(c.points)]) =>
       \A s \in S : c.points[Len(c.points)].at <= s.at /\ s.at < Low(c, t) =>
         NearTo(s, c.points[Len(c.points)])
  /\ Covering(c, t, S)

(* The samples with a speed, as far as charts look at them.                *)
IsSpeeds(S) == \A s \in S : s.at \in Nat /\ s.up \in Nat

(* A point that is not flat, once the group is drawn.                      *)
LEMMA DrawingAppends ==
  ASSUME NEW c, NEW t \in Int, NEW B \in SUBSET Int, NEW S, IsSpeeds(S), NEW maxSpan,
         Drawing(c, t, B, S, maxSpan), c.group = <<>>,
         NEW p \in ChartPoint, ~IsFlat(p), \A u \in B : u <= p.at,
         NEW v \in Int, t <= v, p.at < v,
         NEW n, IsChart(n), n.points = Append(c.points, p), n.group = <<>>, n.stat = NoStat
  PROVE  Drawing(n, v, B, S, maxSpan)
<1>1. PICK ps \in Seq(ChartPoint) : ps = c.points
  BY DEF Drawing
<1>2. PICK L \in Nat : L = Len(ps)
  OBVIOUS
<1>3. PICK new \in Seq(ChartPoint) : new = n.points /\ new = Append(ps, p)
  <2>1. n.points = Append(ps, p)
    BY <1>1
  <2> QED
    BY <2>1, AppendIn
<1>4. Len(new) = L + 1 /\ new[L + 1] = p /\ \A j \in 1..L : new[j] = ps[j]
  BY <1>2, <1>3
<1>5. Grouped(n, maxSpan, Flags)
  BY EmptyGroup
<1>6. ASSUME NEW j \in 1..L + 1 PROVE new[j].at < v
  <2>1. CASE j = L + 1
    BY <1>4, <2>1
  <2>2. CASE j # L + 1
    <3>1. j \in 1..L
      BY <2>2
    <3>2. ps[j].at < t /\ ps[j].at \in Int
      <4>1. ps[j] \in ChartPoint
        BY <1>2, <3>1
      <4> QED
        BY <1>1, <1>2, <3>1, <4>1 DEF Drawing, ChartPoint
    <3> QED
      BY <1>4, <3>1, <3>2
  <2> QED
    BY <2>1, <2>2
<1>7. ASSUME NEW u \in B PROVE Parts(new, u) /\ u <= v
  <2>1. Parts(ps, u) /\ u <= t /\ u \in Int
    BY <1>1 DEF Drawing, Low
  <2>2. p.at >= u
    <3>1. u <= p.at /\ p.at \in Int
      BY DEF ChartPoint
    <3> QED
      BY <2>1, <3>1
  <2> QED
    BY <1>3, <2>1, <2>2, PartsGrow
<1>8. Honest(new, S)
  <2>1. Honest(ps, S)
    BY <1>1 DEF Drawing
  <2>2. ps # <<>> => FlatPair(ps[Len(ps)], p, S)
    BY DEF FlatPair
  <2> QED
    BY <1>3, <2>1, <2>2, HonestGrows
<1>9. ~IsFlat(n.points[Len(n.points)])
  BY <1>3, <1>4
<1>10. Covering(n, v, S)
  BY DEF Covering
<1> QED
  BY <1>3, <1>4, <1>5, <1>6, <1>7, <1>8, <1>9, <1>10 DEF Drawing, Low

(* What lies within a bucket of the group is near to the line of the group.*)
LEMMA GroupNear ==
  ASSUME NEW maxSpan, NEW c, Grouped(c, maxSpan, Flags), NEW i \in 1..Len(c.group),
         NEW s, s.up \in Nat, c.group[i].up.min <= s.up, s.up <= c.group[i].up.max,
         NEW p, p.num = c.stat.sum, p.den = c.stat.weight
  PROVE  NearTo(s, p)
<1>1. c.group # <<>> /\ c.group[i].up \in Stat
  <2>1. c.group \in Seq(Bucket(Flags))
    BY DEF Grouped
  <2>2. c.group # <<>> /\ c.group[i] \in Bucket(Flags)
    BY <2>1
  <2> QED
    BY <2>2 DEF Bucket
<1>2. PICK x \in Stat : x = c.group[i].up
  BY <1>1
<1>3. Near(x, c.stat) /\ c.stat \in Stat
  BY <1>1, <1>2, GroupHonest DEF Grouped, Sound
<1>4. PICK w \in Nat, z \in Nat : w = c.stat.weight /\ z = c.stat.sum
  BY <1>3, StatNumbers
<1>5. PICK lo \in Nat, hi \in Nat, v \in Nat : lo = x.min /\ hi = x.max /\ v = s.up
  BY StatNumbers
<1>6. 100 * lo * w >= 95 * z /\ 100 * hi * w <= 105 * z
  BY <1>3, <1>4, <1>5 DEF Near
<1>7. lo <= v /\ v <= hi
  BY <1>2, <1>5
<1>8. 100 * lo * w <= 100 * v * w /\ 100 * v * w <= 100 * hi * w
  <2>1. 100 * lo \in Nat /\ 100 * v \in Nat /\ 100 * hi \in Nat /\ 100 * lo <= 100 * v /\ 100 * v <= 100 * hi
    BY <1>7
  <2> QED
    BY <2>1, Scaled
<1>9. 100 * lo * w \in Nat /\ 100 * v * w \in Nat /\ 100 * hi * w \in Nat /\ 95 * z \in Nat /\ 105 * z \in Nat
  OBVIOUS
<1>10. 100 * v * w >= 95 * z /\ 100 * v * w <= 105 * z
  BY <1>6, <1>8, <1>9
<1> QED
  BY <1>4, <1>5, <1>10 DEF NearTo

(* The group is drawn.                                                     *)
LEMMA DrawingEmits ==
  ASSUME NEW c, NEW t \in Int, NEW B \in SUBSET Int, NEW S, IsSpeeds(S), NEW maxSpan,
         Drawing(c, t, B, S, maxSpan)
  PROVE  Drawing(EmitFlat(c), t, B, S, maxSpan) /\ EmitFlat(c).group = <<>> /\ EmitFlat(c).lastEnd = c.lastEnd
<1>1. CASE c.group = <<>>
  BY <1>1 DEF EmitFlat
<1>2. CASE c.group # <<>>
  <2>1. PICK g \in Seq(Bucket(Flags)) : g = c.group
    BY DEF Drawing, Grouped
  <2>2. PICK G \in Nat : G = Len(g) /\ G >= 1
    BY <1>2, <2>1
  <2>3. PICK st \in Stat : st = c.stat
    BY <1>2 DEF Drawing, Grouped, Sound
  <2>4. PICK b \in Nat : b = g[1].start /\ b < t /\ g[G].end = t
    <3>1. g[1] \in Bucket(Flags)
      BY <2>2
    <3>2. g[1].start \in Nat
      BY <3>1 DEF Bucket
    <3> QED
      BY <1>2, <2>1, <2>2, <3>2 DEF Drawing
  <2>5. PICK ps \in Seq(ChartPoint) : ps = c.points
    BY DEF Drawing
  <2> DEFINE p == Point(b, st.sum, st.weight, "flat_5pct")
             q == Point(t - 1, st.sum, st.weight, "flat_5pct")
             e == EmitFlat(c)
  <2>6. e = [c EXCEPT !.points = ps \o <<p, q>>, !.group = <<>>, !.stat = NoStat]
    <3>1. Head(g).start = b /\ Last(g).end - 1 = t - 1
      BY <2>2, <2>4 DEF Last
    <3> QED
      BY <1>2, <2>1, <2>3, <2>5, <3>1 DEF EmitFlat
  <2>7. p \in ChartPoint /\ q \in ChartPoint
    <3>1. st.sum \in Nat /\ st.weight \in Nat
      BY StatNumbers
    <3> QED
      BY <3>1 DEF ChartPoint, Point, PointKinds
  <2>8. /\ p.at = b /\ q.at = t - 1 /\ p.num = st.sum /\ q.num = st.sum /\ p.den = st.weight /\ q.den = st.weight
        /\ IsFlat(p) /\ IsFlat(q)
    BY DEF Point, IsFlat
  <2> HIDE DEF p, q
  <2>9. PICK one1 \in Seq(ChartPoint) : one1 = Append(ps, p)
    BY <2>7, AppendIn
  <2>10. PICK two \in Seq(ChartPoint) : two = Append(one1, q)
    BY <2>7, AppendIn
  <2>11. IsChart(e) /\ e.points = two /\ e.group = <<>> /\ e.stat = NoStat /\ e.lastEnd = c.lastEnd
    <3>1. IsChart(c)
      BY DEF Drawing, Grouped
    <3>2. ps \o <<p, q>> = two
      BY <2>7, <2>9, <2>10
    <3> QED
      BY <2>6, <3>1, <3>2 DEF IsChart
  <2> HIDE DEF e
  <2>12. PICK n \in Nat : n = Len(ps)
    OBVIOUS
  <2>13. /\ Len(two) = n + 2 /\ Len(one1) = n + 1 /\ one1[n + 1] = p /\ two[n + 1] = p /\ two[n + 2] = q
         /\ \A j \in 1..n : two[j] = ps[j]
    BY <2>7, <2>9, <2>10, <2>12
  <2>14. Grouped(e, maxSpan, Flags)
    BY <2>11, EmptyGroup
  <2>15. ASSUME NEW j \in 1..n + 2 PROVE two[j].at < t
    <3>1. CASE j = n + 1 \/ j = n + 2
      BY <2>4, <2>8, <2>13, <3>1
    <3>2. CASE j # n + 1 /\ j # n + 2
      <4>1. j \in 1..n
        BY <3>2
      <4> QED
        BY <2>5, <2>12, <2>13, <4>1 DEF Drawing
    <3> QED
      BY <3>1, <3>2
  <2>16. ASSUME NEW u \in B PROVE Parts(two, u) /\ u <= t
    <3>1. Parts(ps, u) /\ u <= b /\ u \in Int
      BY <1>2, <2>1, <2>4, <2>5 DEF Drawing, Low
    <3>2. p.at >= u /\ q.at >= u /\ u <= t
      BY <2>4, <2>8, <3>1
    <3>3. Parts(one1, u)
      BY <2>7, <2>9, <3>1, <3>2, PartsGrow
    <3> QED
      BY <2>7, <2>10, <3>1, <3>2, <3>3, PartsGrow
  <2>17. ASSUME NEW s \in S, b <= s.at, s.at < t PROVE NearTo(s, p) /\ NearTo(s, q)
    <3>1. PICK i \in 1..Len(c.group) : c.group[i].up.min <= s.up /\ s.up <= c.group[i].up.max
      BY <1>2, <2>1, <2>4, <2>17 DEF Drawing, Covering
    <3>2. s.up \in Nat
      BY DEF IsSpeeds
    <3>3. Grouped(c, maxSpan, Flags)
      BY DEF Drawing
    <3> QED
      BY <2>3, <2>8, <3>1, <3>2, <3>3, GroupNear
  <2>18. Honest(one1, S)
    <3>1. Honest(ps, S)
      BY <2>5 DEF Drawing
    <3>2. ASSUME ps # <<>> PROVE FlatPair(ps[Len(ps)], p, S)
      <4>1. PICK l \in ChartPoint : l = ps[Len(ps)] /\ l = c.points[Len(c.points)]
        BY <2>5, <3>2
      <4>2. SUFFICES ASSUME IsFlat(l), l.num = p.num, l.den = p.den, NEW s \in S, s.at \in l.at..p.at
                     PROVE  NearTo(s, l)
        BY <4>1 DEF FlatPair
      <4>3. s.at \in Nat /\ l.at \in Int
        BY DEF IsSpeeds, ChartPoint
      <4>4. l.at <= s.at /\ s.at <= b
        BY <2>8, <4>2, <4>3
      <4>5. CASE s.at = b
        <5>1. NearTo(s, p)
          BY <2>4, <2>17, <4>5
        <5> QED
          BY <4>2, <5>1 DEF NearTo
      <4>6. CASE s.at # b
        <5>1. s.at < Low(c, t)
          BY <1>2, <2>1, <2>4, <4>3, <4>4, <4>6 DEF Low
        <5> QED
          BY <2>5, <3>2, <4>1, <4>2, <4>4, <5>1 DEF Drawing
      <4> QED
        BY <4>5, <4>6
    <3> QED
      BY <2>7, <2>9, <3>1, <3>2, HonestGrows
  <2>19. Honest(two, S)
    <3>1. one1[Len(one1)] = p
      BY <2>13
    <3>2. FlatPair(p, q, S)
      <4>1. SUFFICES ASSUME NEW s \in S, s.at \in p.at..q.at PROVE NearTo(s, p)
        BY DEF FlatPair
      <4>2. s.at \in Nat
        BY DEF IsSpeeds
      <4>3. b <= s.at /\ s.at < t
        BY <2>8, <4>1, <4>2
      <4> QED
        BY <2>17, <4>3
    <3> QED
      BY <2>7, <2>10, <2>18, <3>1, <3>2, HonestGrows
  <2>20. ASSUME NEW s \in S, q.at <= s.at, s.at < t PROVE NearTo(s, q)
    <3>1. s.at \in Nat
      BY DEF IsSpeeds
    <3>2. b <= s.at
      BY <2>4, <2>8, <2>20, <3>1
    <3> QED
      BY <2>17, <2>20, <3>2
  <2>21. e.points[Len(e.points)] = q
    BY <2>11, <2>13
  <2>22. Covering(e, t, S)
    BY <2>11 DEF Covering
  <2>23. Low(e, t) = t
    BY <2>11 DEF Low
  <2>24. Drawing(e, t, B, S, maxSpan)
    BY <2>11, <2>13, <2>14, <2>15, <2>16, <2>19, <2>20, <2>21, <2>22, <2>23 DEF Drawing
  <2> QED
    BY <2>11, <2>24 DEF e
<1> QED
  BY <1>1, <1>2

LEMMA NullIs ==
  ASSUME NEW t \in Int
  PROVE  Null(t) \in ChartPoint /\ IsGap(Null(t)) /\ ~IsFlat(Null(t)) /\ Null(t).at = t
  BY DEF Null, Point, ChartPoint, PointKinds, IsGap, IsFlat

EndsInGap(n, c, t, p) ==
  /\ n.group = <<>> /\ n.lastEnd = c.lastEnd
  /\ \E ps \in Seq(ChartPoint) : /\ n.points = Append(ps, Null(p))
                                 /\ \A j \in 1..Len(ps) : ps[j].at < t

(* A gap at p after all that was drawn before t.                           *)
LEMMA DrawingGap ==
  ASSUME NEW c, NEW t \in Int, NEW B \in SUBSET Int, NEW S, IsSpeeds(S), NEW maxSpan,
         Drawing(c, t, B, S, maxSpan), NEW p \in Int, \A u \in B : u <= p, NEW v \in Int, t <= v, p < v
  PROVE  Drawing(Break(c, p), v, B, S, maxSpan) /\ EndsInGap(Break(c, p), c, t, p)
<1>1. PICK e : e = EmitFlat(c)
  OBVIOUS
<1>2. Drawing(e, t, B, S, maxSpan) /\ e.group = <<>> /\ e.lastEnd = c.lastEnd
  BY <1>1, DrawingEmits
<1>3. PICK n : n = Break(c, p)
  OBVIOUS
<1>4. n = [e EXCEPT !.points = Append(e.points, Null(p))]
  BY <1>1, <1>3 DEF Break
<1>5. IsChart(e) /\ e.stat = NoStat /\ e.points \in Seq(ChartPoint) /\ \A j \in 1..Len(e.points) : e.points[j].at < t
  BY <1>2 DEF Drawing, Grouped
<1>6. IsChart(n) /\ n.points = Append(e.points, Null(p)) /\ n.group = <<>> /\ n.stat = NoStat /\ n.lastEnd = c.lastEnd
  BY <1>2, <1>4, <1>5 DEF IsChart
<1>7. Drawing(n, v, B, S, maxSpan)
  <2>1. PICK q : q = Null(p)
    OBVIOUS
  <2>2. q \in ChartPoint /\ ~IsFlat(q) /\ q.at = p
    BY <2>1, NullIs
  <2> QED
    BY <1>2, <1>6, <2>1, <2>2, DrawingAppends
<1> QED
  BY <1>3, <1>5, <1>6, <1>7 DEF EndsInGap

(* A gap before x parts what was drawn from what comes.                    *)
LEMMA DrawingBreaks ==
  ASSUME NEW c, NEW t \in Int, NEW B \in SUBSET Int, NEW S, IsSpeeds(S), NEW maxSpan,
         Drawing(c, t, B, S, maxSpan), \A u \in B : u < t, NEW x \in Int, t <= x
  PROVE  /\ Drawing(Break(c, x - 1), x, B \cup {x}, S, maxSpan)
         /\ Break(c, x - 1).lastEnd = c.lastEnd
<1>1. PICK n : n = Break(c, x - 1)
  OBVIOUS
<1>2. x - 1 \in Int /\ x - 1 < x /\ \A u \in B : u <= x - 1
  OBVIOUS
<1>3. Drawing(n, x, B, S, maxSpan) /\ EndsInGap(n, c, t, x - 1) /\ n.group = <<>> /\ n.lastEnd = c.lastEnd
  <2>1. Drawing(Break(c, x - 1), x, B, S, maxSpan) /\ EndsInGap(Break(c, x - 1), c, t, x - 1)
    <3>1. PICK p \in Int : p = x - 1
      BY <1>2
    <3>2. p < x /\ \A u \in B : u <= p
      BY <1>2, <3>1
    <3>3. Drawing(Break(c, p), x, B, S, maxSpan) /\ EndsInGap(Break(c, p), c, t, p)
      BY <3>2, DrawingGap
    <3> QED
      BY <3>1, <3>3
  <2> QED
    BY <1>1, <2>1 DEF EndsInGap
<1>4. PICK ps \in Seq(ChartPoint) : /\ n.points = Append(ps, Null(x - 1))
                                    /\ \A j \in 1..Len(ps) : ps[j].at < t
  BY <1>3 DEF EndsInGap
<1>5. Parts(n.points, x)
  <2>1. \A j \in 1..Len(ps) : ps[j].at < x
    <3>1. ASSUME NEW j \in 1..Len(ps) PROVE ps[j].at < x
      <4>1. ps[j] \in ChartPoint
        OBVIOUS
      <4>2. ps[j].at \in Int /\ ps[j].at < t
        BY <1>4, <4>1 DEF ChartPoint
      <4> QED
        BY <4>2
    <3> QED
      BY <3>1
  <2>2. Null(x - 1) \in ChartPoint /\ IsGap(Null(x - 1))
    BY <1>2, NullIs
  <2> QED
    BY <1>4, <2>1, <2>2, PartsNew
<1>6. Low(n, x) = x
  BY <1>3 DEF Low
<1>7. \A u \in B \cup {x} : Parts(n.points, u) /\ u <= Low(n, x)
  BY <1>3, <1>5, <1>6 DEF Drawing
<1>8. Drawing(n, x, B \cup {x}, S, maxSpan)
  BY <1>3, <1>7 DEF Drawing
<1> QED
  BY <1>1, <1>3, <1>8

(* A bucket that starts at t, and what it tells of the samples S.          *)
Fits(x, t, S) ==
  /\ x \in Bucket(Flags) /\ Sound(x.up) /\ x.start = t /\ t < x.end
  /\ \A s \in S : t <= s.at /\ s.at < x.end => x.up.min <= s.up /\ s.up <= x.up.max

(* The group takes a bucket.                                               *)
LEMMA DrawingTakes ==
  ASSUME NEW c, NEW t \in Int, NEW B \in SUBSET Int, NEW S, IsSpeeds(S), NEW maxSpan,
         Drawing(c, t, B, S, maxSpan), NEW x, Fits(x, t, S),
         NEW n, Grouped(n, maxSpan, Flags), n.points = c.points, n.group = Append(c.group, x)
  PROVE  Drawing(n, x.end, B, S, maxSpan)
<1>1. PICK g \in Seq(Bucket(Flags)) : g = c.group
  BY DEF Drawing, Grouped
<1>2. PICK G \in Nat : G = Len(g)
  OBVIOUS
<1>3. PICK ps \in Seq(ChartPoint) : ps = c.points
  BY DEF Drawing
<1>4. PICK v \in Nat : v = x.end /\ t < v /\ x.start = t
  BY DEF Fits, Bucket
<1>5. PICK m \in Seq(Bucket(Flags)) : m = Append(g, x)
  BY AppendIn DEF Fits
<1>6. m = n.group /\ Len(m) = G + 1 /\ m[G + 1] = x /\ (\A i \in 1..G : m[i] = g[i]) /\ m # <<>>
  <2>1. m = n.group
    BY <1>1, <1>5
  <2>2. Len(m) = G + 1 /\ m[G + 1] = x /\ \A i \in 1..G : m[i] = g[i]
    BY <1>2, <1>5 DEF Fits
  <2>3. ASSUME m = <<>> PROVE FALSE
    <3>1. Len(m) = 0
      BY <2>3
    <3> QED
      BY <2>2, <3>1
  <2> QED
    BY <2>1, <2>2, <2>3
<1>7. Low(c, t) = n.group[1].start /\ Low(n, v) = n.group[1].start /\ n.group[1].start <= t /\ n.group[1].start \in Int
  <2>1. Low(n, v) = m[1].start
    BY <1>6 DEF Low
  <2>2. CASE g = <<>>
    <3>1. m[1] = x
      BY <1>2, <1>6, <2>2
    <3> QED
      BY <1>1, <1>4, <1>6, <2>1, <2>2, <3>1 DEF Low
  <2>3. CASE g # <<>>
    <3>1. m[1] = g[1] /\ 1 \in 1..G
      BY <1>2, <1>6, <2>3
    <3>2. g[1] \in Bucket(Flags)
      BY <1>2, <3>1
    <3>3. g[1].start \in Nat /\ g[1].start < t
      BY <1>1, <2>3, <3>2 DEF Drawing, Bucket
    <3> QED
      BY <1>1, <1>6, <2>1, <2>3, <3>1, <3>3 DEF Low
  <2> QED
    BY <2>2, <2>3
<1>8. \A j \in 1..Len(ps) : ps[j].at < v
  <2>1. ASSUME NEW j \in 1..Len(ps) PROVE ps[j].at < v
    <3>1. ps[j] \in ChartPoint
      OBVIOUS
    <3>2. ps[j].at \in Int /\ ps[j].at < t
      BY <1>3, <3>1 DEF Drawing, ChartPoint
    <3> QED
      BY <1>4, <3>2
  <2> QED
    BY <2>1
<1>9. n.group[Len(n.group)].end = v /\ n.group[1].start < v
  BY <1>4, <1>6, <1>7
<1>10. \A u \in B : Parts(ps, u) /\ u <= Low(n, v)
  BY <1>3, <1>7 DEF Drawing
<1>11. ps # <<>> /\ IsFlat(ps[Len(ps)]) =>
         \A s \in S : ps[Len(ps)].at <= s.at /\ s.at < Low(n, v) => NearTo(s, ps[Len(ps)])
  BY <1>3, <1>7 DEF Drawing
<1>12. Covering(n, v, S)
  <2>1. SUFFICES ASSUME NEW s \in S, m[1].start <= s.at, s.at < v
                 PROVE  \E i \in 1..Len(m) : m[i].up.min <= s.up /\ s.up <= m[i].up.max
    BY <1>6 DEF Covering
  <2>2. s.at \in Nat
    BY DEF IsSpeeds
  <2>3. CASE t <= s.at
    <3>1. x.up.min <= s.up /\ s.up <= x.up.max
      BY <1>4, <2>1, <2>3 DEF Fits
    <3>2. G + 1 \in 1..Len(m)
      BY <1>6
    <3> QED
      BY <1>6, <3>1, <3>2
  <2>4. CASE s.at < t
    <3>1. g # <<>>
      <4>1. ASSUME g = <<>> PROVE FALSE
        <5>1. m[1] = x
          BY <1>2, <1>6, <4>1
        <5> QED
          BY <1>4, <2>1, <2>2, <2>4, <5>1
      <4> QED
        BY <4>1
    <3>2. m[1] = g[1]
      BY <1>2, <1>6, <3>1
    <3>3. PICK i \in 1..G : g[i].up.min <= s.up /\ s.up <= g[i].up.max
      BY <1>1, <1>2, <2>1, <2>4, <3>1, <3>2 DEF Drawing, Covering
    <3>4. i \in 1..Len(m) /\ m[i] = g[i]
      BY <1>6
    <3> QED
      BY <3>3, <3>4
  <2>5. t <= s.at \/ s.at < t
    BY <2>2
  <2> QED
    BY <2>3, <2>4, <2>5
<1>13. Honest(ps, S)
  BY <1>3 DEF Drawing
<1> QED
  BY <1>3, <1>4, <1>6, <1>8, <1>9, <1>10, <1>11, <1>12, <1>13 DEF Drawing

(* The speed of the bucket that starts where the chart ends.               *)
LEMMA DrawingSpeed ==
  ASSUME NEW c, NEW t \in Nat, NEW B \in SUBSET Int, NEW S, IsSpeeds(S), NEW maxSpan,
         Drawing(c, t, B, S, maxSpan), NEW x, Fits(x, t, S)
  PROVE  Drawing(AddSpeed(c, x, t, FALSE, maxSpan), x.end, B, S, maxSpan)
<1>10. PICK part \in BOOLEAN : part = FALSE
  OBVIOUS
<1>0. PICK n : n = AddSpeed(c, x, t, part, maxSpan)
  OBVIOUS
<1>1. PICK v \in Nat : v = x.end /\ t < v
  BY DEF Fits, Bucket
<1>2. x \in Bucket(Flags) /\ Sound(x.up) /\ x.up.weight \in Nat /\ x.up.sum \in Nat
  BY StatNumbers DEF Fits, Sound
<1>3. Grouped(n, maxSpan, Flags)
  <2>1. Grouped(c, maxSpan, Flags)
    BY DEF Drawing
  <2> QED
    BY <1>0, <1>2, <2>1, SpeedGrouped
<1>4. \A u \in B : u <= t
  <2>1. Low(c, t) \in Int /\ Low(c, t) <= t
    <3>1. CASE c.group = <<>>
      BY <3>1 DEF Low
    <3>2. CASE c.group # <<>>
      <4>1. c.group \in Seq(Bucket(Flags))
        BY DEF Drawing, Grouped
      <4>2. c.group[1] \in Bucket(Flags)
        BY <3>2, <4>1
      <4>3. c.group[1].start \in Nat /\ c.group[1].start < t
        BY <3>2, <4>2 DEF Bucket, Drawing
      <4> QED
        BY <3>2, <4>3 DEF Low
    <3> QED
      BY <3>1, <3>2
  <2>2. \A u \in B : u <= Low(c, t)
    BY DEF Drawing
  <2> QED
    BY <2>1, <2>2
<1>8. x.up.weight \in Nat /\ (x.up.weight = 0 \/ x.up.weight > 0)
  BY <1>2
<1>9. t \in Int /\ x.end \in Int /\ v \in Int
  BY <1>1
<1> SUFFICES Drawing(n, v, B, S, maxSpan)
  BY <1>0, <1>1, <1>10
<1>5. CASE x.up.weight = 0
  <2>1. n = Break(c, t)
    BY <1>0, <1>5 DEF AddSpeed
  <2>2. Drawing(Break(c, t), v, B, S, maxSpan)
    <3>1. t \in Int /\ v \in Int /\ t <= v
      BY <1>1
    <3> QED
      BY <1>1, <1>4, <3>1, DrawingGap
  <2> QED
    BY <1>1, <2>1, <2>2
<1>6. CASE x.up.weight > 0 /\ Accepts(c, x, part, maxSpan)
  <2>1. n = [c EXCEPT !.group = Append(@, x), !.stat = MergeStat(@, x.up)]
    BY <1>0, <1>6, <1>8 DEF AddSpeed
  <2>2. IsChart(c)
    BY DEF Drawing, Grouped
  <2>3. n.points = c.points /\ n.group = Append(c.group, x)
    BY <2>1, <2>2 DEF IsChart
  <2> QED
    BY <1>1, <1>3, <1>9, <2>3, DrawingTakes
<1>7. CASE x.up.weight > 0 /\ ~Accepts(c, x, part, maxSpan)
  <2>1. PICK e : e = EmitFlat(c)
    OBVIOUS
  <2>2. Drawing(e, t, B, S, maxSpan) /\ e.group = <<>>
    BY <2>1, DrawingEmits
  <2>3. IsChart(e) /\ e.stat = NoStat
    BY <2>2 DEF Drawing, Grouped
  <2>4. n = IF Flat(x.up, x.quality)
            THEN [e EXCEPT !.group = <<x>>, !.stat = x.up]
            ELSE [e EXCEPT !.points =
                    Append(@, Point(t, x.up.sum, x.up.weight, "weighted_mean"))]
    <3>1. n = IF Flat(x.up, x.quality) /\ ~part
              THEN [e EXCEPT !.group = <<x>>, !.stat = x.up]
              ELSE [e EXCEPT !.points =
                      Append(@, Point(t, x.up.sum, x.up.weight, "weighted_mean"))]
      BY <1>0, <1>7, <1>8, <2>1 DEF AddSpeed
    <3> QED
      BY <1>10, <3>1
  <2>5. CASE Flat(x.up, x.quality)
    <3>1. n.points = e.points /\ n.group = <<x>>
      BY <2>3, <2>4, <2>5 DEF IsChart
    <3>2. n.group = Append(e.group, x)
      BY <2>2, <3>1
    <3> QED
      BY <1>1, <1>3, <1>9, <2>2, <3>1, <3>2, DrawingTakes
  <2>6. CASE ~Flat(x.up, x.quality)
    <3>1. PICK p : p = Point(t, x.up.sum, x.up.weight, "weighted_mean")
      OBVIOUS
    <3>2. p \in ChartPoint /\ ~IsFlat(p) /\ p.at = t
      BY <1>2, <3>1 DEF Point, ChartPoint, PointKinds, IsFlat
    <3>3. IsChart(n) /\ n.points = Append(e.points, p) /\ n.group = <<>> /\ n.stat = NoStat
      BY <2>2, <2>3, <2>4, <2>6, <3>1 DEF IsChart
    <3>4. (\A u \in B : u <= p.at) /\ t <= v /\ p.at < v
      BY <1>1, <1>4, <3>2
    <3> QED
      BY <1>1, <1>4, <1>9, <2>2, <3>2, <3>3, <3>4, DrawingAppends
  <2> QED
    BY <2>5, <2>6
<1> QED
  BY <1>8, <1>5, <1>6, <1>7

(* Nothing is drawn yet, whatever comes first.                             *)
LEMMA DrawingNew ==
  ASSUME NEW t, NEW S, NEW maxSpan
  PROVE  Drawing(NewChart, t, {}, S, maxSpan)
<1>1. Grouped(NewChart, maxSpan, Flags)
  BY NewGrouped
<1>2. NewChart.points = <<>> /\ NewChart.group = <<>>
  BY DEF NewChart
<1>3. Honest(<<>>, S)
  BY DEF Honest
<1> QED
  BY <1>1, <1>2, <1>3 DEF Drawing, Covering

LEMMA DrawingLess ==
  ASSUME NEW c, NEW t, NEW B, NEW D \in SUBSET B, NEW S, NEW maxSpan, Drawing(c, t, B, S, maxSpan)
  PROVE  Drawing(c, t, D, S, maxSpan)
  BY DEF Drawing

(* A bucket of a tier, in whole.                                           *)
LEMMA DrawingBucket ==
  ASSUME NEW c, NEW t \in Nat, NEW B \in SUBSET Int, NEW S, IsSpeeds(S), NEW maxSpan,
         Drawing(c, t, B, S, maxSpan), \A u \in B : u < t, c.lastEnd = t,
         NEW x, Fits(x, x.start, S), t <= x.start, NEW e \in Nat, x.end <= e,
         t = 0 => Drawing(c, x.start, B, S, maxSpan),
         NEW D, D = (IF (t > 0 /\ x.start > t) \/ "GapBefore" \in x.quality THEN B \cup {x.start} ELSE B),
         NEW n, n = AddBucket(c, x, 0, e, maxSpan)
  PROVE  Drawing(n, x.end, D, S, maxSpan) /\ n.lastEnd = x.end
<1>1. PICK a \in Nat, z \in Nat : a = x.start /\ z = x.end /\ a < z
  BY DEF Fits, Bucket
<1>2. PICK partial \in BOOLEAN : partial = (x.start < 0 \/ x.end > e) /\ partial = FALSE
  <2>1. ~(x.start < 0 \/ x.end > e)
    BY <1>1
  <2> QED
    BY <2>1, Zenon
<1>3. Max({x.start, 0}) = a
  BY <1>1, LargerOfTwo
<1>4. PICK broken \in BOOLEAN : broken = ((c.lastEnd > 0 /\ x.start > c.lastEnd) \/ "GapBefore" \in x.quality)
  OBVIOUS
<1>5. PICK fresh : fresh = IF broken THEN Break(c, a - 1) ELSE c
  OBVIOUS
<1>6. D \in SUBSET Int /\ Drawing(fresh, a, D, S, maxSpan)
  <2>1. CASE broken
    <3>1. D = B \cup {a} /\ fresh = Break(c, a - 1)
      BY <1>1, <1>4, <1>5, <2>1
    <3>2. Drawing(Break(c, a - 1), a, B \cup {a}, S, maxSpan)
      <4>1. t \in Int /\ a \in Int /\ t <= a
        BY <1>1
      <4> QED
        BY <4>1, DrawingBreaks
    <3>3. B \cup {a} \in SUBSET Int
      OBVIOUS
    <3> QED
      BY <3>1, <3>2, <3>3
  <2>2. CASE ~broken
    <3>1. D = B /\ fresh = c
      BY <1>4, <1>5, <2>2
    <3>2. t = 0 \/ a = t
      <4>1. ~(c.lastEnd > 0 /\ x.start > c.lastEnd)
        BY <1>4, <2>2, Zenon
      <4> QED
        BY <1>1, <4>1
    <3> QED
      BY <1>1, <3>1, <3>2
  <2> QED
    BY <2>1, <2>2
<1>7. PICK s : s = AddSpeed(fresh, x, a, FALSE, maxSpan)
  OBVIOUS
<1>8. Drawing(s, x.end, D, S, maxSpan)
  BY <1>1, <1>6, <1>7, DrawingSpeed
<1>9. n = [s EXCEPT !.lastEnd = x.end,
                    !.observed = IF partial THEN @ ELSE @ + x.uploaded.delta]
  <2>1. s = AddSpeed(fresh, x, a, partial, maxSpan)
    BY <1>2, <1>7
  <2> QED
    BY <1>2, <1>3, <1>4, <1>5, <2>1 DEF AddBucket
<1>10. IsChart(s)
  BY <1>8 DEF Drawing, Grouped
<1>11. IsChart(n) /\ n.group = s.group /\ n.stat = s.stat /\ n.points = s.points /\ n.lastEnd = x.end
  BY <1>9, <1>10 DEF IsChart
<1>12. Grouped(n, maxSpan, Flags)
  BY <1>8, <1>11 DEF Drawing, Grouped
<1>13. Low(n, x.end) = Low(s, x.end)
  BY <1>11 DEF Low
<1>14. Covering(n, x.end, S)
  BY <1>8, <1>11 DEF Drawing, Covering
<1> QED
  BY <1>8, <1>11, <1>12, <1>13, <1>14 DEF Drawing

(* Where a tier's buckets up to k do not follow each other.                *)
Edges(tier, k) ==
  {tier[i].start : i \in {j \in 2..k : tier[j].start > tier[j - 1].end \/ "GapBefore" \in tier[j].quality}}

EndAt(tier, k) == IF k = 0 THEN 0 ELSE tier[k].end

(* A tier over the samples S.                                              *)
IsTier(tier, L, e, S) ==
  /\ DOMAIN tier = 1..L
  /\ \A k \in 1..L : /\ Fits(tier[k], tier[k].start, S) /\ tier[k].end <= e
                     /\ k > 1 => tier[k - 1].end <= tier[k].start

LEMMA ChartDraws ==
  ASSUME NEW tier, NEW L \in Nat, NEW e \in Nat, NEW S, IsSpeeds(S), NEW maxSpan, IsTier(tier, L, e, S)
  PROVE  \E t \in Int : Drawing(SummaryChart(tier, 0, e, maxSpan), t, Edges(tier, L), S, maxSpan)
<1>1. PICK h : ChartTrace(h, tier, L, 0, e, maxSpan)
  <2>1. DOMAIN tier = 1..L
    BY DEF IsTier
  <2> QED
    BY <2>1, ChartSteps
<1>2. \A k \in 1..L : tier[k].start \in Nat /\ tier[k].end \in Nat /\ tier[k].start < tier[k].end
  <2>1. ASSUME NEW k \in 1..L PROVE tier[k].start \in Nat /\ tier[k].end \in Nat /\ tier[k].start < tier[k].end
    <3>1. PICK x : x = tier[k]
      OBVIOUS
    <3>2. Fits(x, x.start, S)
      BY <3>1 DEF IsTier
    <3>3. x.start \in Nat /\ x.end \in Nat /\ x.start < x.end
      BY <3>2 DEF Fits, Bucket
    <3> QED
      BY <3>1, <3>3
  <2> QED
    BY <2>1
<1>3. \A k \in 0..L : EndAt(tier, k) \in Nat
  BY <1>2 DEF EndAt
<1>4. \A k \in 0..L : Edges(tier, k) \in SUBSET Int
  BY <1>2 DEF Edges
<1> DEFINE Ok(k) == /\ Drawing(h[k], EndAt(tier, k), Edges(tier, k), S, maxSpan)
                    /\ h[k].lastEnd = EndAt(tier, k) /\ \A u \in Edges(tier, k) : u < EndAt(tier, k)
           T == {k \in 0..L : Ok(k)}
<1>5. 0 \in T
  <2>1. Edges(tier, 0) = {}
    BY DEF Edges
  <2>2. h[0] = NewChart /\ h[0].lastEnd = 0
    BY <1>1 DEF ChartTrace, NewChart
  <2>3. Drawing(h[0], EndAt(tier, 0), Edges(tier, 0), S, maxSpan)
    BY <2>1, <2>2, DrawingNew
  <2> QED
    BY <2>1, <2>2, <2>3 DEF EndAt
<1>6. ASSUME NEW k \in 0 + 1..L, k - 1 \in T PROVE k \in T
  <2>1. PICK j \in 0..L : j = k - 1 /\ k \in 1..L /\ k \in 0..L
    BY <1>6
  <2>2. Ok(j)
    BY <1>6, <2>1
  <2>3. PICK t \in Nat : t = EndAt(tier, j)
    BY <1>3
  <2>4. PICK B \in SUBSET Int : B = Edges(tier, j)
    BY <1>4
  <2>5. PICK x : x = tier[k]
    OBVIOUS
  <2>6. PICK c : c = h[j]
    OBVIOUS
  <2>7. PICK n : n = h[k] /\ n = AddBucket(c, x, 0, e, maxSpan)
    BY <1>1, <2>1, <2>5, <2>6 DEF ChartTrace
  <2>8. Drawing(c, t, B, S, maxSpan) /\ c.lastEnd = t /\ \A u \in B : u < t
    BY <2>2, <2>3, <2>4, <2>6
  <2>9. Fits(x, x.start, S) /\ x.end <= e /\ x.start \in Nat /\ x.end \in Nat /\ x.start < x.end
    BY <1>2, <2>1, <2>5 DEF IsTier
  <2>10. t <= x.start /\ (j > 0 => t > 0 /\ t = tier[k - 1].end) /\ (j = 0 => t = 0)
    <3>1. CASE j = 0
      BY <2>3, <2>9, <3>1 DEF EndAt
    <3>2. CASE j # 0
      <4>1. t = tier[k - 1].end /\ k > 1 /\ j \in 1..L
        BY <2>1, <2>3, <3>2 DEF EndAt
      <4>2. t > 0
        BY <1>2, <2>1, <4>1
      <4> QED
        BY <2>1, <2>5, <3>2, <4>1, <4>2 DEF IsTier
    <3> QED
      BY <3>1, <3>2
  <2>11. t = 0 => Drawing(c, x.start, B, S, maxSpan)
    <3> SUFFICES ASSUME t = 0 PROVE Drawing(c, x.start, B, S, maxSpan)
      OBVIOUS
    <3>1. j = 0
      BY <2>1, <2>10
    <3>2. c = NewChart
      BY <1>1, <2>6, <3>1 DEF ChartTrace
    <3>3. B = {}
      BY <2>4, <3>1 DEF Edges
    <3> QED
      BY <3>2, <3>3, DrawingNew
  <2>12. PICK D : D = (IF (t > 0 /\ x.start > t) \/ "GapBefore" \in x.quality THEN B \cup {x.start} ELSE B)
    OBVIOUS
  <2>13. Drawing(n, x.end, D, S, maxSpan) /\ n.lastEnd = x.end
    BY <2>7, <2>8, <2>9, <2>10, <2>11, <2>12, DrawingBucket
  <2>14. Edges(tier, k) \subseteq D
    <3>1. SUFFICES ASSUME NEW i \in 2..k, tier[i].start > tier[i - 1].end \/ "GapBefore" \in tier[i].quality
                   PROVE  tier[i].start \in D
      BY DEF Edges
    <3>2. CASE i = k
      <4>1. j > 0
        BY <2>1, <3>2
      <4>2. t > 0 /\ t = tier[i - 1].end /\ x = tier[i]
        BY <2>5, <2>10, <3>2, <4>1
      <4> QED
        BY <2>12, <3>1, <4>2
    <3>3. CASE i # k
      <4>1. i \in 2..j
        BY <2>1, <3>3
      <4>2. tier[i].start \in B
        BY <2>4, <3>1, <4>1 DEF Edges
      <4> QED
        BY <2>12, <4>2
    <3> QED
      BY <3>2, <3>3
  <2>15. \A u \in Edges(tier, k) : u < x.end
    <3>1. \A u \in D : u \in Int /\ u <= x.start
      <4>1. \A u \in B : u \in Int /\ u <= x.start
        BY <2>8, <2>9, <2>10
      <4> QED
        BY <2>9, <2>12, <4>1
    <3> QED
      BY <2>9, <2>14, <3>1
  <2>16. EndAt(tier, k) = x.end
    BY <2>1, <2>5 DEF EndAt
  <2>17. Drawing(n, x.end, Edges(tier, k), S, maxSpan)
    BY <2>13, <2>14, DrawingLess
  <2>18. Ok(k)
    BY <2>7, <2>13, <2>15, <2>16, <2>17
  <2> QED
    BY <2>1, <2>18
<1>7. L \in T
  <2> HIDE DEF T
  <2>1. \A k \in 0..L : k \in T
    <3>1. 0 \in Nat /\ 0 \in T /\ \A k \in 0 + 1..L : k - 1 \in T => k \in T
      BY <1>5, <1>6
    <3> QED
      BY ONLY <3>1, L \in Nat, Upward
  <2> QED
    BY <2>1
<1>8. PICK t \in Int, B \in SUBSET Int : t = EndAt(tier, L) /\ B = Edges(tier, L)
  BY <1>3, <1>4
<1>9. Drawing(h[L], t, B, S, maxSpan)
  BY <1>7, <1>8
<1>10. Drawing(EmitFlat(h[L]), t, B, S, maxSpan)
  BY <1>9, DrawingEmits
<1> QED
  BY <1>1, <1>8, <1>10 DEF ChartTrace

-----------------------------------------------------------------------------
(* The curve of the raw tier, sample by sample.                            *)
Extended(out, ps, i) ==
  out \o (IF i > 1 /\ Broken(ps[i], ps[i - 1]) THEN <<Null(ps[i - 1].at + 1)>> ELSE <<>>)
      \o <<RawPoint(ps[i])>>

LEMMA RawPointIs ==
  ASSUME NEW p \in RawSample
  PROVE  RawPoint(p) \in ChartPoint /\ RawPoint(p).at = p.at
  BY DEF RawPoint, RawSample, Sample, Null, Point, ChartPoint, PointKinds

LEMMA ExtendedIs ==
  ASSUME NEW ps, IsSeries(ps), NEW i \in 1..Len(ps), NEW out \in Seq(ChartPoint)
  PROVE  /\ i > 1 /\ Broken(ps[i], ps[i - 1]) =>
              Extended(out, ps, i) = Append(Append(out, Null(ps[i - 1].at + 1)), RawPoint(ps[i]))
         /\ ~(i > 1 /\ Broken(ps[i], ps[i - 1])) => Extended(out, ps, i) = Append(out, RawPoint(ps[i]))
         /\ Extended(out, ps, i) \in Seq(ChartPoint)
<1>1. PICK q \in ChartPoint : q = RawPoint(ps[i])
  BY SampleFields, RawPointIs
<1>2. CASE i > 1 /\ Broken(ps[i], ps[i - 1])
  <2>1. PICK g \in ChartPoint : g = Null(ps[i - 1].at + 1)
    <3>1. i - 1 \in 1..Len(ps)
      BY <1>2
    <3>2. ps[i - 1].at \in Nat
      BY <3>1, SampleFields
    <3>3. ps[i - 1].at + 1 \in Int
      BY <3>2
    <3> QED
      BY <3>3, NullIs
  <2>2. Extended(out, ps, i) = out \o <<g>> \o <<q>>
    BY <1>1, <1>2, <2>1 DEF Extended
  <2>3. out \o <<g>> \o <<q>> = Append(Append(out, g), q) /\ Append(Append(out, g), q) \in Seq(ChartPoint)
    OBVIOUS
  <2> QED
    BY <1>1, <1>2, <2>1, <2>2, <2>3
<1>3. CASE ~(i > 1 /\ Broken(ps[i], ps[i - 1]))
  <2>1. Extended(out, ps, i) = out \o <<>> \o <<q>>
    BY <1>1, <1>3 DEF Extended
  <2>2. out \o <<>> \o <<q>> = Append(out, q) /\ Append(out, q) \in Seq(ChartPoint)
    OBVIOUS
  <2> QED
    BY <1>1, <1>3, <2>1, <2>2
<1> QED
  BY <1>2, <1>3

LEMMA CurveSteps ==
  ASSUME NEW ps, IsSeries(ps)
  PROVE  \E h : /\ h[0] = <<>> /\ RawCurve(ps) = h[Len(ps)]
                /\ \A i \in 1..Len(ps) : h[i] = Extended(h[i - 1], ps, i)
<1> DEFINE n == Len(ps)
           V == Seq(ChartPoint)
           F == [p \in V \X (1..n) |-> Extended(p[1], ps, p[2])]
           ids == [i \in DOMAIN ps |-> i]
           E(g) == g = [s \in SUBSET DOMAIN ids |->
                          IF s = {} THEN <<>> ELSE Extended(g[s \ {Max(s)}], ps, ids[Max(s)])]
<1>1. n \in Nat /\ DOMAIN ids = 1..n /\ \A i \in 1..n : ids[i] = i
  BY DEF IsSeries
<1>2. <<>> \in V /\ F \in [V \X (1..n) -> V] /\ \A v \in V, i \in 1..n : F[<<v, i>>] = Extended(v, ps, i)
  <2>1. \A v \in V, i \in 1..n : Extended(v, ps, i) \in V
    BY ExtendedIs
  <2> HIDE DEF n
  <2>2. \A p \in V \X (1..n) : p[1] \in V /\ p[2] \in 1..n
    OBVIOUS
  <2>3. <<>> \in V
    OBVIOUS
  <2> HIDE DEF V
  <2> QED
    BY <2>1, <2>2, <2>3
<1>3. PICK it : Folds(it, V, <<>>, F, n)
  <2> HIDE DEF V, F, n
  <2> QED
    BY <1>1, <1>2, FoldExists
<1>4. ASSUME NEW s \in SUBSET (1..n), s # {} PROVE Max(s) \in 1..n /\ s \ {Max(s)} \in SUBSET (1..n)
  <2> HIDE DEF n
  <2> QED
    BY <1>1, <1>4, MaxOf
<1>5. E(it)
  <2>1. ASSUME NEW s \in SUBSET (1..n), s # {}
        PROVE  it[s] = Extended(it[s \ {Max(s)}], ps, ids[Max(s)])
    <3>1. PICK m \in 1..n : m = Max(s) /\ ids[Max(s)] = m
      BY <1>1, <1>4, <2>1
    <3>2. PICK v \in V : v = it[s \ {m}]
      BY <1>3, <1>4, <2>1, <3>1 DEF Folds
    <3>3. it[s] = F[<<v, m>>]
      BY <1>3, <2>1, <3>1, <3>2 DEF Folds
    <3>4. F[<<v, m>>] = Extended(v, ps, m)
      BY <1>2
    <3> HIDE DEF F, n, ids
    <3> QED
      BY <3>1, <3>2, <3>3, <3>4
  <2> HIDE DEF F, V, n, ids
  <2> QED
    BY <1>1, <1>3, <2>1 DEF Folds
<1>6. PICK ch : ch = (CHOOSE g : E(g)) /\ E(ch)
  <2> HIDE DEF E
  <2> QED
    BY <1>5
<1>7. RawCurve(ps) = ch[DOMAIN ids]
  BY <1>6 DEF RawCurve, FoldLeftDomain, FoldLeft, MapThenFoldSet, Extended
<1>8. ASSUME NEW i \in 1..n PROVE ch[1..i] = Extended(ch[1..i - 1], ps, i)
  <2>1. Max(1..i) = i /\ (1..i) \ {i} = 1..i - 1 /\ 1..i \in SUBSET (1..n) /\ 1..i # {}
    BY PrefixMax
  <2>2. ids[i] = i
    BY <1>1
  <2> HIDE DEF n, ids
  <2>3. ch[1..i] = IF 1..i = {} THEN <<>>
                   ELSE Extended(ch[(1..i) \ {Max(1..i)}], ps, ids[Max(1..i)])
    BY <1>1, <1>6, <2>1, ZenonT(60)
  <2> QED
    BY <2>1, <2>2, <2>3
<1>9. ch[1..0] = <<>>
  <2>1. 1..0 = {} /\ 1..0 \in SUBSET (1..n)
    OBVIOUS
  <2> HIDE DEF n, ids
  <2> QED
    BY <1>6, <1>1, <2>1
<1> DEFINE h == [k \in 0..n |-> ch[1..k]]
<1> HIDE DEF ids, E, F
<1> QED
  <2>1. h[0] = <<>> /\ h[n] = ch[1..n] /\ \A i \in 1..n : h[i] = ch[1..i] /\ h[i - 1] = ch[1..i - 1]
    BY <1>9, <1>1
  <2> HIDE DEF h
  <2>2. RawCurve(ps) = h[n]
    BY <1>1, <1>7, <2>1
  <2> QED
    BY <2>1, <2>2, <1>8

(* A raw curve has a gap before every sample that does not follow.         *)
LEMMA CurveParts ==
  ASSUME NEW ps, IsSeries(ps)
  PROVE  /\ RawCurve(ps) \in Seq(ChartPoint)
         /\ \A i \in 2..Len(ps) : Broken(ps[i], ps[i - 1]) => Parts(RawCurve(ps), ps[i].at)
<1>1. PICK n \in Nat : n = Len(ps)
  BY DEF IsSeries
<1>2. PICK h : /\ h[0] = <<>> /\ RawCurve(ps) = h[n]
               /\ \A i \in 1..n : h[i] = Extended(h[i - 1], ps, i)
  BY <1>1, CurveSteps
<1>3. \A i \in 1..n : ps[i].at \in Nat /\ ps[i] \in RawSample
  BY <1>1, SampleFields
<1>4. \A i, j \in 1..n : i < j => ps[i].at < ps[j].at
  BY <1>1 DEF IsSeries
<1> DEFINE Ok(k) == /\ h[k] \in Seq(ChartPoint)
                    /\ \A j \in 1..Len(h[k]) : k > 0 /\ h[k][j].at <= ps[k].at
                    /\ \A i \in 2..k : Broken(ps[i], ps[i - 1]) => Parts(h[k], ps[i].at)
           T == {k \in 0..n : Ok(k)}
<1>5. 0 \in T
  <2>1. Len(<<>>) = 0 /\ <<>> \in Seq(ChartPoint) /\ h[0] = <<>>
    BY <1>2
  <2>2. h[0] \in Seq(ChartPoint) /\ 1..Len(h[0]) = {} /\ 2..0 = {}
    BY <2>1
  <2>3. Ok(0)
    BY <2>2
  <2>4. 0 \in 0..n
    OBVIOUS
  <2> HIDE DEF Ok
  <2> QED
    BY <2>3, <2>4
<1>6. ASSUME NEW k \in 0 + 1..n, k - 1 \in T PROVE k \in T
  <2>1. k \in 1..n /\ k \in 0..n /\ k - 1 \in 0..n
    OBVIOUS
  <2>2. PICK o \in Seq(ChartPoint) : o = h[k - 1]
    BY <1>6
  <2>3. PICK at \in Nat : at = ps[k].at
    BY <1>3, <2>1
  <2>4. ASSUME NEW j \in 1..Len(o) PROVE k > 1 /\ o[j].at \in Int /\ o[j].at <= ps[k - 1].at
    <3>1. o[j] \in ChartPoint
      OBVIOUS
    <3>2. k - 1 > 0 /\ o[j].at <= ps[k - 1].at
      BY <1>6, <2>2
    <3> QED
      BY <3>1, <3>2 DEF ChartPoint
  <2>5. k > 1 => ps[k - 1].at \in Nat /\ ps[k - 1].at < at
    <3> SUFFICES ASSUME k > 1 PROVE ps[k - 1].at \in Nat /\ ps[k - 1].at < at
      OBVIOUS
    <3>1. k - 1 \in 1..n /\ k - 1 < k
      OBVIOUS
    <3> QED
      BY <1>3, <1>4, <2>1, <2>3, <3>1
  <2>6. PICK q \in ChartPoint : q = RawPoint(ps[k]) /\ q.at = at
    BY <1>3, <2>1, <2>3, RawPointIs
  <2>7. PICK m \in Seq(ChartPoint) :
          /\ h[k] = Append(m, q) /\ \A j \in 1..Len(m) : m[j].at <= at
          /\ \A u \in Nat : Parts(o, u) /\ u < at => Parts(m, u)
          /\ k > 1 /\ Broken(ps[k], ps[k - 1]) => Parts(m, at)
    <3>1. h[k] = Extended(o, ps, k) /\ k \in 1..Len(ps)
      BY <1>1, <1>2, <2>1, <2>2
    <3>2. CASE k > 1 /\ Broken(ps[k], ps[k - 1])
      <4>1. PICK b \in Nat : b = ps[k - 1].at /\ b < at
        BY <2>5, <3>2
      <4>2. PICK g \in ChartPoint : g = Null(b + 1) /\ IsGap(g) /\ g.at = b + 1
        <5>1. b + 1 \in Int
          OBVIOUS
        <5> QED
          BY <5>1, NullIs
      <4>3. h[k] = Append(Append(o, g), q)
        BY <2>6, <3>1, <3>2, <4>1, <4>2, ExtendedIs
      <4>4. PICK m \in Seq(ChartPoint) : m = Append(o, g)
        BY AppendIn
      <4>5. \A j \in 1..Len(o) : o[j].at < at
        BY <2>4, <4>1
      <4>6. Parts(m, at)
        BY <4>2, <4>4, <4>5, PartsNew
      <4>7. \A j \in 1..Len(m) : m[j].at <= at
        <5>1. ASSUME NEW j \in 1..Len(m) PROVE m[j].at <= at
          <6>1. j \in 1..Len(o) \/ m[j] = g
            BY <4>4
          <6>2. CASE j \in 1..Len(o)
            <7>1. m[j] = o[j]
              BY <4>4, <6>2
            <7> QED
              BY <2>4, <4>1, <6>2, <7>1
          <6>3. CASE m[j] = g
            BY <4>1, <4>2, <6>3
          <6> QED
            BY <6>1, <6>2, <6>3
        <5> QED
          BY <5>1
      <4>8. ASSUME NEW u \in Nat, Parts(o, u), u < at PROVE Parts(m, u)
        <5>1. CASE u <= b
          <6>1. g.at >= u /\ u \in Int
            BY <4>2, <5>1
          <6> QED
            BY <4>4, <4>8, <6>1, PartsGrow
        <5>2. CASE u > b
          <6>1. (g.at >= u /\ u \in Int) \/ u > b + 1
            BY <4>2, <5>2
          <6>2. CASE u > b + 1
            <7>1. \A j \in 1..Len(o) : o[j].at < u
              BY <2>4, <4>1, <6>2
            <7> QED
              BY <4>2, <4>4, <7>1, PartsNew
          <6> QED
            BY <4>4, <4>8, <6>1, <6>2, PartsGrow
        <5> QED
          BY <5>1, <5>2
      <4> QED
        BY <4>3, <4>4, <4>6, <4>7, <4>8
    <3>3. CASE ~(k > 1 /\ Broken(ps[k], ps[k - 1]))
      <4>1. h[k] = Append(o, q)
        BY <2>6, <3>1, <3>3, ExtendedIs
      <4>2. \A j \in 1..Len(o) : o[j].at <= at
        BY <2>4, <2>5
      <4> QED
        BY <3>3, <4>1, <4>2
    <3> QED
      BY <3>2, <3>3
  <2>8. h[k] \in Seq(ChartPoint)
    BY <2>7
  <2>9. ASSUME NEW j \in 1..Len(h[k]) PROVE k > 0 /\ h[k][j].at <= ps[k].at
    <3>1. (j \in 1..Len(m) /\ h[k][j] = m[j]) \/ h[k][j] = q
      BY <2>7
    <3> QED
      BY <2>1, <2>3, <2>6, <2>7, <3>1
  <2>10. ASSUME NEW i \in 2..k, Broken(ps[i], ps[i - 1]) PROVE Parts(h[k], ps[i].at)
    <3>1. PICK u \in Nat : u = ps[i].at
      <4>1. i \in 1..n
        BY <2>1
      <4> QED
        BY <1>3, <4>1
    <3>2. Parts(m, u) /\ u <= at
      <4>1. CASE i = k
        BY <2>1, <2>3, <2>7, <2>10, <3>1, <4>1
      <4>2. CASE i # k
        <5>1. i \in 2..k - 1 /\ i \in 1..n /\ i < k
          BY <2>1, <4>2
        <5>2. Parts(o, u)
          BY <1>6, <2>2, <2>10, <3>1, <5>1
        <5>3. u < at
          BY <1>4, <2>1, <2>3, <3>1, <5>1
        <5> QED
          BY <2>7, <5>2, <5>3
      <4> QED
        BY <4>1, <4>2
    <3>3. q.at >= u /\ u \in Int
      BY <2>6, <3>2
    <3> QED
      BY <2>7, <3>1, <3>2, <3>3, PartsGrow
  <2>11. Ok(k)
    BY <2>8, <2>9, <2>10
  <2> QED
    BY <2>1, <2>11
<1>7. n \in T
  <2> HIDE DEF T
  <2>1. \A k \in 0..n : k \in T
    <3>1. 0 \in Nat /\ 0 \in T /\ \A k \in 0 + 1..n : k - 1 \in T => k \in T
      BY <1>5, <1>6
    <3> QED
      BY ONLY <3>1, n \in Nat, Upward
  <2> QED
    BY <2>1
<1> QED
  BY <1>1, <1>2, <1>7

-----------------------------------------------------------------------------
(* The samples with a speed.                                               *)
Heard == {s \in ToSet(samples) : "Up" \in s.valid}

LEMMA HeardIs ==
  ASSUME IsSeries(samples)
  PROVE  IsSpeeds(Heard)
<1>1. ASSUME NEW s \in Heard PROVE s.at \in Nat /\ s.up \in Nat
  <2>1. PICK i \in 1..Len(samples) : s = samples[i]
    BY DEF Heard, ToSet, IsSeries
  <2> QED
    BY <2>1, SampleFields
<1> QED
  BY <1>1 DEF IsSpeeds

(* The tiers are tiers over these samples.                                 *)
LEMMA TierIs ==
  ASSUME NEW res \in Nat \ {0}, NEW hi, IsSeries(samples), edge \in Nat, edge % res = 0,
         Cut(samples, edge, hi), NEW tier, Covered(tier, samples, hi, res)
  PROVE  Len(tier) \in Nat /\ IsTier(tier, Len(tier), edge, Heard)
<1>1. PICK L \in Nat : L = Len(tier) /\ DOMAIN tier = 1..L
  BY DEF Covered
<1>2. PICK c : Covers(c, tier, samples, hi, res)
  BY DEF Covered
<1>3. ASSUME NEW k \in 1..L
      PROVE  /\ Fits(tier[k], tier[k].start, Heard) /\ tier[k].end <= edge
             /\ k > 1 => tier[k - 1].end <= tier[k].start
  <2>1. PICK x : x = tier[k]
    OBVIOUS
  <2>2. x \in Buckets(res) /\ Sound(x.up)
    <3>1. Tells(x, samples, c[k - 1], c[k], res)
      BY <1>1, <1>2, <2>1 DEF Covers
    <3> QED
      BY <3>1 DEF Tells, Summary
  <2>3. x \in Bucket(Flags) /\ x.start \in Nat /\ x.end \in Nat /\ x.start < x.end
    <3>1. x \in Bucket(Flags) /\ x.end = x.start + res
      BY <2>2 DEF Buckets
    <3>2. x.start \in Nat
      BY <3>1 DEF Bucket
    <3> QED
      BY <3>1, <3>2
  <2>4. /\ x.end <= edge /\ (k > 1 => tier[k - 1].end <= x.start)
        /\ \A s \in Speeds(x) : x.up.min <= s.up /\ s.up <= x.up.max
    BY <1>1, <2>1, CoveredExact
  <2>5. ASSUME NEW s \in Heard, x.start <= s.at, s.at < x.end PROVE x.up.min <= s.up /\ s.up <= x.up.max
    <3>1. s.at \in Nat
      BY HeardIs DEF IsSpeeds
    <3>2. s.at >= x.start
      BY <2>3, <2>5, <3>1
    <3>3. s \in Speeds(x)
      BY <2>5, <3>2 DEF Speeds, Heard
    <3> QED
      BY <2>4, <3>3
  <2>6. Fits(x, x.start, Heard)
    BY <2>2, <2>3, <2>5 DEF Fits
  <2> QED
    BY <2>1, <2>4, <2>6
<1> QED
  BY <1>1, <1>3 DEF IsTier

(* The chart of a tier, drawn to its end.                                  *)
LEMMA TierDraws ==
  ASSUME NEW res \in Nat \ {0}, NEW hi, IsSeries(samples), edge \in Nat, edge % res = 0,
         Cut(samples, edge, hi), NEW tier, Covered(tier, samples, hi, res)
  PROVE  LET points == SummaryChart(tier, 0, edge, MaxSpan).points
         IN /\ points \in Seq(ChartPoint) /\ Honest(points, Heard)
            /\ \A i \in 2..Len(tier) :
                 Drawn(points, tier[i - 1].end - 1, tier[i].start) =>
                   tier[i].start = tier[i - 1].end /\ "GapBefore" \notin tier[i].quality
<1>1. PICK L \in Nat : L = Len(tier)
  BY TierIs
<1>2. IsTier(tier, L, edge, Heard) /\ IsSpeeds(Heard)
  BY <1>1, TierIs, HeardIs
<1>3. PICK c : c = SummaryChart(tier, 0, edge, MaxSpan)
  OBVIOUS
<1>4. PICK t \in Int : Drawing(c, t, Edges(tier, L), Heard, MaxSpan)
  BY <1>2, <1>3, ChartDraws
<1>5. c.points \in Seq(ChartPoint) /\ Honest(c.points, Heard) /\ \A u \in Edges(tier, L) : Parts(c.points, u)
  BY <1>4 DEF Drawing
<1>6. ASSUME NEW i \in 2..L, Drawn(c.points, tier[i - 1].end - 1, tier[i].start)
      PROVE  tier[i].start = tier[i - 1].end /\ "GapBefore" \notin tier[i].quality
  <2>1. i \in 1..L /\ i - 1 \in 1..L /\ i > 1
    OBVIOUS
  <2>2. PICK x, y : x = tier[i - 1] /\ y = tier[i]
    OBVIOUS
  <2>3. Fits(x, x.start, Heard) /\ Fits(y, y.start, Heard) /\ x.end <= y.start
    BY <1>2, <2>1, <2>2 DEF IsTier
  <2>4. PICK a \in Nat, b \in Nat : a = x.end /\ b = y.start /\ a <= b
    BY <2>3 DEF Fits, Bucket
  <2>5. SUFFICES ASSUME ~(b = a /\ "GapBefore" \notin y.quality) PROVE FALSE
    BY <2>2, <2>4
  <2>6. b > a \/ "GapBefore" \in y.quality
    BY <2>4, <2>5
  <2>7. b \in Edges(tier, L)
    BY <2>2, <2>4, <2>6 DEF Edges
  <2>8. ~Drawn(c.points, a - 1, b)
    <3>1. a - 1 \in Int /\ a - 1 < b /\ b \in Int
      BY <2>4
    <3> QED
      BY <1>5, <2>7, <3>1, PartsLine
  <2> QED
    BY <1>6, <2>2, <2>4, <2>8
<1> QED
  BY <1>1, <1>3, <1>5, <1>6

(* Every line of a chart, of whatever tier, is between neighbours that     *)
(* follow each other: nobody sees a value for a time nothing was measured  *)
(* in (query.go: Series, addSpeed).                                        *)
THEOREM LinesBreakAlways == Spec => []LinesBreak
<1>1. SeriesInv => LinesBreak
  <2> SUFFICES ASSUME SeriesInv PROVE LinesBreak
    OBVIOUS
  <2>1. PICK hi : /\ Cut(samples, edge, hi)
                  /\ TierOf(one, samples, 0, hi, LeftOf(samples), Minute)
                  /\ Covered(five, samples, hi, Window)
    BY DEF SeriesInv
  <2>2. /\ IsSeries(samples) /\ edge \in Nat /\ edge % Window = 0 /\ edge % Minute = 0
        /\ Minute \in Nat \ {0} /\ Window \in Nat \ {0} /\ hi \in 0..Len(samples)
    BY <2>1, RollupAssumption, WindowMinutes DEF SeriesInv, Cut
  <2>3. Covered(one, samples, hi, Minute)
    BY <2>1, <2>2, TierCovered
  <2>4. ASSUME NEW i \in 2..Len(samples), Drawn(RawCurve(samples), samples[i - 1].at, samples[i].at)
        PROVE  Continuous(samples[i], samples[i - 1])
    <3>1. SUFFICES ASSUME Broken(samples[i], samples[i - 1]) PROVE FALSE
      BY DEF Broken
    <3>2. i \in 1..Len(samples) /\ i - 1 \in 1..Len(samples) /\ i - 1 < i
      BY <2>2 DEF IsSeries
    <3>3. samples[i - 1].at \in Int /\ samples[i].at \in Int /\ samples[i - 1].at < samples[i].at
      <4>1. samples[i - 1].at \in Nat /\ samples[i].at \in Nat
        BY <2>2, <3>2, SampleFields
      <4>2. samples[i - 1].at < samples[i].at
        BY <2>2, <3>2 DEF IsSeries
      <4> QED
        BY <4>1, <4>2
    <3>4. RawCurve(samples) \in Seq(ChartPoint) /\ Parts(RawCurve(samples), samples[i].at)
      BY <2>2, <3>1, CurveParts
    <3>5. ~Drawn(RawCurve(samples), samples[i - 1].at, samples[i].at)
      BY <3>3, <3>4, PartsLine
    <3> QED
      BY <2>4, <3>5
  <2>5. \A i \in 2..Len(one) :
          Drawn(SummaryChart(one, 0, edge, MaxSpan).points, one[i - 1].end - 1, one[i].start) =>
            one[i].start = one[i - 1].end /\ "GapBefore" \notin one[i].quality
    BY <2>1, <2>2, <2>3, TierDraws
  <2>6. \A i \in 2..Len(five) :
          Drawn(SummaryChart(five, 0, edge, MaxSpan).points, five[i - 1].end - 1, five[i].start) =>
            five[i].start = five[i - 1].end /\ "GapBefore" \notin five[i].quality
    BY <2>1, <2>2, TierDraws
  <2> QED
    BY <2>4, <2>5, <2>6 DEF LinesBreak
<1> QED
  BY <1>1, SeriesInvariant, PTL

(* Every sample under a flat segment is within 5 % of it, however long the *)
(* segment and however slowly the values drift (query.go: flatGroup).      *)
THEOREM FlatHonestAlways == Spec => []FlatHonest
<1>1. SeriesInv => FlatHonest
  <2> SUFFICES ASSUME SeriesInv PROVE FlatHonest
    OBVIOUS
  <2>1. PICK hi : /\ Cut(samples, edge, hi)
                  /\ TierOf(one, samples, 0, hi, LeftOf(samples), Minute)
    BY DEF SeriesInv
  <2>2. /\ IsSeries(samples) /\ edge \in Nat /\ edge % Window = 0 /\ edge % Minute = 0
        /\ Minute \in Nat \ {0} /\ Window \in Nat \ {0} /\ hi \in 0..Len(samples)
    BY <2>1, RollupAssumption, WindowMinutes DEF SeriesInv, Cut
  <2>3. Covered(one, samples, hi, Minute)
    BY <2>1, <2>2, TierCovered
  <2>4. PICK points : points = SummaryChart(one, 0, edge, MaxSpan).points
    OBVIOUS
  <2>5. Honest(points, Heard)
    BY <2>1, <2>2, <2>3, <2>4, TierDraws
  <2>6. ASSUME NEW i \in 1..Len(points) - 1,
               points[i].kind = "flat_5pct", points[i + 1].kind = "flat_5pct",
               points[i].num = points[i + 1].num, points[i].den = points[i + 1].den,
               NEW s \in ToSet(samples), s.at \in points[i].at..points[i + 1].at, "Up" \in s.valid
        PROVE  100 * s.up * points[i].den >= 95 * points[i].num /\ 100 * s.up * points[i].den <= 105 * points[i].num
    <3>1. FlatPair(points[i], points[i + 1], Heard) /\ s \in Heard
      BY <2>5, <2>6 DEF Honest, Heard
    <3> QED
      BY <2>6, <3>1 DEF FlatPair, IsFlat, NearTo
  <2> QED
    BY <2>4, <2>6 DEF FlatHonest
<1> QED
  BY <1>1, SeriesInvariant, PTL

-----------------------------------------------------------------------------
LEMMA TableRows == Spec => [](table \in Rows)
<1>1. Init => table \in Rows
  BY DEF Init, Rows
<1>2. table \in Rows /\ [Next]_vars => (table \in Rows)'
  <2> SUFFICES ASSUME table \in Rows, [Next]_vars PROVE table' \in Rows
    OBVIOUS
  <2>1. CASE Row
    <3>1. PICK row \in [1..Cols -> Cell] : table' = Append(table, row)
      BY <2>1 DEF Row
    <3>2. Append(table, row) \in Rows
      BY AppendIn DEF Rows
    <3> QED
      BY <3>1, <3>2
  <2>2. CASE Observe \/ SealOne \/ Put \/ UNCHANGED vars
    BY <2>2 DEF Observe, SealOne, Put, vars
  <2> QED
    BY <2>1, <2>2 DEF Next
<1> QED
  BY <1>1, <1>2, PTL DEF Spec

(* Whatever a table holds and however its differences overflow, its block  *)
(* decodes to the table (ReadBack), and a wrong row count is noticed       *)
(* (OneRowCount).                                                          *)
THEOREM CodecExactAlways == Spec => []CodecExact
<1>1. table \in Rows => CodecExact
  <2> SUFFICES ASSUME table \in Rows PROVE CodecExact
    OBVIOUS
  <2>1. DecodeColumns(EncodeColumns(table), Len(table)) = [ok |-> TRUE, table |-> table]
    BY ReadBack
  <2>2. ASSUME NEW n \in 0..MaxRows \ {Len(table)} PROVE ~DecodeColumns(EncodeColumns(table), n).ok
    <3>1. n \in Nat /\ n # Len(table)
      OBVIOUS
    <3> QED
      BY <3>1, OneRowCount
  <2> QED
    BY <2>1, <2>2 DEF CodecExact
<1> QED
  BY <1>1, TableRows, PTL

-----------------------------------------------------------------------------
(* The fold that adds d[i] for the i in C, over all subsets of 1..n.       *)
Counts(g, n, C, d) ==
  g = [s \in SUBSET (1..n) |->
         IF s = {} THEN 0
         ELSE IF Max(s) \in C THEN g[s \ {Max(s)}] + d[Max(s)] ELSE g[s \ {Max(s)}]]

(* What it has added up to each i.                                         *)
Counted(H, n, C, d) ==
  /\ \A i \in 0..n : H[i] \in Nat
  /\ H[0] = 0 /\ \A i \in 1..n : H[i] = H[i - 1] + (IF i \in C THEN d[i] ELSE 0)

LEMMA CountsExist ==
  ASSUME NEW n \in Nat, NEW C, NEW d, \A i \in 1..n : d[i] \in Nat
  PROVE  \E g : Counts(g, n, C, d)
<1> DEFINE F == [p \in Nat \X (1..n) |-> IF p[2] \in C THEN p[1] + d[p[2]] ELSE p[1]]
<1>1. F \in [Nat \X (1..n) -> Nat] /\ \A v \in Nat, i \in 1..n : F[<<v, i>>] = IF i \in C THEN v + d[i] ELSE v
  OBVIOUS
<1>2. PICK it : Folds(it, Nat, 0, F, n)
  <2> HIDE DEF F
  <2> QED
    BY <1>1, FoldExists
<1>3. ASSUME NEW s \in SUBSET (1..n), s # {}
      PROVE  it[s] = IF Max(s) \in C THEN it[s \ {Max(s)}] + d[Max(s)] ELSE it[s \ {Max(s)}]
  <2>1. PICK m \in 1..n : m = Max(s)
    BY <1>3, MaxOf
  <2>2. s \ {m} \in SUBSET (1..n)
    OBVIOUS
  <2>3. PICK v \in Nat : v = it[s \ {m}]
    BY <1>2, <2>2 DEF Folds
  <2>4. it[s] = F[<<v, m>>]
    BY <1>2, <1>3, <2>1, <2>3 DEF Folds
  <2> HIDE DEF F
  <2> QED
    BY <1>1, <2>1, <2>3, <2>4
<1> HIDE DEF F
<1>4. Counts(it, n, C, d)
  BY <1>2, <1>3 DEF Folds, Counts
<1> QED
  BY <1>4

LEMMA CountsAdd ==
  ASSUME NEW n \in Nat, NEW C, NEW d, \A i \in 1..n : d[i] \in Nat, NEW g, Counts(g, n, C, d)
  PROVE  \E H : Counted(H, n, C, d) /\ g[1..n] = H[n]
<1> DEFINE H == [k \in 0..n |-> g[1..k]]
<1>1. g[1..0] = 0
  <2>1. 1..0 = {} /\ 1..0 \in SUBSET (1..n)
    OBVIOUS
  <2> QED
    BY <2>1 DEF Counts
<1>2. ASSUME NEW i \in 1..n PROVE g[1..i] = IF i \in C THEN g[1..i - 1] + d[i] ELSE g[1..i - 1]
  <2>1. Max(1..i) = i /\ (1..i) \ {i} = 1..i - 1 /\ 1..i \in SUBSET (1..n) /\ 1..i # {}
    BY PrefixMax
  <2>2. g[1..i] = IF Max(1..i) \in C THEN g[(1..i) \ {Max(1..i)}] + d[Max(1..i)] ELSE g[(1..i) \ {Max(1..i)}]
    BY <2>1, ZenonT(60) DEF Counts
  <2> QED
    BY <2>1, <2>2
<1>3. H[0] = g[1..0] /\ H[n] = g[1..n] /\ \A i \in 1..n : H[i] = g[1..i] /\ H[i - 1] = g[1..i - 1]
  OBVIOUS
<1> HIDE DEF H
<1>4. H[0] = 0 /\ \A i \in 1..n : H[i] = IF i \in C THEN H[i - 1] + d[i] ELSE H[i - 1]
  BY <1>1, <1>2, <1>3
<1> DEFINE T == {i \in 0..n : H[i] \in Nat}
<1>5. \A i \in 0..n : i \in T
  <2>1. 0 \in T
    BY <1>4
  <2>2. ASSUME NEW i \in 0 + 1..n, i - 1 \in T PROVE i \in T
    <3>1. i \in 1..n /\ i \in 0..n /\ H[i - 1] \in Nat /\ d[i] \in Nat
      BY <2>2
    <3>2. H[i] \in Nat
      BY <1>4, <3>1
    <3> QED
      BY <3>1, <3>2
  <2> HIDE DEF T
  <2> QED
    BY <2>1, <2>2, Upward
<1>6. ASSUME NEW i \in 1..n PROVE H[i] = H[i - 1] + (IF i \in C THEN d[i] ELSE 0)
  <2>1. i - 1 \in 0..n
    OBVIOUS
  <2>2. H[i - 1] \in Nat
    BY <1>5, <2>1
  <2> QED
    BY <1>4, <2>2
<1>7. Counted(H, n, C, d)
  BY <1>4, <1>5, <1>6 DEF Counted
<1> QED
  BY <1>3, <1>7

(* The cached upload's sum over chosen buckets.                            *)
LEMMA DeltasIs ==
  ASSUME NEW bs, NEW n \in Nat, DOMAIN bs = 1..n, \A i \in 1..n : bs[i].uploaded.delta \in Nat, NEW chosen
  PROVE  \E H : Counted(H, n, chosen, [i \in 1..n |-> bs[i].uploaded.delta]) /\ Deltas(bs, chosen) = H[n]
<1> DEFINE ids == [i \in DOMAIN bs |-> i]
           d == [i \in 1..n |-> bs[i].uploaded.delta]
           E(g) == g = [s \in SUBSET DOMAIN ids |->
                          IF s = {} THEN 0
                          ELSE IF ids[Max(s)] \in chosen
                               THEN g[s \ {Max(s)}] + bs[ids[Max(s)]].uploaded.delta ELSE g[s \ {Max(s)}]]
<1>1. DOMAIN ids = 1..n /\ \A i \in 1..n : ids[i] = i /\ d[i] \in Nat /\ d[i] = bs[i].uploaded.delta
  OBVIOUS
<1>2. ASSUME NEW g PROVE E(g) <=> Counts(g, n, chosen, d)
  <2>1. ASSUME NEW s \in SUBSET (1..n), s # {}
        PROVE  /\ ids[Max(s)] \in chosen <=> Max(s) \in chosen
               /\ bs[ids[Max(s)]].uploaded.delta = d[Max(s)]
    <3>1. Max(s) \in 1..n
      BY <2>1, MaxOf
    <3> HIDE DEF ids, d
    <3> QED
      BY <1>1, <3>1
  <2> HIDE DEF ids, d
  <2> QED
    BY <1>1, <2>1 DEF Counts
<1>3. PICK ch : ch = (CHOOSE g : E(g)) /\ E(ch)
  <2> HIDE DEF E, d
  <2>1. \E g : E(g)
    BY <1>1, <1>2, CountsExist
  <2> QED
    BY <2>1
<1>4. Deltas(bs, chosen) = ch[DOMAIN ids]
  BY <1>3 DEF Deltas, FoldLeftDomain, FoldLeft, MapThenFoldSet
<1> HIDE DEF E, ids
<1>5. \E H : Counted(H, n, chosen, d) /\ ch[1..n] = H[n]
  <2> HIDE DEF d
  <2> QED
    <3>1. n \in Nat /\ (\A i \in 1..n : d[i] \in Nat) /\ Counts(ch, n, chosen, d)
      BY <1>1, <1>2, <1>3
    <3> QED
      BY ONLY <3>1, CountsAdd
<1> QED
  BY <1>1, <1>4, <1>5

(* And its sum over the samples from e on.                                 *)
LEMMA TailUploadIs ==
  ASSUME NEW in, IsSeries(in), NEW e \in Int
  PROVE  \E H : /\ \A i \in 0..Len(in) : H[i] \in Nat
                /\ H[0] = 0 /\ TailUpload(in, e) = H[Len(in)]
                /\ \A i \in 1..Len(in) : H[i] = H[i - 1] + (IF in[i].at < e THEN 0 ELSE GainOf(in, i))
<1> DEFINE n == Len(in)
           ids == [i \in DOMAIN in |-> i]
           C == {i \in 1..n : ~(i = 1 \/ in[i].at < e)}
           d == [i \in 1..n |-> GainOf(in, i)]
           E(g) == g = [s \in SUBSET DOMAIN ids |->
                          IF s = {} THEN 0
                          ELSE IF ids[Max(s)] = 1 \/ in[ids[Max(s)]].at < e
                               THEN g[s \ {Max(s)}]
                               ELSE g[s \ {Max(s)}] + Observed(in[ids[Max(s)]], in[ids[Max(s)] - 1])]
<1>1. n \in Nat /\ DOMAIN ids = 1..n /\ \A i \in 1..n : ids[i] = i /\ d[i] = GainOf(in, i)
  BY DEF IsSeries
<1>2. ASSUME NEW i \in 1..n PROVE d[i] \in Nat
  <2>1. LeftOf(in)[i] \in Previouses /\ Gained(in[i], LeftOf(in)[i]) = GainOf(in, i) /\ in[i] \in RawSample
    BY LeftIn, SampleFields DEF GainOf
  <2> HIDE DEF d
  <2> QED
    BY <1>1, <2>1, GainIn
<1>3. ASSUME NEW i \in 1..n
      PROVE  /\ (i = 1 \/ in[i].at < e) <=> i \notin C
             /\ i \in C => Observed(in[i], in[i - 1]) = d[i]
  BY <1>1 DEF GainOf
<1>4. ASSUME NEW g PROVE E(g) <=> Counts(g, n, C, d)
  <2>1. ASSUME NEW s \in SUBSET (1..n), s # {}
        PROVE  /\ (ids[Max(s)] = 1 \/ in[ids[Max(s)]].at < e) <=> Max(s) \notin C
               /\ Max(s) \in C => Observed(in[ids[Max(s)]], in[ids[Max(s)] - 1]) = d[Max(s)]
    <3>1. Max(s) \in 1..n
      <4> HIDE DEF n
      <4> QED
        BY <1>1, <2>1, MaxOf
    <3> HIDE DEF ids, d, C, n
    <3> QED
      BY <1>1, <1>3, <3>1
  <2> HIDE DEF ids, d, C, n
  <2>2. ASSUME NEW s \in SUBSET (1..n)
        PROVE  (IF s = {} THEN 0
                ELSE IF ids[Max(s)] = 1 \/ in[ids[Max(s)]].at < e
                     THEN g[s \ {Max(s)}]
                     ELSE g[s \ {Max(s)}] + Observed(in[ids[Max(s)]], in[ids[Max(s)] - 1]))
               = (IF s = {} THEN 0
                  ELSE IF Max(s) \in C THEN g[s \ {Max(s)}] + d[Max(s)] ELSE g[s \ {Max(s)}])
    <3>1. CASE s = {}
      BY <3>1
    <3>2. CASE s # {} /\ Max(s) \in C
      BY <2>1, <3>2
    <3>3. CASE s # {} /\ Max(s) \notin C
      BY <2>1, <3>3
    <3> QED
      BY <3>1, <3>2, <3>3
  <2> QED
    BY <1>1, <2>2 DEF Counts
<1>5. PICK ch : ch = (CHOOSE g : E(g)) /\ E(ch)
  <2> HIDE DEF E, d, C, n
  <2>1. \E g : E(g)
    BY <1>1, <1>2, <1>4, CountsExist
  <2> QED
    BY <2>1
<1>6. TailUpload(in, e) = ch[DOMAIN ids]
  BY <1>5 DEF TailUpload, FoldLeftDomain, FoldLeft, MapThenFoldSet
<1> HIDE DEF E, ids
<1>7. PICK H : Counted(H, n, C, d) /\ ch[1..n] = H[n]
  <2> HIDE DEF d, C, n
  <2> QED
    <3>1. n \in Nat /\ (\A i \in 1..n : d[i] \in Nat) /\ Counts(ch, n, C, d)
      BY <1>1, <1>2, <1>4, <1>5
    <3> QED
      BY ONLY <3>1, CountsAdd
<1>8. ASSUME NEW i \in 1..n PROVE H[i] = H[i - 1] + (IF in[i].at < e THEN 0 ELSE GainOf(in, i))
  <2>1. H[i] = H[i - 1] + (IF i \in C THEN d[i] ELSE 0)
    BY <1>7 DEF Counted
  <2>2. (IF i \in C THEN d[i] ELSE 0) = (IF in[i].at < e THEN 0 ELSE GainOf(in, i))
    <3>1. i = 1 => GainOf(in, i) = 0
      BY DEF GainOf
    <3> HIDE DEF d, C, n
    <3> QED
      BY <1>1, <1>3, <3>1
  <2> QED
    BY <2>1, <2>2
<1> HIDE DEF d, C
<1> QED
  BY <1>1, <1>6, <1>7, <1>8 DEF Counted

(* What a tail of the series adds from e on, if its first sample follows   *)
(* the one before it only where that is before e.                          *)
LEMMA TailAdds ==
  ASSUME NEW s, IsSeries(s), NEW l, NEW t, IsSlice(t, s, l, Len(s)), NEW e \in Int, NEW m, Cut(s, e, m),
         l <= m, l = m /\ l < Len(s) => GainOf(s, l + 1) = 0, NEW H, Gains(H, s, Len(s))
  PROVE  TailUpload(t, e) = H[Len(s)] - H[m]
<1> DEFINE n == Len(s)
<1>1. n \in Nat /\ l \in 0..n /\ m \in 0..n /\ IsSeries(t) /\ Len(t) = n - l /\ n - l \in Nat
  <2>1. n \in Nat /\ l \in Nat /\ l <= n /\ m \in 0..n
    BY DEF IsSeries, IsSlice, Cut
  <2>2. IsSeries(t) /\ Len(t) = n - l /\ n - l \in Nat
    BY SliceSeries
  <2> QED
    BY <2>1, <2>2
<1>2. \A i \in 1..n - l : /\ t[i] = s[l + i] /\ l + i \in 1..n
                          /\ t[i].at < e <=> l + i <= m
  <2>1. ASSUME NEW i \in 1..n - l PROVE t[i] = s[l + i] /\ l + i \in 1..n
    BY <1>1 DEF IsSlice
  <2> QED
    BY <2>1 DEF Cut
<1>3. PICK G : /\ \A i \in 0..n - l : G[i] \in Nat
               /\ G[0] = 0 /\ TailUpload(t, e) = G[n - l]
               /\ \A i \in 1..n - l : G[i] = G[i - 1] + (IF t[i].at < e THEN 0 ELSE GainOf(t, i))
  <2>1. \E G : /\ \A i \in 0..Len(t) : G[i] \in Nat
               /\ G[0] = 0 /\ TailUpload(t, e) = G[Len(t)]
               /\ \A i \in 1..Len(t) : G[i] = G[i - 1] + (IF t[i].at < e THEN 0 ELSE GainOf(t, i))
    BY <1>1, TailUploadIs
  <2>2. Len(t) = n - l
    BY <1>1
  <2> QED
    BY <2>1, <2>2
<1>4. /\ \A i \in 0..n : H[i] \in Nat
      /\ \A i \in 1..n : H[i] = H[i - 1] + GainOf(s, i)
  BY DEF Gains
<1>5. ASSUME NEW i \in 1..n - l, l + i > m PROVE GainOf(t, i) = GainOf(s, l + i)
  <2>1. CASE i = 1
    <3>1. l = m /\ l < n /\ GainOf(t, 1) = 0
      BY <1>1, <1>5, <2>1 DEF GainOf
    <3> QED
      BY <2>1, <3>1
  <2>2. CASE i # 1
    <3>1. i - 1 \in 1..n - l /\ l + (i - 1) = (l + i) - 1 /\ l + i # 1
      BY <1>1, <2>2
    <3>2. t[i] = s[l + i] /\ t[i - 1] = s[(l + i) - 1]
      BY <1>2, <3>1
    <3> QED
      BY <2>2, <3>1, <3>2 DEF GainOf
  <2> QED
    BY <2>1, <2>2
<1> DEFINE T == {i \in 0..n - l : G[i] = IF l + i <= m THEN 0 ELSE H[l + i] - H[m]}
<1> HIDE DEF n
<1>6. 0 \in T
  BY <1>1, <1>3
<1>7. ASSUME NEW i \in 0 + 1..n - l, i - 1 \in T PROVE i \in T
  <2>1. i \in 1..n - l /\ i \in 0..n - l /\ i - 1 \in 0..n - l /\ l + i \in 1..n /\ l + (i - 1) = (l + i) - 1
    BY <1>1
  <2>2. G[i - 1] = IF (l + i) - 1 <= m THEN 0 ELSE H[(l + i) - 1] - H[m]
    BY <1>7, <2>1
  <2>3. G[i] = G[i - 1] + (IF t[i].at < e THEN 0 ELSE GainOf(t, i))
    BY <1>3, <2>1
  <2>4. CASE l + i <= m
    <3>1. G[i] = 0
      BY <1>1, <1>2, <2>1, <2>2, <2>3, <2>4
    <3> QED
      BY <2>1, <2>4, <3>1
  <2>5. CASE l + i > m
    <3> DEFINE j == l + i
    <3>1. j \in 1..n /\ j - 1 \in 0..n /\ m \in 0..n /\ j > m /\ j \in 0..n
      BY <1>1, <2>1, <2>5
    <3>2. H[j] = H[j - 1] + GainOf(s, j) /\ H[j] \in Nat /\ H[j - 1] \in Nat /\ H[m] \in Nat
      BY <1>4, <3>1
    <3>3. GainOf(t, i) = GainOf(s, j) /\ ~(t[i].at < e)
      BY <1>1, <1>2, <1>5, <2>1, <2>5
    <3>4. G[i - 1] = H[j - 1] - H[m]
      <4>1. CASE j - 1 <= m
        <5>1. j - 1 = m
          BY <3>1, <4>1
        <5> QED
          BY <2>2, <3>2, <4>1, <5>1
      <4>2. CASE ~(j - 1 <= m)
        BY <2>2, <4>2
      <4> QED
        BY <4>1, <4>2
    <3>5. G[i] = G[i - 1] + GainOf(s, j)
      BY <2>3, <3>3
    <3> HIDE DEF j
    <3>6. GainOf(s, j) \in Int
      <4>1. j \in 1..Len(s)
        BY <3>1 DEF n
      <4>2. LeftOf(s)[j] \in Previouses /\ Gained(s[j], LeftOf(s)[j]) = GainOf(s, j) /\ s[j] \in RawSample
        BY <4>1, LeftIn, SampleFields DEF GainOf
      <4>3. GainOf(s, j) \in Nat
        BY <4>2, GainIn
      <4> QED
        BY <4>3
    <3>7. G[i] = H[j] - H[m]
      BY <3>2, <3>4, <3>5, <3>6
    <3> QED
      <4>1. ~(l + i <= m)
        BY <1>1, <2>1, <2>5
      <4>2. G[i] = IF l + i <= m THEN 0 ELSE H[l + i] - H[m]
        BY <3>7, <4>1 DEF j
      <4> QED
        BY <2>1, <4>2
  <2> QED
    BY <1>1, <2>1, <2>4, <2>5
<1>8. n - l \in T
  <2> HIDE DEF T
  <2>1. 0 \in Nat /\ n - l \in Nat /\ 0 \in T /\ \A i \in 0 + 1..n - l : i - 1 \in T => i \in T
    BY <1>1, <1>6, <1>7
  <2>2. \A i \in 0..n - l : i \in T
    BY ONLY <2>1, Upward
  <2> QED
    BY <1>1, <2>2
<1>9. H[m] \in Nat /\ l + (n - l) = n
  BY <1>1, <1>4
<1>10. G[n - l] = H[n] - H[m]
  <2>1. G[n - l] = IF n <= m THEN 0 ELSE H[n] - H[m]
    BY <1>8, <1>9
  <2>2. n <= m => n = m
    BY <1>1
  <2> QED
    BY <1>9, <2>1, <2>2
<1> QED
  BY <1>3, <1>10 DEF n

(* The buckets behind the first k0 hold what was gained since their end.   *)
LEMMA DeltasAdd ==
  ASSUME NEW s, NEW res \in Nat \ {0}, NEW hi \in Nat, NEW tier \in Seq(Buckets(res)), NEW c,
         Covers(c, tier, s, hi, res), NEW H, Gains(H, s, hi), NEW k0 \in 0..Len(tier), NEW chosen,
         \A k \in 1..Len(tier) : k \in chosen <=> k > k0
  PROVE  Deltas(tier, chosen) = H[hi] - H[c[k0]]
<1> DEFINE L == Len(tier)
<1>1. L \in Nat /\ DOMAIN tier = 1..L /\ c \in [0..L -> 0..hi] /\ c[L] = hi
  BY DEF Covers
<1>2. \A i \in 0..hi : H[i] \in Nat
  BY DEF Gains
<1>3. ASSUME NEW k \in 1..L
      PROVE  /\ tier[k].uploaded.delta = H[c[k]] - H[c[k - 1]]
             /\ tier[k].uploaded.delta \in Nat
  <2>1. k - 1 \in 0..L /\ k \in 0..L
    BY <1>1
  <2> DEFINE p == c[k - 1]
             q == c[k]
  <2>2. p \in 0..hi /\ q \in 0..hi /\ Tells(tier[k], s, p, q, res)
    BY <1>1, <2>1 DEF Covers
  <2> HIDE DEF p, q
  <2>3. Gains(H, s, q)
    BY <2>2 DEF Gains
  <2>4. tier[k].uploaded.delta = H[q] - H[p]
    BY <2>2, <2>3 DEF Tells
  <2>5. tier[k].uploaded.delta \in Nat
    <3>1. tier[k] \in Bucket(Flags)
      BY <2>2 DEF Tells, Buckets
    <3>2. tier[k].uploaded \in Counter
      BY <3>1 DEF Bucket
    <3> QED
      BY <3>2 DEF Counter
  <2> QED
    BY <2>4, <2>5 DEF p, q
<1>4. PICK G : Counted(G, L, chosen, [i \in 1..L |-> tier[i].uploaded.delta]) /\ Deltas(tier, chosen) = G[L]
  <2>1. L \in Nat /\ DOMAIN tier = 1..L /\ \A i \in 1..L : tier[i].uploaded.delta \in Nat
    BY <1>1, <1>3
  <2> HIDE DEF L
  <2> QED
    BY ONLY <2>1, DeltasIs
<1>5. /\ \A i \in 0..L : G[i] \in Nat
      /\ G[0] = 0 /\ \A i \in 1..L : G[i] = G[i - 1] + (IF i \in chosen THEN tier[i].uploaded.delta ELSE 0)
  BY <1>4 DEF Counted
<1> DEFINE T == {k \in 0..L : G[k] = IF k <= k0 THEN 0 ELSE H[c[k]] - H[c[k0]]}
<1>6. \A k \in 0..L : H[c[k]] \in Nat
  BY <1>1, <1>2
<1> HIDE DEF L
<1>7. 0 \in T
  BY <1>1, <1>5 DEF L
<1>8. ASSUME NEW k \in 0 + 1..L, k - 1 \in T PROVE k \in T
  <2>1. k \in 1..L /\ k \in 0..L /\ k - 1 \in 0..L /\ k0 \in 0..L
    BY <1>1 DEF L
  <2>2. G[k - 1] = IF k - 1 <= k0 THEN 0 ELSE H[c[k - 1]] - H[c[k0]]
    BY <1>8
  <2>3. G[k] = G[k - 1] + (IF k > k0 THEN tier[k].uploaded.delta ELSE 0)
    BY <1>5, <2>1 DEF L
  <2>4. H[c[k]] \in Nat /\ H[c[k - 1]] \in Nat /\ H[c[k0]] \in Nat /\ tier[k].uploaded.delta = H[c[k]] - H[c[k - 1]]
    BY <1>3, <1>6, <2>1
  <2> DEFINE u == H[c[k]]
             v == H[c[k - 1]]
             w == H[c[k0]]
  <2>5. G[k] = IF k <= k0 THEN 0 ELSE u - w
    <3>1. CASE k <= k0
      BY <2>1, <2>2, <2>3, <3>1
    <3>2. CASE k > k0
      <4>1. G[k - 1] = v - w
        <5>1. CASE k - 1 <= k0
          <6>1. k - 1 = k0
            BY <2>1, <3>2, <5>1
          <6>2. v = w
            BY <6>1
          <6> HIDE DEF v, w, u
          <6> QED
            BY <2>2, <2>4, <5>1, <6>2 DEF v, w
        <5>2. CASE ~(k - 1 <= k0)
          BY <2>2, <5>2
        <5> QED
          BY <5>1, <5>2
      <4>2. u \in Nat /\ v \in Nat /\ w \in Nat /\ G[k] = G[k - 1] + (u - v)
        BY <2>1, <2>3, <2>4, <3>2
      <4> HIDE DEF u, v, w
      <4>3. G[k] = u - w
        BY <4>1, <4>2
      <4> QED
        BY <2>1, <3>2, <4>3
    <3> QED
      BY <2>1, <3>1, <3>2
  <2> QED
    BY <2>1, <2>5
<1>9. L \in T
  <2> HIDE DEF T
  <2>1. 0 \in Nat /\ L \in Nat /\ 0 \in T /\ \A k \in 0 + 1..L : k - 1 \in T => k \in T
    BY <1>1, <1>7, <1>8
  <2>2. \A k \in 0..L : k \in T
    BY ONLY <2>1, Upward
  <2> QED
    BY <1>1, <2>2
<1>10. G[L] = H[hi] - H[c[k0]]
  <2>1. G[L] = IF L <= k0 THEN 0 ELSE H[c[L]] - H[c[k0]]
    BY <1>9
  <2>2. CASE L <= k0
    <3>1. L = k0 /\ H[c[k0]] \in Nat
      <4>2. k0 \in 0..L /\ L \in Nat
        BY <1>1 DEF L
      <4>1. L = k0
        BY <4>2, <2>2
      <4> QED
        BY <1>6, <4>1, <4>2
    <3> QED
      BY <1>1, <2>1, <3>1
  <2>3. CASE ~(L <= k0)
    BY <1>1, <2>1, <2>3
  <2> QED
    BY <2>2, <2>3
<1> QED
  BY <1>4, <1>10

(* The edge is the end of a window that holds samples.                     *)
Sealed == edge = 0 \/ \E i \in 1..Len(samples) : Start(samples[i].at, Window) + Window = edge

LEMMA EdgeSealed == Spec => []Sealed
<1>1. Init => Sealed
  BY DEF Init, Sealed
<1>2. ASSUME SeriesInv, Sealed, [Next]_vars PROVE Sealed'
  <2>1. samples \in Seq(RawSample) /\ Len(samples) \in Nat /\ DOMAIN samples = 1..Len(samples)
    BY <1>2 DEF SeriesInv, IsSeries
  <2>2. CASE Observe
    <3>1. PICK x : samples' = Append(samples, x) /\ edge' = edge
      BY <2>2 DEF Observe
    <3>2. Len(samples') = Len(samples) + 1 /\ \A i \in 1..Len(samples) : samples'[i] = samples[i]
      BY <2>1, <3>1
    <3>3. \A i \in 1..Len(samples) : i \in 1..Len(samples')
      BY <2>1, <3>2
    <3> QED
      BY <1>2, <3>1, <3>2, <3>3 DEF Sealed
  <2>3. CASE SealOne
    <3>0. Unsealed # {} /\ Unsealed \subseteq 1..Len(samples)
      BY <2>1, <2>3 DEF SealOne, Unsealed
    <3>1. Unsealed # {} /\ Unsealed \subseteq 1..Len(samples) /\ Unsealed \in SUBSET Nat
      BY <2>1, <3>0
    <3>2. Min(Unsealed) \in 1..Len(samples)
      BY <3>1, MinOf
    <3>3. edge' = Start(samples[Min(Unsealed)].at, Window) + Window /\ samples' = samples
      BY <2>3 DEF SealOne
    <3> QED
      BY <3>2, <3>3 DEF Sealed
  <2>4. CASE Row \/ Put \/ UNCHANGED vars
    <3>1. samples' = samples /\ edge' = edge
      BY <2>4 DEF Row, Put, vars
    <3> QED
      BY <1>2, <3>1 DEF Sealed
  <2> QED
    BY <1>2, <2>2, <2>3, <2>4 DEF Next
<1>3. []SeriesInv /\ Spec => []Sealed
  BY <1>1, <1>2, PTL DEF Spec
<1> QED
  BY <1>3, SeriesInvariant, PTL

(* The end of the last sealed window is that of the last bucket.           *)
LEMMA LastEnds ==
  ASSUME SeriesInv, Sealed, NEW hi, Cut(samples, edge, hi), Covered(five, samples, hi, Window)
  PROVE  /\ five # <<>> => five[Len(five)].end = edge /\ edge > 0
         /\ five = <<>> => edge = 0
<1>1. /\ IsSeries(samples) /\ edge \in Nat /\ edge % Window = 0 /\ Len(samples) \in Nat /\ hi \in 0..Len(samples)
      /\ Window \in Nat \ {0} /\ \A i \in 1..Len(samples) : samples[i].at < edge <=> i <= hi
  BY RollupAssumption DEF SeriesInv, IsSeries, Cut
<1>2. PICK c : Covers(c, five, samples, hi, Window)
  BY DEF Covered
<1> DEFINE L == Len(five)
<1>3. five \in Seq(Buckets(Window)) /\ L \in Nat /\ c \in [0..L -> 0..hi] /\ c[0] = 0 /\ c[L] = hi
  BY <1>2 DEF Covered, Covers
<1>4. ASSUME edge # 0
      PROVE  \E i \in 1..hi : /\ Start(samples[i].at, Window) + Window = edge
                             /\ i \in 1..Len(samples) /\ samples[i].at \in Nat
  <2>1. PICK i \in 1..Len(samples) : Start(samples[i].at, Window) + Window = edge
    BY <1>4 DEF Sealed
  <2>2. samples[i].at \in Nat
    BY <1>1, SampleFields
  <2>3. samples[i].at < edge
    BY <1>1, <2>1, <2>2, StartContains
  <2>4. i \in 1..hi
    BY <1>1, <2>3
  <2> QED
    BY <2>1, <2>2, <2>4
<1>5. ASSUME five # <<>> PROVE five[L].end = edge /\ edge > 0
  <2>1. L \in 1..L /\ L - 1 \in 0..L /\ L \in 0..L
    BY <1>3, <1>5
  <2> DEFINE x == five[L]
             l == c[L - 1]
             at == samples[hi].at
  <2>2. l \in 0..hi /\ Tells(x, samples, l, hi, Window)
    BY <1>2, <1>3, <2>1 DEF Covers
  <2> HIDE DEF x, l
  <2>3. l < hi /\ hi \in l + 1..hi /\ hi \in 1..Len(samples)
    BY <1>1, <2>2 DEF Tells
  <2>4. x.start = Start(at, Window) /\ x.end = x.start + Window
    BY <2>2, <2>3 DEF Tells, Buckets
  <2>5. at \in Nat /\ at < edge
    BY <1>1, <2>3, SampleFields
  <2>6. edge # 0
    BY <1>1, <2>5
  <2>7. PICK i \in 1..hi : /\ Start(samples[i].at, Window) + Window = edge
                         /\ i \in 1..Len(samples) /\ samples[i].at \in Nat
    BY <1>4, <2>6
  <2>8. samples[i].at <= at
    <3>1. CASE i = hi
      BY <2>5, <3>1
    <3>2. CASE i # hi
      <4>1. i < hi
        BY <2>3, <3>2
      <4> QED
        BY <1>1, <2>3, <2>5, <2>7, <4>1 DEF IsSeries
    <3> QED
      BY <3>1, <3>2
  <2> DEFINE p == Start(samples[i].at, Window)
             q == Start(at, Window)
  <2>9. p # q => p + Window <= q
    BY <1>1, <2>5, <2>7, <2>8, StartsApart
  <2>10. q \in Nat /\ q <= at /\ p + Window = edge
    BY <1>1, <2>5, <2>7, StartMultiple, StartContains
  <2> HIDE DEF p, q, at
  <2>11. p = q
    BY <1>1, <2>5, <2>9, <2>10
  <2>12. x.end = edge
    BY <2>4, <2>10, <2>11 DEF q
  <2> QED
    BY <1>1, <2>6, <2>12 DEF x
<1>6. ASSUME five = <<>> PROVE edge = 0
  <2>1. hi = 0
    BY <1>3, <1>6
  <2> QED
    BY <1>4, <2>1
<1> QED
  BY <1>5, <1>6

(* No sample is as late as the end of what the tiers hold.                 *)
LEMMA EndIs ==
  ASSUME SeriesInv
  PROVE  End \in Nat /\ edge <= End /\ \A i \in 1..Len(samples) : samples[i].at < End
<1> DEFINE n == Len(samples)
           S == {edge} \cup {s.at + 1 : s \in ToSet(samples)}
<1>1. IsSeries(samples) /\ edge \in Nat /\ n \in Nat /\ DOMAIN samples = 1..n
  BY DEF SeriesInv, IsSeries
<1>2. \A i \in 1..n : samples[i].at \in Nat
  BY <1>1, SampleFields
<1>3. S = {edge} \cup {samples[i].at + 1 : i \in 1..n}
  BY <1>1 DEF ToSet
<1>4. \E m \in S : \A y \in S : y <= m
  <2>1. CASE n = 0
    <3>1. S = {edge}
      BY <1>3, <2>1
    <3> HIDE DEF S
    <3>2. edge \in S /\ \A y \in S : y <= edge
      BY <1>1, <3>1
    <3> QED
      BY <3>2
  <2>2. CASE n # 0
    <3>1. n \in 1..n
      BY <1>1, <2>2
    <3>2. \A i \in 1..n : samples[i].at <= samples[n].at
      <4>1. ASSUME NEW i \in 1..n PROVE samples[i].at <= samples[n].at
        <5>1. CASE i = n
          <6>1. samples[n].at \in Nat
            BY <1>2, <3>1
          <6> QED
            BY <5>1, <6>1
        <5>2. CASE i # n
          <6>1. i < n
            <7> HIDE DEF n
            <7> QED
              BY <1>1, <5>2
          <6>2. samples[i].at < samples[n].at
            BY <1>1, <3>1, <6>1 DEF IsSeries
          <6>3. samples[i].at \in Nat /\ samples[n].at \in Nat
            BY <1>2, <3>1
          <6> QED
            BY <6>2, <6>3
        <5> QED
          BY <5>1, <5>2
      <4> QED
        BY <4>1
    <3> DEFINE last == samples[n].at + 1
    <3>3. last \in S /\ last \in Nat /\ edge \in S /\ \A y \in S : y = edge \/ y <= last
      <4>0. \A i \in 1..n : samples[i].at + 1 \in S
        BY <1>3
      <4>1. last \in S /\ last \in Nat /\ edge \in S
        <5>1. last \in S
          BY <3>1, <4>0
        <5>2. last \in Nat
          <6> HIDE DEF n
          <6> QED
            BY <1>2, <3>1
        <5> QED
          BY <5>1, <5>2
      <4>2. ASSUME NEW y \in S, y # edge PROVE y <= last
        <5>1. PICK i \in 1..n : y = samples[i].at + 1
          BY <1>3, <4>2
        <5> HIDE DEF n
        <5> QED
          BY <1>2, <3>1, <3>2, <5>1
      <4> HIDE DEF S, last
      <4> QED
        BY <4>1, <4>2
    <3> HIDE DEF S, last
    <3>4. CASE edge <= last
      BY <3>3, <3>4
    <3>5. CASE ~(edge <= last)
      BY <1>1, <3>3, <3>5, SMTT(30)
    <3> QED
      BY <3>4, <3>5
  <2> QED
    BY <2>1, <2>2
<1>5. End \in S /\ \A y \in S : y <= End
  <2> HIDE DEF S
  <2>1. Max(S) \in S /\ \A y \in S : y <= Max(S)
    BY <1>4 DEF Max
  <2> QED
    BY <2>1 DEF End, S
<1>6. End \in Nat
  BY <1>1, <1>2, <1>3, <1>5
<1>7. edge <= End
  BY <1>5
<1>8. ASSUME NEW i \in 1..n PROVE samples[i].at < End
  <2>1. samples[i].at + 1 \in S
    BY <1>3
  <2> HIDE DEF S
  <2>2. samples[i].at + 1 <= End
    BY <1>5, <2>1
  <2> HIDE DEF n
  <2> QED
    BY <1>2, <1>6, <2>2
<1> QED
  BY <1>6, <1>7, <1>8

(* The starts of a tier's buckets grow.                                    *)
LEMMA StartsGrow ==
  ASSUME NEW res \in Nat \ {0}, IsSeries(samples), edge \in Nat, edge % res = 0,
         NEW hi, Cut(samples, edge, hi), NEW tier, Covered(tier, samples, hi, res)
  PROVE  /\ \A k \in 1..Len(tier) : /\ tier[k].start \in Nat /\ tier[k].end = tier[k].start + res
                                    /\ tier[k].end <= edge
         /\ \A j, k \in 1..Len(tier) : j < k => tier[j].start < tier[k].start
<1> DEFINE L == Len(tier)
<1>1. tier \in Seq(Buckets(res)) /\ L \in Nat
  BY DEF Covered
<1>2. ASSUME NEW k \in 1..L
      PROVE  /\ tier[k].start \in Nat /\ tier[k].end = tier[k].start + res /\ tier[k].end <= edge
             /\ k > 1 => tier[k - 1].end <= tier[k].start
  <2>1. tier[k] \in Buckets(res)
    BY <1>1
  <2>2. tier[k].start \in Nat /\ tier[k].end = tier[k].start + res
    BY <2>1 DEF Buckets, Bucket
  <2>3. tier[k].end <= edge /\ (k > 1 => tier[k - 1].end <= tier[k].start)
    BY <1>1, CoveredExact
  <2> QED
    BY <2>2, <2>3
<1>3. ASSUME NEW j \in 1..L, NEW k \in 1..L, j < k PROVE tier[j].start < tier[k].start
  <2> DEFINE T == {i \in j + 1..L : tier[j].start < tier[i].start}
  <2> HIDE DEF L
  <2>1. j + 1 \in T
    <3>1. j + 1 \in 1..L /\ (j + 1) - 1 = j /\ j + 1 > 1 /\ j + 1 \in j + 1..L
      BY <1>1, <1>3
    <3>2. tier[j].end <= tier[j + 1].start /\ tier[j + 1].start \in Nat
      BY <1>2, <3>1
    <3>3. tier[j].start \in Nat /\ tier[j].end = tier[j].start + res
      BY <1>2
    <3>4. tier[j].start < tier[j + 1].start
      BY <1>1, <3>2, <3>3
    <3> QED
      BY <3>1, <3>4
  <2>2. ASSUME NEW i \in (j + 1) + 1..L, i - 1 \in T PROVE i \in T
    <3>1. i \in 1..L /\ i > 1 /\ i \in j + 1..L /\ i - 1 \in 1..L /\ tier[j].start < tier[i - 1].start
      BY <1>1, <2>2
    <3>2. tier[i - 1].end <= tier[i].start /\ tier[i].start \in Nat
      BY <1>2, <3>1
    <3>3. tier[i - 1].start \in Nat /\ tier[i - 1].end = tier[i - 1].start + res /\ tier[j].start \in Nat
      BY <1>2, <3>1
    <3>4. tier[j].start < tier[i].start
      <4> DEFINE x == tier[j].start y == tier[i - 1].start z == tier[i].start
      <4>1. x \in Nat /\ y \in Nat /\ z \in Nat /\ x < y /\ y + res <= z
        BY <3>1, <3>2, <3>3
      <4> HIDE DEF x, y, z
      <4>2. x < z
        BY <4>1
      <4> QED
        BY <4>2 DEF x, z
    <3> QED
      BY <3>1, <3>4
  <2> HIDE DEF T
  <2>3. \A i \in j + 1..L : i \in T
    <3>1. j + 1 \in Nat /\ L \in Nat
      BY <1>1
    <3> QED
      BY <2>1, <2>2, <3>1, Upward
  <2>4. k \in j + 1..L
    BY <1>1, <1>3
  <2> QED
    BY <2>3, <2>4 DEF T
<1> QED
  BY <1>2, <1>3

(* The buckets from t on are the last ones, and their samples those from   *)
(* the first of these buckets on.                                          *)
LEMMA SpanIs ==
  ASSUME SeriesInv, NEW hi, Cut(samples, edge, hi), Covered(five, samples, hi, Window),
         NEW c, Covers(c, five, samples, hi, Window), NEW t \in Int
  PROVE  \E k0 \in 0..Len(five) :
           /\ \A k \in 1..Len(five) : five[k].start >= t <=> k > k0
           /\ LET from == Min({edge} \cup {x.start : x \in {y \in ToSet(five) : y.start >= t}})
              IN from \in Int /\ Cut(samples, from, c[k0])
<1> DEFINE L == Len(five)
<1>1. /\ IsSeries(samples) /\ edge \in Nat /\ Window \in Nat \ {0} /\ L \in Nat /\ DOMAIN five = 1..L
      /\ Len(samples) \in Nat /\ hi \in 0..Len(samples)
  BY RollupAssumption DEF SeriesInv, Covered, IsSeries, Cut
<1>0. edge % Window = 0 /\ Covered(five, samples, hi, Window)
  BY DEF SeriesInv
<1>2. \A k \in 1..L : five[k].start \in Nat /\ five[k].end = five[k].start + Window /\ five[k].end <= edge
  BY <1>1, <1>0, StartsGrow
<1>3. \A j, k \in 1..L : j < k => five[j].start < five[k].start
  BY <1>1, <1>0, StartsGrow
<1>4. c \in [0..L -> 0..hi] /\ c[0] = 0 /\ c[L] = hi
  BY DEF Covers
<1> DEFINE S == {k \in 1..L : five[k].start < t}
<1>5. PICK k0 \in 0..L : \A k \in 1..L : k \in S <=> k <= k0
  <2>1. CASE S = {}
    <3>1. \A k \in 1..L : k \notin S /\ ~(k <= 0)
      BY <1>1, <2>1
    <3>2. 0 \in 0..L
      BY <1>1
    <3> QED
      BY <3>1, <3>2
  <2>2. CASE S # {}
    <3>1. S \subseteq 1..L
      OBVIOUS
    <3> HIDE DEF S, L
    <3>2. PICK m \in S : \A k \in S : k <= m
      BY <1>1, <2>2, <3>1, MaxOf
    <3>3. ASSUME NEW k \in 1..L, k <= m PROVE k \in S
      <4>1. CASE k = m
        BY <3>2, <4>1
      <4>2. CASE k # m
        <5>1. k < m /\ m \in 1..L
          BY <1>1, <3>1, <3>2, <3>3, <4>2
        <5>2. five[k].start < five[m].start /\ five[m].start < t /\ five[k].start \in Nat /\ five[m].start \in Nat
          BY <1>2, <1>3, <3>2, <5>1 DEF S
        <5> QED
          BY <5>2 DEF S
      <4> QED
        BY <4>1, <4>2
    <3>4. m \in 0..L
      BY <1>1, <3>1, <3>2
    <3> QED
      BY <3>2, <3>3, <3>4
  <2> QED
    BY <2>1, <2>2
<1>6. \A k \in 1..L : five[k].start >= t <=> k > k0
  <2> HIDE DEF L
  <2> QED
    BY <1>1, <1>2, <1>5
<1> DEFINE U == {edge} \cup {x.start : x \in {y \in ToSet(five) : y.start >= t}}
<1>7. U = {edge} \cup {five[k].start : k \in {j \in 1..L : j > k0}}
  <2>1. ToSet(five) = {five[k] : k \in 1..L}
    BY <1>1 DEF ToSet
  <2> HIDE DEF L
  <2> QED
    BY <1>6, <2>1
<1>8. CASE k0 = L
  <2>1. U = {edge}
    <3> HIDE DEF L, U
    <3> QED
      BY <1>1, <1>7, <1>8
  <2>2. Min(U) = edge
    <3> HIDE DEF U
    <3>1. edge \in U /\ \A y \in U : edge <= y
      BY <1>1, <2>1
    <3>2. Min(U) \in U
      BY <3>1, LeastOf
    <3> QED
      BY <2>1, <3>2
  <2>3. Cut(samples, edge, c[k0])
    BY <1>4, <1>8
  <2> QED
    <3> HIDE DEF U, L
    <3>1. Min(U) \in Int /\ Cut(samples, Min(U), c[k0])
      BY <1>1, <2>2, <2>3
    <3> QED
      BY <1>6, <3>1 DEF U, L
<1>9. CASE k0 # L
  <2>1. k0 + 1 \in 1..L /\ k0 + 1 \in 0..L /\ (k0 + 1) - 1 = k0
    <3> HIDE DEF L
    <3> QED
      BY <1>1, <1>9
  <2> DEFINE x == five[k0 + 1]
             l == c[k0]
             h == c[k0 + 1]
  <2>2. l \in 0..hi /\ h \in 0..hi /\ Tells(x, samples, l, h, Window)
    BY <1>4, <2>1 DEF Covers
  <2>3. k0 + 1 > 1 => Start(samples[l].at, Window) # Start(samples[l + 1].at, Window)
    BY <2>1 DEF Covers
  <2>4. Min(U) = x.start /\ x.start \in Nat
    <3>1. x.start \in U /\ x.start \in Nat
      <4>1. k0 + 1 \in {j \in 1..L : j > k0}
        BY <2>1
      <4> HIDE DEF U, L
      <4> QED
        BY <1>2, <1>7, <2>1, <4>1 DEF L
    <3>2. ASSUME NEW y \in U PROVE x.start <= y /\ y \in Nat
      <4>1. CASE y = edge
        BY <1>1, <1>2, <2>1, <4>1
      <4>2. CASE y # edge
        <5>1. PICK k \in 1..L : k > k0 /\ y = five[k].start
          <6> HIDE DEF U, L
          <6> QED
            BY <1>7, <4>2
        <5>2. k = k0 + 1 \/ k0 + 1 < k
          <6> HIDE DEF L
          <6> QED
            BY <1>1, <5>1
        <5>3. x.start \in Nat /\ y \in Nat
          BY <1>2, <2>1, <5>1
        <5>4. k0 + 1 < k => x.start < five[k].start
          BY <1>3, <2>1
        <5> HIDE DEF x
        <5> QED
          BY <5>1, <5>2, <5>3, <5>4 DEF x
      <4> QED
        BY <4>1, <4>2
    <3> HIDE DEF U, x
    <3>3. Min(U) \in U /\ \A y \in U : Min(U) <= y
      BY <3>1, <3>2, LeastOf
    <3>4. Min(U) <= x.start /\ x.start <= Min(U) /\ Min(U) \in Nat
      BY <3>1, <3>2, <3>3
    <3> QED
      BY <3>1, <3>4
  <2> HIDE DEF x, l, h, L
  <2>5. l < h /\ l + 1 \in 1..Len(samples) /\ x.start = Start(samples[l + 1].at, Window)
    <3>1. l < h
      BY <2>2 DEF Tells
    <3>2. l + 1 \in l + 1..h /\ l + 1 \in 1..Len(samples)
      BY <1>1, <2>2, <3>1
    <3> QED
      BY <2>2, <3>1, <3>2 DEF Tells
  <2>6. samples[l + 1].at \in Nat /\ x.start <= samples[l + 1].at
    BY <1>1, <2>5, SampleFields, StartContains
  <2>7. ASSUME NEW i \in 1..Len(samples), i > l PROVE samples[i].at >= x.start
    <3>1. samples[i].at \in Nat
      BY <1>1, SampleFields
    <3>2. CASE i = l + 1
      BY <2>6, <3>2, <2>4
    <3>3. CASE i # l + 1
      <4>1. l + 1 < i
        BY <1>1, <2>2, <2>7, <3>3
      <4>2. samples[l + 1].at < samples[i].at
        BY <1>1, <2>5, <4>1 DEF IsSeries
      <4> QED
        BY <2>4, <2>6, <3>1, <4>2
    <3> QED
      BY <3>2, <3>3
  <2>8. ASSUME NEW i \in 1..Len(samples), i <= l PROVE samples[i].at < x.start
    <3>1. l \in 1..Len(samples) /\ l < l + 1
      BY <1>1, <2>2, <2>8
    <3>2. k0 + 1 > 1
      <4>1. k0 # 0
        BY <1>4, <3>1 DEF l
      <4> QED
        BY <4>1, <1>5
    <3>3. samples[l].at \in Nat /\ samples[i].at \in Nat /\ samples[l].at < samples[l + 1].at
      BY <1>1, <2>5, <3>1, SampleFields DEF IsSeries
    <3>4. samples[l].at < x.start
      BY <1>1, <2>3, <2>5, <2>6, <3>2, <3>3, StartsApart
    <3>5. samples[i].at <= samples[l].at
      <4>1. i = l \/ i < l
        BY <3>1, <2>8
      <4> QED
        BY <1>1, <3>1, <3>3, <4>1 DEF IsSeries
    <3> QED
      BY <2>4, <3>3, <3>4, <3>5
  <2>9. Cut(samples, x.start, l)
    <3>1. l \in 0..Len(samples)
      BY <1>1, <2>2
    <3>2. ASSUME NEW i \in 1..Len(samples) PROVE samples[i].at < x.start <=> i <= l
      <4>1. samples[i].at \in Nat
        BY <1>1, SampleFields
      <4> QED
        BY <2>4, <2>7, <2>8, <3>1, <4>1
    <3> QED
      BY <3>1, <3>2 DEF Cut
  <2> HIDE DEF U
  <2>10. Min(U) \in Int /\ Cut(samples, Min(U), c[k0])
    BY <2>4, <2>9 DEF l
  <2> QED
    BY <1>6, <2>10 DEF U, L
<1> QED
  BY <1>8, <1>9

(* The raw tail of the cached upload adds what is not sealed.              *)
LEMMA FreshIs ==
  ASSUME SeriesInv, NEW hi, Cut(samples, edge, hi), End - edge < Window, NEW H, Gains(H, samples, Len(samples))
  PROVE  TailUpload(Within(samples, End - TailSpan, End), edge) = H[Len(samples)] - H[hi]
<1> DEFINE n == Len(samples)
           t == Within(samples, End - TailSpan, End)
<1>1. IsSeries(samples) /\ edge \in Nat /\ n \in Nat /\ hi \in 0..n /\ \A i \in 1..n : samples[i].at < edge <=> i <= hi
  BY DEF SeriesInv, IsSeries, Cut
<1>2. End \in Nat /\ edge <= End /\ \A i \in 1..n : samples[i].at < End
  BY EndIs
<1>3. /\ TailSpan \in Nat /\ Window \in Nat \ {0} /\ StepMS \in Nat \ {0} /\ Window + 2 * StepMS <= TailSpan
  BY ChartsAssumption, RollupAssumption
<1>4. \A i \in 1..n : samples[i].at \in Nat
  BY <1>1, SampleFields
<1>5. PICK l, h : /\ IsSlice(t, samples, l, h)
                  /\ \A i \in 1..n : /\ samples[i].at < End - TailSpan <=> i <= l
                                     /\ samples[i].at < End <=> i <= h
  <2>1. End - TailSpan \in Int /\ End \in Int /\ End - TailSpan <= End
    BY <1>2, <1>3
  <2> QED
    BY <1>1, <2>1, WithinIs
<1> HIDE DEF t
<1>6. l \in 0..n /\ h \in 0..n
  BY <1>1, <1>5 DEF IsSlice
<1>7. h = n
  <2>1. \A i \in 1..n : i <= h
    BY <1>2, <1>5
  <2> HIDE DEF n
  <2>2. h < n => h + 1 \in 1..n
    BY <1>1, <1>6
  <2> QED
    BY <1>1, <1>6, <2>1, <2>2
<1>8. l <= hi
  <2>1. ASSUME l \in 1..n PROVE l <= hi
    <3>1. samples[l].at < End - TailSpan /\ samples[l].at \in Nat
      BY <1>4, <1>5, <2>1
    <3>2. samples[l].at < edge
      BY <1>1, <1>2, <1>3, <3>1
    <3> QED
      BY <1>1, <2>1, <3>2
  <2> QED
    BY <1>1, <1>6, <2>1
<1>9. ASSUME l = hi, l < n PROVE GainOf(samples, l + 1) = 0
  <2>1. CASE l = 0
    BY <2>1 DEF GainOf
  <2>2. CASE l # 0
    <3>1. l \in 1..n /\ l + 1 \in 1..n /\ (l + 1) - 1 = l /\ l + 1 # 1 /\ ~(l + 1 <= hi)
      <4> HIDE DEF n
      <4> QED
        BY <1>1, <1>6, <1>9, <2>2
    <3> DEFINE p == samples[l]
               s == samples[l + 1]
    <3>2. p.at \in Nat /\ s.at \in Nat /\ p.at < End - TailSpan /\ ~(s.at < edge)
      BY <1>1, <1>4, <1>5, <3>1
    <3> HIDE DEF p, s
    <3>3. ~(s.at - p.at <= 2 * StepMS)
      BY <1>1, <1>2, <1>3, <3>2
    <3>4. Observed(s, p) = 0
      BY <3>3 DEF Observed, Continuous
    <3> QED
      BY <3>1, <3>4 DEF GainOf, s, p
  <2> QED
    BY <2>1, <2>2
<1>10. IsSlice(t, samples, l, Len(samples))
  BY <1>5, <1>7
<1>11. TailUpload(t, edge) = H[Len(samples)] - H[hi]
  <2>1. edge \in Int
    BY <1>1
  <2> QED
    BY <1>1, <1>8, <1>9, <1>10, <2>1, TailAdds
<1> QED
  BY <1>11 DEF t

(* A span of the cached upload is the sum of the differences of its        *)
(* samples.                                                                *)
LEMMA SpanAdds ==
  ASSUME SeriesInv, NEW hi, Cut(samples, edge, hi), Covered(five, samples, hi, Window),
         End - edge < Window, NEW t \in Int, NEW chosen,
         \A k \in 1..Len(five) : k \in chosen <=> five[k].start >= t
  PROVE  LET from == Min({edge} \cup {x.start : x \in {y \in ToSet(five) : y.start >= t}})
         IN Deltas(five, chosen) + TailUpload(Within(samples, End - TailSpan, End), edge)
              = TailUpload(samples, from)
<1> DEFINE from == Min({edge} \cup {x.start : x \in {y \in ToSet(five) : y.start >= t}})
           n == Len(samples)
<1>1. /\ IsSeries(samples) /\ n \in Nat /\ hi \in 0..n /\ Window \in Nat \ {0}
      /\ five \in Seq(Buckets(Window))
  BY RollupAssumption DEF SeriesInv, IsSeries, Cut, Covered
<1>2. PICK c : Covers(c, five, samples, hi, Window)
  BY DEF Covered
<1>3. PICK k0 \in 0..Len(five) : /\ \A k \in 1..Len(five) : five[k].start >= t <=> k > k0
                                 /\ from \in Int /\ Cut(samples, from, c[k0])
  BY <1>2, SpanIs
<1> HIDE DEF from
<1>4. PICK H : Gains(H, samples, n)
  BY <1>1, RawObservedIs
<1>5. Gains(H, samples, hi)
  BY <1>1, <1>4 DEF Gains
<1>6. Deltas(five, chosen) = H[hi] - H[c[k0]]
  <2>1. \A k \in 1..Len(five) : k \in chosen <=> k > k0
    BY <1>3
  <2>2. hi \in Nat
    BY <1>1
  <2> QED
    BY <1>1, <1>2, <1>5, <2>1, <2>2, DeltasAdd
<1>7. TailUpload(Within(samples, End - TailSpan, End), edge) = H[n] - H[hi]
  BY <1>4, FreshIs
<1> DEFINE m == c[k0]
<1>8. m \in 0..n
  BY <1>3 DEF Cut
<1>9. TailUpload(samples, from) = H[n] - H[m]
  <2>1. IsSlice(samples, samples, 0, n)
    BY <1>1 DEF IsSlice, IsSeries
  <2>2. 0 <= m /\ (0 = m /\ 0 < n => GainOf(samples, 0 + 1) = 0)
    BY <1>8 DEF GainOf
  <2>3. Cut(samples, from, m)
    BY <1>3
  <2> HIDE DEF m
  <2> QED
    BY <1>1, <1>3, <1>4, <2>1, <2>2, <2>3, TailAdds
<1>10. H[n] \in Nat /\ H[hi] \in Nat /\ H[m] \in Nat
  <2>1. n \in 0..n
    BY <1>1
  <2> HIDE DEF m
  <2> QED
    BY <1>1, <1>4, <1>8, <2>1 DEF Gains
<1> DEFINE d == Deltas(five, chosen)
           f == TailUpload(Within(samples, End - TailSpan, End), edge)
           w == TailUpload(samples, from)
           u == H[n] v == H[hi] z == H[m]
<1>11. d = v - z /\ f = u - v /\ w = u - z /\ u \in Nat /\ v \in Nat /\ z \in Nat
  BY <1>6, <1>7, <1>9, <1>10
<1> HIDE DEF d, f, w, u, v, z
<1>12. d + f = w
  BY <1>11
<1> QED
  BY <1>12 DEF d, f, w, from

(* What refreshStats caches is the sum of the differences of its span.     *)
LEMMA StatsAre ==
  ASSUME SeriesInv, Sealed
  PROVE  StatsExact
<1> SUFFICES ASSUME End - edge < Window
             PROVE  RefreshStats(five, samples, End) =
                      LET from(span) == Min({edge} \cup {x.start : x \in {y \in ToSet(five) : y.start >= End - span}})
                          since(t) == FoldLeftDomain(LAMBDA n, i : IF i = 1 \/ samples[i].at < t THEN n
                                        ELSE n + Observed(samples[i], samples[i - 1]), 0, samples)
                      IN [hour |-> since(from(Hour)), day |-> since(from(Day))]
  BY DEF StatsExact
<1> DEFINE L == Len(five)
           from(span) == Min({edge} \cup {x.start : x \in {y \in ToSet(five) : y.start >= End - span}})
           read  == {i \in DOMAIN five : five[i].start < End /\ five[i].end > End - Day}
           day   == {i \in read : five[i].start >= End - Day /\ five[i].end <= End}
           hour  == {i \in day : five[i].start >= End - Hour}
           tail  == Within(samples, End - TailSpan, End)
<1>1. PICK hi : Cut(samples, edge, hi) /\ Covered(five, samples, hi, Window)
  BY DEF SeriesInv
<1>2. /\ edge \in Nat /\ Window \in Nat \ {0} /\ L \in Nat /\ DOMAIN five = 1..L
      /\ Hour \in Nat /\ Day \in Nat /\ Hour <= Day /\ Window <= Day
  BY <1>1, RollupAssumption, ChartsAssumption DEF SeriesInv, Covered
<1>3. End \in Nat /\ edge <= End
  BY EndIs
<1>4. \A k \in 1..L : five[k].start \in Nat /\ five[k].end = five[k].start + Window /\ five[k].end <= edge
  <2>1. IsSeries(samples) /\ edge % Window = 0
    BY DEF SeriesInv
  <2> QED
    BY <1>1, <1>2, <2>1, StartsGrow
<1>5. ASSUME NEW k \in 1..L
      PROVE  /\ k \in day <=> five[k].start >= End - Day
             /\ k \in hour <=> five[k].start >= End - Hour
             /\ k \in read <=> five[k].end > End - Day
  <2> DEFINE x == five[k]
  <2>1. x.start \in Nat /\ x.end = x.start + Window /\ x.end <= edge
    BY <1>4
  <2>2. /\ k \in day <=> x.start < End /\ x.end > End - Day /\ x.start >= End - Day /\ x.end <= End
        /\ k \in hour <=> k \in day /\ x.start >= End - Hour
        /\ k \in read <=> x.start < End /\ x.end > End - Day
    <3> HIDE DEF L
    <3> QED
      BY <1>2
  <2> HIDE DEF x, day, hour, read, L
  <2>3. k \in day <=> x.start >= End - Day
    BY <1>2, <1>3, <2>1, <2>2
  <2>4. k \in hour <=> x.start >= End - Hour
    BY <1>2, <1>3, <2>1, <2>2, <2>3
  <2>5. k \in read <=> x.end > End - Day
    BY <1>2, <1>3, <2>1, <2>2
  <2> QED
    BY <2>3, <2>4, <2>5 DEF x
<1>6. read \subseteq 1..L
  BY <1>2
<1> HIDE DEF read, day, hour, tail, L
<1>7. SealedEnd(five, read) = edge
  <2> DEFINE S == {0} \cup {five[i].end : i \in read}
  <2>1. edge \in S
    <3>1. CASE five = <<>>
      BY <1>1, <3>1, LastEnds
    <3>2. CASE five # <<>>
      <4>1. five[L].end = edge /\ L \in 1..L
        <5>1. five[Len(five)].end = edge
          BY <1>1, <3>2, LastEnds
        <5>2. Len(five) # 0
          BY <1>1, <3>2 DEF Covered
        <5> QED
          BY <1>2, <5>1, <5>2 DEF L
      <4>2. L \in read
        BY <1>2, <1>3, <1>5, <4>1
      <4> QED
        BY <4>1, <4>2
    <3> QED
      BY <3>1, <3>2
  <2>2. ASSUME NEW y \in S PROVE y \in Nat /\ y <= edge
    <3>1. CASE y = 0
      BY <1>2, <3>1
    <3>2. CASE y # 0
      <4>1. PICK i \in read : y = five[i].end
        BY <3>2
      <4>2. i \in 1..L
        BY <1>6
      <4> QED
        BY <1>2, <1>4, <4>1, <4>2
    <3> QED
      BY <3>1, <3>2
  <2> HIDE DEF S
  <2>3. Max(S) \in S /\ \A y \in S : y <= Max(S)
    BY <2>1, <2>2 DEF Max
  <2>4. Max(S) = edge
    <3>1. Max(S) \in Nat /\ Max(S) <= edge /\ edge <= Max(S)
      BY <2>1, <2>2, <2>3
    <3> QED
      BY <1>2, <3>1
  <2> QED
    BY <2>4 DEF SealedEnd, S
<1> DEFINE fresh == TailUpload(tail, edge)
<1>8. RefreshStats(five, samples, End)
        = [hour |-> Deltas(five, hour) + fresh, day |-> Deltas(five, day) + fresh]
  BY <1>7 DEF RefreshStats, read, day, hour, tail
<1>9. Deltas(five, hour) + fresh = TailUpload(samples, from(Hour))
  <2>1. End - Hour \in Int /\ \A k \in 1..Len(five) : k \in hour <=> five[k].start >= End - Hour
    BY <1>2, <1>3, <1>5 DEF L
  <2> QED
    BY <1>1, <2>1, SpanAdds DEF tail
<1>10. Deltas(five, day) + fresh = TailUpload(samples, from(Day))
  <2>1. End - Day \in Int /\ \A k \in 1..Len(five) : k \in day <=> five[k].start >= End - Day
    BY <1>2, <1>3, <1>5 DEF L
  <2> QED
    BY <1>1, <2>1, SpanAdds DEF tail
<1>11. RefreshStats(five, samples, End)
         = [hour |-> TailUpload(samples, from(Hour)), day |-> TailUpload(samples, from(Day))]
  BY <1>8, <1>9, <1>10
<1> QED
  BY <1>11 DEF TailUpload

(* What refreshStats caches for an hour and a day is what the samples of   *)
(* that span gained: no difference is counted by a bucket and by the tail  *)
(* as well, and none falls between them (StatsAre), however the windows    *)
(* were cut.                                                               *)
THEOREM StatsExactAlways == Spec => []StatsExact
<1>1. SeriesInv /\ Sealed => StatsExact
  BY StatsAre
<1> QED
  BY <1>1, SeriesInvariant, EdgeSealed, PTL

-----------------------------------------------------------------------------
Accums == [sum : Nat, weight : Nat, filled : BOOLEAN]

(* Sample i has a speed and lies in the cell at t.                         *)
InCell(s, i, step, t) == Start(s[i].at, step) = t /\ "Up" \in s[i].valid

LEMMA AccumIn ==
  ASSUME NEW m \in Accums, NEW v \in Nat, NEW w \in Nat
  PROVE  /\ Accum(m, v, w) \in Accums /\ Accum(m, v, w).filled
         /\ Accum(m, v, w).sum = m.sum + v /\ Accum(m, v, w).weight = m.weight + w
  BY DEF Accum, Accums

LEMMA NoAccumIs == NoAccum \in Accums /\ NoAccum.weight = 0 /\ NoAccum.filled = FALSE
  BY DEF NoAccum, Accums

(* In a whole cell, a sample counts with its support.                      *)
Clipped(s, i, step, b, t) == Min({Weight(s, i, t + step), b - s[i].at})

LEMMA SupportInCell ==
  ASSUME NEW s, IsSeries(s), NEW step \in Nat \ {0}, NEW b \in Nat, NEW t \in Nat, t + step <= b,
         NEW i \in 1..Len(s), Start(s[i].at, step) = t
  PROVE  /\ Weight(s, i, t + step) \in Nat \ {0} /\ s[i].up * Weight(s, i, t + step) \in Nat
         /\ Clipped(s, i, step, b, t) = Weight(s, i, t + step)
<1>1. s[i].at \in Nat /\ s[i].up \in Nat
  BY SampleFields
<1>2. s[i].at < t + step
  BY <1>1, StartContains
<1> DEFINE w == Weight(s, i, t + step)
<1>3. w \in Nat \ {0} /\ s[i].at + w <= t + step
  <2>1. t + step \in Nat
    OBVIOUS
  <2> QED
    BY <1>2, <2>1, SupportFits DEF IsSeries, RawSample
<1> DEFINE r == b - s[i].at
<1> HIDE DEF w
<1>4. w <= r /\ r \in Int
  BY <1>1, <1>3
<1> HIDE DEF r
<1>5. Min({w, r}) = w
  <2>1. w \in {w, r} /\ \A y \in {w, r} : w <= y
    BY <1>3, <1>4
  <2>2. Min({w, r}) \in {w, r} /\ \A y \in {w, r} : Min({w, r}) <= y
    BY <2>1, LeastOf
  <2>3. Min({w, r}) <= w /\ w <= Min({w, r}) /\ Min({w, r}) \in Int
    BY <1>3, <1>4, <2>1, <2>2
  <2> QED
    BY <1>3, <2>3
<1>6. s[i].up * w \in Nat
  BY <1>1, <1>3
<1> QED
  BY <1>3, <1>5, <1>6 DEF w, r, Clipped

(* AlignedRaw, sample by sample.                                           *)
RawTrace(h, s, step, b, t) ==
  /\ h[0] = NoAccum /\ AlignedRaw(s, step, b, t) = h[Len(s)]
  /\ \A i \in 0..Len(s) : h[i] \in Accums
  /\ \A i \in 1..Len(s) :
       h[i] = IF InCell(s, i, step, t)
              THEN Accum(h[i - 1], s[i].up * Weight(s, i, t + step), Weight(s, i, t + step))
              ELSE h[i - 1]

LEMMA RawSteps ==
  ASSUME NEW s, IsSeries(s), NEW step \in Nat \ {0}, NEW b \in Nat, NEW t \in Nat, t + step <= b
  PROVE  \E h : RawTrace(h, s, step, b, t)
<1> DEFINE n == Len(s)
           V == Accums
           add(m, i) == IF Start(s[i].at, step) # t \/ "Up" \notin s[i].valid THEN m
                        ELSE LET u == Min({Weight(s, i, t + step), b - s[i].at})
                             IN Accum(m, s[i].up * u, u)
           took(m, i) == IF InCell(s, i, step, t)
                         THEN Accum(m, s[i].up * Weight(s, i, t + step), Weight(s, i, t + step)) ELSE m
           F == [p \in V \X (1..n) |-> add(p[1], p[2])]
           ids == [i \in DOMAIN s |-> i]
           E(g) == g = [S \in SUBSET DOMAIN ids |->
                          IF S = {} THEN NoAccum ELSE add(g[S \ {Max(S)}], ids[Max(S)])]
<1>1. n \in Nat /\ DOMAIN ids = 1..n /\ \A i \in 1..n : ids[i] = i
  BY DEF IsSeries
<1>2. ASSUME NEW i \in 1..n, NEW m PROVE add(m, i) = took(m, i) /\ (m \in V => add(m, i) \in V)
  <2>1. CASE InCell(s, i, step, t)
    <3>1. /\ Weight(s, i, t + step) \in Nat \ {0} /\ s[i].up * Weight(s, i, t + step) \in Nat
          /\ Clipped(s, i, step, b, t) = Weight(s, i, t + step)
      <4>1. Start(s[i].at, step) = t /\ i \in 1..Len(s)
        BY <2>1 DEF InCell
      <4> QED
        BY <4>1, SupportInCell
    <3>2. add(m, i) = took(m, i)
      BY <2>1, <3>1 DEF InCell, Clipped
    <3>3. m \in V => took(m, i) \in V
      BY <2>1, <3>1, AccumIn
    <3> HIDE DEF add, took
    <3> QED
      BY <3>2, <3>3
  <2>2. CASE ~InCell(s, i, step, t)
    BY <2>2 DEF InCell
  <2> QED
    BY <2>1, <2>2
<1> HIDE DEF add, took
<1>3. NoAccum \in V /\ F \in [V \X (1..n) -> V] /\ \A m \in V, i \in 1..n : F[<<m, i>>] = add(m, i)
  <2>1. \A m \in V, i \in 1..n : add(m, i) \in V
    BY <1>2
  <2>2. \A p \in V \X (1..n) : p[1] \in V /\ p[2] \in 1..n
    OBVIOUS
  <2> HIDE DEF V, n
  <2> QED
    BY <2>1, <2>2, NoAccumIs DEF V
<1>4. PICK it : Folds(it, V, NoAccum, F, n)
  <2> HIDE DEF F, n, V
  <2> QED
    BY <1>1, <1>3, FoldExists
<1>5. ASSUME NEW S \in SUBSET (1..n), S # {} PROVE Max(S) \in 1..n /\ S \ {Max(S)} \in SUBSET (1..n)
  <2> HIDE DEF n
  <2> QED
    BY <1>1, <1>5, MaxOf
<1>6. E(it)
  <2>1. ASSUME NEW S \in SUBSET (1..n), S # {}
        PROVE  it[S] = add(it[S \ {Max(S)}], ids[Max(S)])
    <3>1. PICK m \in 1..n : m = Max(S) /\ ids[Max(S)] = m
      BY <1>1, <1>5, <2>1
    <3>2. PICK v \in V : v = it[S \ {m}]
      BY <1>4, <1>5, <2>1, <3>1 DEF Folds
    <3>3. it[S] = F[<<v, m>>]
      BY <1>4, <2>1, <3>1, <3>2 DEF Folds
    <3>4. F[<<v, m>>] = add(v, m)
      BY <1>3
    <3> HIDE DEF F, n, ids
    <3> QED
      BY <3>1, <3>2, <3>3, <3>4
  <2> HIDE DEF F, n, ids, V
  <2> QED
    BY <1>1, <1>4, <2>1 DEF Folds
<1>7. PICK ch : ch = (CHOOSE g : E(g)) /\ E(ch)
  <2> HIDE DEF E
  <2> QED
    BY <1>6
<1>8. AlignedRaw(s, step, b, t) = ch[DOMAIN ids]
  BY <1>7 DEF AlignedRaw, FoldLeftDomain, FoldLeft, MapThenFoldSet, add
<1>9. ASSUME NEW i \in 1..n PROVE ch[1..i] = add(ch[1..i - 1], i)
  <2>1. Max(1..i) = i /\ (1..i) \ {i} = 1..i - 1 /\ 1..i \in SUBSET (1..n) /\ 1..i # {}
    BY PrefixMax
  <2>2. ids[i] = i
    BY <1>1
  <2> HIDE DEF n, ids
  <2>3. ch[1..i] = IF 1..i = {} THEN NoAccum ELSE add(ch[(1..i) \ {Max(1..i)}], ids[Max(1..i)])
    BY <1>1, <1>7, <2>1, ZenonT(60)
  <2> QED
    BY <2>1, <2>2, <2>3
<1>10. ch[1..0] = NoAccum
  <2>1. 1..0 = {} /\ 1..0 \in SUBSET (1..n)
    OBVIOUS
  <2> HIDE DEF n, ids
  <2> QED
    BY <1>7, <1>1, <2>1
<1> DEFINE h == [k \in 0..n |-> ch[1..k]]
<1> HIDE DEF E, ids
<1>11. h[0] = ch[1..0] /\ h[n] = ch[1..n] /\ \A i \in 1..n : h[i] = ch[1..i] /\ h[i - 1] = ch[1..i - 1]
  BY <1>1
<1> HIDE DEF h, n, V
<1>12. h[0] = NoAccum /\ \A i \in 1..n : h[i] = add(h[i - 1], i)
  BY <1>9, <1>10, <1>11
<1> DEFINE T == {i \in 0..n : h[i] \in V}
<1>13. \A i \in 0..n : i \in T
  <2>1. 0 \in T
    BY <1>1, <1>3, <1>12
  <2>2. ASSUME NEW i \in 0 + 1..n, i - 1 \in T PROVE i \in T
    <3>1. i \in 1..n /\ i \in 0..n
      BY <1>1
    <3> QED
      BY <1>2, <1>12, <2>2, <3>1
  <2> HIDE DEF T
  <2>3. 0 \in Nat /\ 0 \in T /\ \A i \in 0 + 1..n : i - 1 \in T => i \in T
    BY <2>1, <2>2
  <2> QED
    BY ONLY <1>1, <2>3, Upward
<1>14. \A i \in 1..n : h[i] = took(h[i - 1], i)
  BY <1>2, <1>12
<1>15. AlignedRaw(s, step, b, t) = h[n]
  BY <1>1, <1>8, <1>11
<1>16. RawTrace(h, s, step, b, t)
  BY <1>12, <1>13, <1>14, <1>15 DEF RawTrace, n, V, took
<1> QED
  BY <1>16

(* A cell of raw samples is filled where one of them has a speed.          *)
LEMMA RawFilled ==
  ASSUME NEW s, IsSeries(s), NEW step \in Nat \ {0}, NEW b \in Nat, NEW t \in Nat, t + step <= b
  PROVE  LET m == AlignedRaw(s, step, b, t)
         IN /\ m \in Accums
            /\ m.filled <=> \E i \in 1..Len(s) : InCell(s, i, step, t)
            /\ m.filled <=> m.weight > 0
<1>1. PICK h : RawTrace(h, s, step, b, t)
  BY RawSteps
<1> DEFINE n == Len(s)
           Q(k) == \E i \in 1..k : InCell(s, i, step, t)
           T == {k \in 0..n : (h[k].filled <=> Q(k)) /\ (h[k].filled <=> h[k].weight > 0)}
<1>2. n \in Nat /\ \A i \in 0..n : h[i] \in Accums
  BY <1>1 DEF IsSeries, RawTrace
<1> HIDE DEF n
<1>3. 0 \in T
  BY <1>1, <1>2, NoAccumIs DEF RawTrace
<1>4. ASSUME NEW k \in 0 + 1..n, k - 1 \in T PROVE k \in T
  <2>1. k \in 1..n /\ k \in 0..n /\ k - 1 \in 0..n
    BY <1>2
  <2>2. h[k - 1] \in Accums /\ (h[k - 1].filled <=> Q(k - 1)) /\ (h[k - 1].filled <=> h[k - 1].weight > 0)
    BY <1>2, <1>4, <2>1
  <2>3. Q(k) <=> Q(k - 1) \/ InCell(s, k, step, t)
    BY <2>1
  <2>4. CASE InCell(s, k, step, t)
    <3>1. /\ Weight(s, k, t + step) \in Nat \ {0} /\ s[k].up * Weight(s, k, t + step) \in Nat
      BY <2>1, <2>4, SupportInCell DEF InCell, n
    <3>2. h[k] = Accum(h[k - 1], s[k].up * Weight(s, k, t + step), Weight(s, k, t + step))
      BY <1>1, <2>1, <2>4 DEF RawTrace, n
    <3>3. h[k].filled /\ h[k].weight = h[k - 1].weight + Weight(s, k, t + step)
      <4>1. PICK w : w = Weight(s, k, t + step)
        OBVIOUS
      <4>2. PICK v : v = s[k].up * Weight(s, k, t + step)
        OBVIOUS
      <4>3. w \in Nat /\ v \in Nat /\ h[k] = Accum(h[k - 1], v, w)
        BY <3>1, <3>2, <4>1, <4>2
      <4>4. h[k].filled /\ h[k].weight = h[k - 1].weight + w
        <5>1. PICK m \in Accums : m = h[k - 1]
          BY <2>2
        <5>2. h[k] = Accum(m, v, w)
          BY <4>3, <5>1
        <5>3. m \in Accums /\ v \in Nat /\ w \in Nat
          BY <4>3, <5>1
        <5>4. Accum(m, v, w).filled /\ Accum(m, v, w).weight = m.weight + w
          BY <5>3, AccumIn
        <5>5. h[k].filled /\ h[k].weight = m.weight + w
          BY <5>2, <5>4
        <5> QED
          BY <5>1, <5>5
      <4> QED
        BY <4>1, <4>4
    <3>4. h[k].weight > 0
      BY <2>2, <3>1, <3>3 DEF Accums
    <3> HIDE DEF Q
    <3> QED
      BY <2>1, <2>3, <2>4, <3>3, <3>4
  <2>5. CASE ~InCell(s, k, step, t)
    <3>1. h[k] = h[k - 1]
      BY <1>1, <2>1, <2>5 DEF RawTrace, n
    <3> HIDE DEF Q
    <3> QED
      BY <2>1, <2>2, <2>3, <2>5, <3>1
  <2> QED
    BY <2>4, <2>5
<1>5. n \in T
  <2> HIDE DEF T
  <2>1. 0 \in Nat /\ 0 \in T /\ \A i \in 0 + 1..n : i - 1 \in T => i \in T
    BY <1>3, <1>4
  <2>2. \A i \in 0..n : i \in T
    BY ONLY <1>2, <2>1, Upward
  <2> QED
    BY <1>2, <2>2
<1>6. AlignedRaw(s, step, b, t) = h[n] /\ h[n] \in Accums
  BY <1>1, <1>2 DEF RawTrace, n
<1> QED
  BY <1>5, <1>6 DEF n

(* A bucket whose mean counts for the cell at t.                           *)
Chosen(x, step, a, b, t) ==
  x.start >= a /\ x.end <= b /\ Start(x.start, step) = t /\ x.up.weight > 0

(* AlignedSummary, bucket by bucket.                                       *)
MeanTrace(h, bs, step, a, b, t) ==
  /\ h[0] = NoAccum /\ AlignedSummary(bs, step, a, b, t) = h[Len(bs)]
  /\ \A k \in 1..Len(bs) :
       h[k] = IF Chosen(bs[k], step, a, b, t)
              THEN Accum(h[k - 1], bs[k].up.sum, bs[k].up.weight) ELSE h[k - 1]

LEMMA MeanSteps ==
  ASSUME NEW res, NEW bs \in Seq(Buckets(res)), NEW step, NEW a, NEW b, NEW t
  PROVE  \E h : MeanTrace(h, bs, step, a, b, t)
<1> DEFINE n == Len(bs)
           V == Accums
           add(m, x) == IF /\ x.start >= a /\ x.end <= b /\ Start(x.start, step) = t
                           /\ x.up.weight > 0
                        THEN Accum(m, x.up.sum, x.up.weight) ELSE m
           F == [p \in V \X (1..n) |-> add(p[1], bs[p[2]])]
           E(g) == g = [S \in SUBSET DOMAIN bs |->
                          IF S = {} THEN NoAccum ELSE add(g[S \ {Max(S)}], bs[Max(S)])]
<1>1. n \in Nat /\ DOMAIN bs = 1..n /\ \A i \in 1..n : bs[i].up \in Stat
  BY DEF Buckets, Bucket
<1>2. ASSUME NEW i \in 1..n, NEW m \in V PROVE add(m, bs[i]) \in V
  <2>1. bs[i].up.sum \in Nat /\ bs[i].up.weight \in Nat
    BY <1>1 DEF Stat
  <2> QED
    BY <2>1, AccumIn
<1> HIDE DEF add
<1>3. NoAccum \in V /\ F \in [V \X (1..n) -> V] /\ \A m \in V, i \in 1..n : F[<<m, i>>] = add(m, bs[i])
  <2>1. \A m \in V, i \in 1..n : add(m, bs[i]) \in V
    BY <1>2
  <2>2. \A p \in V \X (1..n) : p[1] \in V /\ p[2] \in 1..n
    OBVIOUS
  <2> HIDE DEF V, n
  <2> QED
    BY <2>1, <2>2, NoAccumIs DEF V
<1>4. PICK it : Folds(it, V, NoAccum, F, n)
  <2> HIDE DEF F, n, V
  <2> QED
    BY <1>1, <1>3, FoldExists
<1>5. ASSUME NEW S \in SUBSET (1..n), S # {} PROVE Max(S) \in 1..n /\ S \ {Max(S)} \in SUBSET (1..n)
  <2> HIDE DEF n
  <2> QED
    BY <1>1, <1>5, MaxOf
<1>6. E(it)
  <2>1. ASSUME NEW S \in SUBSET (1..n), S # {}
        PROVE  it[S] = add(it[S \ {Max(S)}], bs[Max(S)])
    <3>1. PICK m \in 1..n : m = Max(S)
      BY <1>5, <2>1
    <3>2. PICK v \in V : v = it[S \ {m}]
      BY <1>4, <1>5, <2>1, <3>1 DEF Folds
    <3>3. it[S] = F[<<v, m>>]
      BY <1>4, <2>1, <3>1, <3>2 DEF Folds
    <3>4. F[<<v, m>>] = add(v, bs[m])
      BY <1>3
    <3> HIDE DEF F, n
    <3> QED
      BY <3>1, <3>2, <3>3, <3>4
  <2> HIDE DEF F, n, V
  <2> QED
    BY <1>1, <1>4, <2>1 DEF Folds
<1>7. PICK ch : ch = (CHOOSE g : E(g)) /\ E(ch)
  <2> HIDE DEF E
  <2> QED
    BY <1>6
<1>8. AlignedSummary(bs, step, a, b, t) = ch[DOMAIN bs]
  BY <1>7 DEF AlignedSummary, FoldLeft, MapThenFoldSet, add
<1>9. ASSUME NEW i \in 1..n PROVE ch[1..i] = add(ch[1..i - 1], bs[i])
  <2>1. Max(1..i) = i /\ (1..i) \ {i} = 1..i - 1 /\ 1..i \in SUBSET (1..n) /\ 1..i # {}
    BY PrefixMax
  <2> HIDE DEF n
  <2>2. ch[1..i] = IF 1..i = {} THEN NoAccum ELSE add(ch[(1..i) \ {Max(1..i)}], bs[Max(1..i)])
    BY <1>1, <1>7, <2>1, ZenonT(60)
  <2> QED
    BY <2>1, <2>2
<1>10. ch[1..0] = NoAccum
  <2>1. 1..0 = {} /\ 1..0 \in SUBSET (1..n)
    OBVIOUS
  <2> HIDE DEF n
  <2> QED
    BY <1>7, <1>1, <2>1
<1> DEFINE h == [k \in 0..n |-> ch[1..k]]
<1> HIDE DEF E
<1>11. h[0] = ch[1..0] /\ h[n] = ch[1..n] /\ \A i \in 1..n : h[i] = ch[1..i] /\ h[i - 1] = ch[1..i - 1]
  BY <1>1
<1> HIDE DEF h, n, V
<1>12. h[0] = NoAccum /\ \A i \in 1..n : h[i] = add(h[i - 1], bs[i])
  BY <1>9, <1>10, <1>11
<1>13. ASSUME NEW i \in 1..n
       PROVE  h[i] = IF Chosen(bs[i], step, a, b, t)
                     THEN Accum(h[i - 1], bs[i].up.sum, bs[i].up.weight) ELSE h[i - 1]
  BY <1>12 DEF add, Chosen
<1>14. AlignedSummary(bs, step, a, b, t) = h[n]
  BY <1>1, <1>8, <1>11
<1>15. MeanTrace(h, bs, step, a, b, t)
  BY <1>12, <1>13, <1>14 DEF MeanTrace, n
<1> QED
  BY <1>15

(* No step from lo to hi changes h.                                        *)
Still(h, lo, hi) ==
  lo \in Nat /\ hi \in Nat /\ lo <= hi /\ \A i \in lo + 1..hi : h[i] = h[i - 1]

LEMMA Stays ==
  ASSUME NEW h, NEW lo, NEW hi, Still(h, lo, hi)
  PROVE  h[hi] = h[lo]
<1>0. lo \in Nat /\ hi \in Nat /\ lo <= hi /\ \A i \in lo + 1..hi : h[i] = h[i - 1]
  BY DEF Still
<1> DEFINE T == {i \in lo..hi : h[i] = h[lo]}
<1>1. lo \in T
  BY <1>0
<1>2. ASSUME NEW i \in lo + 1..hi, i - 1 \in T PROVE i \in T
  BY <1>2, <1>0
<1> HIDE DEF T
<1>3. \A i \in lo..hi : i \in T
  BY <1>1, <1>2, <1>0, Upward
<1>4. hi \in lo..hi
  BY <1>0
<1> QED
  BY <1>3, <1>4 DEF T

(* Every sample up to the last border lies between two borders.            *)
LEMMA Between ==
  ASSUME NEW L \in Nat, NEW b, b[0] = 0, \A k \in 0..L : b[k] \in Nat, NEW i \in 1..b[L]
  PROVE  \E k \in 1..L : i \in b[k - 1] + 1..b[k]
<1> DEFINE T == {k \in 0..L : i <= b[k] => \E j \in 1..L : i \in b[j - 1] + 1..b[j]}
<1>1. 0 \in T
  OBVIOUS
<1>2. ASSUME NEW k \in 0 + 1..L, k - 1 \in T PROVE k \in T
  <2>1. k \in 1..L /\ k \in 0..L /\ k - 1 \in 0..L
    OBVIOUS
  <2>2. b[k] \in Nat /\ b[k - 1] \in Nat /\ i \in Nat
    BY <2>1
  <2>3. CASE i <= b[k - 1]
    BY <1>2, <2>1, <2>3
  <2>4. CASE ~(i <= b[k - 1])
    <3>1. i <= b[k] => i \in b[k - 1] + 1..b[k]
      BY <2>2, <2>4
    <3> QED
      BY <2>1, <3>1
  <2> QED
    BY <2>3, <2>4
<1> HIDE DEF T
<1>3. \A k \in 0..L : k \in T
  <2>1. 0 \in Nat /\ 0 \in T /\ \A k \in 0 + 1..L : k - 1 \in T => k \in T
    BY <1>1, <1>2
  <2> QED
    BY ONLY <2>1, L \in Nat, Upward
<1>4. L \in 0..L /\ i <= b[L]
  <2>1. L \in 0..L
    OBVIOUS
  <2>2. b[L] \in Nat
    BY <2>1
  <2> QED
    BY <2>1, <2>2
<1> QED
  BY <1>3, <1>4 DEF T

(* A stat as the sum and weight of a cell.                                 *)
AccumOf(st) == [sum |-> st.sum, weight |-> st.weight, filled |-> st.weight > 0]

LEMMA FirstAdds ==
  ASSUME NEW st \in Stat, st = NoStat, NEW v \in Nat, NEW at \in Nat, NEW w \in Nat
  PROVE  AddStat(st, v, at, w).sum = v * w /\ AddStat(st, v, at, w).weight = w
<1>1. AddStat(st, v, at, w) =
        [sum |-> v * w, weight |-> w, first |-> v, last |-> v, min |-> v, max |-> v,
         firstAt |-> at, lastAt |-> at, minAt |-> at, maxAt |-> at,
         zero |-> IF v = 0 THEN 1 ELSE 0, positive |-> IF v = 0 THEN 0 ELSE 1]
  BY AddFirst, ZenonT(60)
<1> QED
  BY <1>1

LEMMA AccumAdds ==
  ASSUME NEW st \in Stat, st = NoStat \/ Observations(st) # 0, st.weight = 0 => st.sum = 0,
         NEW v \in Nat, NEW at \in Nat, NEW w \in Nat \ {0}, NEW n, n = AddStat(st, v, at, w),
         NEW p, p = v * w
  PROVE  Accum(AccumOf(st), p, w) = AccumOf(n) /\ n.weight > 0
<1>1. p \in Nat /\ st.sum \in Nat /\ st.weight \in Nat
  BY DEF Stat
<1>2. n.sum = st.sum + p /\ n.weight = st.weight + w
  <2>1. CASE st = NoStat
    <3>1. PICK k \in Nat : k = w
      OBVIOUS
    <3>2. AddStat(st, v, at, k).sum = v * k /\ AddStat(st, v, at, k).weight = k
      BY <2>1, FirstAdds, ZenonT(60)
    <3>3. st.sum = 0 /\ st.weight = 0
      BY <2>1 DEF NoStat
    <3> QED
      BY <1>1, <3>1, <3>2, <3>3
  <2>2. CASE Observations(st) # 0
    <3>1. n = [sum |-> st.sum + v * w, weight |-> st.weight + w,
            first |-> st.first, last |-> v,
            min |-> IF v < st.min THEN v ELSE st.min,
            max |-> IF v > st.max THEN v ELSE st.max,
            firstAt |-> st.firstAt, lastAt |-> at,
            minAt |-> IF v < st.min THEN at ELSE st.minAt,
            maxAt |-> IF v > st.max THEN at ELSE st.maxAt,
            zero |-> IF v = 0 THEN st.zero + 1 ELSE st.zero,
            positive |-> IF v = 0 THEN st.positive ELSE st.positive + 1]
      BY <2>2, AddIs, ZenonT(60)
    <3> QED
      BY <3>1
  <2> QED
    BY <2>1, <2>2
<1>3. (st.weight + w > 0) = TRUE
  BY <1>1
<1>4. AccumOf(n) = [sum |-> st.sum + p, weight |-> st.weight + w, filled |-> TRUE]
  BY <1>2, <1>3 DEF AccumOf
<1>5. Accum(AccumOf(st), p, w) = [sum |-> st.sum + p, weight |-> st.weight + w, filled |-> TRUE]
  BY DEF Accum, AccumOf
<1> QED
  BY <1>2, <1>3, <1>4, <1>5

(* What a bucket of the cell at t has taken is what the cell has taken.    *)
LEMMA CellFills ==
  ASSUME NEW s, IsSeries(s), NEW e \in Nat, NEW hi, Cut(s, e, hi), NEW u, IsSlice(u, s, 0, hi),
         NEW res \in Nat \ {0}, NEW t \in Nat, t + res <= e,
         NEW lo \in Nat, NEW up \in Nat, lo < up, up <= hi,
         NEW g, NEW x, MadeBy(g, x, s, lo, up, LeftOf(s), res), Start(s[lo + 1].at, res) = t,
         NEW h, RawTrace(h, u, res, e, t), h[lo] = NoAccum
  PROVE  h[up] = AccumOf(x.up) /\ (x.up.weight = 0 => x.up.sum = 0)
<1>1. /\ hi \in Nat /\ hi <= Len(s) /\ Len(s) \in Nat /\ Len(u) = hi
      /\ \A i \in 1..hi : u[i] = s[i]
  <2>1. /\ hi \in Nat /\ hi <= Len(s) /\ Len(s) \in Nat /\ Len(u) = hi - 0
        /\ \A i \in 1..hi - 0 : u[i] = s[0 + i]
    BY DEF IsSlice, IsSeries
  <2>2. ASSUME NEW i \in 1..hi PROVE u[i] = s[i]
    <3>1. i \in 1..hi - 0 /\ 0 + i = i
      BY <2>1
    <3> QED
      BY <2>1, <3>1
  <2> QED
    BY <2>1, <2>2
<1> DEFINE P == LeftOf(s)
<1>7. hi < Len(s) => s[hi + 1].at >= t + res
  <2> SUFFICES ASSUME hi < Len(s) PROVE s[hi + 1].at >= t + res
    OBVIOUS
  <2>1. hi + 1 \in 1..Len(s) /\ ~(hi + 1 <= hi)
    BY <1>1
  <2>2. s[hi + 1].at \in Nat /\ ~(s[hi + 1].at < e)
    BY <2>1, SampleFields DEF Cut
  <2> QED
    BY <2>2
<1>8. \A i \in lo + 1..up : P[i] \in Previouses
  <2>1. ASSUME NEW i \in lo + 1..up PROVE i \in 1..Len(s)
    BY <1>1
  <2> QED
    BY <2>1, LeftIn
<1> HIDE DEF P
<1>9. MadeBy(g, x, s, lo, up, P, res)
  BY DEF P
<1>2. \A i \in lo..up : /\ Clean(g[i]) /\ g[i].start = t /\ g[i].end = g[i].start + res
                        /\ \A j \in lo + 1..up : g[i].start <= s[j].at /\ s[j].at < g[i].end
  <2>1. up <= Len(s)
    BY <1>1
  <2>2. \A i \in lo..up : /\ Clean(g[i]) /\ g[i].start = Start(s[lo + 1].at, res)
                          /\ g[i].end = g[i].start + res
                          /\ \A j \in lo + 1..up : g[i].start <= s[j].at /\ s[j].at < g[i].end
    BY <1>8, <1>9, <2>1, StepsClean, Zenon
  <2> QED
    BY <2>2, Zenon
<1> DEFINE T == {i \in lo..up : h[i] = AccumOf(g[i].up) /\ (g[i].up.weight = 0 => g[i].up.sum = 0)}
<1>3. lo \in T
  <2>1. lo + 1 \in 1..Len(s)
    BY <1>1
  <2>2. s[lo + 1].at \in Nat
    BY <2>1, SampleFields
  <2>3. g[lo] = NewBucket(Start(s[lo + 1].at, res), res)
    BY <1>9 DEF MadeBy
  <2>4. g[lo].up = NoStat
    BY <2>3 DEF NewBucket
  <2>5. AccumOf(NoStat) = NoAccum /\ NoStat.sum = 0
    <3>1. NoStat.sum = 0 /\ NoStat.weight = 0 /\ (0 > 0) = FALSE
      BY DEF NoStat
    <3> QED
      BY <3>1 DEF AccumOf, NoAccum
  <2> QED
    BY <2>4, <2>5
<1>4. ASSUME NEW i \in lo + 1..up, i - 1 \in T PROVE i \in T
  <2>1. i \in 1..hi /\ i \in 1..Len(s) /\ i \in lo..up /\ i - 1 \in lo..up /\ i \in Nat
    BY <1>1
  <2>2. PICK st : st = g[i - 1].up
    OBVIOUS
  <2>3. h[i - 1] = AccumOf(st) /\ (st.weight = 0 => st.sum = 0)
    BY <1>4, <2>2
  <2>4. Clean(g[i - 1]) /\ g[i - 1].end = t + res /\ s[i].at < g[i - 1].end
    BY <1>2, <2>1
  <2>5. st \in Stat /\ (st = NoStat \/ Observations(st) # 0)
    BY <2>2, <2>4 DEF Clean, Bucket
  <2>6. PICK w : w = Weight(s, i, t + res)
    OBVIOUS
  <2>7. w \in Nat \ {0} /\ g[i].up = IF "Up" \in s[i].valid THEN AddStat(st, s[i].up, s[i].at, w) ELSE st
    <3>1. P[i] \in Previouses /\ g[i] = AddSample(g[i - 1], s, i, P[i]) /\ w = Weight(s, i, g[i - 1].end)
      BY <1>8, <1>9, <2>4, <2>6 DEF MadeBy
    <3> QED
      BY <2>1, <2>2, <2>4, <3>1, AddedIs
  <2>8. Weight(u, i, t + res) = w
    <3>1. i \in 1..hi - 0 /\ 0 + i = i /\ t + res \in Nat /\ 0 + i + 1 = i + 1
      BY <1>1, <2>1
    <3>2. i < hi - 0 \/ 0 + i = Len(s) \/ s[0 + i + 1].at >= t + res
      <4>1. CASE i = hi
        BY <1>1, <1>7, <3>1, <4>1
      <4>2. CASE i # hi
        BY <1>1, <2>1, <4>2
      <4> QED
        BY <4>1, <4>2
    <3>3. Weight(u, i, t + res) = Weight(s, 0 + i, t + res)
      BY <3>1, <3>2, WeightOfSlice
    <3> QED
      BY <2>6, <3>1, <3>3
  <2>9. u[i] = s[i] /\ Start(s[i].at, res) = t /\ s[i].up \in Nat /\ s[i].at \in Nat
    <3>1. Start(s[i].at, res) = t
      BY <1>9 DEF MadeBy
    <3> QED
      BY <1>1, <2>1, <3>1, SampleFields
  <2>10. h[i] = IF "Up" \in s[i].valid THEN Accum(AccumOf(st), s[i].up * w, w) ELSE AccumOf(st)
    <3>1. InCell(u, i, res, t) <=> "Up" \in s[i].valid
      BY <2>9 DEF InCell
    <3>2. h[i] = IF InCell(u, i, res, t)
                 THEN Accum(h[i - 1], u[i].up * Weight(u, i, t + res), Weight(u, i, t + res))
                 ELSE h[i - 1]
      BY <1>1, <2>1 DEF RawTrace
    <3> QED
      BY <2>3, <2>8, <2>9, <3>1, <3>2
  <2>11. CASE "Up" \in s[i].valid
    <3>1. PICK n : n = AddStat(st, s[i].up, s[i].at, w)
      OBVIOUS
    <3>2. Accum(AccumOf(st), s[i].up * w, w) = AccumOf(n) /\ n.weight > 0
      <4>1. PICK v, at : v = s[i].up /\ at = s[i].at /\ v \in Nat /\ at \in Nat
        BY <2>9
      <4>2. n = AddStat(st, v, at, w)
        BY <3>1, <4>1
      <4>3. PICK p : p = v * w
        OBVIOUS
      <4>6. /\ st \in Stat /\ (st = NoStat \/ Observations(st) # 0) /\ (st.weight = 0 => st.sum = 0)
            /\ v \in Nat /\ at \in Nat /\ w \in Nat \ {0}
        BY <2>3, <2>5, <2>7, <4>1
      <4>4. Accum(AccumOf(st), p, w) = AccumOf(n)
        BY <4>2, <4>3, <4>6, AccumAdds
      <4>5. n.weight > 0
        BY <4>2, <4>3, <4>6, AccumAdds
      <4> QED
        BY <4>1, <4>3, <4>4, <4>5
    <3>3. h[i] = AccumOf(n) /\ g[i].up = n /\ n.weight # 0
      <4>1. n.weight # 0
        BY <3>2
      <4> QED
        BY <2>7, <2>10, <2>11, <3>1, <3>2, <4>1
    <3> QED
      BY <2>1, <3>3
  <2>12. CASE "Up" \notin s[i].valid
    <3>1. h[i] = AccumOf(st) /\ g[i].up = st
      BY <2>7, <2>10, <2>12
    <3> QED
      BY <2>1, <2>3, <3>1
  <2> QED
    BY <2>11, <2>12
<1>5. up \in T
  <2> HIDE DEF T
  <2>1. \A i \in lo..up : i \in T
    BY <1>3, <1>4, Upward
  <2> QED
    BY <2>1
<1>6. g[up] = x
  BY <1>9 DEF MadeBy
<1> QED
  BY <1>5, <1>6

(* All samples of a bucket begin it.                                       *)
LEMMA MadeStarts ==
  ASSUME NEW s, IsSeries(s), NEW res \in Nat \ {0}, NEW lo \in Nat, NEW hi \in Nat, hi <= Len(s),
         NEW x, Made(x, s, lo, hi, LeftOf(s), res)
  PROVE  lo < hi /\ \A i \in lo + 1..hi : x.start = Start(s[i].at, res)
<1> DEFINE P == LeftOf(s)
<1>1. Len(s) \in Nat
  BY DEF IsSeries
<1>2. \A i \in lo + 1..hi : P[i] \in Previouses
  <2>1. ASSUME NEW i \in lo + 1..hi PROVE P[i] \in Previouses
    <3>1. i \in 1..Len(s)
      BY <1>1
    <3> QED
      BY <3>1, LeftIn
  <2> QED
    BY <2>1
<1>3. Made(x, s, lo, hi, P, res)
  OBVIOUS
<1> HIDE DEF P
<1>4. /\ lo < hi /\ x \in Buckets(res) /\ Clean(x) /\ x.end = x.start + res
      /\ \A i \in lo + 1..hi : x.start = Start(s[i].at, res) /\ x.start <= s[i].at /\ s[i].at < x.end
  BY <1>2, <1>3, MadeIs, Zenon
<1> QED
  BY <1>4

(* A cell of the sealed samples is the same as that of their buckets.      *)
LEMMA CellsAgree ==
  ASSUME SeriesInv, NEW t \in Nat, t + Minute <= edge
  PROVE  AlignedRaw(SealedSamples, Minute, edge, t) = AlignedSummary(one, Minute, 0, edge, t)
<1> DEFINE s == samples
           P == LeftOf(samples)
           L == Len(one)
<1>1. PICK hi : /\ Cut(s, edge, hi) /\ TierOf(one, s, 0, hi, P, Minute)
  BY DEF SeriesInv
<1>2. /\ IsSeries(s) /\ edge \in Nat /\ edge % Minute = 0 /\ Minute \in Nat \ {0} /\ Len(s) \in Nat
      /\ hi \in 0..Len(s) /\ one \in Seq(Buckets(Minute)) /\ L \in Nat
  <2>1. one \in Seq(Buckets(Minute))
    BY <1>1 DEF TierOf
  <2> QED
    <3>1. IsSeries(s) /\ edge \in Nat /\ edge % Window = 0
      BY DEF SeriesInv
    <3>2. edge % Minute = 0 /\ Minute \in Nat \ {0}
      BY <3>1, RollupAssumption, WindowMinutes
    <3>3. Len(s) \in Nat /\ hi \in 0..Len(s)
      BY <1>1, <3>1 DEF Cut, IsSeries
    <3> QED
      BY <2>1, <3>1, <3>2, <3>3
<1>3. PICK b : TierBy(b, one, s, 0, hi, P, Minute)
  BY <1>1 DEF TierOf
<1>4. Covered(one, s, hi, Minute)
  BY <1>1, <1>2, TierCovered
<1>5. /\ \A k \in 1..L : /\ one[k].start \in Nat /\ one[k].end = one[k].start + Minute /\ one[k].end <= edge
      /\ \A j, k \in 1..L : j < k => one[j].start < one[k].start
  BY <1>1, <1>2, <1>4, StartsGrow
<1>6. PICK u : u = SealedSamples
  OBVIOUS
<1>7. IsSlice(u, s, 0, hi) /\ IsSeries(u) /\ Len(u) = hi /\ \A i \in 1..hi : u[i] = s[i]
  <2>1. IsSlice(u, s, 0, hi)
    BY <1>1, <1>6, SealedIs
  <2>2. IsSeries(u) /\ Len(u) = hi - 0 /\ \A i \in 1..hi - 0 : u[i] = s[0 + i]
    BY <1>2, <2>1, SliceSeries DEF IsSlice
  <2>3. ASSUME NEW i \in 1..hi PROVE u[i] = s[i]
    <3>1. i \in 1..hi - 0 /\ 0 + i = i
      BY <1>2
    <3> QED
      BY <2>2, <3>1
  <2> QED
    BY <1>2, <2>1, <2>2, <2>3
<1>8. PICK h : RawTrace(h, u, Minute, edge, t)
  BY <1>2, <1>7, RawSteps
<1>9. PICK a : MeanTrace(a, one, Minute, 0, edge, t)
  BY <1>2, MeanSteps
<1>10. \A k \in 0..L : b[k] \in 0..hi
  BY <1>3 DEF TierBy
<1>11. b[0] = 0 /\ b[L] = hi
  BY <1>3 DEF TierBy
<1>12. ASSUME NEW k \in 1..L
       PROVE  /\ b[k - 1] < b[k] /\ k \in 0..L /\ k - 1 \in 0..L
              /\ Made(one[k], s, b[k - 1], b[k], P, Minute)
              /\ \A i \in b[k - 1] + 1..b[k] : P[i] \in Previouses /\ Start(s[i].at, Minute) = one[k].start
  <2>1. k \in 0..L /\ k - 1 \in 0..L
    BY <1>2
  <2>2. b[k - 1] \in Nat /\ b[k] \in Nat /\ b[k] <= Len(s)
    BY <1>2, <1>10, <2>1
  <2>3. Made(one[k], s, b[k - 1], b[k], P, Minute)
    BY <1>3 DEF TierBy
  <2>4. \A i \in b[k - 1] + 1..b[k] : P[i] \in Previouses
    <3>1. ASSUME NEW i \in b[k - 1] + 1..b[k] PROVE i \in 1..Len(s)
      BY <1>2, <2>2
    <3> QED
      BY <1>2, <3>1, LeftIn
  <2>6. IsSeries(s) /\ Made(one[k], s, b[k - 1], b[k], LeftOf(s), Minute)
    BY <1>2, <2>3
  <2> HIDE DEF P, s
  <2>5. /\ b[k - 1] < b[k]
        /\ \A i \in b[k - 1] + 1..b[k] : one[k].start = Start(s[i].at, Minute)
    <3>1. PICK l \in Nat, m \in Nat, res \in Nat \ {0} : l = b[k - 1] /\ m = b[k] /\ res = Minute
      BY <1>2, <2>2
    <3>2. PICK x, q : x = one[k] /\ q = s
      OBVIOUS
    <3>3. IsSeries(q) /\ m <= Len(q) /\ Made(x, q, l, m, LeftOf(q), res)
      BY <2>2, <2>6, <3>1, <3>2
    <3>4. l < m /\ \A i \in l + 1..m : x.start = Start(q[i].at, res)
      BY <3>3, MadeStarts
    <3> QED
      BY <3>1, <3>2, <3>4
  <2> QED
    BY <2>1, <2>3, <2>4, <2>5
<1>13. ASSUME NEW k \in 1..L PROVE Chosen(one[k], Minute, 0, edge, t) <=> one[k].start = t /\ one[k].up.weight > 0
  <2>1. one[k].start \in Nat /\ one[k].end <= edge
    BY <1>5
  <2>2. Start(one[k].start, Minute) = one[k].start
    <3>1. PICK i : i \in b[k - 1] + 1..b[k] /\ i \in 1..Len(s)
      <4>1. b[k] \in 0..hi /\ b[k - 1] \in 0..hi /\ b[k - 1] < b[k]
        BY <1>10, <1>12
      <4>2. b[k] \in b[k - 1] + 1..b[k] /\ b[k] \in 1..Len(s)
        BY <1>2, <4>1
      <4> QED
        BY <4>2
    <3>2. PICK e \in Nat : e = one[k].start
      BY <2>1
    <3>3. e = Start(s[i].at, Minute) /\ s[i].at \in Nat
      BY <1>2, <1>12, <3>1, <3>2, SampleFields
    <3>4. e % Minute = 0
      BY <1>2, <3>3, StartMultiple
    <3>5. Start(e, Minute) <= e /\ Start(e, Minute) >= e /\ Start(e, Minute) \in Nat
      <4>1. Start(e, Minute) <= e /\ Start(e, Minute) \in Nat
        BY <1>2, StartContains, StartMultiple
      <4>2. Start(e, Minute) >= e
        BY <1>2, <3>4, BucketEnd
      <4> QED
        BY <4>1, <4>2
    <3> QED
      BY <3>2, <3>5
  <2> QED
    BY <2>1, <2>2 DEF Chosen
<1>14. ASSUME NEW i \in 1..hi PROVE \E k \in 1..L : i \in b[k - 1] + 1..b[k]
  <2>1. \A k \in 0..L : b[k] \in Nat
    BY <1>2, <1>10
  <2>2. i \in 1..b[L]
    BY <1>11
  <2> HIDE DEF L
  <2> QED
    BY <1>2, <1>11, <2>1, <2>2, Between
<1>15. ASSUME NEW i \in 1..hi, \A k \in 1..L : i \in b[k - 1] + 1..b[k] => one[k].start # t
       PROVE  h[i] = h[i - 1]
  <2>1. PICK k \in 1..L : i \in b[k - 1] + 1..b[k]
    BY <1>14
  <2>2. Start(s[i].at, Minute) # t
    BY <1>12, <1>15, <2>1
  <2>3. ~InCell(u, i, Minute, t)
    BY <1>7, <2>2 DEF InCell
  <2> QED
    BY <1>7, <1>8, <2>3 DEF RawTrace
<1>16. h[0] = NoAccum /\ a[0] = NoAccum
  BY <1>8, <1>9 DEF RawTrace, MeanTrace
<1>17. CASE \E k \in 1..L : one[k].start = t
  <2>1. PICK k \in 1..L : one[k].start = t
    BY <1>17
  <2>2. \A j \in 1..L : one[j].start = t => j = k
    <3>1. ASSUME NEW j \in 1..L, one[j].start = t PROVE j = k
      <4>1. ~(j < k) /\ ~(k < j)
        BY <1>5, <2>1, <3>1
      <4> QED
        BY <1>2, <4>1
    <3> QED
      BY <3>1
  <2>3. /\ b[k - 1] \in Nat /\ b[k] \in Nat /\ b[k - 1] < b[k] /\ b[k] <= hi /\ hi \in Nat
    BY <1>2, <1>10, <1>12
  <2>4. h[b[k - 1]] = NoAccum
    <3>1. ASSUME NEW i \in 0 + 1..b[k - 1] PROVE h[i] = h[i - 1]
      <4>1. i \in 1..hi /\ i \notin b[k - 1] + 1..b[k]
        BY <2>3
      <4> QED
        BY <1>15, <2>2, <4>1
    <3>2. PICK l : l = b[k - 1] /\ l \in Nat /\ 0 <= l
      BY <2>3
    <3>3. Still(h, 0, l)
      BY <3>1, <3>2 DEF Still
    <3>4. h[l] = h[0]
      BY <3>3, Stays
    <3> QED
      BY <1>16, <3>2, <3>4
  <2>5. h[hi] = h[b[k]]
    <3>1. ASSUME NEW i \in b[k] + 1..hi PROVE h[i] = h[i - 1]
      <4>1. i \in 1..hi /\ i \notin b[k - 1] + 1..b[k]
        BY <2>3
      <4> QED
        BY <1>15, <2>2, <4>1
    <3>2. PICK m : m = b[k] /\ m \in Nat
      BY <2>3
    <3>3. PICK n : n = hi /\ n \in Nat /\ m <= n
      BY <2>3, <3>2
    <3>4. Still(h, m, n)
      BY <3>1, <3>2, <3>3 DEF Still
    <3>5. h[n] = h[m]
      BY <3>4, Stays
    <3> QED
      BY <3>2, <3>3, <3>5
  <2>6. h[b[k]] = AccumOf(one[k].up) /\ (one[k].up.weight = 0 => one[k].up.sum = 0)
    <3>1. PICK g : MadeBy(g, one[k], s, b[k - 1], b[k], LeftOf(s), Minute)
      BY <1>12 DEF Made
    <3>2. Start(s[b[k - 1] + 1].at, Minute) = t
      <4>1. b[k - 1] + 1 \in b[k - 1] + 1..b[k]
        BY <2>3
      <4> QED
        BY <1>12, <2>1, <4>1
    <3> HIDE DEF s
    <3>5. PICK l, m, x : l = b[k - 1] /\ m = b[k] /\ x = one[k] /\ l \in Nat /\ m \in Nat
      BY <2>3
    <3>6. /\ l < m /\ m <= hi /\ MadeBy(g, x, s, l, m, LeftOf(s), Minute) /\ Start(s[l + 1].at, Minute) = t
          /\ h[l] = NoAccum
      BY <2>3, <2>4, <3>1, <3>2, <3>5
    <3>9. /\ IsSeries(s) /\ IsSlice(u, s, 0, hi) /\ Minute \in Nat \ {0} /\ edge \in Nat
          /\ l \in Nat /\ m \in Nat /\ RawTrace(h, u, Minute, edge, t) /\ Cut(s, edge, hi)
      BY <1>1, <1>2, <1>7, <1>8, <3>5
    <3>7. h[m] = AccumOf(x.up)
      BY <3>6, <3>9, CellFills
    <3>8. x.up.weight = 0 => x.up.sum = 0
      BY <3>6, <3>9, CellFills
    <3> QED
      BY <3>5, <3>7, <3>8
  <2>7. a[k - 1] = NoAccum
    <3>1. ASSUME NEW j \in 0 + 1..k - 1 PROVE a[j] = a[j - 1]
      <4>1. j \in 1..L /\ j # k
        BY <1>2
      <4> QED
        BY <1>9, <1>13, <2>2, <4>1 DEF MeanTrace
    <3>2. k - 1 \in Nat /\ 0 <= k - 1
      BY <1>2
    <3>3. Still(a, 0, k - 1)
      BY <3>1, <3>2 DEF Still
    <3>4. a[k - 1] = a[0]
      BY <3>3, Stays
    <3> QED
      BY <1>16, <3>4
  <2>8. a[L] = a[k]
    <3>1. ASSUME NEW j \in k + 1..L PROVE a[j] = a[j - 1]
      <4>1. j \in 1..L /\ j # k
        BY <1>2
      <4> QED
        BY <1>9, <1>13, <2>2, <4>1 DEF MeanTrace
    <3>2. k \in Nat /\ k <= L /\ L \in Nat
      BY <1>2
    <3>3. Still(a, k, L)
      BY <3>1, <3>2 DEF Still
    <3> QED
      BY <3>3, Stays
  <2>9. a[k] = AccumOf(one[k].up)
    <3>1. PICK st : st = one[k].up
      OBVIOUS
    <3>2. st.weight \in Nat /\ st.sum \in Nat
      <4>1. one[k] \in Buckets(Minute)
        BY <1>2
      <4> QED
        BY <3>1, <4>1 DEF Buckets, Bucket, Stat
    <3>3. a[k] = IF st.weight > 0 THEN Accum(NoAccum, st.sum, st.weight) ELSE NoAccum
      BY <1>9, <1>13, <2>1, <2>7, <3>1 DEF MeanTrace
    <3>4. CASE st.weight > 0
      <4>1. (st.weight > 0) = TRUE
        BY <3>4
      <4> QED
        <5>1. a[k] = Accum(NoAccum, st.sum, st.weight)
          BY <3>3, <3>4
        <5>2. Accum(NoAccum, st.sum, st.weight) = [sum |-> st.sum, weight |-> st.weight, filled |-> TRUE]
          <6>1. NoAccum.sum + st.sum = st.sum /\ NoAccum.weight + st.weight = st.weight
            BY <3>2 DEF NoAccum
          <6> QED
            BY <6>1 DEF Accum
        <5>3. AccumOf(st) = [sum |-> st.sum, weight |-> st.weight, filled |-> TRUE]
          BY <4>1 DEF AccumOf
        <5> QED
          BY <3>1, <5>1, <5>2, <5>3
    <3>5. CASE ~(st.weight > 0)
      <4>1. st.weight = 0 /\ st.sum = 0 /\ (st.weight > 0) = FALSE
        BY <2>6, <3>1, <3>2, <3>5
      <4> QED
        BY <3>1, <3>3, <4>1 DEF NoAccum, AccumOf
    <3> QED
      BY <3>4, <3>5
  <2>10. h[hi] = a[L]
    BY <2>5, <2>6, <2>8, <2>9
  <2> QED
    BY <1>6, <1>7, <1>8, <1>9, <2>10 DEF RawTrace, MeanTrace
<1>18. CASE ~\E k \in 1..L : one[k].start = t
  <2>1. h[hi] = h[0]
    <3>1. \A i \in 0 + 1..hi : h[i] = h[i - 1]
      BY <1>15, <1>18
    <3>2. hi \in Nat /\ 0 <= hi
      BY <1>2
    <3>3. Still(h, 0, hi)
      BY <3>1, <3>2 DEF Still
    <3> QED
      BY <3>3, Stays
  <2>2. a[L] = a[0]
    <3>1. \A k \in 0 + 1..L : a[k] = a[k - 1]
      BY <1>9, <1>13, <1>18 DEF MeanTrace
    <3>2. L \in Nat /\ 0 <= L
      BY <1>2
    <3>3. Still(a, 0, L)
      BY <3>1, <3>2 DEF Still
    <3> QED
      BY <3>3, Stays
  <2> QED
    BY <1>6, <1>7, <1>8, <1>9, <1>16, <2>1, <2>2 DEF RawTrace, MeanTrace
<1> QED
  BY <1>17, <1>18

LEMMA Positive ==
  ASSUME NEW a \in Nat \ {0}, NEW b \in Nat \ {0}
  PROVE  a * b \in Nat \ {0}
  OBVIOUS

LEMMA Products ==
  ASSUME NEW a \in Nat, NEW b \in Nat, NEW c \in Nat, NEW d \in Nat
  PROVE  a * b + c * d \in Nat
<1>1. a * b \in Nat /\ c * d \in Nat
  OBVIOUS
<1> QED
  BY <1>1

(* One more mean in the sum.                                               *)
MeanAdded(q, m) ==
  IF m.filled THEN [num |-> q.num * m.weight + m.sum * q.den, den |-> q.den * m.weight] ELSE q

Fractions == [num : Nat, den : Nat \ {0}]

(* A complete cell has a sum: its denominator is not zero.                 *)
LEMMA SumIs ==
  ASSUME NEW of \in Seq(Accums), Complete(of)
  PROVE  SumOfMeans(of) \in Fractions
<1> DEFINE n == Len(of)
           V == Fractions
           base == [num |-> 0, den |-> 1]
           F == [p \in V \X (1..n) |-> MeanAdded(p[1], of[p[2]])]
           E(g) == g = [S \in SUBSET DOMAIN of |->
                          IF S = {} THEN base ELSE MeanAdded(g[S \ {Max(S)}], of[Max(S)])]
<1>1. n \in Nat /\ DOMAIN of = 1..n /\ \A i \in 1..n : of[i] \in Accums /\ of[i].weight > 0
  BY DEF Complete
<1>2. ASSUME NEW i \in 1..n, NEW q \in V PROVE MeanAdded(q, of[i]) \in V
  <2>1. PICK m : m = of[i]
    OBVIOUS
  <2>2. m.sum \in Nat /\ m.weight \in Nat \ {0}
    BY <1>1, <2>1 DEF Accums
  <2>3. q.num \in Nat /\ q.den \in Nat \ {0}
    BY DEF Fractions
  <2>4. q.den * m.weight \in Nat \ {0}
    BY <2>2, <2>3, Positive
  <2>5. q.num * m.weight + m.sum * q.den \in Nat
    <3> HIDE DEF n, V, F, base
    <3> QED
      BY <2>2, <2>3, Products
  <2>6. [num |-> q.num * m.weight + m.sum * q.den, den |-> q.den * m.weight] \in V
    BY <2>4, <2>5 DEF Fractions
  <2> QED
    BY <2>1, <2>6 DEF MeanAdded
<1>3. base \in V /\ F \in [V \X (1..n) -> V] /\ \A m \in V, i \in 1..n : F[<<m, i>>] = MeanAdded(m, of[i])
  <2>1. \A m \in V, i \in 1..n : MeanAdded(m, of[i]) \in V
    BY <1>2
  <2>2. \A p \in V \X (1..n) : p[1] \in V /\ p[2] \in 1..n
    OBVIOUS
  <2>3. base \in V
    BY DEF Fractions
  <2> HIDE DEF V, n, base
  <2> QED
    BY <2>1, <2>2, <2>3
<1> HIDE DEF base
<1>4. PICK it : Folds(it, V, base, F, n)
  <2> HIDE DEF F, n, V
  <2> QED
    BY <1>1, <1>3, FoldExists
<1>5. ASSUME NEW S \in SUBSET (1..n), S # {} PROVE Max(S) \in 1..n /\ S \ {Max(S)} \in SUBSET (1..n)
  <2> HIDE DEF n
  <2> QED
    BY <1>1, <1>5, MaxOf
<1>6. E(it)
  <2>1. ASSUME NEW S \in SUBSET (1..n), S # {}
        PROVE  it[S] = MeanAdded(it[S \ {Max(S)}], of[Max(S)])
    <3>1. PICK m \in 1..n : m = Max(S)
      BY <1>5, <2>1
    <3>2. PICK v \in V : v = it[S \ {m}]
      BY <1>4, <1>5, <2>1, <3>1 DEF Folds
    <3>3. it[S] = F[<<v, m>>]
      BY <1>4, <2>1, <3>1, <3>2 DEF Folds
    <3>4. F[<<v, m>>] = MeanAdded(v, of[m])
      BY <1>3
    <3> HIDE DEF F, n
    <3> QED
      BY <3>1, <3>2, <3>3, <3>4
  <2> HIDE DEF F, n, V
  <2> QED
    BY <1>1, <1>4, <2>1 DEF Folds
<1>7. PICK ch : ch = (CHOOSE g : E(g)) /\ E(ch)
  <2> HIDE DEF E
  <2> QED
    BY <1>6
<1>8. SumOfMeans(of) = ch[DOMAIN of]
  BY <1>7 DEF SumOfMeans, FoldLeft, MapThenFoldSet, MeanAdded, base
<1>9. ASSUME NEW i \in 1..n PROVE ch[1..i] = MeanAdded(ch[1..i - 1], of[i])
  <2>1. Max(1..i) = i /\ (1..i) \ {i} = 1..i - 1 /\ 1..i \in SUBSET (1..n) /\ 1..i # {}
    BY PrefixMax
  <2> HIDE DEF n
  <2>2. ch[1..i] = IF 1..i = {} THEN base ELSE MeanAdded(ch[(1..i) \ {Max(1..i)}], of[Max(1..i)])
    BY <1>1, <1>7, <2>1, ZenonT(60)
  <2> QED
    BY <2>1, <2>2
<1>10. ch[1..0] = base
  <2>1. 1..0 = {} /\ 1..0 \in SUBSET (1..n)
    OBVIOUS
  <2> HIDE DEF n
  <2> QED
    BY <1>7, <1>1, <2>1
<1> HIDE DEF E
<1> DEFINE T == {i \in 0..n : ch[1..i] \in V}
<1>11. 0 \in T
  BY <1>1, <1>3, <1>10
<1>12. ASSUME NEW i \in 0 + 1..n, i - 1 \in T PROVE i \in T
  <2>1. i \in 1..n /\ i \in 0..n
    BY <1>1
  <2>2. ch[1..i - 1] \in V /\ ch[1..i] = MeanAdded(ch[1..i - 1], of[i])
    BY <1>9, <1>12, <2>1
  <2> QED
    BY <1>2, <2>1, <2>2
<1>13. n \in T
  <2> HIDE DEF T, n
  <2>1. 0 \in Nat /\ 0 \in T /\ \A i \in 0 + 1..n : i - 1 \in T => i \in T
    BY <1>11, <1>12
  <2>2. \A i \in 0..n : i \in T
    BY ONLY <1>1, <2>1, Upward
  <2> QED
    BY <1>1, <2>2
<1> QED
  BY <1>1, <1>8, <1>13

(* One more cell of the overview.                                          *)
CellAdded(out, cell) ==
  IF Complete(cell.of)
  THEN Append(out, Point(cell.at, SumOfMeans(cell.of).num, SumOfMeans(cell.of).den, "aligned_sum"))
  ELSE IF out = <<>> \/ IsGap(Last(out)) THEN out ELSE Append(out, Null(cell.at))

GridCell == [at : Nat, of : Seq(Accums)]

(* A complete cell gets a point, another one a gap if there is none.       *)
LEMMA AddedCell ==
  ASSUME NEW out \in Seq(ChartPoint), NEW cell \in GridCell
  PROVE  /\ Complete(cell.of) => \E p \in ChartPoint : /\ CellAdded(out, cell) = Append(out, p)
                                                       /\ p.at = cell.at /\ ~IsGap(p)
         /\ ~Complete(cell.of) => \/ CellAdded(out, cell) = out /\ (out = <<>> \/ IsGap(Last(out)))
                                  \/ \E p \in ChartPoint : /\ CellAdded(out, cell) = Append(out, p)
                                                           /\ p.at = cell.at /\ IsGap(p)
         /\ CellAdded(out, cell) \in Seq(ChartPoint)
<1>1. cell.at \in Nat /\ cell.of \in Seq(Accums)
  BY DEF GridCell
<1>2. CASE Complete(cell.of)
  <2>1. PICK q \in Fractions : q = SumOfMeans(cell.of)
    BY <1>1, <1>2, SumIs
  <2>2. PICK p : p = Point(cell.at, q.num, q.den, "aligned_sum")
    OBVIOUS
  <2>3. p \in ChartPoint /\ p.at = cell.at /\ ~IsGap(p)
    BY <1>1, <2>1, <2>2 DEF Point, ChartPoint, PointKinds, IsGap, Fractions
  <2>4. CellAdded(out, cell) = Append(out, p)
    BY <1>2, <2>1, <2>2 DEF CellAdded
  <2>5. Append(out, p) \in Seq(ChartPoint)
    BY <2>3
  <2> QED
    BY <1>2, <2>3, <2>4, <2>5
<1>3. CASE ~Complete(cell.of)
  <2>1. CASE out = <<>> \/ IsGap(Last(out))
    <3>1. CellAdded(out, cell) = out
      BY <1>3, <2>1 DEF CellAdded
    <3> QED
      BY <1>3, <2>1, <3>1
  <2>2. CASE ~(out = <<>> \/ IsGap(Last(out)))
    <3>1. PICK p : p = Null(cell.at)
      OBVIOUS
    <3>2. p \in ChartPoint /\ p.at = cell.at /\ IsGap(p)
      <4>1. cell.at \in Int
        BY <1>1
      <4> QED
        BY <3>1, <4>1, NullIs
    <3>3. CellAdded(out, cell) = Append(out, p)
      BY <1>3, <2>2, <3>1 DEF CellAdded
    <3>4. Append(out, p) \in Seq(ChartPoint)
      BY <3>2
    <3> QED
      BY <1>3, <3>2, <3>3, <3>4
  <2> QED
    BY <2>1, <2>2
<1> QED
  BY <1>2, <1>3

OverTrace(h, cells) ==
  /\ h[0] = <<>> /\ Overview(cells) = h[Len(cells)]
  /\ \A i \in 1..Len(cells) : h[i] = CellAdded(h[i - 1], cells[i])

LEMMA OverSteps ==
  ASSUME NEW cells \in Seq(GridCell)
  PROVE  \E h : OverTrace(h, cells)
<1> DEFINE n == Len(cells)
           V == Seq(ChartPoint)
           F == [p \in V \X (1..n) |-> CellAdded(p[1], cells[p[2]])]
           E(g) == g = [S \in SUBSET DOMAIN cells |->
                          IF S = {} THEN <<>> ELSE CellAdded(g[S \ {Max(S)}], cells[Max(S)])]
<1>1. n \in Nat /\ DOMAIN cells = 1..n
  OBVIOUS
<1>3. <<>> \in V /\ F \in [V \X (1..n) -> V] /\ \A m \in V, i \in 1..n : F[<<m, i>>] = CellAdded(m, cells[i])
  <2>1. \A m \in V, i \in 1..n : CellAdded(m, cells[i]) \in V
    <3>1. ASSUME NEW m \in V, NEW i \in 1..n PROVE CellAdded(m, cells[i]) \in V
      <4>1. cells[i] \in GridCell
        OBVIOUS
      <4> QED
        BY <4>1, AddedCell
    <3> QED
      BY <3>1
  <2>2. \A p \in V \X (1..n) : p[1] \in V /\ p[2] \in 1..n
    OBVIOUS
  <2>3. <<>> \in V
    OBVIOUS
  <2> HIDE DEF V, n
  <2> QED
    BY <2>1, <2>2, <2>3
<1>4. PICK it : Folds(it, V, <<>>, F, n)
  <2> HIDE DEF F, n, V
  <2> QED
    BY <1>1, <1>3, FoldExists
<1>5. ASSUME NEW S \in SUBSET (1..n), S # {} PROVE Max(S) \in 1..n /\ S \ {Max(S)} \in SUBSET (1..n)
  <2> HIDE DEF n
  <2> QED
    BY <1>1, <1>5, MaxOf
<1>6. E(it)
  <2>1. ASSUME NEW S \in SUBSET (1..n), S # {}
        PROVE  it[S] = CellAdded(it[S \ {Max(S)}], cells[Max(S)])
    <3>1. PICK m \in 1..n : m = Max(S)
      BY <1>5, <2>1
    <3>2. PICK v \in V : v = it[S \ {m}]
      BY <1>4, <1>5, <2>1, <3>1 DEF Folds
    <3>3. it[S] = F[<<v, m>>]
      BY <1>4, <2>1, <3>1, <3>2 DEF Folds
    <3>4. F[<<v, m>>] = CellAdded(v, cells[m])
      BY <1>3
    <3> HIDE DEF F, n
    <3> QED
      BY <3>1, <3>2, <3>3, <3>4
  <2> HIDE DEF F, n, V
  <2> QED
    BY <1>1, <1>4, <2>1 DEF Folds
<1>7. PICK ch : ch = (CHOOSE g : E(g)) /\ E(ch)
  <2> HIDE DEF E
  <2> QED
    BY <1>6
<1>8. Overview(cells) = ch[DOMAIN cells]
  BY <1>7 DEF Overview, FoldLeft, MapThenFoldSet, CellAdded
<1>9. ASSUME NEW i \in 1..n PROVE ch[1..i] = CellAdded(ch[1..i - 1], cells[i])
  <2>1. Max(1..i) = i /\ (1..i) \ {i} = 1..i - 1 /\ 1..i \in SUBSET (1..n) /\ 1..i # {}
    BY PrefixMax
  <2> HIDE DEF n
  <2>2. ch[1..i] = IF 1..i = {} THEN <<>> ELSE CellAdded(ch[(1..i) \ {Max(1..i)}], cells[Max(1..i)])
    BY <1>1, <1>7, <2>1, ZenonT(60)
  <2> QED
    BY <2>1, <2>2
<1>10. ch[1..0] = <<>>
  <2>1. 1..0 = {} /\ 1..0 \in SUBSET (1..n)
    OBVIOUS
  <2> HIDE DEF n
  <2> QED
    BY <1>7, <1>1, <2>1
<1> DEFINE h == [k \in 0..n |-> ch[1..k]]
<1> HIDE DEF E, F
<1>11. h[0] = ch[1..0] /\ h[n] = ch[1..n] /\ \A i \in 1..n : h[i] = ch[1..i] /\ h[i - 1] = ch[1..i - 1]
  BY <1>1
<1> HIDE DEF h
<1>12. Overview(cells) = h[n]
  BY <1>1, <1>8, <1>11
<1>13. OverTrace(h, cells)
  BY <1>9, <1>10, <1>11, <1>12 DEF OverTrace
<1> QED
  BY <1>13

(* The points tell of the complete ones among the first j cells; a line    *)
(* goes from a cell to the next.                                           *)
Lined(out, cells, j) ==
  /\ out \in Seq(ChartPoint)
  /\ \A i \in 1..Len(out) : ~IsGap(out[i]) =>
       \E c \in 1..j : out[i].at = cells[c].at /\ Complete(cells[c].of)
  /\ \A c \in 1..j : Complete(cells[c].of) =>
       \E i \in 1..Len(out) : out[i].at = cells[c].at /\ ~IsGap(out[i])
  /\ \A i \in 1..Len(out) - 1 : ~IsGap(out[i]) /\ ~IsGap(out[i + 1]) =>
       \E c \in 1..j - 1 : out[i].at = cells[c].at /\ out[i + 1].at = cells[c + 1].at
  /\ Len(out) > 0 /\ ~IsGap(out[Len(out)]) => j > 0 /\ out[Len(out)].at = cells[j].at

LEMMA LinedMore ==
  ASSUME NEW cells \in Seq(GridCell), NEW j \in 1..Len(cells), NEW out, Lined(out, cells, j - 1)
  PROVE  Lined(CellAdded(out, cells[j]), cells, j)
<1> DEFINE L == Len(out)
           n == CellAdded(out, cells[j])
           Ok(c) == Complete(cells[c].of)
<1>1. out \in Seq(ChartPoint) /\ L \in Nat /\ j \in Nat /\ j - 1 \in Nat /\ cells[j] \in GridCell
  BY DEF Lined
<1>2. \A i \in 1..L : ~IsGap(out[i]) => \E c \in 1..j - 1 : out[i].at = cells[c].at /\ Ok(c)
  BY DEF Lined
<1>3. \A c \in 1..j - 1 : Ok(c) => \E i \in 1..L : out[i].at = cells[c].at /\ ~IsGap(out[i])
  BY DEF Lined
<1>4. \A i \in 1..L - 1 : ~IsGap(out[i]) /\ ~IsGap(out[i + 1]) =>
        \E c \in 1..(j - 1) - 1 : out[i].at = cells[c].at /\ out[i + 1].at = cells[c + 1].at
  BY DEF Lined
<1>5. L > 0 /\ ~IsGap(out[L]) => j - 1 > 0 /\ out[L].at = cells[j - 1].at
  BY DEF Lined
<1>6. ASSUME NEW p \in ChartPoint, n = Append(out, p)
      PROVE  n \in Seq(ChartPoint) /\ Len(n) = L + 1 /\ n[L + 1] = p /\ \A i \in 1..L : n[i] = out[i]
  BY <1>1, <1>6
<1>7. CASE Ok(j)
  <2>1. PICK p \in ChartPoint : n = Append(out, p) /\ p.at = cells[j].at /\ ~IsGap(p)
    BY <1>1, <1>7, AddedCell
  <2>2. n \in Seq(ChartPoint) /\ Len(n) = L + 1 /\ n[L + 1] = p /\ \A i \in 1..L : n[i] = out[i]
    BY <1>6, <2>1
  <2> HIDE DEF n, Ok, L
  <2>3. ASSUME NEW i \in 1..Len(n), ~IsGap(n[i])
        PROVE  \E c \in 1..j : n[i].at = cells[c].at /\ Ok(c)
    <3>1. CASE i = L + 1
      <4>1. j \in 1..j
        BY <1>1
      <4> QED
        BY <1>7, <2>1, <2>2, <3>1, <4>1
    <3>2. CASE i # L + 1
      <4>1. i \in 1..L /\ n[i] = out[i]
        BY <1>1, <2>2, <3>2
      <4>2. PICK c \in 1..j - 1 : out[i].at = cells[c].at /\ Ok(c)
        BY <1>2, <2>3, <4>1
      <4>3. c \in 1..j
        BY <1>1
      <4> QED
        BY <4>1, <4>2, <4>3
    <3> QED
      BY <3>1, <3>2
  <2>4. ASSUME NEW c \in 1..j, Ok(c)
        PROVE  \E i \in 1..Len(n) : n[i].at = cells[c].at /\ ~IsGap(n[i])
    <3>1. CASE c = j
      <4>1. L + 1 \in 1..Len(n)
        BY <1>1, <2>2
      <4> QED
        BY <2>1, <2>2, <3>1, <4>1
    <3>2. CASE c # j
      <4>1. c \in 1..j - 1
        BY <1>1, <3>2
      <4>2. PICK i \in 1..L : out[i].at = cells[c].at /\ ~IsGap(out[i])
        BY <1>3, <2>4, <4>1
      <4>3. i \in 1..Len(n) /\ n[i] = out[i]
        BY <1>1, <2>2
      <4> QED
        BY <4>2, <4>3
    <3> QED
      BY <3>1, <3>2
  <2>5. ASSUME NEW i \in 1..Len(n) - 1, ~IsGap(n[i]), ~IsGap(n[i + 1])
        PROVE  \E c \in 1..j - 1 : n[i].at = cells[c].at /\ n[i + 1].at = cells[c + 1].at
    <3>0. i \in 1..L /\ n[i] = out[i]
      BY <1>1, <2>2
    <3>1. CASE i = L
      <4>1. L > 0 /\ ~IsGap(out[L])
        BY <1>1, <2>5, <3>0, <3>1
      <4>2. j - 1 > 0 /\ out[L].at = cells[j - 1].at
        BY <1>5, <4>1
      <4>3. j - 1 \in 1..j - 1 /\ (j - 1) + 1 = j
        BY <1>1, <4>2
      <4>4. n[i].at = cells[j - 1].at /\ n[i + 1].at = cells[(j - 1) + 1].at
        BY <2>1, <2>2, <3>0, <3>1, <4>2, <4>3
      <4> QED
        BY <4>3, <4>4
    <3>2. CASE i # L
      <4>1. i \in 1..L - 1 /\ i + 1 \in 1..L
        BY <1>1, <3>0, <3>2
      <4>2. n[i + 1] = out[i + 1]
        BY <2>2, <4>1
      <4>3. PICK c \in 1..(j - 1) - 1 : out[i].at = cells[c].at /\ out[i + 1].at = cells[c + 1].at
        BY <1>4, <2>5, <3>0, <4>1, <4>2
      <4>4. c \in 1..j - 1
        BY <1>1
      <4> QED
        BY <3>0, <4>2, <4>3, <4>4
    <3> QED
      BY <3>1, <3>2
  <2>6. j > 0 /\ n[Len(n)].at = cells[j].at
    BY <1>1, <2>1, <2>2
  <2>7. Lined(n, cells, j)
    BY <2>2, <2>3, <2>4, <2>5, <2>6 DEF Lined, Ok
  <2> QED
    BY <2>7 DEF n
<1>8. CASE ~Ok(j)
  <2>1. CASE n = out /\ (out = <<>> \/ IsGap(Last(out)))
    <3>1. \A i \in 1..L : ~IsGap(out[i]) => \E c \in 1..j : out[i].at = cells[c].at /\ Ok(c)
      <4>1. \A c \in 1..j - 1 : c \in 1..j
        BY <1>1
      <4> HIDE DEF Ok, L
      <4> QED
        BY <1>2, <4>1
    <3>2. \A c \in 1..j : Ok(c) => \E i \in 1..L : out[i].at = cells[c].at /\ ~IsGap(out[i])
      <4> HIDE DEF Ok, L
      <4>1. \A c \in 1..j : c # j => c \in 1..j - 1
        BY <1>1
      <4> QED
        BY <1>3, <1>8, <4>1
    <3>3. \A i \in 1..L - 1 : ~IsGap(out[i]) /\ ~IsGap(out[i + 1]) =>
            \E c \in 1..j - 1 : out[i].at = cells[c].at /\ out[i + 1].at = cells[c + 1].at
      <4>1. \A c \in 1..(j - 1) - 1 : c \in 1..j - 1
        BY <1>1
      <4> HIDE DEF L
      <4> QED
        BY <1>4, <4>1
    <3>4. ~(L > 0 /\ ~IsGap(out[L]))
      BY <1>1, <2>1 DEF Last
    <3> HIDE DEF n, Ok, L
    <3>5. Lined(n, cells, j)
      BY <1>1, <2>1, <3>1, <3>2, <3>3, <3>4 DEF Lined, Ok, L
    <3> QED
      BY <3>5 DEF n
  <2>2. CASE \E p \in ChartPoint : n = Append(out, p) /\ p.at = cells[j].at /\ IsGap(p)
    <3>1. PICK p \in ChartPoint : n = Append(out, p) /\ p.at = cells[j].at /\ IsGap(p)
      BY <2>2
    <3>2. n \in Seq(ChartPoint) /\ Len(n) = L + 1 /\ n[L + 1] = p /\ \A i \in 1..L : n[i] = out[i]
      BY <1>6, <3>1
    <3> HIDE DEF n, Ok, L
    <3>3. ASSUME NEW i \in 1..Len(n), ~IsGap(n[i])
          PROVE  i \in 1..L /\ n[i] = out[i] /\ \E c \in 1..j : n[i].at = cells[c].at /\ Ok(c)
      <4>1. i \in 1..L /\ n[i] = out[i]
        BY <1>1, <3>1, <3>2, <3>3
      <4>2. PICK c \in 1..j - 1 : out[i].at = cells[c].at /\ Ok(c)
        BY <1>2, <3>3, <4>1
      <4>3. c \in 1..j
        BY <1>1
      <4> QED
        BY <4>1, <4>2, <4>3
    <3>4. ASSUME NEW c \in 1..j, Ok(c)
          PROVE  \E i \in 1..Len(n) : n[i].at = cells[c].at /\ ~IsGap(n[i])
      <4>1. c \in 1..j - 1
        BY <1>1, <1>8, <3>4
      <4>2. PICK i \in 1..L : out[i].at = cells[c].at /\ ~IsGap(out[i])
        BY <1>3, <3>4, <4>1
      <4>3. i \in 1..Len(n) /\ n[i] = out[i]
        BY <1>1, <3>2
      <4> QED
        BY <4>2, <4>3
    <3>5. ASSUME NEW i \in 1..Len(n) - 1, ~IsGap(n[i]), ~IsGap(n[i + 1])
          PROVE  \E c \in 1..j - 1 : n[i].at = cells[c].at /\ n[i + 1].at = cells[c + 1].at
      <4>0. i \in 1..Len(n) /\ i + 1 \in 1..Len(n)
        BY <1>1, <3>2
      <4>1. i \in 1..L /\ n[i] = out[i]
        BY <3>3, <3>5, <4>0
      <4>2. i + 1 \in 1..L /\ n[i + 1] = out[i + 1]
        BY <3>3, <3>5, <4>0
      <4>3. i \in 1..L - 1
        BY <1>1, <4>1, <4>2
      <4>4. PICK c \in 1..(j - 1) - 1 : out[i].at = cells[c].at /\ out[i + 1].at = cells[c + 1].at
        BY <1>4, <3>5, <4>1, <4>2, <4>3
      <4>5. c \in 1..j - 1
        BY <1>1
      <4> QED
        BY <4>1, <4>2, <4>4, <4>5
    <3>6. IsGap(n[Len(n)])
      BY <3>1, <3>2
    <3>7. Lined(n, cells, j)
      BY <3>2, <3>3, <3>4, <3>5, <3>6 DEF Lined, Ok
    <3> QED
      BY <3>7 DEF n
  <2> QED
    BY <1>1, <1>8, <2>1, <2>2, AddedCell
<1> QED
  BY <1>7, <1>8

LEMMA Around ==
  ASSUME NEW a \in Nat, NEW b \in Nat, NEW m \in Nat, a <= m - 1, b >= m + 1
  PROVE  a < m /\ m < b
  OBVIOUS

(* An overview has a sum exactly where every instance has data, and no     *)
(* line over any other cell.                                               *)
LEMMA OverviewLines ==
  ASSUME NEW cells \in Seq(GridCell),
         \A c, d \in 1..Len(cells) : c < d => cells[c].at < cells[d].at,
         NEW x \in 1..Len(cells)
  PROVE  /\ (\E p \in ToSet(Overview(cells)) : p.at = cells[x].at /\ ~IsGap(p)) <=> Complete(cells[x].of)
         /\ ~Drawn(Overview(cells), cells[x].at - 1, cells[x].at + 1)
<1> DEFINE n == Len(cells)
<1>1. n \in Nat /\ \A c \in 1..n : cells[c].at \in Nat
  <2>1. \A c \in 1..n : cells[c] \in GridCell
    OBVIOUS
  <2> QED
    BY <2>1 DEF GridCell
<1>2. PICK h : OverTrace(h, cells)
  BY OverSteps
<1> DEFINE T == {j \in 0..n : Lined(h[j], cells, j)}
<1>3. 0 \in T
  <2>1. h[0] = <<>>
    BY <1>2 DEF OverTrace
  <2>2. Len(<<>>) = 0 /\ <<>> \in Seq(ChartPoint)
    OBVIOUS
  <2>3. Lined(<<>>, cells, 0)
    BY <2>2 DEF Lined
  <2> QED
    BY <1>1, <2>1, <2>3
<1>4. ASSUME NEW j \in 0 + 1..n, j - 1 \in T PROVE j \in T
  <2>1. j \in 1..n /\ j \in 0..n
    BY <1>1
  <2>2. h[j] = CellAdded(h[j - 1], cells[j])
    BY <1>2, <2>1 DEF OverTrace
  <2>3. Lined(h[j - 1], cells, j - 1)
    BY <1>4
  <2>4. Lined(h[j], cells, j)
    BY <2>1, <2>2, <2>3, LinedMore
  <2> QED
    BY <2>1, <2>4
<1>5. n \in T
  <2> HIDE DEF T, n
  <2>1. 0 \in Nat /\ 0 \in T /\ \A i \in 0 + 1..n : i - 1 \in T => i \in T
    BY <1>3, <1>4
  <2>2. \A i \in 0..n : i \in T
    BY ONLY <1>1, <2>1, Upward
  <2> QED
    BY <1>1, <2>2
<1>6. PICK ps : ps = Overview(cells) /\ Lined(ps, cells, n)
  BY <1>2, <1>5 DEF OverTrace
<1>7. ps \in Seq(ChartPoint) /\ Len(ps) \in Nat /\ ToSet(ps) = {ps[i] : i \in 1..Len(ps)}
  BY <1>6 DEF Lined, ToSet
<1> HIDE DEF n, T
<1>8. (\E p \in ToSet(ps) : p.at = cells[x].at /\ ~IsGap(p)) <=> Complete(cells[x].of)
  <2>1. ASSUME NEW p \in ToSet(ps), p.at = cells[x].at, ~IsGap(p) PROVE Complete(cells[x].of)
    <3>1. PICK i \in 1..Len(ps) : ps[i] = p
      BY <1>7
    <3>2. PICK c \in 1..n : ps[i].at = cells[c].at /\ Complete(cells[c].of)
      BY <1>6, <2>1, <3>1 DEF Lined
    <3>3. ~(c < x) /\ ~(x < c)
      <4>1. cells[c].at = cells[x].at /\ cells[c].at \in Nat
        BY <1>1, <2>1, <3>1, <3>2
      <4>2. x \in 1..n
        BY DEF n
      <4>3. c < x => cells[c].at < cells[x].at
        BY <4>2 DEF n
      <4>4. x < c => cells[x].at < cells[c].at
        BY <4>2 DEF n
      <4> QED
        BY <4>1, <4>3, <4>4
    <3>4. c = x
      BY <1>1, <3>3 DEF n
    <3> QED
      BY <3>2, <3>4
  <2>2. ASSUME Complete(cells[x].of) PROVE \E p \in ToSet(ps) : p.at = cells[x].at /\ ~IsGap(p)
    <3>1. PICK i \in 1..Len(ps) : ps[i].at = cells[x].at /\ ~IsGap(ps[i])
      BY <1>6, <2>2 DEF Lined, n
    <3>2. ps[i] \in ToSet(ps)
      BY <1>7
    <3> QED
      BY <3>1, <3>2
  <2> QED
    BY <2>1, <2>2
<1>9. ~Drawn(ps, cells[x].at - 1, cells[x].at + 1)
  <2> SUFFICES ASSUME Drawn(ps, cells[x].at - 1, cells[x].at + 1) PROVE FALSE
    OBVIOUS
  <2>1. PICK i \in 1..Len(ps) - 1 : /\ ~IsGap(ps[i]) /\ ~IsGap(ps[i + 1])
                                    /\ ps[i].at <= cells[x].at - 1 /\ ps[i + 1].at >= cells[x].at + 1
    BY DEF Drawn
  <2>2. PICK c \in 1..n - 1 : ps[i].at = cells[c].at /\ ps[i + 1].at = cells[c + 1].at
    BY <1>6, <2>1 DEF Lined
  <2>3. x \in 1..n /\ c \in 1..n /\ c + 1 \in 1..n /\ n \in Nat
    BY <1>1 DEF n
  <2>4. cells[x].at \in Nat /\ cells[c].at \in Nat /\ cells[c + 1].at \in Nat
    BY <1>1, <2>3
  <2>5. cells[c].at < cells[x].at /\ cells[x].at < cells[c + 1].at
    <3>1. PICK a, b, m : /\ a = cells[c].at /\ b = cells[c + 1].at /\ m = cells[x].at
                         /\ a \in Nat /\ b \in Nat /\ m \in Nat
      BY <2>4
    <3>2. a <= m - 1 /\ b >= m + 1
      BY <2>1, <2>2, <3>1
    <3>3. a < m /\ m < b
      BY <3>1, <3>2, Around
    <3> QED
      BY <3>1, <3>3
  <2>6. ASSUME NEW a \in 1..n, NEW b \in 1..n, cells[a].at < cells[b].at PROVE a < b
    <3>1. cells[a].at \in Nat /\ cells[b].at \in Nat
      BY <1>1
    <3>2. b < a => cells[b].at < cells[a].at
      BY DEF n
    <3>3. a # b /\ ~(b < a)
      BY <2>6, <3>1, <3>2
    <3> QED
      BY <1>1, <3>3
  <2>7. c < x /\ x < c + 1
    BY <2>3, <2>5, <2>6
  <2> QED
    BY <2>3, <2>7
<1> QED
  BY <1>6, <1>8, <1>9

LEMMA PeerSeries ==
  ASSUME NEW peer \in Peers
  PROVE  IsSeries(peer)
<1>1. peer \in Seq(RawSample)
  BY PeersAssumption DEF RawSample, Sample, Flags
<1>2. \A i, j \in DOMAIN peer : i < j => peer[i].at < peer[j].at
  BY PeersAssumption
<1>3. DOMAIN peer = 1..Len(peer)
  BY <1>1
<1> QED
  BY <1>1, <1>2, <1>3 DEF IsSeries

(* The starts of the cells with a speed.                                   *)
Filled(s) == {Start(x.at, Minute) : x \in {y \in ToSet(s) : "Up" \in y.valid}}

LEMMA FilledIs ==
  ASSUME NEW s, IsSeries(s), NEW b \in Nat, NEW t \in Nat, t + Minute <= b, NEW m, m = AlignedRaw(s, Minute, b, t)
  PROVE  m \in Accums /\ (m.filled <=> t \in Filled(s)) /\ (m.filled <=> m.weight > 0)
<1>1. Minute \in Nat \ {0}
  BY RollupAssumption
<1>2. /\ m \in Accums /\ (m.filled <=> \E i \in 1..Len(s) : InCell(s, i, Minute, t))
      /\ (m.filled <=> m.weight > 0)
  BY <1>1, RawFilled
<1>3. ToSet(s) = {s[i] : i \in 1..Len(s)}
  BY DEF IsSeries, ToSet
<1>4. t \in Filled(s) <=> \E i \in 1..Len(s) : InCell(s, i, Minute, t)
  BY <1>3 DEF Filled, InCell
<1> QED
  BY <1>2, <1>4

(* Two instances in one cell.                                              *)
LEMMA BothComplete ==
  ASSUME NEW m \in Accums, NEW q \in Accums, m.filled <=> m.weight > 0, q.filled <=> q.weight > 0
  PROVE  <<m, q>> \in Seq(Accums) /\ (Complete(<<m, q>>) <=> m.filled /\ q.filled)
<1>1. DOMAIN <<m, q>> = {1, 2} /\ <<m, q>>[1] = m /\ <<m, q>>[2] = q
  OBVIOUS
<1>2. Complete(<<m, q>>) <=> m.filled /\ q.filled
  BY <1>1 DEF Complete
<1> QED
  BY <1>2

LEMMA GridTimes ==
  ASSUME NEW e \in Nat, NEW k \in 1..e \div Minute
  PROVE  (k - 1) * Minute \in Nat /\ (k - 1) * Minute + Minute <= e
<1>1. Minute \in Nat \ {0}
  BY RollupAssumption
<1> DEFINE q == e \div Minute
<1>2. q \in Nat /\ q * Minute \in Nat /\ q * Minute <= e
  BY <1>1, DivMod
<1>3. k \in Nat /\ k <= q /\ k - 1 \in Nat
  BY <1>2
<1> HIDE DEF q
<1>4. k * Minute <= q * Minute
  BY <1>1, <1>2, <1>3, Scaled
<1>5. ((k - 1) + 1) * Minute = (k - 1) * Minute + Minute /\ (k - 1) + 1 = k
  BY <1>1, <1>3, OneMore
<1> DEFINE x == (k - 1) * Minute
           y == k * Minute
           z == q * Minute
<1>6. x \in Nat
  BY <1>1, <1>3
<1>7. y = x + Minute /\ y <= z /\ z <= e /\ z \in Nat
  BY <1>2, <1>4, <1>5
<1> HIDE DEF x, y, z
<1>8. x + Minute <= e
  BY <1>1, <1>6, <1>7
<1> QED
  BY <1>6, <1>8 DEF x

LEMMA GridGrows ==
  ASSUME NEW j \in Nat \ {0}, NEW k \in Nat, j < k
  PROVE  (j - 1) * Minute < (k - 1) * Minute
<1>1. Minute \in Nat \ {0}
  BY RollupAssumption
<1>2. j - 1 \in Nat /\ k - 1 \in Nat /\ (j - 1) + 1 <= k - 1 /\ (j - 1) + 1 \in Nat
  OBVIOUS
<1>3. ((j - 1) + 1) * Minute <= (k - 1) * Minute
  BY <1>1, <1>2, Scaled
<1>4. ((j - 1) + 1) * Minute = (j - 1) * Minute + Minute
  BY <1>1, <1>2, OneMore
<1> DEFINE x == (j - 1) * Minute
           y == (k - 1) * Minute
           z == ((j - 1) + 1) * Minute
<1>5. x \in Nat /\ y \in Nat /\ z = x + Minute /\ z <= y
  BY <1>1, <1>2, <1>3, <1>4
<1> HIDE DEF x, y, z
<1>6. x < y
  BY <1>1, <1>5
<1> QED
  BY <1>6 DEF x, y

(* OverviewHonest of any sealed series and any other instance: each cell   *)
(* is as CellsAgree and FilledIs say, and OverviewLines draws them.        *)
LEMMA OverviewIs ==
  ASSUME SeriesInv
  PROVE  OverviewHonest
<1> DEFINE n == edge \div Minute
           grid == [k \in 1..n |-> (k - 1) * Minute]
           raw == [k \in DOMAIN grid |-> AlignedRaw(SealedSamples, Minute, edge, grid[k])]
           cells(peer) == [k \in DOMAIN grid |->
                            [at |-> grid[k], of |-> <<raw[k], AlignedRaw(peer, Minute, edge, grid[k])>>]]
<1>1. edge \in Nat /\ Minute \in Nat \ {0} /\ n \in Nat
  BY RollupAssumption DEF SeriesInv
<1>2. IsSeries(SealedSamples)
  <2>1. PICK hi : Cut(samples, edge, hi)
    BY DEF SeriesInv
  <2>2. IsSlice(SealedSamples, samples, 0, hi) /\ IsSeries(samples)
    BY <2>1, SealedIs DEF SeriesInv
  <2> QED
    BY <2>2, SliceSeries
<1>3. ASSUME NEW k \in 1..n
      PROVE  /\ grid[k] \in Nat /\ grid[k] + Minute <= edge
             /\ raw[k] = AlignedRaw(SealedSamples, Minute, edge, grid[k])
             /\ raw[k] = AlignedSummary(one, Minute, 0, edge, grid[k])
  <2>1. PICK t : t = grid[k]
    OBVIOUS
  <2>2. t \in Nat /\ t + Minute <= edge
    BY <1>1, <2>1, GridTimes
  <2>3. raw[k] = AlignedRaw(SealedSamples, Minute, edge, t)
    BY <2>1
  <2>4. AlignedRaw(SealedSamples, Minute, edge, t) = AlignedSummary(one, Minute, 0, edge, t)
    BY <2>2, CellsAgree
  <2> HIDE DEF grid, raw, n
  <2> QED
    BY <2>1, <2>2, <2>3, <2>4
<1>4. DOMAIN grid = 1..n
  OBVIOUS
<1>5. \A j, k \in 1..n : j < k => grid[j] < grid[k]
  <2>1. ASSUME NEW j \in 1..n, NEW k \in 1..n, j < k PROVE grid[j] < grid[k]
    <3>1. j \in Nat \ {0} /\ k \in Nat
      BY <1>1
    <3>2. grid[j] = (j - 1) * Minute /\ grid[k] = (k - 1) * Minute
      OBVIOUS
    <3> HIDE DEF grid, n
    <3> QED
      BY <2>1, <3>1, <3>2, GridGrows
  <2> QED
    BY <2>1
<1>6. ASSUME NEW peer \in Peers, NEW x \in 1..n
      PROVE  LET points == Overview(cells(peer))
                 t == grid[x]
             IN /\ (\E p \in ToSet(points) : p.at = t /\ ~IsGap(p))
                     <=> t \in Filled(SealedSamples) \cap Filled(peer)
                /\ ~Drawn(points, t - 1, t + 1)
  <2>1. PICK cs : cs = cells(peer)
    OBVIOUS
  <2>2. IsSeries(peer)
    BY PeerSeries
  <2>3. ASSUME NEW k \in 1..n
        PROVE  /\ cs[k] \in GridCell /\ cs[k].at = grid[k]
               /\ Complete(cs[k].of) <=> grid[k] \in Filled(SealedSamples) \cap Filled(peer)
    <3>1. PICK m : m = raw[k]
      OBVIOUS
    <3>2. PICK q : q = AlignedRaw(peer, Minute, edge, grid[k])
      OBVIOUS
    <3>3. cs[k] = [at |-> grid[k], of |-> <<m, q>>]
      BY <2>1, <3>1, <3>2
    <3> HIDE DEF grid, raw, n, cells
    <3>4. PICK t : t = grid[k] /\ t \in Nat /\ t + Minute <= edge
      BY <1>3
    <3>5. m = AlignedRaw(SealedSamples, Minute, edge, t) /\ q = AlignedRaw(peer, Minute, edge, t)
      BY <1>3, <3>1, <3>2, <3>4
    <3>6. m \in Accums /\ (m.filled <=> t \in Filled(SealedSamples)) /\ (m.filled <=> m.weight > 0)
      BY <1>1, <1>2, <3>4, <3>5, FilledIs
    <3>7. q \in Accums /\ (q.filled <=> t \in Filled(peer)) /\ (q.filled <=> q.weight > 0)
      BY <1>1, <2>2, <3>4, <3>5, FilledIs
    <3>8. <<m, q>> \in Seq(Accums) /\ (Complete(<<m, q>>) <=> m.filled /\ q.filled)
      BY <3>6, <3>7, BothComplete
    <3>9. cs[k].at = t /\ cs[k].of = <<m, q>> /\ cs[k] \in GridCell
      BY <3>3, <3>4, <3>8 DEF GridCell
    <3> QED
      BY <3>4, <3>6, <3>7, <3>8, <3>9
  <2>4. Len(cs) = n /\ cs \in Seq(GridCell)
    <3>1. cs = [k \in 1..n |-> cs[k]]
      BY <2>1
    <3> HIDE DEF grid, raw, n, cells
    <3> QED
      BY <1>1, <2>3, <3>1
  <2> HIDE DEF grid, raw, n, cells
  <2>5. \A c, d \in 1..Len(cs) : c < d => cs[c].at < cs[d].at
    BY <1>5, <2>3, <2>4
  <2>6. x \in 1..Len(cs)
    BY <2>4
  <2>7. (\E p \in ToSet(Overview(cs)) : p.at = cs[x].at /\ ~IsGap(p)) <=> Complete(cs[x].of)
    BY <2>4, <2>5, <2>6, OverviewLines
  <2>8. ~Drawn(Overview(cs), cs[x].at - 1, cs[x].at + 1)
    BY <2>4, <2>5, <2>6, OverviewLines
  <2>9. cs[x].at = grid[x]
    BY <2>3
  <2>10. Complete(cs[x].of) <=> grid[x] \in Filled(SealedSamples) \cap Filled(peer)
    BY <2>3
  <2> QED
    BY <2>1, <2>7, <2>8, <2>9, <2>10
<1>7. ASSUME NEW t \in ToSet(grid) PROVE \E x \in 1..n : t = grid[x]
  BY <1>4 DEF ToSet
<1>8. \A k \in DOMAIN grid : raw[k] = AlignedSummary(one, Minute, 0, edge, grid[k])
  <2> HIDE DEF grid, raw, n
  <2> QED
    BY <1>3, <1>4
<1>9. ASSUME NEW peer \in Peers, NEW t \in ToSet(grid)
      PROVE  /\ (\E p \in ToSet(Overview(cells(peer))) : p.at = t /\ ~IsGap(p))
                   <=> t \in Filled(SealedSamples) \cap Filled(peer)
             /\ t \notin Filled(SealedSamples) \cap Filled(peer) => ~Drawn(Overview(cells(peer)), t - 1, t + 1)
  <2> HIDE DEF grid, raw, n, cells
  <2> QED
    BY <1>6, <1>7
<1> QED
  BY <1>8, <1>9 DEF OverviewHonest, Filled

(* The overview of several instances: a cell is the same from the sealed   *)
(* samples and from their minute buckets, a sum is drawn exactly at the    *)
(* cells where every instance has data, and no line goes over any cell     *)
(* without one (alignedRawSeries, alignedSummarySeries, Overview).         *)
THEOREM OverviewHonestAlways == Spec => []OverviewHonest
<1>1. SeriesInv => OverviewHonest
  BY OverviewIs
<1> QED
  BY <1>1, SeriesInvariant, PTL
=============================================================================
