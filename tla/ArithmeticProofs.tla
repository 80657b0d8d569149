-------------------------- MODULE ArithmeticProofs --------------------------
(***************************************************************************)
(* What the arithmetic computes, for any values, intervals and widths.     *)
(* First the single steps: a sample joins a bucket, two buckets are        *)
(* merged, a bucket joins a chart, a cell joins a run.  Then the folds of  *)
(* these steps: a fold is traced position by position, from the least-     *)
(* number principle that well-founded induction gives (LeastNumber,        *)
(* Induction, FoldExists), and Build and ToFive are shown to cut a series  *)
(* into the buckets that tell of its samples (BuildTier, FiveOfWindow),    *)
(* and DecodeColumns to read back what EncodeColumns wrote (ReadBack,      *)
(* OneRowCount).                                                           *)
(***************************************************************************)
EXTENDS Charts, Codec, TLAPS, WellFoundedInduction, FiniteSetTheorems, SequenceTheorems

-----------------------------------------------------------------------------
(* Numbers.                                                                *)

LEMMA LargerOfTwo ==
  ASSUME NEW a \in Int, NEW b \in Int
  PROVE  Max({a, b}) = IF a >= b THEN a ELSE b
  BY DEF Max

LEMMA Scaled ==
  ASSUME NEW a \in Nat, NEW b \in Nat, NEW w \in Nat, a <= b
  PROVE  a * w <= b * w
  OBVIOUS

LEMMA Spread ==
  ASSUME NEW a \in Nat, NEW v \in Nat, NEW w \in Nat
  PROVE  a * (v + w) = a * v + a * w
  OBVIOUS

LEMMA OneMore ==
  ASSUME NEW j \in Int, NEW d \in Int
  PROVE  (j + 1) * d = j * d + d
  OBVIOUS

LEMMA SumsNotZero ==
  ASSUME NEW p \in Nat, NEW q \in Nat, NEW r \in Nat, NEW s \in Nat, p + q # 0
  PROVE  (p + r) + (q + s) # 0
  OBVIOUS

-----------------------------------------------------------------------------
(* Stats.                                                                  *)

Stat ==
  [sum : Nat, weight : Nat, first : Nat, last : Nat, min : Nat, max : Nat,
   firstAt : Nat, lastAt : Nat, minAt : Nat, maxAt : Nat, zero : Nat, positive : Nat]

(* The stat of two stats of some values, and of a stat and another value.  *)
LEMMA MergeIs ==
  ASSUME NEW a \in Stat, NEW b \in Stat, Observations(a) # 0, Observations(b) # 0
  PROVE  MergeStat(a, b) =
           [sum |-> a.sum + b.sum, weight |-> a.weight + b.weight,
            first |-> IF b.firstAt < a.firstAt THEN b.first ELSE a.first,
            last |-> IF b.lastAt > a.lastAt THEN b.last ELSE a.last,
            min |-> IF b.min < a.min THEN b.min ELSE a.min,
            max |-> IF b.max > a.max THEN b.max ELSE a.max,
            firstAt |-> IF b.firstAt < a.firstAt THEN b.firstAt ELSE a.firstAt,
            lastAt |-> IF b.lastAt > a.lastAt THEN b.lastAt ELSE a.lastAt,
            minAt |-> IF b.min < a.min THEN b.minAt ELSE a.minAt,
            maxAt |-> IF b.max > a.max THEN b.maxAt ELSE a.maxAt,
            zero |-> a.zero + b.zero, positive |-> a.positive + b.positive]
<1>1. MergeStat(a, b) =
         [a EXCEPT
            !.sum = a.sum + b.sum, !.weight = a.weight + b.weight,
            !.first = IF b.firstAt < a.firstAt THEN b.first ELSE a.first,
            !.firstAt = IF b.firstAt < a.firstAt THEN b.firstAt ELSE a.firstAt,
            !.last = IF b.lastAt > a.lastAt THEN b.last ELSE a.last,
            !.lastAt = IF b.lastAt > a.lastAt THEN b.lastAt ELSE a.lastAt,
            !.min = IF b.min < a.min THEN b.min ELSE a.min, !.minAt = IF b.min < a.min THEN b.minAt ELSE a.minAt,
            !.max = IF b.max > a.max THEN b.max ELSE a.max, !.maxAt = IF b.max > a.max THEN b.maxAt ELSE a.maxAt,
            !.zero = a.zero + b.zero, !.positive = a.positive + b.positive]
  BY DEF MergeStat, Stat
<1> QED
  BY <1>1, ZenonT(60) DEF Stat

(* What a stat says of the values it was made from: the extremes, both ends *)
(* and the mean are of the same values, and so are their times.             *)
Told(st) ==
  /\ {st.first, st.last} \subseteq st.min..st.max
  /\ {st.minAt, st.maxAt} \subseteq st.firstAt..st.lastAt
  /\ st.min * st.weight <= st.sum /\ st.sum <= st.max * st.weight
  /\ (st.zero > 0 <=> st.min = 0) /\ (st.positive > 0 <=> st.max > 0)

Sound(st) == /\ st \in Stat
             /\ IF Observations(st) = 0 THEN st = NoStat ELSE Told(st)

LEMMA AddIs ==
  ASSUME NEW st \in Stat, Observations(st) # 0,
         NEW v \in Nat, NEW at \in Nat, NEW w \in Nat
  PROVE  AddStat(st, v, at, w) =
           [sum |-> st.sum + v * w, weight |-> st.weight + w,
            first |-> st.first, last |-> v,
            min |-> IF v < st.min THEN v ELSE st.min,
            max |-> IF v > st.max THEN v ELSE st.max,
            firstAt |-> st.firstAt, lastAt |-> at,
            minAt |-> IF v < st.min THEN at ELSE st.minAt,
            maxAt |-> IF v > st.max THEN at ELSE st.maxAt,
            zero |-> IF v = 0 THEN st.zero + 1 ELSE st.zero,
            positive |-> IF v = 0 THEN st.positive ELSE st.positive + 1]
<1>1. AddStat(st, v, at, w) =
         [st EXCEPT !.last = v, !.lastAt = at,
            !.min = IF v < st.min THEN v ELSE st.min, !.minAt = IF v < st.min THEN at ELSE st.minAt,
            !.max = IF v > st.max THEN v ELSE st.max, !.maxAt = IF v > st.max THEN at ELSE st.maxAt,
            !.sum = st.sum + v * w, !.weight = st.weight + w,
            !.zero = IF v = 0 THEN st.zero + 1 ELSE st.zero,
            !.positive = IF v = 0 THEN st.positive ELSE st.positive + 1]
  BY DEF AddStat, Stat
<1> QED
  BY <1>1, ZenonT(60) DEF Stat

LEMMA AddFirst ==
  ASSUME NEW st \in Stat, st = NoStat, NEW v \in Nat, NEW at \in Nat, NEW w \in Nat
  PROVE  AddStat(st, v, at, w) =
           [sum |-> v * w, weight |-> w, first |-> v, last |-> v, min |-> v, max |-> v,
            firstAt |-> at, lastAt |-> at, minAt |-> at, maxAt |-> at,
            zero |-> IF v = 0 THEN 1 ELSE 0, positive |-> IF v = 0 THEN 0 ELSE 1]
<1> DEFINE base == [st EXCEPT !.first = v, !.firstAt = at, !.min = v, !.minAt = at,
                              !.max = v, !.maxAt = at]
<1>1. st.sum = 0 /\ st.weight = 0 /\ st.zero = 0 /\ st.positive = 0 /\ Observations(st) = 0
  BY DEF NoStat, Observations
<1>2. base \in Stat
  BY DEF Stat
<1>3. /\ base.first = v /\ base.firstAt = at /\ base.min = v /\ base.max = v
      /\ base.minAt = at /\ base.maxAt = at
      /\ base.sum = 0 /\ base.weight = 0 /\ base.zero = 0 /\ base.positive = 0
  BY <1>1 DEF Stat
<1>4. AddStat(st, v, at, w) =
         [base EXCEPT !.last = v, !.lastAt = at,
            !.min = IF v < base.min THEN v ELSE base.min, !.minAt = IF v < base.min THEN at ELSE base.minAt,
            !.max = IF v > base.max THEN v ELSE base.max, !.maxAt = IF v > base.max THEN at ELSE base.maxAt,
            !.sum = base.sum + v * w, !.weight = base.weight + w,
            !.zero = IF v = 0 THEN base.zero + 1 ELSE base.zero,
            !.positive = IF v = 0 THEN base.positive ELSE base.positive + 1]
  BY <1>1 DEF AddStat
<1> HIDE DEF base
<1>5. /\ base.sum + v * w = v * w /\ base.weight + w = w
      /\ (IF v = 0 THEN base.zero + 1 ELSE base.zero) = (IF v = 0 THEN 1 ELSE 0)
      /\ (IF v = 0 THEN base.positive ELSE base.positive + 1) = (IF v = 0 THEN 0 ELSE 1)
      /\ (IF v < base.min THEN v ELSE base.min) = v /\ (IF v < base.min THEN at ELSE base.minAt) = at
      /\ (IF v > base.max THEN v ELSE base.max) = v /\ (IF v > base.max THEN at ELSE base.maxAt) = at
  BY <1>3
<1>6. AddStat(st, v, at, w) =
        [base EXCEPT !.last = v, !.lastAt = at, !.min = v, !.minAt = at, !.max = v, !.maxAt = at,
            !.sum = v * w, !.weight = w,
            !.zero = IF v = 0 THEN 1 ELSE 0, !.positive = IF v = 0 THEN 0 ELSE 1]
  BY <1>4, <1>5, Zenon
<1> QED
  BY <1>6, <1>2, <1>3 DEF Stat

LEMMA AddLast ==
  ASSUME NEW st \in Stat, st = NoStat \/ Observations(st) # 0,
         NEW v \in Nat, NEW at \in Nat, NEW w \in Nat
  PROVE  AddStat(st, v, at, w).lastAt = at
<1>1. CASE st = NoStat
  <2>1. AddStat(st, v, at, w) =
          [sum |-> v * w, weight |-> w, first |-> v, last |-> v, min |-> v, max |-> v,
           firstAt |-> at, lastAt |-> at, minAt |-> at, maxAt |-> at,
           zero |-> IF v = 0 THEN 1 ELSE 0, positive |-> IF v = 0 THEN 0 ELSE 1]
    BY <1>1, AddFirst, ZenonT(60)
  <2> QED
    BY <2>1
<1>2. CASE Observations(st) # 0
  <2>1. AddStat(st, v, at, w) =
          [sum |-> st.sum + v * w, weight |-> st.weight + w,
           first |-> st.first, last |-> v,
           min |-> IF v < st.min THEN v ELSE st.min,
           max |-> IF v > st.max THEN v ELSE st.max,
           firstAt |-> st.firstAt, lastAt |-> at,
           minAt |-> IF v < st.min THEN at ELSE st.minAt,
           maxAt |-> IF v > st.max THEN at ELSE st.maxAt,
           zero |-> IF v = 0 THEN st.zero + 1 ELSE st.zero,
           positive |-> IF v = 0 THEN st.positive ELSE st.positive + 1]
    BY <1>2, AddIs, ZenonT(60)
  <2> QED
    BY <2>1
<1> QED
  BY <1>1, <1>2

(* However a bucket's mean, extremes and counts of zero and other values   *)
(* are added up, they stay those of one set of values.                     *)
THEOREM AddSound ==
  ASSUME NEW st, Sound(st), NEW v \in Nat, NEW at \in Nat, NEW w \in Nat,
         Observations(st) = 0 \/ st.lastAt <= at
  PROVE  Sound(AddStat(st, v, at, w)) /\ Observations(AddStat(st, v, at, w)) > 0
<1>0. v * w \in Nat
  OBVIOUS
<1>1. CASE Observations(st) = 0
  <2>1. st = NoStat
    BY <1>1 DEF Sound
  <2> QED
    <3> DEFINE n == AddStat(st, v, at, w)
    <3>1. n = [sum |-> v * w, weight |-> w, first |-> v, last |-> v, min |-> v, max |-> v,
               firstAt |-> at, lastAt |-> at, minAt |-> at, maxAt |-> at,
               zero |-> IF v = 0 THEN 1 ELSE 0, positive |-> IF v = 0 THEN 0 ELSE 1]
      BY <2>1, AddFirst, ZenonT(60) DEF Sound
    <3> HIDE DEF n
    <3>2. /\ n.first = v /\ n.last = v /\ n.min = v /\ n.max = v
          /\ n.firstAt = at /\ n.lastAt = at /\ n.minAt = at /\ n.maxAt = at
          /\ n.zero = (IF v = 0 THEN 1 ELSE 0) /\ n.positive = (IF v = 0 THEN 0 ELSE 1)
          /\ n.sum = v * w /\ n.weight = w
      BY <3>1
    <3>3. n \in Stat
      BY <3>1, <1>0 DEF Stat
    <3>4. Told(n)
      BY <3>2, <1>0 DEF Told
    <3>5. Observations(n) > 0
      BY <3>2 DEF Observations
    <3>6. Sound(n)
      BY <3>3, <3>4, <3>5 DEF Sound
    <3> QED
      BY <3>5, <3>6 DEF n
<1>2. CASE Observations(st) # 0
  <2> DEFINE n == AddStat(st, v, at, w)
  <2>1. st \in Stat /\ Told(st) /\ st.lastAt <= at
    BY <1>2 DEF Sound
  <2> HIDE DEF n
  <2>10. n = [sum |-> st.sum + v * w, weight |-> st.weight + w,
             first |-> st.first, last |-> v,
             min |-> IF v < st.min THEN v ELSE st.min,
             max |-> IF v > st.max THEN v ELSE st.max,
             firstAt |-> st.firstAt, lastAt |-> at,
             minAt |-> IF v < st.min THEN at ELSE st.minAt,
             maxAt |-> IF v > st.max THEN at ELSE st.maxAt,
             zero |-> IF v = 0 THEN st.zero + 1 ELSE st.zero,
             positive |-> IF v = 0 THEN st.positive ELSE st.positive + 1]
    BY <2>1, <1>2, AddIs, ZenonT(60) DEF n
  <2>11. /\ n.sum = st.sum + v * w /\ n.weight = st.weight + w
        /\ n.first = st.first /\ n.last = v /\ n.firstAt = st.firstAt /\ n.lastAt = at
        /\ n.min = (IF v < st.min THEN v ELSE st.min) /\ n.minAt = (IF v < st.min THEN at ELSE st.minAt)
        /\ n.max = (IF v > st.max THEN v ELSE st.max) /\ n.maxAt = (IF v > st.max THEN at ELSE st.maxAt)
        /\ n.zero = (IF v = 0 THEN st.zero + 1 ELSE st.zero)
        /\ n.positive = (IF v = 0 THEN st.positive ELSE st.positive + 1)
    BY <2>10
  <2>12. /\ st.sum \in Nat /\ st.weight \in Nat /\ st.first \in Nat /\ st.last \in Nat
        /\ st.min \in Nat /\ st.max \in Nat /\ st.firstAt \in Nat /\ st.lastAt \in Nat
        /\ st.minAt \in Nat /\ st.maxAt \in Nat /\ st.zero \in Nat /\ st.positive \in Nat
        /\ st.zero + st.positive > 0
    BY <2>1, <1>2 DEF Stat, Observations
  <2>2. n \in Stat /\ Observations(n) > 0
    <3>1. n \in Stat
      BY <2>10, <2>12, <1>0 DEF Stat
    <3> QED
      BY <3>1, <2>11, <2>12 DEF Observations
  <2>3. /\ n.min \in Nat /\ n.min <= st.min /\ n.min <= v
        /\ n.max \in Nat /\ n.max >= st.max /\ n.max >= v
    BY <2>11, <2>12
  <2>4. n.min * n.weight <= n.sum
    <3>1. n.min * n.weight = n.min * st.weight + n.min * w
      BY <2>3, <2>11, <2>12, Spread
    <3>2. n.min * st.weight <= st.min * st.weight /\ n.min * w <= v * w
      BY <2>3, <2>12, Scaled
    <3>3. {n.min * st.weight, n.min * w, st.min * st.weight} \subseteq Nat /\ st.min * st.weight <= st.sum
      BY <2>3, <2>12, <2>1, SMTT(30) DEF Told
    <3> QED
      BY <3>1, <3>2, <3>3, <2>3, <2>11, <2>12, <1>0
  <2>5. n.sum <= n.max * n.weight
    <3>1. n.max * n.weight = n.max * st.weight + n.max * w
      BY <2>3, <2>11, <2>12, Spread
    <3>2. st.max * st.weight <= n.max * st.weight /\ v * w <= n.max * w
      BY <2>3, <2>12, Scaled
    <3>3. {n.max * st.weight, n.max * w, st.max * st.weight} \subseteq Nat /\ st.sum <= st.max * st.weight
      BY <2>3, <2>12, <2>1 DEF Told
    <3> QED
      BY <3>1, <3>2, <3>3, <2>3, <2>11, <2>12, <1>0
  <2>6. {n.first, n.last} \subseteq n.min..n.max
    BY <2>1, <2>11, <2>12 DEF Told
  <2>7. {n.minAt, n.maxAt} \subseteq n.firstAt..n.lastAt
    BY <2>1, <2>11, <2>12 DEF Told
  <2>8. (n.zero > 0 <=> n.min = 0) /\ (n.positive > 0 <=> n.max > 0)
    BY <2>1, <2>11, <2>12 DEF Told
  <2>9. Sound(n)
    BY <2>2, <2>4, <2>5, <2>6, <2>7, <2>8 DEF Sound, Told
  <2> QED
    BY <2>2, <2>9 DEF n
<1> QED
  BY <1>1, <1>2

(* Merging two such stats gives one again, and loses no observation.       *)
THEOREM MergeSound ==
  ASSUME NEW a, Sound(a), NEW b, Sound(b)
  PROVE  Sound(MergeStat(a, b)) /\ Observations(MergeStat(a, b)) = Observations(a) + Observations(b)
<1>0. a \in Stat /\ b \in Stat
  BY DEF Sound
<1>1. CASE Observations(a) = 0 \/ Observations(b) = 0
  BY <1>0, <1>1 DEF MergeStat, Observations, Stat
<1>2. CASE Observations(a) # 0 /\ Observations(b) # 0
  <2> DEFINE n == MergeStat(a, b)
  <2>1. Told(a) /\ Told(b)
    BY <1>2 DEF Sound
  <2> HIDE DEF n
  <2>11. /\ n.sum = a.sum + b.sum /\ n.weight = a.weight + b.weight
        /\ n.first = (IF b.firstAt < a.firstAt THEN b.first ELSE a.first)
        /\ n.last = (IF b.lastAt > a.lastAt THEN b.last ELSE a.last)
        /\ n.min = (IF b.min < a.min THEN b.min ELSE a.min)
        /\ n.max = (IF b.max > a.max THEN b.max ELSE a.max)
        /\ n.firstAt = (IF b.firstAt < a.firstAt THEN b.firstAt ELSE a.firstAt)
        /\ n.lastAt = (IF b.lastAt > a.lastAt THEN b.lastAt ELSE a.lastAt)
        /\ n.minAt = (IF b.min < a.min THEN b.minAt ELSE a.minAt)
        /\ n.maxAt = (IF b.max > a.max THEN b.maxAt ELSE a.maxAt)
        /\ n.zero = a.zero + b.zero /\ n.positive = a.positive + b.positive
    BY <1>0, <1>2, MergeIs DEF n
  <2>12. ASSUME NEW x \in {a, b}
        PROVE  /\ x.sum \in Nat /\ x.weight \in Nat /\ x.first \in Nat /\ x.last \in Nat
               /\ x.min \in Nat /\ x.max \in Nat /\ x.firstAt \in Nat /\ x.lastAt \in Nat
               /\ x.minAt \in Nat /\ x.maxAt \in Nat /\ x.zero \in Nat /\ x.positive \in Nat
               /\ x.zero + x.positive > 0
    BY <1>0, <1>2 DEF Stat, Observations
  <2>2. n \in Stat /\ Observations(n) = Observations(a) + Observations(b) /\ Observations(n) > 0
    <3>1. n \in Stat
      BY <2>12, <1>0, <1>2, MergeIs DEF n, Stat
    <3> QED
      BY <3>1, <2>11, <2>12 DEF Observations
  <2>3. /\ n.min \in Nat /\ n.min <= a.min /\ n.min <= b.min
        /\ n.max \in Nat /\ n.max >= a.max /\ n.max >= b.max
        /\ {a.sum, a.weight, a.min, a.max, b.sum, b.weight, b.min, b.max} \subseteq Nat
    BY <2>11, <2>12
  <2>4. n.min * n.weight <= n.sum
    <3>1. n.min * n.weight = n.min * a.weight + n.min * b.weight
      BY <2>3, <2>11, Spread
    <3>2. n.min * a.weight <= a.min * a.weight /\ n.min * b.weight <= b.min * b.weight
      BY <2>3, Scaled
    <3>3. {n.min * a.weight, n.min * b.weight, a.min * a.weight, b.min * b.weight} \subseteq Nat
      BY <2>3
    <3>4. a.min * a.weight <= a.sum /\ b.min * b.weight <= b.sum
      BY <2>1 DEF Told
    <3> QED
      BY <3>1, <3>2, <3>3, <3>4, <2>3, <2>11
  <2>5. n.sum <= n.max * n.weight
    <3>1. n.max * n.weight = n.max * a.weight + n.max * b.weight
      BY <2>3, <2>11, Spread
    <3>2. a.max * a.weight <= n.max * a.weight /\ b.max * b.weight <= n.max * b.weight
      BY <2>3, Scaled
    <3>3. {n.max * a.weight, n.max * b.weight, a.max * a.weight, b.max * b.weight} \subseteq Nat
      BY <2>3
    <3>4. a.sum <= a.max * a.weight /\ b.sum <= b.max * b.weight
      BY <2>1 DEF Told
    <3> QED
      BY <3>1, <3>2, <3>3, <3>4, <2>3, <2>11
  <2>6. {n.first, n.last} \subseteq n.min..n.max
    BY <2>1, <2>11, <2>12 DEF Told
  <2>7. {n.minAt, n.maxAt} \subseteq n.firstAt..n.lastAt
    BY <2>1, <2>11, <2>12 DEF Told
  <2>8. (n.zero > 0 <=> n.min = 0) /\ (n.positive > 0 <=> n.max > 0)
    BY <2>1, <2>11, <2>12 DEF Told
  <2>9. Sound(n)
    BY <2>2, <2>4, <2>5, <2>6, <2>7, <2>8 DEF Sound, Told
  <2> QED
    BY <2>2, <2>9 DEF n
<1> QED
  BY <1>1, <1>2
-----------------------------------------------------------------------------
(* Merging in any grouping.                                                *)

LEMMA StatEqual ==
  ASSUME NEW x \in Stat, NEW y \in Stat,
         x.sum = y.sum, x.weight = y.weight, x.first = y.first, x.last = y.last,
         x.min = y.min, x.max = y.max, x.firstAt = y.firstAt, x.lastAt = y.lastAt,
         x.minAt = y.minAt, x.maxAt = y.maxAt, x.zero = y.zero, x.positive = y.positive
  PROVE  x = y
  BY DEF Stat

LEMMA StatNumbers ==
  ASSUME NEW x \in Stat
  PROVE  /\ x.sum \in Nat /\ x.weight \in Nat /\ x.first \in Nat /\ x.last \in Nat
         /\ x.min \in Nat /\ x.max \in Nat /\ x.firstAt \in Nat /\ x.lastAt \in Nat
         /\ x.minAt \in Nat /\ x.maxAt \in Nat /\ x.zero \in Nat /\ x.positive \in Nat
         /\ Observations(x) = x.zero + x.positive
  BY DEF Stat, Observations

LEMMA MergeFields ==
  ASSUME NEW a \in Stat, NEW b \in Stat, Observations(a) # 0, Observations(b) # 0,
         NEW n, n = MergeStat(a, b)
  PROVE  /\ n \in Stat /\ Observations(n) # 0
         /\ n.sum = a.sum + b.sum /\ n.weight = a.weight + b.weight
         /\ n.first = (IF b.firstAt < a.firstAt THEN b.first ELSE a.first)
         /\ n.last = (IF b.lastAt > a.lastAt THEN b.last ELSE a.last)
         /\ n.min = (IF b.min < a.min THEN b.min ELSE a.min)
         /\ n.max = (IF b.max > a.max THEN b.max ELSE a.max)
         /\ n.firstAt = (IF b.firstAt < a.firstAt THEN b.firstAt ELSE a.firstAt)
         /\ n.lastAt = (IF b.lastAt > a.lastAt THEN b.lastAt ELSE a.lastAt)
         /\ n.minAt = (IF b.min < a.min THEN b.minAt ELSE a.minAt)
         /\ n.maxAt = (IF b.max > a.max THEN b.maxAt ELSE a.maxAt)
         /\ n.zero = a.zero + b.zero /\ n.positive = a.positive + b.positive
<1>1. n \in Stat
  BY MergeIs DEF Stat
<1>2. /\ n.sum = a.sum + b.sum /\ n.weight = a.weight + b.weight
      /\ n.first = (IF b.firstAt < a.firstAt THEN b.first ELSE a.first)
      /\ n.last = (IF b.lastAt > a.lastAt THEN b.last ELSE a.last)
      /\ n.min = (IF b.min < a.min THEN b.min ELSE a.min)
      /\ n.max = (IF b.max > a.max THEN b.max ELSE a.max)
      /\ n.firstAt = (IF b.firstAt < a.firstAt THEN b.firstAt ELSE a.firstAt)
      /\ n.lastAt = (IF b.lastAt > a.lastAt THEN b.lastAt ELSE a.lastAt)
      /\ n.minAt = (IF b.min < a.min THEN b.minAt ELSE a.minAt)
      /\ n.maxAt = (IF b.max > a.max THEN b.maxAt ELSE a.maxAt)
      /\ n.zero = a.zero + b.zero /\ n.positive = a.positive + b.positive
  BY MergeIs
<1>3. Observations(n) # 0
  <2>1. a.zero + a.positive # 0 /\ a.zero \in Nat /\ a.positive \in Nat
    BY DEF Observations, Stat
  <2>2. b.zero \in Nat /\ b.positive \in Nat
    BY DEF Stat
  <2>3. n.zero = a.zero + b.zero /\ n.positive = a.positive + b.positive
    BY <1>2
  <2>4. (a.zero + b.zero) + (a.positive + b.positive) # 0
    BY <2>1, <2>2, SumsNotZero
  <2>5. Observations(n) = (a.zero + b.zero) + (a.positive + b.positive)
    BY <2>3 DEF Observations
  <2> QED
    BY <2>4, <2>5
<1> QED
  BY <1>1, <1>2, <1>3

LEMMA StatAssociative ==
  ASSUME NEW a \in Stat, NEW b \in Stat, NEW c \in Stat
  PROVE  MergeStat(MergeStat(a, b), c) = MergeStat(a, MergeStat(b, c))
<1>1. CASE Observations(a) # 0 /\ Observations(b) # 0 /\ Observations(c) # 0
  <2>1. PICK ab : ab = MergeStat(a, b)
    OBVIOUS
  <2>2. PICK bc : bc = MergeStat(b, c)
    OBVIOUS
  <2>3. PICK x : x = MergeStat(ab, c)
    OBVIOUS
  <2>4. PICK y : y = MergeStat(a, bc)
    OBVIOUS
  <2>5. ab \in Stat /\ Observations(ab) # 0 /\ bc \in Stat /\ Observations(bc) # 0
    BY <1>1, <2>1, <2>2, MergeFields
  <2>6. x \in Stat /\ y \in Stat
    BY <1>1, <2>3, <2>4, <2>5, MergeFields
  <2>7. /\ x.sum = y.sum /\ x.weight = y.weight /\ x.zero = y.zero /\ x.positive = y.positive
    BY <1>1, <2>1, <2>2, <2>3, <2>4, <2>5, MergeFields, StatNumbers
  <2>8. x.first = y.first /\ x.firstAt = y.firstAt
    BY <1>1, <2>1, <2>2, <2>3, <2>4, <2>5, MergeFields, StatNumbers
  <2>9. x.last = y.last /\ x.lastAt = y.lastAt
    BY <1>1, <2>1, <2>2, <2>3, <2>4, <2>5, MergeFields, StatNumbers
  <2>10. x.min = y.min /\ x.minAt = y.minAt
    BY <1>1, <2>1, <2>2, <2>3, <2>4, <2>5, MergeFields, StatNumbers
  <2>11. x.max = y.max /\ x.maxAt = y.maxAt
    BY <1>1, <2>1, <2>2, <2>3, <2>4, <2>5, MergeFields, StatNumbers
  <2>12. x = y
    BY <2>6, <2>7, <2>8, <2>9, <2>10, <2>11, StatEqual
  <2> QED
    BY <2>1, <2>2, <2>3, <2>4, <2>12
<1>2. CASE Observations(a) = 0
  <2>1. \A x : MergeStat(a, x) = x
    BY <1>2 DEF MergeStat
  <2> QED
    BY <2>1
<1>3. CASE Observations(a) # 0 /\ Observations(b) = 0
  BY <1>3 DEF MergeStat
<1>4. CASE Observations(a) # 0 /\ Observations(b) # 0 /\ Observations(c) = 0
  <2>1. Observations(MergeStat(a, b)) # 0
    BY <1>4, MergeFields
  <2> QED
    BY <1>4, <2>1 DEF MergeStat
<1> QED
  BY <1>1, <1>2, <1>3, <1>4

Counter ==
  [first : Nat, last : Nat, delta : Nat, duration : Nat, firstAt : Nat, lastAt : Nat,
   known : BOOLEAN, reset : BOOLEAN]

LEMMA CounterIs ==
  ASSUME NEW a \in Counter, NEW b \in Counter, a.known, b.known
  PROVE  MergeCounter(a, b) =
           [first |-> a.first, last |-> b.last, delta |-> a.delta + b.delta,
            duration |-> a.duration + b.duration, firstAt |-> a.firstAt, lastAt |-> b.lastAt,
            known |-> a.known, reset |-> a.reset \/ b.reset]
  BY DEF MergeCounter, Counter

LEMMA CounterAssociative ==
  ASSUME NEW a \in Counter, NEW b \in Counter, NEW c \in Counter
  PROVE  MergeCounter(MergeCounter(a, b), c) = MergeCounter(a, MergeCounter(b, c))
<1>1. CASE a.known /\ b.known /\ c.known
  <2>1. PICK ab : ab = MergeCounter(a, b)
    OBVIOUS
  <2>2. PICK bc : bc = MergeCounter(b, c)
    OBVIOUS
  <2>4. /\ ab \in Counter /\ ab.known /\ (ab.reset = (a.reset \/ b.reset))
        /\ ab.first = a.first /\ ab.firstAt = a.firstAt /\ ab.delta = a.delta + b.delta
        /\ ab.duration = a.duration + b.duration
    BY <1>1, <2>1, CounterIs DEF Counter
  <2>5. /\ bc \in Counter /\ bc.known /\ (bc.reset = (b.reset \/ c.reset))
        /\ bc.last = c.last /\ bc.lastAt = c.lastAt /\ bc.delta = b.delta + c.delta
        /\ bc.duration = b.duration + c.duration
    BY <1>1, <2>2, CounterIs DEF Counter
  <2>6. /\ (a.delta + b.delta) + c.delta = a.delta + (b.delta + c.delta)
        /\ (a.duration + b.duration) + c.duration = a.duration + (b.duration + c.duration)
    BY DEF Counter
  <2>7. (ab.reset \/ c.reset) = (a.reset \/ bc.reset)
    BY <2>4, <2>5
  <2>11. ab.known = a.known
    BY <1>1, <2>4 DEF Counter
  <2>8. MergeCounter(ab, c) =
           [first |-> ab.first, last |-> c.last, delta |-> ab.delta + c.delta,
            duration |-> ab.duration + c.duration, firstAt |-> ab.firstAt,
            lastAt |-> c.lastAt, known |-> ab.known, reset |-> ab.reset \/ c.reset]
    BY <1>1, <2>4, CounterIs
  <2>9. MergeCounter(a, bc) =
           [first |-> a.first, last |-> bc.last, delta |-> a.delta + bc.delta,
            duration |-> a.duration + bc.duration, firstAt |-> a.firstAt,
            lastAt |-> bc.lastAt, known |-> a.known, reset |-> a.reset \/ bc.reset]
    BY <1>1, <2>5, CounterIs
  <2>10. MergeCounter(ab, c) = MergeCounter(a, bc)
    BY <2>4, <2>5, <2>6, <2>7, <2>8, <2>9, <2>11
  <2> QED
    BY <2>1, <2>2, <2>10
<1>2. CASE ~a.known
  <2>1. \A x : MergeCounter(a, x) = x
    BY <1>2 DEF MergeCounter
  <2> QED
    BY <2>1
<1>3. CASE a.known /\ ~b.known
  BY <1>3 DEF MergeCounter
<1>4. CASE a.known /\ b.known /\ ~c.known
  <2>1. MergeCounter(a, b).known
    BY <1>4, CounterIs
  <2> QED
    BY <1>4, <2>1 DEF MergeCounter
<1> QED
  BY <1>1, <1>2, <1>3, <1>4
Bucket(Flag) ==
  [start : Nat, end : Nat, count : Nat, validDuration : Nat, quality : SUBSET Flag,
   up : Stat, uploaded : Counter]

LEMMA MergeIn ==
  ASSUME NEW a \in Stat, NEW b \in Stat PROVE MergeStat(a, b) \in Stat
<1>1. CASE Observations(a) = 0 \/ Observations(b) = 0
  BY <1>1 DEF MergeStat
<1>2. CASE Observations(a) # 0 /\ Observations(b) # 0
  BY <1>2, MergeFields
<1> QED
  BY <1>1, <1>2

LEMMA CounterIn ==
  ASSUME NEW a \in Counter, NEW b \in Counter PROVE MergeCounter(a, b) \in Counter
<1>1. CASE ~a.known \/ ~b.known
  BY <1>1 DEF MergeCounter
<1>2. CASE a.known /\ b.known
  BY <1>2, CounterIs DEF Counter
<1> QED
  BY <1>1, <1>2

(* A merged bucket, field by field.                                        *)
LEMMA MergedIs ==
  ASSUME NEW Flag, NEW a \in Bucket(Flag), NEW b \in Bucket(Flag), NEW n, n = Merge(a, b)
  PROVE  /\ n \in Bucket(Flag)
         /\ n.start = a.start /\ n.end = (IF a.end >= b.end THEN a.end ELSE b.end)
         /\ n.count = a.count + b.count /\ n.validDuration = a.validDuration + b.validDuration
         /\ n.quality = a.quality \cup b.quality
         /\ n.up = MergeStat(a.up, b.up) /\ n.uploaded = MergeCounter(a.uploaded, b.uploaded)
<1>1. Max({a.end, b.end}) = IF a.end >= b.end THEN a.end ELSE b.end
  <2>1. a.end \in Int /\ b.end \in Int
    BY DEF Bucket
  <2> QED
    BY <2>1, LargerOfTwo, Zenon
<1>2. n = [start |-> a.start, end |-> IF a.end >= b.end THEN a.end ELSE b.end,
           count |-> a.count + b.count,
           validDuration |-> a.validDuration + b.validDuration,
           quality |-> a.quality \cup b.quality,
           up |-> MergeStat(a.up, b.up), uploaded |-> MergeCounter(a.uploaded, b.uploaded)]
  BY <1>1 DEF Merge, Bucket
<1>3. MergeStat(a.up, b.up) \in Stat /\ MergeCounter(a.uploaded, b.uploaded) \in Counter
  <2>1. a.up \in Stat /\ b.up \in Stat /\ a.uploaded \in Counter /\ b.uploaded \in Counter
    BY DEF Bucket
  <2> QED
    BY <2>1, MergeIn, CounterIn
<1>4. n \in Bucket(Flag)
  BY <1>2, <1>3 DEF Bucket
<1>5. /\ n.start = a.start /\ n.end = (IF a.end >= b.end THEN a.end ELSE b.end)
      /\ n.count = a.count + b.count /\ n.validDuration = a.validDuration + b.validDuration
      /\ n.quality = a.quality \cup b.quality
      /\ n.up = MergeStat(a.up, b.up) /\ n.uploaded = MergeCounter(a.uploaded, b.uploaded)
  BY <1>2
<1> QED
  BY <1>4, <1>5

(* Buckets can be merged in any grouping: a window that is made from       *)
(* longer parts is the window made from minutes, with the time of every    *)
(* extreme, the counter's delta and the flags (toFive, chart groups).      *)
THEOREM MergeAssociative ==
  ASSUME NEW Flag, NEW a \in Bucket(Flag), NEW b \in Bucket(Flag), NEW c \in Bucket(Flag)
  PROVE  Merge(Merge(a, b), c) = Merge(a, Merge(b, c))
<1>1. PICK ab : ab = Merge(a, b)
  OBVIOUS
<1>2. PICK bc : bc = Merge(b, c)
  OBVIOUS
<1>3. PICK x : x = Merge(ab, c)
  OBVIOUS
<1>4. PICK y : y = Merge(a, bc)
  OBVIOUS
<1>5. ab \in Bucket(Flag) /\ bc \in Bucket(Flag)
  BY <1>1, <1>2, MergedIs
<1>6. x \in Bucket(Flag) /\ y \in Bucket(Flag)
  BY <1>3, <1>4, <1>5, MergedIs
<1>7. /\ x.start = ab.start /\ x.end = (IF ab.end >= c.end THEN ab.end ELSE c.end)
      /\ x.count = ab.count + c.count /\ x.validDuration = ab.validDuration + c.validDuration
      /\ x.quality = ab.quality \cup c.quality
      /\ x.up = MergeStat(ab.up, c.up) /\ x.uploaded = MergeCounter(ab.uploaded, c.uploaded)
  BY <1>3, <1>5, MergedIs
<1>8. /\ y.start = a.start /\ y.end = (IF a.end >= bc.end THEN a.end ELSE bc.end)
      /\ y.count = a.count + bc.count /\ y.validDuration = a.validDuration + bc.validDuration
      /\ y.quality = a.quality \cup bc.quality
      /\ y.up = MergeStat(a.up, bc.up) /\ y.uploaded = MergeCounter(a.uploaded, bc.uploaded)
  BY <1>4, <1>5, MergedIs
<1>9. /\ ab.start = a.start /\ ab.end = (IF a.end >= b.end THEN a.end ELSE b.end)
      /\ ab.count = a.count + b.count /\ ab.validDuration = a.validDuration + b.validDuration
      /\ ab.quality = a.quality \cup b.quality
      /\ ab.up = MergeStat(a.up, b.up) /\ ab.uploaded = MergeCounter(a.uploaded, b.uploaded)
  BY <1>1, MergedIs
<1>10. /\ bc.start = b.start /\ bc.end = (IF b.end >= c.end THEN b.end ELSE c.end)
       /\ bc.count = b.count + c.count /\ bc.validDuration = b.validDuration + c.validDuration
       /\ bc.quality = b.quality \cup c.quality
       /\ bc.up = MergeStat(b.up, c.up) /\ bc.uploaded = MergeCounter(b.uploaded, c.uploaded)
  BY <1>2, MergedIs
<1>11. \A z \in {a, b, c} : /\ z.end \in Nat /\ z.count \in Nat /\ z.validDuration \in Nat
                            /\ z.up \in Stat /\ z.uploaded \in Counter
  BY DEF Bucket
<1>12. x.start = y.start /\ x.end = y.end
  BY <1>7, <1>8, <1>9, <1>10, <1>11
<1>13. x.count = y.count /\ x.validDuration = y.validDuration
  BY <1>7, <1>8, <1>9, <1>10, <1>11
<1>14. x.quality = y.quality
  BY <1>7, <1>8, <1>9, <1>10
<1>15. x.up = y.up /\ x.uploaded = y.uploaded
  BY <1>7, <1>8, <1>9, <1>10, <1>11, StatAssociative, CounterAssociative
<1>16. x = y
  BY <1>6, <1>12, <1>13, <1>14, <1>15 DEF Bucket
<1> QED
  BY <1>1, <1>2, <1>3, <1>4, <1>16
-----------------------------------------------------------------------------
(* Within 5 % of a group's mean: what emitFlat claims of every value.       *)
Near(st, mean) == /\ 100 * st.min * mean.weight >= 95 * mean.sum
                  /\ 100 * st.max * mean.weight <= 105 * mean.sum

(* A flat stat is near to its own mean.                                    *)
LEMMA FlatNear ==
  ASSUME NEW st, Sound(st), NEW q, Flat(st, q)
  PROVE  Near(st, st)
<1>1. st \in Stat
  BY DEF Sound
<1>2. CASE st.sum = 0
  BY <1>1, <1>2, StatNumbers DEF Flat, Near
<1>3. CASE st.sum # 0
  BY <1>3 DEF Flat, Near
<1> QED
  BY <1>2, <1>3

(* What is within the extremes of a group is as near to its mean.          *)
LEMMA NearWithin ==
  ASSUME NEW x \in Stat, NEW m \in Stat, NEW st \in Stat,
         Near(m, st), m.min <= x.min, x.max <= m.max
  PROVE  Near(x, st)
<1>1. /\ m.min \in Nat /\ x.min \in Nat /\ m.max \in Nat /\ x.max \in Nat
      /\ st.weight \in Nat /\ st.sum \in Nat
  BY StatNumbers
<1>2. 100 * m.min \in Nat /\ 100 * x.min \in Nat /\ 100 * m.min <= 100 * x.min
  BY <1>1
<1>3. 100 * m.max \in Nat /\ 100 * x.max \in Nat /\ 100 * x.max <= 100 * m.max
  BY <1>1
<1>4. 100 * m.min * st.weight <= 100 * x.min * st.weight
  BY <1>1, <1>2, Scaled
<1>5. 100 * x.max * st.weight <= 100 * m.max * st.weight
  BY <1>1, <1>3, Scaled
<1>6. /\ 100 * m.min * st.weight \in Nat /\ 100 * x.min * st.weight \in Nat
      /\ 100 * m.max * st.weight \in Nat /\ 100 * x.max * st.weight \in Nat
      /\ 95 * st.sum \in Nat /\ 105 * st.sum \in Nat
  BY <1>1, <1>2, <1>3
<1> QED
  BY <1>4, <1>5, <1>6 DEF Near
(* The fields of a chart under construction.                               *)
IsChart(c) ==
  c = [points |-> c.points, group |-> c.group, stat |-> c.stat,
       lastEnd |-> c.lastEnd, observed |-> c.observed]

(* The pending group of a chart: adjacent buckets without a flag, of a     *)
(* limited span, and a stat that covers all of them.                       *)
Grouped(c, maxSpan, Flag) ==
  /\ IsChart(c) /\ c.group \in Seq(Bucket(Flag))
  /\ c.group = <<>> => c.stat = NoStat
  /\ c.group # <<>> =>
       /\ Sound(c.stat) /\ c.stat.weight > 0 /\ Flat(c.stat, {})
       /\ \A i \in 1..Len(c.group) : /\ c.group[i].quality = {}
                                     /\ c.stat.min <= c.group[i].up.min
                                     /\ c.group[i].up.max <= c.stat.max
       /\ \A i \in 1..Len(c.group) - 1 : c.group[i].end = c.group[i + 1].start
       /\ Len(c.group) > 1 => c.group[Len(c.group)].end - c.group[1].start <= maxSpan

(* emitFlat leaves no group.                                               *)
LEMMA Emitted ==
  ASSUME NEW maxSpan, NEW Flag, NEW c, Grouped(c, maxSpan, Flag), NEW e, e = EmitFlat(c)
  PROVE  IsChart(e) /\ e.group = <<>> /\ e.stat = NoStat
<1>1. CASE c.group = <<>>
  BY <1>1 DEF EmitFlat, Grouped
<1>2. CASE c.group # <<>>
  BY <1>2 DEF EmitFlat, Grouped, IsChart
<1> QED
  BY <1>1, <1>2

LEMMA EmptyGroup ==
  ASSUME NEW maxSpan, NEW Flag, NEW c, IsChart(c), c.group = <<>>, c.stat = NoStat
  PROVE  Grouped(c, maxSpan, Flag)
  BY DEF Grouped

LEMMA BrokenOff ==
  ASSUME NEW maxSpan, NEW Flag, NEW c, Grouped(c, maxSpan, Flag), NEW at
  PROVE  Grouped(Break(c, at), maxSpan, Flag)
<1>1. PICK e : e = EmitFlat(c)
  OBVIOUS
<1>2. IsChart(e) /\ e.group = <<>> /\ e.stat = NoStat
  BY <1>1, Emitted
<1>3. Break(c, at) = [e EXCEPT !.points = Append(@, Null(at))]
  BY <1>1 DEF Break
<1>4. IsChart(Break(c, at)) /\ Break(c, at).group = <<>> /\ Break(c, at).stat = NoStat
  BY <1>2, <1>3 DEF IsChart
<1> QED
  BY <1>4, EmptyGroup

(* A group of one bucket.                                                  *)
LEMMA OneBucket ==
  ASSUME NEW maxSpan, NEW Flag, NEW x \in Bucket(Flag), Sound(x.up),
         x.up.weight > 0, Flat(x.up, x.quality),
         NEW c, IsChart(c), c.group = <<x>>, c.stat = x.up
  PROVE  Grouped(c, maxSpan, Flag)
<1>1. x.quality = {} /\ Flat(x.up, {})
  BY DEF Flat
<1>2. x.up.min <= x.up.min /\ x.up.max <= x.up.max
  BY StatNumbers DEF Sound
<1>3. /\ c.group \in Seq(Bucket(Flag)) /\ Len(c.group) = 1 /\ c.group # <<>> /\ c.group[1] = x
  OBVIOUS
<1> QED
  BY <1>1, <1>2, <1>3 DEF Grouped

(* The group takes another bucket.                                         *)
LEMMA Joined ==
  ASSUME NEW maxSpan, NEW Flag, NEW c, Grouped(c, maxSpan, Flag),
         NEW x \in Bucket(Flag), Sound(x.up), Accepts(c, x, FALSE, maxSpan),
         NEW n, n = [c EXCEPT !.group = Append(@, x), !.stat = MergeStat(@, x.up)]
  PROVE  Grouped(n, maxSpan, Flag)
<1>1. x.up \in Stat /\ x.quality = {} /\ x.up.weight > 0 /\ Observations(x.up) # 0
  BY DEF Accepts, Sound, NoStat
<1>2. IsChart(n) /\ n.group = Append(c.group, x) /\ n.stat = MergeStat(c.stat, x.up)
  BY DEF Grouped, IsChart
<1>3. CASE c.group = <<>>
  <2>1. n.group = <<x>>
    BY <1>2, <1>3
  <2>2. n.stat = x.up
    BY <1>2, <1>3 DEF Grouped, MergeStat, NoStat, Observations
  <2>3. Flat(x.up, x.quality)
    BY <1>1, <1>3 DEF Accepts
  <2> QED
    BY <1>1, <1>2, <2>1, <2>2, <2>3, OneBucket
<1>4. CASE c.group # <<>>
  <2> DEFINE L == Len(c.group)
  <2>1. /\ c.group \in Seq(Bucket(Flag)) /\ L \in Nat /\ L >= 1
        /\ n.group \in Seq(Bucket(Flag)) /\ n.group # <<>> /\ Len(n.group) = L + 1
        /\ n.group[L + 1] = x /\ \A i \in 1..L : n.group[i] = c.group[i]
    BY <1>2, <1>4 DEF Grouped
  <2>2. c.stat \in Stat /\ Observations(c.stat) # 0 /\ Sound(c.stat) /\ c.stat.weight > 0
    BY <1>4 DEF Grouped, Sound, NoStat
  <2>3. Flat(n.stat, {})
    BY <1>2, <1>4 DEF Accepts
  <2>4. Sound(n.stat)
    BY <1>2, <2>2, MergeSound
  <2>5. /\ n.stat.weight = c.stat.weight + x.up.weight
        /\ n.stat.min = (IF x.up.min < c.stat.min THEN x.up.min ELSE c.stat.min)
        /\ n.stat.max = (IF x.up.max > c.stat.max THEN x.up.max ELSE c.stat.max)
    BY <1>1, <1>2, <2>2, MergeFields
  <2>6. /\ n.stat.weight > 0
        /\ n.stat.min <= c.stat.min /\ n.stat.min <= x.up.min /\ n.stat.min \in Nat
        /\ c.stat.max <= n.stat.max /\ x.up.max <= n.stat.max /\ n.stat.max \in Nat
        /\ c.stat.min \in Nat /\ c.stat.max \in Nat
    <3>1. /\ c.stat.weight \in Nat /\ c.stat.min \in Nat /\ c.stat.max \in Nat
          /\ x.up.weight \in Nat /\ x.up.min \in Nat /\ x.up.max \in Nat
      BY <1>1, <2>2, StatNumbers
    <3> QED
      BY <3>1, <2>5, <1>1
  <2>7. ASSUME NEW i \in 1..Len(n.group)
        PROVE  /\ n.group[i].quality = {}
               /\ n.stat.min <= n.group[i].up.min /\ n.group[i].up.max <= n.stat.max
    <3>1. CASE i = L + 1
      BY <3>1, <2>1, <2>6, <1>1
    <3>2. CASE i \in 1..L
      <4>1. /\ c.group[i].quality = {}
            /\ c.stat.min <= c.group[i].up.min /\ c.group[i].up.max <= c.stat.max
        BY <3>2, <1>4 DEF Grouped
      <4>2. c.group[i].up \in Stat
        <5>1. c.group[i] \in Bucket(Flag)
          BY <3>2, <2>1
        <5> QED
          BY <5>1 DEF Bucket
      <4>3. c.group[i].up.min \in Nat /\ c.group[i].up.max \in Nat
        BY <4>2, StatNumbers
      <4>4. n.group[i] = c.group[i]
        BY <3>2, <2>1
      <4> QED
        BY <4>1, <4>3, <4>4, <2>6
    <3> QED
      BY <3>1, <3>2, <2>1
  <2>8. c.group[L].end = x.start /\ x.end - c.group[1].start <= maxSpan
    BY <1>4, <2>1 DEF Accepts, Last
  <2>9. ASSUME NEW i \in 1..Len(n.group) - 1
        PROVE  n.group[i].end = n.group[i + 1].start
    <3>1. CASE i = L
      BY <3>1, <2>1, <2>8
    <3>2. CASE i \in 1..L - 1
      <4>1. c.group[i].end = c.group[i + 1].start
        BY <3>2, <1>4 DEF Grouped
      <4>2. n.group[i] = c.group[i] /\ n.group[i + 1] = c.group[i + 1]
        BY <3>2, <2>1
      <4> QED
        BY <4>1, <4>2
    <3> QED
      BY <3>1, <3>2, <2>1
  <2>10. n.group[Len(n.group)].end - n.group[1].start <= maxSpan
    BY <2>1, <2>8
  <2> QED
    BY <1>2, <2>1, <2>3, <2>4, <2>6, <2>7, <2>9, <2>10 DEF Grouped
<1> QED
  BY <1>3, <1>4

LEMMA SpeedGrouped ==
  ASSUME NEW maxSpan, NEW Flag, NEW c, Grouped(c, maxSpan, Flag),
         NEW x \in Bucket(Flag), Sound(x.up), NEW left, NEW partial \in BOOLEAN
  PROVE  Grouped(AddSpeed(c, x, left, partial, maxSpan), maxSpan, Flag)
<1> DEFINE n == AddSpeed(c, x, left, partial, maxSpan)
<1>0. x.up.weight \in Nat
  BY StatNumbers DEF Sound
<1>1. CASE x.up.weight = 0
  <2>1. n = Break(c, left)
    BY <1>1 DEF AddSpeed
  <2> QED
    BY <2>1, BrokenOff
<1>2. CASE x.up.weight > 0 /\ Accepts(c, x, partial, maxSpan)
  <2>1. n = [c EXCEPT !.group = Append(@, x), !.stat = MergeStat(@, x.up)]
    BY <1>0, <1>2 DEF AddSpeed
  <2>2. Accepts(c, x, FALSE, maxSpan)
    BY <1>2 DEF Accepts
  <2> QED
    BY <2>1, <2>2, Joined
<1>3. CASE x.up.weight > 0 /\ ~Accepts(c, x, partial, maxSpan)
  <2>1. PICK e : e = EmitFlat(c)
    OBVIOUS
  <2>2. IsChart(e) /\ e.group = <<>> /\ e.stat = NoStat
    BY <2>1, Emitted
  <2>3. n = IF Flat(x.up, x.quality) /\ ~partial
            THEN [e EXCEPT !.group = <<x>>, !.stat = x.up]
            ELSE [e EXCEPT !.points =
                    Append(@, Point(left, x.up.sum, x.up.weight, "weighted_mean"))]
    BY <1>0, <1>3, <2>1 DEF AddSpeed
  <2> HIDE DEF n
  <2>4. CASE Flat(x.up, x.quality) /\ ~partial
    <3>1. IsChart(n) /\ n.group = <<x>> /\ n.stat = x.up
      BY <2>2, <2>3, <2>4 DEF IsChart
    <3>2. Grouped(n, maxSpan, Flag)
      BY <3>1, <2>4, <1>3, OneBucket
    <3> QED
      BY <3>2 DEF n
  <2>5. CASE ~(Flat(x.up, x.quality) /\ ~partial)
    <3>1. IsChart(n) /\ n.group = <<>> /\ n.stat = NoStat
      BY <2>2, <2>3, <2>5 DEF IsChart
    <3>2. Grouped(n, maxSpan, Flag)
      BY <3>1, EmptyGroup
    <3> QED
      BY <3>2 DEF n
  <2> QED
    BY <2>4, <2>5
<1> QED
  BY <1>0, <1>1, <1>2, <1>3

LEMMA NewGrouped ==
  ASSUME NEW maxSpan, NEW Flag PROVE Grouped(NewChart, maxSpan, Flag)
<1>1. IsChart(NewChart) /\ NewChart.group = <<>> /\ NewChart.stat = NoStat
  BY DEF IsChart, NewChart
<1> QED
  BY <1>1, EmptyGroup

(* Whatever bucket a chart is given next, its pending group stays one      *)
(* that may be drawn as a flat line.                                       *)
THEOREM GroupKept ==
  ASSUME NEW maxSpan, NEW Flag, NEW c, Grouped(c, maxSpan, Flag),
         NEW x \in Bucket(Flag), Sound(x.up), NEW a, NEW b
  PROVE  Grouped(AddBucket(c, x, a, b, maxSpan), maxSpan, Flag)
<1> DEFINE partial == x.start < a \/ x.end > b
           left    == Max({x.start, a})
           broken  == (c.lastEnd > 0 /\ x.start > c.lastEnd) \/ "GapBefore" \in x.quality
           n       == AddBucket(c, x, a, b, maxSpan)
<1>1. PICK fresh : fresh = IF broken THEN Break(c, left - 1) ELSE c
  OBVIOUS
<1>2. Grouped(fresh, maxSpan, Flag)
  BY <1>1, BrokenOff
<1>3. PICK s : s = AddSpeed(fresh, x, left, partial, maxSpan)
  OBVIOUS
<1>4. partial \in BOOLEAN
  OBVIOUS
<1>5. Grouped(s, maxSpan, Flag)
  <2> HIDE DEF partial, left
  <2> QED
    BY <1>2, <1>3, <1>4, SpeedGrouped
<1>6. n = [s EXCEPT !.lastEnd = x.end,
                    !.observed = IF partial THEN @ ELSE @ + x.uploaded.delta]
  BY <1>1, <1>3 DEF AddBucket
<1> HIDE DEF n, partial
<1>7. IsChart(n) /\ n.group = s.group /\ n.stat = s.stat
  BY <1>5, <1>6 DEF IsChart, Grouped
<1>8. Grouped(n, maxSpan, Flag)
  BY <1>5, <1>7 DEF Grouped
<1> QED
  BY <1>8 DEF n

(* "within 5 %": no value of any bucket of the group is farther from the   *)
(* mean that is drawn for all of them, however slowly the values drift.    *)
THEOREM GroupHonest ==
  ASSUME NEW maxSpan, NEW Flag, NEW c, Grouped(c, maxSpan, Flag), NEW i \in 1..Len(c.group)
  PROVE  Near(c.group[i].up, c.stat)
<1>1. c.group # <<>> /\ c.group[i].up \in Stat
  <2>1. c.group \in Seq(Bucket(Flag))
    BY DEF Grouped
  <2>2. c.group # <<>> /\ c.group[i] \in Bucket(Flag)
    BY <2>1
  <2> QED
    BY <2>2 DEF Bucket
<1>2. Near(c.stat, c.stat) /\ c.stat \in Stat
  BY <1>1, FlatNear DEF Grouped, Sound
<1> QED
  BY <1>1, <1>2, NearWithin DEF Grouped
-----------------------------------------------------------------------------
(* The support of a sample.                                                *)

LEMMA LeastOf ==
  ASSUME NEW S, NEW m \in S, \A y \in S : m <= y
  PROVE  Min(S) \in S /\ \A y \in S : Min(S) <= y
  BY DEF Min

LEMMA LeastOfFew ==
  ASSUME NEW a \in Int, NEW b \in Int, NEW d \in Int, NEW D \in SUBSET {d}
  PROVE  /\ Min({a, b} \cup D) \in {a, b} \cup D
         /\ \A y \in {a, b} \cup D : Min({a, b} \cup D) <= y
<1>1. \E m \in {a, b} \cup D : \A y \in {a, b} \cup D : m <= y
  <2>1. CASE D = {}
    BY <2>1
  <2>2. CASE D = {d}
    BY <2>2
  <2> QED
    BY <2>1, <2>2
<1>2. PICK m \in {a, b} \cup D : \A y \in {a, b} \cup D : m <= y
  BY <1>1
<1> QED
  BY <1>2, LeastOf, Zenon

Sample(Flag) ==
  [at : Nat, seq : Nat, up : Nat, uploaded : Nat, valid : SUBSET {"Up", "Uploaded"},
   quality : SUBSET Flag]

(* The support of a sample is not empty, lies within its bucket, is no     *)
(* longer than the target interval and ends where the next one begins: no  *)
(* moment is weighted twice.                                               *)
THEOREM SupportFits ==
  ASSUME NEW Flag, NEW samples \in Seq(Sample(Flag)), NEW i \in 1..Len(samples),
         NEW end \in Nat, samples[i].at < end
  PROVE  /\ Weight(samples, i, end) \in Nat \ {0}
         /\ Weight(samples, i, end) <= StepMS
         /\ samples[i].at + Weight(samples, i, end) <= end
         /\ i < Len(samples) /\ Continuous(samples[i + 1], samples[i]) =>
               samples[i].at + Weight(samples, i, end) <= samples[i + 1].at
<1> DEFINE D == {samples[j].at - samples[i].at :
                   j \in {k \in {i + 1} : k <= Len(samples) /\ Continuous(samples[k], samples[i])}}
           d == IF i < Len(samples) THEN samples[i + 1].at - samples[i].at ELSE 0
           w == Weight(samples, i, end)
<1>0. \A j \in 1..Len(samples) : samples[j].at \in Nat
  <2>1. \A j \in 1..Len(samples) : samples[j] \in Sample(Flag)
    OBVIOUS
  <2> QED
    BY <2>1 DEF Sample
<1>1. StepMS \in Nat \ {0} /\ samples[i].at \in Nat /\ Len(samples) \in Nat
  BY <1>0, RollupAssumption
<1>2. i < Len(samples) => samples[i + 1].at \in Nat
  BY <1>0, <1>1
<1>3. d \in Int
  BY <1>1, <1>2
<1>4. D \in SUBSET {d} /\ (D # {} => i < Len(samples) /\ Continuous(samples[i + 1], samples[i]))
  BY <1>1
<1>5. i < Len(samples) /\ Continuous(samples[i + 1], samples[i]) => d \in D
  BY <1>1
<1>6. D # {} => d > 0
  BY <1>1, <1>2, <1>4 DEF Continuous
<1>7. w = Min({StepMS, end - samples[i].at} \cup D)
  BY DEF Weight
<1>8. end - samples[i].at \in Int /\ end - samples[i].at > 0
  BY <1>1
<1> HIDE DEF D, w
<1>9. w \in {StepMS, end - samples[i].at} \cup D /\ \A y \in {StepMS, end - samples[i].at} \cup D : w <= y
  <2> HIDE DEF d
  <2>1. PICK e \in Int : e = end - samples[i].at
    BY <1>8
  <2>2. StepMS \in Int
    BY <1>1
  <2>3. /\ Min({StepMS, e} \cup D) \in {StepMS, e} \cup D
        /\ \A y \in {StepMS, e} \cup D : Min({StepMS, e} \cup D) <= y
    BY <1>3, <1>4, <2>2, LeastOfFew, Zenon
  <2> QED
    BY <1>7, <2>1, <2>3, Zenon
<1>10. w \in Nat \ {0}
  <2> HIDE DEF d
  <2>1. CASE w = StepMS
    BY <2>1, <1>1
  <2>2. CASE w = end - samples[i].at
    BY <2>2, <1>8
  <2>3. CASE w \in D
    <3>1. w = d /\ D # {}
      BY <2>3, <1>4
    <3> QED
      BY <3>1, <1>3, <1>6
  <2> QED
    BY <1>9, <2>1, <2>2, <2>3
<1>11. w <= StepMS /\ w <= end - samples[i].at
  BY <1>9
<1>12. i < Len(samples) /\ Continuous(samples[i + 1], samples[i]) => w <= samples[i + 1].at - samples[i].at
  BY <1>5, <1>9
<1> QED
  BY <1>1, <1>2, <1>10, <1>11, <1>12 DEF w

(* A bucket takes its samples in the order of their times.                 *)
THEOREM SampleSound ==
  ASSUME NEW Flag, NEW samples \in Seq(Sample(Flag)), NEW i \in 1..Len(samples),
         NEW b \in Bucket(Flag), Sound(b.up), samples[i].at < b.end,
         Observations(b.up) = 0 \/ b.up.lastAt <= samples[i].at, NEW prev
  PROVE  /\ Sound(AddSample(b, samples, i, prev).up)
         /\ LET n == AddSample(b, samples, i, prev).up IN
              Observations(n) = 0 \/ n.lastAt <= samples[i].at
<1>1. PICK s \in Sample(Flag) : s = samples[i]
  OBVIOUS
<1>2. s.up \in Nat /\ s.at \in Nat /\ b.end \in Nat /\ b.up \in Stat
  BY DEF Sample, Bucket
<1>3. PICK w \in Nat : w = Weight(samples, i, b.end)
  BY <1>1, <1>2, SupportFits
<1>4. AddSample(b, samples, i, prev).up =
        IF "Up" \in s.valid THEN AddStat(b.up, s.up, s.at, w) ELSE b.up
  BY <1>1, <1>3 DEF AddSample, Bucket
<1>5. PICK n : n = AddStat(b.up, s.up, s.at, w)
  OBVIOUS
<1>6. Sound(n) /\ n.lastAt = s.at
  <2>1. Sound(n)
    BY <1>1, <1>2, <1>5, AddSound
  <2>2. b.up = NoStat \/ Observations(b.up) # 0
    BY DEF Sound
  <2>3. n.lastAt = s.at
    <3>1. AddStat(b.up, s.up, s.at, w).lastAt = s.at
      <4>1. PICK u \in Stat : u = b.up
        BY <1>2
      <4>2. PICK v \in Nat, at \in Nat : v = s.up /\ at = s.at
        BY <1>2
      <4>3. u = NoStat \/ Observations(u) # 0
        BY <2>2, <4>1
      <4>4. AddStat(u, v, at, w).lastAt = at
        BY <4>3, AddLast
      <4> QED
        BY <4>1, <4>2, <4>4
    <3> QED
      BY <1>5, <3>1
  <2> QED
    BY <2>1, <2>3
<1>7. s.at <= s.at
  BY <1>2
<1> QED
  BY <1>1, <1>4, <1>5, <1>6, <1>7

-----------------------------------------------------------------------------
(* A sample lies in the bucket it is put into.                             *)
THEOREM StartContains ==
  ASSUME NEW at \in Nat, NEW res \in Nat \ {0}
  PROVE  Start(at, res) <= at /\ at < Start(at, res) + res
  BY DEF Start

(* The quotient is the only number between whose multiples at lies.        *)
LEMMA Quotient ==
  ASSUME NEW at \in Nat, NEW d \in Nat \ {0}, NEW n \in Nat, n * d <= at, at < n * d + d
  PROVE  at \div d = n
  OBVIOUS

(* The bucket at lies in.                                                  *)
LEMMA DivMod ==
  ASSUME NEW at \in Nat, NEW d \in Nat \ {0}
  PROVE  /\ at \div d \in Nat /\ (at \div d) * d \in Nat
         /\ (at \div d) * d <= at /\ at < (at \div d) * d + d
  OBVIOUS

(* The window of a sample's minute is the window of the sample: toFive     *)
(* puts every sample where building the window at once would.              *)
THEOREM WindowOfMinute ==
  ASSUME NEW at \in Nat
  PROVE  Start(Start(at, Minute), Window) = Start(at, Window)
<1>1. PICK q \in Nat \ {0} : Window = q * Minute
  BY RollupAssumption
<1> DEFINE m == at \div Minute
           n == at \div Window
<1>2. /\ m \in Nat /\ m * Minute \in Nat /\ m * Minute <= at /\ at < m * Minute + Minute
  BY RollupAssumption, DivMod
<1>3. /\ n \in Nat /\ n * Window \in Nat /\ n * Window <= at /\ at < n * Window + Window
  BY RollupAssumption, DivMod
<1> HIDE DEF m, n
<1>4. m * Minute < n * Window + Window
  BY <1>2, <1>3, RollupAssumption
<1>5. n * Window <= m * Minute
  <2>1. n * Window = (n * q) * Minute /\ n * q \in Nat
    BY <1>1, <1>3, RollupAssumption
  <2>2. CASE n * q <= m
    BY <2>1, <2>2, <1>2, Scaled, RollupAssumption
  <2>3. CASE n * q >= m + 1
    <3>1. (m + 1) * Minute <= (n * q) * Minute
      BY <2>1, <2>3, <1>2, Scaled, RollupAssumption
    <3>2. (m + 1) * Minute = m * Minute + Minute
      BY <1>2, RollupAssumption
    <3> QED
      BY <3>1, <3>2, <2>1, <1>2, <1>3, RollupAssumption
  <2> QED
    BY <2>1, <2>2, <2>3, <1>2
<1>6. (m * Minute) \div Window = n
  BY <1>2, <1>3, <1>4, <1>5, Quotient, RollupAssumption
<1> QED
  BY <1>6 DEF Start, m, n

-----------------------------------------------------------------------------
(* A wrapped value fits into a cell.                                       *)
THEOREM WrappedFits ==
  ASSUME NEW v \in Int
  PROVE  Wrapped(v) \in Cell
  BY CodecAssumption DEF Wrapped, Cell

(* A difference that overflows still leads back to the cell it came from.  *)
THEOREM DifferenceRestores ==
  ASSUME NEW v \in Cell, NEW p \in Cell
  PROVE  Wrapped(p + Wrapped(v - p)) = v
  BY CodecAssumption DEF Wrapped, Cell

(* Remainders add up.                                                      *)
LEMMA Remainder ==
  ASSUME NEW n \in Nat \ {0}, NEW k \in Int, NEW r \in 0..n - 1, NEW z, z = n * k + r
  PROVE  z % n = r
  OBVIOUS

LEMMA RemainderShifts ==
  ASSUME NEW n \in Nat \ {0}, NEW x \in Int, NEW d \in Int
  PROVE  ((x % n) + d) % n = (x + d) % n
<1>1. PICK q \in Int : x = n * q + (x % n) /\ x % n \in 0..n - 1
  <2>1. x \div n \in Int /\ x = n * (x \div n) + (x % n) /\ x % n \in 0..n - 1
    OBVIOUS
  <2> QED
    BY <2>1
<1>2. PICK y \in Int : y = (x % n) + d
  BY <1>1
<1>3. PICK k \in Int : y = n * k + (y % n) /\ y % n \in 0..n - 1
  <2>1. y \div n \in Int /\ y = n * (y \div n) + (y % n) /\ y % n \in 0..n - 1
    OBVIOUS
  <2> QED
    BY <2>1
<1>4. x + d = n * (q + k) + (y % n)
  <2>1. n * (q + k) = n * q + n * k /\ n * q \in Int /\ n * k \in Int
    OBVIOUS
  <2> QED
    BY <2>1, <1>1, <1>2, <1>3
<1>5. (x + d) % n = y % n
  <2>1. PICK s \in Int : s = q + k
    OBVIOUS
  <2>2. PICK r \in 0..n - 1 : r = y % n
    BY <1>3
  <2>3. PICK z \in Int : z = x + d
    OBVIOUS
  <2>4. z = n * s + r
    BY <1>4, <2>1, <2>2, <2>3
  <2>5. z % n = r
    BY <2>4, Remainder, Zenon
  <2> QED
    BY <2>2, <2>3, <2>5
<1> QED
  BY <1>2, <1>5

(* Wrapping at every cell or once makes no difference.                     *)
THEOREM RunAddsUp ==
  ASSUME NEW p \in Int, NEW d \in Int
  PROVE  Wrapped(Wrapped(p) + d) = Wrapped(p + d)
<1>1. /\ (p + Half) % (2 * Half) \in Int /\ p + Half \in Int /\ 2 * Half \in Nat \ {0}
      /\ Half \in Nat
  BY CodecAssumption
<1>2. (((p + Half) % (2 * Half)) + d) % (2 * Half) = ((p + Half) + d) % (2 * Half)
  BY <1>1, RemainderShifts
<1>3. ((p + Half) % (2 * Half)) - Half + d + Half = ((p + Half) % (2 * Half)) + d
  BY <1>1
<1>4. p + d + Half = (p + Half) + d
  BY <1>1
<1> QED
  BY <1>2, <1>3, <1>4 DEF Wrapped

(* The reader computes the cells of a run from its first difference and    *)
(* their number: if it has one cell right it has the next.                 *)
THEOREM RunContinues ==
  ASSUME NEW v \in Cell, NEW p \in Cell, NEW delta, delta = Wrapped(v - p),
         NEW last \in Int, NEW j \in Nat, p = Wrapped(last + j * delta)
  PROVE  v = Wrapped(last + (j + 1) * delta)
<1>1. v \in Int /\ p \in Int /\ v - p \in Int
  BY CodecAssumption DEF Cell
<1>2. delta \in Int
  BY <1>1, WrappedFits, CodecAssumption DEF Cell
<1>3. PICK q \in Int : q = last + j * delta
  BY <1>2
<1>4. last + (j + 1) * delta = q + delta
  <2>1. PICK m \in Int : m = j * delta
    BY <1>2
  <2>2. (j + 1) * delta = m + delta
    <3>1. j \in Int
      OBVIOUS
    <3> QED
      BY <1>2, <2>1, <3>1, OneMore, Zenon
  <2>3. q = last + m
    BY <1>3, <2>1
  <2>4. last + (m + delta) = (last + m) + delta
    BY <1>2
  <2> QED
    BY <2>2, <2>3, <2>4
<1>5. v = Wrapped(p + delta)
  BY DifferenceRestores
<1>6. Wrapped(p + delta) = Wrapped(q + delta)
  BY <1>2, <1>3, RunAddsUp
<1> QED
  BY <1>4, <1>5, <1>6

-----------------------------------------------------------------------------
LEMMA LeastNumber ==
  ASSUME NEW T \in SUBSET Nat, T # {}
  PROVE  \E m \in T : \A k \in T : m <= k
<1> DEFINE R == OpToRel(<, Nat)
<1>1. IsWellFoundedOn(R, Nat)
  BY NatLessThanWellFounded
<1>2. \A a, b \in Nat : a < b => <<a, b>> \in R
  BY DEF OpToRel
<1> HIDE DEF R
<1>3. PICK x \in T : \A y \in T : ~ (<<y, x>> \in R)
  BY <1>1, WFMin
<1>4. \A k \in T : x \in Nat /\ k \in Nat /\ ~(k < x)
  BY <1>2, <1>3
<1> QED
  BY <1>4

LEMMA Induction ==
  ASSUME NEW T, 0 \in T, \A n \in Nat : n \in T => n + 1 \in T
  PROVE  Nat \subseteq T
<1> SUFFICES ASSUME Nat \ T # {} PROVE FALSE
  OBVIOUS
<1>1. PICK m \in Nat \ T : \A k \in Nat \ T : m <= k
  <2>1. Nat \ T \in SUBSET Nat
    OBVIOUS
  <2> QED
    BY <2>1, LeastNumber
<1>2. m \in Nat /\ m # 0
  BY <1>1
<1>3. m - 1 \in Nat /\ ~(m <= m - 1) /\ m = (m - 1) + 1
  BY <1>2
<1>4. m - 1 \in T
  BY <1>1, <1>3
<1> QED
  BY <1>1, <1>3, <1>4

LEMMA MaxOf ==
  ASSUME NEW S, NEW n \in Nat, S \subseteq 1..n, S # {}
  PROVE  Max(S) \in S /\ \A k \in S : k <= Max(S)
<1> DEFINE T == {k \in Nat : \A x \in S : x <= k}
<1>1. n \in T
  OBVIOUS
<1>2. PICK m \in T : \A k \in T : m <= k
  <2>1. T \in SUBSET Nat
    OBVIOUS
  <2> HIDE DEF T
  <2> QED
    BY <1>1, <2>1, LeastNumber
<1>3. m \in S
  <2> SUFFICES ASSUME m \notin S PROVE FALSE
    OBVIOUS
  <2>1. \A x \in S : x \in Nat /\ x >= 1 /\ x <= m /\ x # m
    BY <1>2
  <2>2. m - 1 \in T
    <3>1. PICK x \in S : TRUE
      OBVIOUS
    <3>2. m \in Nat /\ m >= 1
      BY <1>2, <2>1, <3>1
    <3>3. m - 1 \in Nat /\ \A y \in S : y <= m - 1
      BY <2>1, <3>2
    <3> QED
      BY <3>3
  <2>3. ~(m <= m - 1)
    BY <1>2
  <2> QED
    BY <2>2, <2>3, <1>2
<1> QED
  BY <1>2, <1>3 DEF Max

(* The fold by F over the indices of s, all subsets of 1..n. *)
Folds(it, V, base, F, n) ==
  /\ it \in [SUBSET (1..n) -> V]
  /\ \A s \in SUBSET (1..n) : it[s] = IF s = {} THEN base ELSE F[<<it[s \ {Max(s)}], Max(s)>>]

LEMMA FoldExists ==
  ASSUME NEW V, NEW base \in V, NEW n \in Nat, NEW F \in [V \X (1..n) -> V]
  PROVE  \E it : Folds(it, V, base, F, n)
<1> DEFINE T == {m \in Nat : m <= n => \E it : Folds(it, V, base, F, m)}
<1>1. 0 \in T
  <2> DEFINE it == [s \in SUBSET (1..0) |-> base]
  <2>1. \A s \in SUBSET (1..0) : s = {}
    OBVIOUS
  <2>2. it \in [SUBSET (1..0) -> V] /\ \A s \in SUBSET (1..0) : it[s] = base
    OBVIOUS
  <2> HIDE DEF it
  <2>3. Folds(it, V, base, F, 0)
    BY <2>1, <2>2 DEF Folds
  <2> QED
    BY <2>3
<1>2. ASSUME NEW m \in Nat, m \in T PROVE m + 1 \in T
  <2> SUFFICES ASSUME m + 1 <= n PROVE \E it : Folds(it, V, base, F, m + 1)
    OBVIOUS
  <2>1. PICK old : Folds(old, V, base, F, m)
    BY <1>2
  <2> DEFINE it == [s \in SUBSET (1..m + 1) |->
                      IF m + 1 \in s THEN F[<<old[s \ {m + 1}], m + 1>>] ELSE old[s]]
  <2>2. ASSUME NEW s \in SUBSET (1..m + 1)
        PROVE  /\ m + 1 \notin s => s \in SUBSET (1..m)
               /\ s \ {m + 1} \in SUBSET (1..m) /\ s \ {m + 1} \in SUBSET (1..m + 1)
    OBVIOUS
  <2>3. it \in [SUBSET (1..m + 1) -> V]
    <3>1. ASSUME NEW s \in SUBSET (1..m + 1) PROVE it[s] \in V
      <4>1. CASE m + 1 \in s
        <5>1. old[s \ {m + 1}] \in V /\ m + 1 \in 1..n
          BY <2>1, <2>2 DEF Folds
        <5> QED
          BY <4>1, <5>1
      <4>2. CASE m + 1 \notin s
        BY <2>1, <2>2, <4>2 DEF Folds
      <4> QED
        BY <4>1, <4>2
    <3> QED
      BY <3>1
  <2>4. ASSUME NEW s \in SUBSET (1..m + 1)
        PROVE  it[s] = IF s = {} THEN base ELSE F[<<it[s \ {Max(s)}], Max(s)>>]
    <3>1. CASE m + 1 \in s
      <4>1. Max(s) \in s /\ \A k \in s : k <= Max(s)
        <5>1. m + 1 \in Nat /\ s \subseteq 1..m + 1 /\ s # {}
          BY <3>1
        <5> QED
          BY <5>1, MaxOf
      <4>2. Max(s) = m + 1
        <5>1. Max(s) \in 1..m + 1 /\ m + 1 <= Max(s)
          BY <4>1, <3>1
        <5> QED
          BY <5>1
      <4>3. it[s \ {m + 1}] = old[s \ {m + 1}]
        BY <2>2
      <4> QED
        BY <3>1, <4>2, <4>3
    <3>2. CASE m + 1 \notin s /\ s # {}
      <4>1. s \in SUBSET (1..m) /\ s \ {Max(s)} \in SUBSET (1..m) /\ m + 1 \notin s \ {Max(s)}
        BY <2>2, <3>2
      <4>2. it[s \ {Max(s)}] = old[s \ {Max(s)}]
        BY <4>1, <3>2
      <4> QED
        BY <4>1, <4>2, <3>2, <2>1 DEF Folds
    <3>3. CASE s = {}
      BY <3>3, <2>1 DEF Folds
    <3> QED
      BY <3>1, <3>2, <3>3
  <2> QED
    BY <2>3, <2>4 DEF Folds
<1> HIDE DEF T
<1>3. Nat \subseteq T
  BY <1>1, <1>2, Induction
<1> QED
  BY <1>3 DEF T

LEMMA PrefixMax ==
  ASSUME NEW n \in Nat, NEW k \in 1..n
  PROVE  Max(1..k) = k /\ (1..k) \ {k} = 1..k - 1 /\ 1..k \in SUBSET (1..n) /\ 1..k # {}
<1>1. k \in Nat /\ 1..k # {} /\ 1..k \in SUBSET (1..n)
  OBVIOUS
<1>2. Max(1..k) \in 1..k /\ \A j \in 1..k : j <= Max(1..k)
  <2>1. 1..k \subseteq 1..k
    OBVIOUS
  <2> QED
    BY <1>1, <2>1, MaxOf
<1> QED
  BY <1>1, <1>2

-----------------------------------------------------------------------------
Flags == {"GapBefore", "CounterReset"}
RawSample == Sample(Flags)

(* Samples in the order of their times.                                    *)
IsSeries(s) ==
  /\ s \in Seq(RawSample)
  /\ \A i, j \in 1..Len(s) : i < j => s[i].at < s[j].at

(* t holds the samples lo + 1 .. hi of s.                                  *)
IsSlice(t, s, lo, hi) ==
  /\ lo \in Nat /\ hi \in Nat /\ lo <= hi /\ hi <= Len(s)
  /\ t \in Seq(RawSample) /\ Len(t) = hi - lo
  /\ \A i \in 1..hi - lo : t[i] = s[lo + i]

LEMMA SampleFields ==
  ASSUME NEW s, IsSeries(s), NEW i \in 1..Len(s)
  PROVE  /\ s[i] \in RawSample /\ s[i].at \in Nat /\ s[i].seq \in Nat /\ s[i].up \in Nat
         /\ s[i].uploaded \in Nat /\ s[i].valid \in SUBSET {"Up", "Uploaded"}
         /\ s[i].quality \in SUBSET Flags /\ Len(s) \in Nat /\ i \in Nat
<1>1. s[i] \in RawSample /\ Len(s) \in Nat
  BY DEF IsSeries
<1> QED
  BY <1>1 DEF RawSample, Sample

(* The samples before a time are the first ones.                           *)
LEMMA CutAt ==
  ASSUME NEW s, IsSeries(s), NEW t \in Int
  PROVE  LET k == Max({0} \cup {i \in DOMAIN s : s[i].at < t})
         IN k \in 0..Len(s) /\ \A i \in 1..Len(s) : s[i].at < t <=> i <= k
<1> DEFINE S == {i \in DOMAIN s : s[i].at < t}
           k == Max({0} \cup S)
<1>1. Len(s) \in Nat /\ DOMAIN s = 1..Len(s) /\ \A i \in 1..Len(s) : s[i].at \in Nat
  <2>1. s \in Seq(RawSample)
    BY DEF IsSeries
  <2> QED
    BY <2>1, SampleFields
<1>2. k \in {0} \cup S /\ \A i \in {0} \cup S : i <= k
  <2>1. CASE S = {}
    <3>1. k = 0
      BY <2>1 DEF Max
    <3> QED
      BY <2>1, <3>1
  <2>2. CASE S # {}
    <3>1. S \subseteq 1..Len(s)
      BY <1>1
    <3> HIDE DEF S
    <3>2. Max(S) \in S /\ \A i \in S : i <= Max(S)
      BY <1>1, <2>2, <3>1, MaxOf
    <3>3. Max(S) \in 1..Len(s)
      BY <3>1, <3>2
    <3>4. Max(S) \in {0} \cup S /\ \A i \in {0} \cup S : i <= Max(S)
      <4>1. 0 <= Max(S)
        BY <1>1, <3>3
      <4> QED
        BY <3>2, <4>1
    <3> DEFINE m == Max(S)
    <3>5. m \in {0} \cup S /\ \A i \in {0} \cup S : i <= m
      BY <3>4
    <3> HIDE DEF m
    <3>6. Max({0} \cup S) \in {0} \cup S /\ \A i \in {0} \cup S : i <= Max({0} \cup S)
      BY <3>5 DEF Max
    <3> QED
      BY <3>6
  <2> QED
    BY <2>1, <2>2
<1> HIDE DEF k
<1>3. k \in 0..Len(s)
  BY <1>1, <1>2
<1>4. ASSUME NEW i \in 1..Len(s) PROVE s[i].at < t <=> i <= k
  <2>1. CASE s[i].at < t
    BY <1>1, <1>2, <2>1
  <2>2. CASE i <= k
    <3>1. k \in S /\ k \in 1..Len(s) /\ s[k].at < t /\ s[k].at \in Nat /\ s[i].at \in Nat
      BY <1>1, <1>2, <2>2
    <3>2. s[i].at <= s[k].at
      <4>1. CASE i = k
        BY <1>1, <3>1, <4>1
      <4>2. CASE i # k
        BY <1>1, <1>3, <2>2, <3>1, <4>2 DEF IsSeries
      <4> QED
        BY <4>1, <4>2
    <3> HIDE DEF S
    <3> QED
      BY <2>2, <3>1, <3>2
  <2> QED
    BY <2>1, <2>2
<1> QED
  BY <1>3, <1>4 DEF k

LEMMA SliceOf ==
  ASSUME NEW s, IsSeries(s), NEW lo \in 0..Len(s), NEW hi \in lo..Len(s)
  PROVE  IsSlice(SubSeq(s, lo + 1, hi), s, lo, hi)
  BY DEF IsSlice, IsSeries

(* A span of time is a slice: what is before the span, and what is before  *)
(* its end.                                                                *)
LEMMA WithinIs ==
  ASSUME NEW s, IsSeries(s), NEW a \in Int, NEW b \in Int, a <= b
  PROVE  \E lo, hi : /\ IsSlice(Within(s, a, b), s, lo, hi)
                     /\ \A i \in 1..Len(s) : /\ s[i].at < a <=> i <= lo
                                             /\ s[i].at < b <=> i <= hi
<1> DEFINE until(t) == Max({0} \cup {i \in DOMAIN s : s[i].at < t})
<1>1. /\ until(a) \in 0..Len(s) /\ \A i \in 1..Len(s) : s[i].at < a <=> i <= until(a)
      /\ until(b) \in 0..Len(s) /\ \A i \in 1..Len(s) : s[i].at < b <=> i <= until(b)
  BY CutAt
<1>2. PICK lo : lo = until(a)
  OBVIOUS
<1>3. PICK hi : hi = until(b)
  OBVIOUS
<1>4. Within(s, a, b) = SubSeq(s, lo + 1, hi)
  BY <1>2, <1>3 DEF Within
<1> HIDE DEF until
<1>5. Len(s) \in Nat /\ \A i \in 1..Len(s) : s[i].at \in Nat
  <2>1. s \in Seq(RawSample)
    BY DEF IsSeries
  <2> QED
    BY <2>1, SampleFields
<1>6. lo <= hi
  <2>1. CASE lo = 0
    BY <1>1, <1>2, <1>3, <2>1
  <2>2. CASE lo # 0
    <3>1. lo \in 1..Len(s) /\ s[lo].at < a
      BY <1>1, <1>2, <2>2
    <3>2. s[lo].at < b
      BY <1>5, <3>1
    <3> QED
      BY <1>1, <1>3, <3>1, <3>2
  <2> QED
    BY <2>1, <2>2
<1>7. IsSlice(SubSeq(s, lo + 1, hi), s, lo, hi)
  BY <1>1, <1>2, <1>3, <1>5, <1>6, SliceOf
<1> QED
  BY <1>1, <1>2, <1>3, <1>4, <1>7

-----------------------------------------------------------------------------
LEMMA FarEnd ==
  ASSUME NEW a \in Int, NEW b \in Int, NEW d \in Int, NEW D \in SUBSET {d}, d >= b
  PROVE  Min({a, b} \cup D) = Min({a, b} \cup {})
<1>1. /\ Min({a, b} \cup D) \in {a, b} \cup D
      /\ \A y \in {a, b} \cup D : Min({a, b} \cup D) <= y
  BY LeastOfFew
<1>2. /\ Min({a, b} \cup {}) \in {a, b} \cup {}
      /\ \A y \in {a, b} \cup {} : Min({a, b} \cup {}) <= y
  <2>1. {} \in SUBSET {d}
    OBVIOUS
  <2> QED
    BY <2>1, LeastOfFew
<1> DEFINE m == Min({a, b} \cup D) n == Min({a, b} \cup {})
<1>3. m \in {a, b, d} /\ n \in {a, b} /\ m <= a /\ m <= b /\ n <= a /\ n <= b
  BY <1>1, <1>2
<1> HIDE DEF m, n
<1>4. m = n
  BY <1>3
<1> QED
  BY <1>4 DEF m, n

LEMMA SliceSeries ==
  ASSUME NEW s, IsSeries(s), NEW t, NEW lo, NEW hi, IsSlice(t, s, lo, hi)
  PROVE  IsSeries(t) /\ Len(t) = hi - lo /\ hi - lo \in Nat
<1>1. t \in Seq(RawSample) /\ lo \in Nat /\ hi \in Nat /\ Len(t) = hi - lo /\ Len(s) \in Nat /\ hi <= Len(s)
  BY DEF IsSlice, IsSeries
<1>2. ASSUME NEW i \in 1..Len(t), NEW j \in 1..Len(t), i < j PROVE t[i].at < t[j].at
  <2>1. lo + i \in 1..Len(s) /\ lo + j \in 1..Len(s) /\ lo + i < lo + j /\ i \in 1..hi - lo /\ j \in 1..hi - lo
    BY <1>1, <1>2
  <2> QED
    BY <2>1 DEF IsSlice, IsSeries
<1> QED
  BY <1>1, <1>2 DEF IsSeries

(* The support of a sample is the same in a stretch of the series, if the  *)
(* stretch does not end in the middle of a bucket.                         *)
LEMMA WeightOfSlice ==
  ASSUME NEW s, IsSeries(s), NEW t, NEW lo, NEW hi, IsSlice(t, s, lo, hi),
         NEW i \in 1..hi - lo, NEW end \in Nat,
         i < hi - lo \/ lo + i = Len(s) \/ s[lo + i + 1].at >= end
  PROVE  Weight(t, i, end) = Weight(s, lo + i, end)
<1> DEFINE D(u, j) == {u[k].at - u[j].at : k \in {m \in {j + 1} : m <= Len(u) /\ Continuous(u[m], u[j])}}
<1>1. /\ lo \in Nat /\ hi \in Nat /\ hi <= Len(s) /\ Len(s) \in Nat /\ Len(t) = hi - lo
      /\ t[i] = s[lo + i] /\ lo + i \in 1..Len(s) /\ i \in 1..Len(t)
  BY DEF IsSlice, IsSeries
<1>2. Weight(t, i, end) = Min({StepMS, end - s[lo + i].at} \cup D(t, i))
  BY <1>1 DEF Weight
<1>3. Weight(s, lo + i, end) = Min({StepMS, end - s[lo + i].at} \cup D(s, lo + i))
  BY DEF Weight
<1>4. CASE i < hi - lo
  <2>1. t[i + 1] = s[lo + i + 1] /\ i + 1 <= Len(t) /\ lo + i + 1 <= Len(s) /\ (lo + i) + 1 = lo + i + 1
    BY <1>1, <1>4 DEF IsSlice
  <2>2. D(t, i) = D(s, lo + i)
    BY <1>1, <2>1
  <2> HIDE DEF D
  <2> QED
    BY <1>2, <1>3, <2>2
<1>5. CASE ~(i < hi - lo)
  <2>1. i = hi - lo /\ ~(i + 1 <= Len(t))
    BY <1>1, <1>5
  <2>2. D(t, i) = {}
    BY <2>1
  <2>3. CASE lo + i = Len(s)
    <3>1. ~((lo + i) + 1 <= Len(s))
      BY <1>1, <2>3
    <3>2. D(s, lo + i) = {}
      BY <3>1
    <3> HIDE DEF D
    <3> QED
      BY <1>2, <1>3, <2>2, <3>2
  <2>4. CASE lo + i # Len(s)
    <3>1. (lo + i) + 1 = lo + i + 1 /\ lo + i + 1 \in 1..Len(s) /\ s[lo + i + 1].at >= end
      BY <1>1, <1>5, <2>4
    <3>2. s[lo + i + 1].at \in Nat /\ s[lo + i].at \in Nat
      BY <1>1, <3>1, SampleFields
    <3> DEFINE d == s[lo + i + 1].at - s[lo + i].at
               b == end - s[lo + i].at
    <3>3. d \in Int /\ b \in Int /\ d >= b /\ StepMS \in Int
      BY <3>1, <3>2, RollupAssumption, SMTT(30)
    <3>4. D(s, lo + i) \in SUBSET {d}
      BY <3>1
    <3> HIDE DEF D, d
    <3>5. Min({StepMS, b} \cup D(s, lo + i)) = Min({StepMS, b} \cup {})
      <4> HIDE DEF b
      <4> QED
        BY <3>3, <3>4, FarEnd
    <3> QED
      BY <1>2, <1>3, <2>2, <3>5
  <2> QED
    BY <2>3, <2>4
<1> QED
  BY <1>4, <1>5

(* So a bucket takes the same from it.                                     *)
LEMMA AddOfSlice ==
  ASSUME NEW s, IsSeries(s), NEW t, NEW lo, NEW hi, IsSlice(t, s, lo, hi),
         NEW i \in 1..hi - lo, NEW b \in Bucket(Flags),
         i < hi - lo \/ lo + i = Len(s) \/ s[lo + i + 1].at >= b.end, NEW prev
  PROVE  AddSample(b, t, i, prev) = AddSample(b, s, lo + i, prev)
<1>1. t[i] = s[lo + i] /\ b.end \in Nat
  BY DEF IsSlice, Bucket
<1>2. Weight(t, i, b.end) = Weight(s, lo + i, b.end)
  BY <1>1, WeightOfSlice
<1> QED
  BY <1>1, <1>2 DEF AddSample

-----------------------------------------------------------------------------
(* A bucket in the making.                                                 *)

Previouses == {<<>>} \cup {<<p>> : p \in RawSample}

(* What a sample adds to the observed upload, given the sample before.     *)
Gained(x, prev) == IF prev = <<>> THEN 0 ELSE Observed(x, prev[1])

Clean(b) ==
  /\ b \in Bucket(Flags)
  /\ b.up = NoStat \/ Observations(b.up) # 0
  /\ ~b.uploaded.known => b.uploaded.delta = 0

LEMMA GainIn ==
  ASSUME NEW x \in RawSample, NEW prev \in Previouses
  PROVE  Gained(x, prev) \in Nat
<1>1. CASE prev = <<>>
  BY <1>1 DEF Gained
<1>2. CASE prev # <<>>
  <2>1. PICK p \in RawSample : prev = <<p>>
    BY <1>2 DEF Previouses
  <2>2. x.uploaded \in Nat /\ p.uploaded \in Nat
    BY DEF RawSample, Sample
  <2> QED
    BY <2>1, <2>2 DEF Gained, Observed
<1> QED
  BY <1>1, <1>2

LEMMA CounterAdds ==
  ASSUME NEW c \in Counter, ~c.known => c.delta = 0,
         NEW x \in RawSample, "Uploaded" \in x.valid, NEW prev \in Previouses
  PROVE  LET n == AddCounter(c, x, prev)
         IN n \in Counter /\ n.known /\ n.delta = c.delta + Gained(x, prev)
<1> DEFINE base == IF c.known THEN c
                   ELSE [c EXCEPT !.first = x.uploaded, !.firstAt = x.at, !.known = TRUE]
           last == [base EXCEPT !.last = x.uploaded, !.lastAt = x.at]
           n == AddCounter(c, x, prev)
<1>1. x.uploaded \in Nat /\ x.at \in Nat
  BY DEF RawSample, Sample
<1>2. base \in Counter /\ base.known /\ base.delta = c.delta
  BY <1>1 DEF Counter
<1>3. last \in Counter /\ last.known /\ last.delta = c.delta
  <2> HIDE DEF base
  <2> QED
    BY <1>1, <1>2 DEF Counter
<1>4. n = IF ~Rises(c, x, prev) THEN last
          ELSE IF x.uploaded >= prev[1].uploaded
               THEN [last EXCEPT !.delta = last.delta + x.uploaded - prev[1].uploaded,
                                 !.duration = last.duration + x.at - prev[1].at]
               ELSE [last EXCEPT !.reset = TRUE]
  BY DEF AddCounter
<1> HIDE DEF last, n
<1>5. CASE ~Rises(c, x, prev)
  <2>1. Gained(x, prev) = 0
    BY <1>5 DEF Gained, Rises, Observed
  <2> QED
    BY <1>3, <1>4, <1>5, <2>1 DEF n, Counter
<1>6. CASE Rises(c, x, prev)
  <2>1. PICK p \in RawSample : prev = <<p>> /\ prev[1] = p
    BY <1>6 DEF Rises, Previouses
  <2>2. p.uploaded \in Nat /\ p.at \in Nat
    BY DEF RawSample, Sample
  <2>3. Continuous(x, p) /\ "Uploaded" \in p.valid /\ x.at > p.at
    BY <1>6, <2>1 DEF Rises, Continuous
  <2>4. CASE x.uploaded >= p.uploaded
    <3>1. Gained(x, prev) = x.uploaded - p.uploaded
      BY <2>1, <2>3, <2>4 DEF Gained, Observed
    <3>2. n = [last EXCEPT !.delta = last.delta + x.uploaded - p.uploaded,
                           !.duration = last.duration + x.at - p.at]
      BY <1>4, <1>6, <2>1, <2>4
    <3>3. last.delta \in Nat /\ last.duration \in Nat
      BY <1>3 DEF Counter
    <3>4. /\ last.delta + x.uploaded - p.uploaded \in Nat
          /\ last.duration + x.at - p.at \in Nat
          /\ last.delta + x.uploaded - p.uploaded = c.delta + (x.uploaded - p.uploaded)
      BY <1>1, <1>3, <2>2, <2>3, <2>4, <3>3
    <3> QED
      BY <1>3, <3>1, <3>2, <3>4 DEF n, Counter
  <2>5. CASE ~(x.uploaded >= p.uploaded)
    <3>1. Gained(x, prev) = 0
      BY <2>1, <2>5 DEF Gained, Observed
    <3>2. n = [last EXCEPT !.reset = TRUE]
      BY <1>4, <1>6, <2>1, <2>5
    <3>3. c.delta + 0 = c.delta
      BY DEF Counter
    <3>4. n \in Counter /\ n.known /\ n.delta = last.delta
      BY <1>3, <3>2 DEF Counter
    <3> QED
      BY <1>3, <3>1, <3>3, <3>4 DEF n
  <2> QED
    BY <2>4, <2>5
<1> QED
  BY <1>5, <1>6

LEMMA AddIn ==
  ASSUME NEW st \in Stat, st = NoStat \/ Observations(st) # 0,
         NEW v \in Nat, NEW at \in Nat, NEW w \in Nat
  PROVE  AddStat(st, v, at, w) \in Stat /\ Observations(AddStat(st, v, at, w)) # 0
<1> DEFINE u == AddStat(st, v, at, w)
<1>1. v * w \in Nat
  OBVIOUS
<1>2. CASE st = NoStat
  <2>1. u = [sum |-> v * w, weight |-> w, first |-> v, last |-> v, min |-> v, max |-> v,
             firstAt |-> at, lastAt |-> at, minAt |-> at, maxAt |-> at,
             zero |-> IF v = 0 THEN 1 ELSE 0, positive |-> IF v = 0 THEN 0 ELSE 1]
    BY <1>2, AddFirst, ZenonT(60)
  <2> HIDE DEF u
  <2>2. u \in Stat
    BY <1>1, <2>1 DEF Stat
  <2>3. u.zero + u.positive # 0
    BY <2>1
  <2> QED
    BY <2>2, <2>3 DEF u, Observations
<1>3. CASE Observations(st) # 0
  <2>1. u = [sum |-> st.sum + v * w, weight |-> st.weight + w,
             first |-> st.first, last |-> v,
             min |-> IF v < st.min THEN v ELSE st.min,
             max |-> IF v > st.max THEN v ELSE st.max,
             firstAt |-> st.firstAt, lastAt |-> at,
             minAt |-> IF v < st.min THEN at ELSE st.minAt,
             maxAt |-> IF v > st.max THEN at ELSE st.maxAt,
             zero |-> IF v = 0 THEN st.zero + 1 ELSE st.zero,
             positive |-> IF v = 0 THEN st.positive ELSE st.positive + 1]
    BY <1>3, AddIs, ZenonT(60)
  <2> HIDE DEF u
  <2>2. /\ st.sum \in Nat /\ st.weight \in Nat /\ st.first \in Nat /\ st.min \in Nat /\ st.max \in Nat
        /\ st.firstAt \in Nat /\ st.minAt \in Nat /\ st.maxAt \in Nat /\ st.zero \in Nat /\ st.positive \in Nat
    BY DEF Stat
  <2>3. /\ st.sum + v * w \in Nat /\ st.weight + w \in Nat
        /\ (IF v < st.min THEN v ELSE st.min) \in Nat /\ (IF v > st.max THEN v ELSE st.max) \in Nat
        /\ (IF v < st.min THEN at ELSE st.minAt) \in Nat /\ (IF v > st.max THEN at ELSE st.maxAt) \in Nat
        /\ (IF v = 0 THEN st.zero + 1 ELSE st.zero) \in Nat
        /\ (IF v = 0 THEN st.positive ELSE st.positive + 1) \in Nat
    BY <1>1, <2>2
  <2>4. u \in Stat
    BY <2>1, <2>2, <2>3, Zenon DEF Stat
  <2>5. /\ u.zero = IF v = 0 THEN st.zero + 1 ELSE st.zero
        /\ u.positive = IF v = 0 THEN st.positive ELSE st.positive + 1
    BY <2>1
  <2>6. u.zero + u.positive # 0
    BY <1>3, <2>2, <2>5 DEF Observations
  <2> QED
    BY <2>4, <2>6 DEF u, Observations
<1> QED
  BY <1>2, <1>3

(* A sample joins a bucket of its time, field by field.                    *)
LEMMA AddedIs ==
  ASSUME NEW s, IsSeries(s), NEW i \in 1..Len(s), NEW b, Clean(b), s[i].at < b.end,
         NEW prev \in Previouses, NEW n, n = AddSample(b, s, i, prev),
         NEW w, w = Weight(s, i, b.end)
  PROVE  /\ Clean(n) /\ n.start = b.start /\ n.end = b.end /\ n.count = b.count + 1
         /\ w \in Nat \ {0} /\ w <= StepMS
         /\ n.validDuration = IF "Up" \in s[i].valid THEN b.validDuration + w ELSE b.validDuration
         /\ n.up = IF "Up" \in s[i].valid THEN AddStat(b.up, s[i].up, s[i].at, w) ELSE b.up
         /\ n.uploaded = IF "Uploaded" \in s[i].valid THEN AddCounter(b.uploaded, s[i], prev) ELSE b.uploaded
         /\ n.uploaded.delta = b.uploaded.delta + Gained(s[i], prev)
         /\ n.quality = b.quality \cup s[i].quality
                           \cup (IF prev # <<>> /\ ~Continuous(s[i], prev[1]) THEN {"GapBefore"} ELSE {})
                           \cup (IF n.uploaded.reset THEN {"CounterReset"} ELSE {})
<1> DEFINE x == s[i]
           c == IF "Uploaded" \in x.valid THEN AddCounter(b.uploaded, x, prev) ELSE b.uploaded
           u == IF "Up" \in x.valid THEN AddStat(b.up, x.up, x.at, w) ELSE b.up
           q == b.quality \cup x.quality
                  \cup (IF prev # <<>> /\ ~Continuous(x, prev[1]) THEN {"GapBefore"} ELSE {})
                  \cup (IF c.reset THEN {"CounterReset"} ELSE {})
           v == IF "Up" \in x.valid THEN b.validDuration + w ELSE b.validDuration
<1>1. /\ x \in RawSample /\ x.at \in Nat /\ x.up \in Nat /\ x.quality \in SUBSET Flags
      /\ x.uploaded \in Nat
  BY SampleFields
<1>2. /\ b \in Bucket(Flags) /\ b.up \in Stat /\ b.uploaded \in Counter /\ b.end \in Nat
      /\ b.count \in Nat /\ b.validDuration \in Nat /\ b.quality \in SUBSET Flags
      /\ b.up = NoStat \/ Observations(b.up) # 0
      /\ ~b.uploaded.known => b.uploaded.delta = 0
  BY DEF Clean, Bucket
<1>3. w \in Nat \ {0} /\ w <= StepMS
  BY <1>2, SupportFits DEF IsSeries, RawSample
<1>4. n = [b EXCEPT !.count = b.count + 1, !.quality = q, !.validDuration = v, !.up = u, !.uploaded = c]
  BY DEF AddSample
<1>5. u \in Stat /\ (u = NoStat \/ Observations(u) # 0)
  <2>1. CASE "Up" \in x.valid
    <3>1. w \in Nat /\ u = AddStat(b.up, x.up, x.at, w)
      BY <1>3, <2>1
    <3> HIDE DEF x, u
    <3> QED
      BY <1>1, <1>2, <3>1, AddIn
  <2>2. CASE "Up" \notin x.valid
    BY <1>2, <2>2
  <2> QED
    BY <2>1, <2>2
<1>6. /\ c \in Counter /\ c.delta = b.uploaded.delta + Gained(x, prev)
      /\ ~c.known => c.delta = 0
  <2>1. CASE "Uploaded" \in x.valid
    BY <1>1, <1>2, <2>1, CounterAdds
  <2>2. CASE "Uploaded" \notin x.valid
    <3>1. Gained(x, prev) = 0
      BY <2>2 DEF Gained, Observed
    <3>2. b.uploaded.delta \in Nat
      BY <1>2 DEF Counter
    <3> QED
      BY <1>2, <2>2, <3>1, <3>2
  <2> QED
    BY <2>1, <2>2
<1>7. q \in SUBSET Flags /\ v \in Nat /\ b.count + 1 \in Nat
  BY <1>1, <1>2, <1>3 DEF Flags
<1> HIDE DEF u, c, q, v
<1>8. /\ n \in Bucket(Flags) /\ n.start = b.start /\ n.end = b.end /\ n.count = b.count + 1
      /\ n.quality = q /\ n.validDuration = v /\ n.up = u /\ n.uploaded = c
  BY <1>2, <1>4, <1>5, <1>6, <1>7 DEF Bucket
<1>9. Clean(n)
  BY <1>5, <1>6, <1>8 DEF Clean
<1> QED
  BY <1>3, <1>6, <1>8, <1>9 DEF u, c, q, v

-----------------------------------------------------------------------------
LEMMA NewIs ==
  ASSUME NEW at \in Nat, NEW res \in Nat \ {0}
  PROVE  LET b == NewBucket(Start(at, res), res)
         IN /\ Clean(b) /\ b.start = Start(at, res) /\ b.end = b.start + res /\ at < b.end
            /\ b.up = NoStat /\ b.uploaded = NoCounter /\ b.quality = {} /\ b.count = 0
            /\ b.validDuration = 0
<1> DEFINE t == Start(at, res)
           b == NewBucket(t, res)
<1>1. t \in Nat /\ t + res \in Nat /\ t <= at /\ at < t + res
  <2>1. (at \div res) * res \in Nat
    BY DivMod
  <2>2. t \in Nat
    BY <2>1 DEF Start
  <2> QED
    BY <2>2, StartContains
<1>2. NoStat \in Stat /\ NoCounter \in Counter /\ NoCounter.known = FALSE /\ NoCounter.delta = 0
  BY DEF NoStat, Stat, NoCounter, Counter
<1> HIDE DEF t
<1>3. b = [start |-> t, end |-> t + res, count |-> 0, validDuration |-> 0, quality |-> {},
           up |-> NoStat, uploaded |-> NoCounter]
  BY DEF NewBucket
<1>4. b \in Bucket(Flags)
  BY <1>1, <1>2, <1>3 DEF Bucket
<1>5. Clean(b)
  BY <1>2, <1>3, <1>4 DEF Clean
<1> HIDE DEF b
<1> QED
  BY <1>1, <1>3, <1>5 DEF b, t

(* Build's step for sample i.                                              *)
Grown(out, in, i, res, prev) ==
  IF out # <<>> /\ Last(out).start = Start(in[i].at, res)
  THEN [out EXCEPT ![Len(out)] = AddSample(@, in, i, prev)]
  ELSE Append(out, AddSample(NewBucket(Start(in[i].at, res), res), in, i, prev))

Buckets(res) == {b \in Bucket(Flags) : Clean(b) /\ b.end = b.start + res}

LEMMA GrownIn ==
  ASSUME NEW in, IsSeries(in), NEW i \in 1..Len(in), NEW res \in Nat \ {0},
         NEW prev \in Previouses, NEW out \in Seq(Buckets(res))
  PROVE  Grown(out, in, i, res, prev) \in Seq(Buckets(res))
<1>1. in[i].at \in Nat
  BY SampleFields
<1> DEFINE t == Start(in[i].at, res)
<1>2. CASE out # <<>> /\ Last(out).start = t
  <2> DEFINE L == Len(out) b == out[L] n == AddSample(b, in, i, prev)
  <2>1. L \in 1..L /\ L \in Nat /\ Last(out) = b /\ b \in Buckets(res)
    BY <1>2 DEF Last
  <2>2. Clean(b) /\ in[i].at < b.end
    <3>1. in[i].at < t + res
      BY <1>1, StartContains
    <3> QED
      BY <1>2, <2>1, <3>1 DEF Buckets
  <2>3. Clean(n) /\ n.start = b.start /\ n.end = b.end
    <3> HIDE DEF b, n
    <3> QED
      BY <2>2, AddedIs DEF n
  <2>4. n \in Buckets(res)
    <3> HIDE DEF n, b
    <3> QED
      BY <2>1, <2>3 DEF Buckets, Clean
  <2>5. Grown(out, in, i, res, prev) = [out EXCEPT ![L] = n]
    BY <1>2 DEF Grown
  <2> HIDE DEF n, b
  <2> QED
    BY <2>1, <2>4, <2>5
<1>3. CASE ~(out # <<>> /\ Last(out).start = t)
  <2> DEFINE b == NewBucket(t, res) n == AddSample(b, in, i, prev)
  <2>1. Clean(b) /\ b.end = b.start + res /\ in[i].at < b.end
    BY <1>1, NewIs
  <2>2. Clean(n) /\ n.start = b.start /\ n.end = b.end
    <3> HIDE DEF b, n
    <3> QED
      BY <2>1, AddedIs DEF n
  <2>3. n \in Buckets(res)
    <3> HIDE DEF n, b
    <3> QED
      BY <2>1, <2>2 DEF Buckets, Clean
  <2>4. Grown(out, in, i, res, prev) = Append(out, n)
    BY <1>3 DEF Grown
  <2> HIDE DEF n
  <2> QED
    BY <2>3, <2>4
<1> QED
  BY <1>2, <1>3

LEMMA BuildSteps ==
  ASSUME NEW in, IsSeries(in), NEW res \in Nat \ {0}, NEW previous \in Previouses
  PROVE  \E h : /\ h[0] = <<>> /\ Build(in, res, previous) = h[Len(in)]
                /\ \A i \in 1..Len(in) :
                     h[i] = Grown(h[i - 1], in, i, res, IF i = 1 THEN previous ELSE <<in[i - 1]>>)
<1> DEFINE n == Len(in)
           V == Seq(Buckets(res))
           prev(i) == IF i = 1 THEN previous ELSE <<in[i - 1]>>
           F == [p \in V \X (1..n) |-> Grown(p[1], in, p[2], res, prev(p[2]))]
           ids == [i \in DOMAIN in |-> i]
           E(g) == g = [s \in SUBSET DOMAIN ids |->
                          IF s = {} THEN <<>>
                          ELSE Grown(g[s \ {Max(s)}], in, ids[Max(s)], res, prev(ids[Max(s)]))]
<1>1. n \in Nat /\ DOMAIN ids = 1..n /\ \A i \in 1..n : ids[i] = i
  BY DEF IsSeries
<1>2. <<>> \in V /\ F \in [V \X (1..n) -> V]
  <2>1. \A i \in 1..n : prev(i) \in Previouses
    <3>1. ASSUME NEW i \in 1..n, i # 1 PROVE in[i - 1] \in RawSample
      <4>1. i - 1 \in 1..n
        BY <1>1, <3>1
      <4> QED
        BY <4>1, SampleFields
    <3> QED
      BY <3>1 DEF Previouses
  <2> HIDE DEF prev
  <2>2. \A v \in V, i \in 1..n : Grown(v, in, i, res, prev(i)) \in V
    BY <2>1, GrownIn
  <2> QED
    BY <2>2
<1>3. PICK it : Folds(it, V, <<>>, F, n)
  <2> HIDE DEF V, F, n
  <2> QED
    BY <1>1, <1>2, FoldExists
<1>4. ASSUME NEW s \in SUBSET (1..n), s # {} PROVE Max(s) \in 1..n /\ s \ {Max(s)} \in SUBSET (1..n)
  <2> HIDE DEF n
  <2> QED
    BY <1>1, <1>4, MaxOf
<1>5. E(it)
  <2>1. ASSUME NEW s \in SUBSET (1..n), s # {}
        PROVE  it[s] = Grown(it[s \ {Max(s)}], in, ids[Max(s)], res, prev(ids[Max(s)]))
    <3>1. PICK m \in 1..n : m = Max(s) /\ ids[Max(s)] = m
      BY <1>1, <1>4, <2>1
    <3>2. PICK v \in V : v = it[s \ {m}]
      BY <1>3, <1>4, <2>1, <3>1 DEF Folds
    <3>3. it[s] = F[<<v, m>>]
      BY <1>3, <2>1, <3>1, <3>2 DEF Folds
    <3>4. F[<<v, m>>] = Grown(v, in, m, res, prev(m))
      OBVIOUS
    <3> HIDE DEF F, V, n, ids, prev
    <3> QED
      BY <3>1, <3>2, <3>3, <3>4
  <2> HIDE DEF F, V, n, ids, prev
  <2> QED
    BY <1>1, <1>3, <2>1 DEF Folds
<1>6. PICK ch : ch = (CHOOSE g : E(g)) /\ E(ch)
  <2> HIDE DEF E
  <2> QED
    BY <1>5
<1>7. Build(in, res, previous) = ch[DOMAIN ids]
  BY <1>6 DEF Build, Grown, FoldLeftDomain, FoldLeft, MapThenFoldSet
<1>8. ASSUME NEW i \in 1..n PROVE ch[1..i] = Grown(ch[1..i - 1], in, i, res, prev(i))
  <2>1. Max(1..i) = i /\ (1..i) \ {i} = 1..i - 1 /\ 1..i \in SUBSET (1..n) /\ 1..i # {}
    BY PrefixMax
  <2>2. ids[i] = i
    BY <1>1
  <2> HIDE DEF n, ids, prev
  <2>3. ch[1..i] = IF 1..i = {} THEN <<>>
                   ELSE Grown(ch[(1..i) \ {Max(1..i)}], in, ids[Max(1..i)], res, prev(ids[Max(1..i)]))
    BY <1>1, <1>6, <2>1, ZenonT(60)
  <2> QED
    BY <2>1, <2>2, <2>3
<1>9. ch[1..0] = <<>>
  <2>1. 1..0 = {} /\ 1..0 \in SUBSET (1..n)
    OBVIOUS
  <2> HIDE DEF n, ids, prev
  <2> QED
    BY <1>6, <1>1, <2>1
<1> DEFINE h == [k \in 0..n |-> ch[1..k]]
<1> HIDE DEF ids, E
<1> QED
  <2>1. h[0] = <<>> /\ h[n] = ch[1..n] /\ \A i \in 1..n : h[i] = ch[1..i] /\ h[i - 1] = ch[1..i - 1]
    BY <1>9, <1>1
  <2> HIDE DEF h
  <2>2. Build(in, res, previous) = h[n]
    BY <1>1, <1>7, <2>1
  <2> QED
    BY <2>1, <2>2, <1>8

-----------------------------------------------------------------------------
LEMMA Upward ==
  ASSUME NEW lo \in Nat, NEW hi \in Nat, NEW T, lo \in T,
         \A i \in lo + 1..hi : i - 1 \in T => i \in T
  PROVE  \A i \in lo..hi : i \in T
<1> DEFINE U == {k \in Nat : lo + k <= hi => lo + k \in T}
<1>1. 0 \in U
  OBVIOUS
<1>2. ASSUME NEW k \in Nat, k \in U PROVE k + 1 \in U
  <2> SUFFICES ASSUME lo + (k + 1) <= hi PROVE lo + (k + 1) \in T
    OBVIOUS
  <2>1. lo + (k + 1) \in lo + 1..hi /\ (lo + (k + 1)) - 1 = lo + k /\ lo + k <= hi
    OBVIOUS
  <2> QED
    BY <1>2, <2>1
<1> HIDE DEF U
<1>3. Nat \subseteq U
  BY <1>1, <1>2, Induction
<1>4. ASSUME NEW i \in lo..hi PROVE i \in T
  <2>1. i - lo \in Nat /\ lo + (i - lo) = i /\ i <= hi
    OBVIOUS
  <2>2. i - lo \in U
    BY <1>3, <2>1
  <2> QED
    BY <2>1, <2>2 DEF U
<1> QED
  BY <1>4

(* The left endpoints the samples of s were given to their buckets with:   *)
(* one is missing only at the first sample of a window that does not       *)
(* follow the sample before.                                               *)
LeftOf(s) ==
  [i \in 1..Len(s) |->
     IF /\ i > 1
        /\ Start(s[i].at, Window) = Start(s[i - 1].at, Window) \/ s[i].seq = s[i - 1].seq + 1
     THEN <<s[i - 1]>> ELSE <<>>]

LEMMA LeftIn ==
  ASSUME NEW s, IsSeries(s), NEW i \in 1..Len(s)
  PROVE  LeftOf(s)[i] \in Previouses /\ Gained(s[i], LeftOf(s)[i]) = IF i = 1 THEN 0 ELSE Observed(s[i], s[i - 1])
<1>1. Len(s) \in Nat
  BY DEF IsSeries
<1>2. CASE i = 1
  <2>1. LeftOf(s)[i] = <<>>
    BY <1>2 DEF LeftOf
  <2> QED
    BY <1>2, <2>1 DEF Previouses, Gained
<1>3. CASE i # 1
  <2>1. i > 1 /\ i - 1 \in 1..Len(s)
    BY <1>1, <1>3
  <2>2. s[i - 1] \in RawSample
    BY <2>1, SampleFields
  <2>3. CASE LeftOf(s)[i] = <<s[i - 1]>>
    BY <1>3, <2>2, <2>3 DEF Previouses, Gained
  <2>4. CASE LeftOf(s)[i] # <<s[i - 1]>>
    <3>1. LeftOf(s)[i] = <<>> /\ s[i].seq # s[i - 1].seq + 1
      BY <2>1, <2>4 DEF LeftOf
    <3>2. ~Continuous(s[i], s[i - 1])
      BY <3>1 DEF Continuous
    <3>3. Observed(s[i], s[i - 1]) = 0
      BY <3>2 DEF Observed
    <3> QED
      BY <1>3, <3>1, <3>3 DEF Previouses, Gained
  <2> QED
    BY <2>3, <2>4
<1> QED
  BY <1>2, <1>3

(* A bucket is made of the samples lo + 1 .. hi, in the steps g.           *)
MadeBy(g, x, s, lo, hi, P, res) ==
  /\ g[lo] = NewBucket(Start(s[lo + 1].at, res), res) /\ g[hi] = x
  /\ \A i \in lo + 1..hi : /\ Start(s[i].at, res) = Start(s[lo + 1].at, res)
                           /\ g[i] = AddSample(g[i - 1], s, i, P[i])

Made(x, s, lo, hi, P, res) == lo < hi /\ \E g : MadeBy(g, x, s, lo, hi, P, res)

LEMMA StepsClean ==
  ASSUME NEW s, IsSeries(s), NEW res \in Nat \ {0}, NEW lo \in Nat, NEW hi \in Nat, lo < hi, hi <= Len(s),
         NEW P, \A i \in lo + 1..hi : P[i] \in Previouses,
         NEW g, NEW x, MadeBy(g, x, s, lo, hi, P, res)
  PROVE  \A i \in lo..hi : /\ Clean(g[i]) /\ g[i].start = Start(s[lo + 1].at, res)
                           /\ g[i].end = g[i].start + res
                           /\ \A j \in lo + 1..hi : g[i].start <= s[j].at /\ s[j].at < g[i].end
<1> DEFINE t == Start(s[lo + 1].at, res)
           T == {i \in lo..hi : Clean(g[i]) /\ g[i].start = t /\ g[i].end = t + res}
<1>1. Len(s) \in Nat /\ \A j \in lo + 1..hi : j \in 1..Len(s) /\ s[j].at \in Nat
  <2>1. Len(s) \in Nat
    BY DEF IsSeries
  <2>2. \A j \in lo + 1..hi : j \in 1..Len(s)
    BY <2>1
  <2> QED
    BY <2>1, <2>2, SampleFields
<1>2. \A j \in lo + 1..hi : t <= s[j].at /\ s[j].at < t + res
  <2>1. ASSUME NEW j \in lo + 1..hi PROVE t <= s[j].at /\ s[j].at < t + res
    <3>1. Start(s[j].at, res) = t
      BY DEF MadeBy
    <3> HIDE DEF t
    <3> QED
      BY <1>1, <3>1, StartContains
  <2> QED
    BY <2>1
<1>3. lo \in T
  <2>1. lo + 1 \in lo + 1..hi
    OBVIOUS
  <2>2. g[lo] = NewBucket(t, res) /\ s[lo + 1].at \in Nat
    BY <1>1, <2>1 DEF MadeBy
  <2> QED
    BY <2>2, NewIs
<1>4. ASSUME NEW i \in lo + 1..hi, i - 1 \in T PROVE i \in T
  <2>1. g[i] = AddSample(g[i - 1], s, i, P[i]) /\ Clean(g[i - 1]) /\ g[i - 1].start = t /\ g[i - 1].end = t + res
    BY <1>4 DEF MadeBy
  <2>2. s[i].at < t + res
    BY <1>2
  <2>3. i \in 1..Len(s) /\ P[i] \in Previouses /\ i \in lo..hi
    BY <1>1
  <2> HIDE DEF t
  <2>4. Clean(g[i]) /\ g[i].start = t /\ g[i].end = t + res
    BY <2>1, <2>2, <2>3, AddedIs
  <2> QED
    BY <2>3, <2>4
<1> HIDE DEF T
<1>5. \A i \in lo..hi : i \in T
  BY <1>3, <1>4, Upward
<1> QED
  BY <1>2, <1>5 DEF T

(* A tier is made of the samples lo + 1 .. hi: bucket after bucket, up to  *)
(* the positions b.                                                        *)
TierBy(b, tier, s, lo, hi, P, res) ==
  /\ b \in [0..Len(tier) -> lo..hi] /\ b[0] = lo /\ b[Len(tier)] = hi
  /\ \A k \in 1..Len(tier) :
       /\ Made(tier[k], s, b[k - 1], b[k], P, res)
       /\ k > 1 => Start(s[b[k - 1]].at, res) # Start(s[b[k - 1] + 1].at, res)

TierOf(tier, s, lo, hi, P, res) == tier \in Seq(Buckets(res)) /\ \E b : TierBy(b, tier, s, lo, hi, P, res)

-----------------------------------------------------------------------------
LEMMA MadeIs ==
  ASSUME NEW s, IsSeries(s), NEW res \in Nat \ {0}, NEW lo \in Nat, NEW hi \in Nat, hi <= Len(s),
         NEW P, \A i \in lo + 1..hi : P[i] \in Previouses, NEW x, Made(x, s, lo, hi, P, res)
  PROVE  /\ lo < hi /\ x \in Buckets(res) /\ Clean(x) /\ x.end = x.start + res
         /\ \A i \in lo + 1..hi : x.start = Start(s[i].at, res) /\ x.start <= s[i].at /\ s[i].at < x.end
<1>1. lo < hi
  BY DEF Made
<1>2. PICK g : MadeBy(g, x, s, lo, hi, P, res)
  BY DEF Made
<1>3. hi \in lo..hi /\ g[hi] = x
  BY <1>1, <1>2 DEF MadeBy
<1>4. /\ Clean(x) /\ x.start = Start(s[lo + 1].at, res) /\ x.end = x.start + res
      /\ \A j \in lo + 1..hi : x.start <= s[j].at /\ s[j].at < x.end
  BY <1>1, <1>2, <1>3, StepsClean
<1>5. \A i \in lo + 1..hi : Start(s[i].at, res) = Start(s[lo + 1].at, res)
  BY <1>2 DEF MadeBy
<1>6. x \in Buckets(res)
  BY <1>4 DEF Buckets, Clean
<1> QED
  BY <1>1, <1>4, <1>5, <1>6

LEMMA TierGrows ==
  ASSUME NEW s, IsSeries(s), NEW res \in Nat \ {0}, NEW i \in 1..Len(s),
         NEW P, \A j \in 1..i : P[j] \in Previouses,
         NEW out, TierOf(out, s, 0, i - 1, P, res)
  PROVE  TierOf(Grown(out, s, i, res, P[i]), s, 0, i, P, res)
<1>1. PICK b : TierBy(b, out, s, 0, i - 1, P, res)
  BY DEF TierOf
<1>2. out \in Seq(Buckets(res)) /\ Len(s) \in Nat /\ Len(out) \in Nat
  BY DEF TierOf, IsSeries
<1> DEFINE L == Len(out)
           t == Start(s[i].at, res)
           new == Grown(out, s, i, res, P[i])
<1>3. /\ b \in [0..L -> 0..i - 1] /\ b[0] = 0 /\ b[L] = i - 1
      /\ \A k \in 1..L : /\ Made(out[k], s, b[k - 1], b[k], P, res)
                         /\ k > 1 => Start(s[b[k - 1]].at, res) # Start(s[b[k - 1] + 1].at, res)
  BY <1>1 DEF TierBy
<1>4. new \in Seq(Buckets(res))
  <2>1. P[i] \in Previouses
    OBVIOUS
  <2> QED
    BY <1>2, <2>1, GrownIn
<1>5. ASSUME L > 0
      PROVE  /\ b[L - 1] \in Nat /\ b[L - 1] < i - 1 /\ Made(out[L], s, b[L - 1], i - 1, P, res)
             /\ out[L] \in Buckets(res) /\ out[L].start = Start(s[i - 1].at, res)
             /\ out[L].start = Start(s[b[L - 1] + 1].at, res)
  <2>1. L \in 1..L /\ L - 1 \in 0..L
    BY <1>2, <1>5
  <2> HIDE DEF L, new, t
  <2> DEFINE lo == b[L - 1]
             x == out[L]
  <2>2. lo \in 0..i - 1 /\ Made(x, s, lo, b[L], P, res) /\ b[L] = i - 1
    BY <1>3, <2>1
  <2> HIDE DEF lo, x
  <2>3. lo \in Nat /\ i - 1 \in Nat /\ i - 1 <= Len(s) /\ \A j \in lo + 1..i - 1 : P[j] \in Previouses
    BY <1>2, <2>2
  <2>6. Made(x, s, lo, i - 1, P, res)
    BY <2>2
  <2>7. /\ lo < i - 1 /\ x \in Buckets(res)
        /\ \A j \in lo + 1..i - 1 : x.start = Start(s[j].at, res)
    BY <2>3, <2>6, MadeIs, SMTT(30)
  <2>4. /\ b[L - 1] < i - 1 /\ out[L] \in Buckets(res)
        /\ \A j \in b[L - 1] + 1..i - 1 : out[L].start = Start(s[j].at, res)
        /\ b[L - 1] \in Nat /\ Made(out[L], s, b[L - 1], i - 1, P, res)
    BY <2>3, <2>6, <2>7 DEF lo, x
  <2>5. i - 1 \in b[L - 1] + 1..i - 1 /\ b[L - 1] + 1 \in b[L - 1] + 1..i - 1
    BY <2>3, <2>4
  <2> QED
    BY <2>4, <2>5
<1>6. CASE out # <<>> /\ Last(out).start = t
  <2> DEFINE n == AddSample(out[L], s, i, P[i])
             c == [k \in 0..L |-> IF k = L THEN i ELSE b[k]]
  <2>1. L > 0 /\ L \in 1..L /\ Last(out) = out[L] /\ L - 1 \in 0..L
    BY <1>2, <1>6 DEF Last
  <2>2. new = [out EXCEPT ![L] = n]
    BY <1>6 DEF Grown
  <2>3. Len(new) = L /\ new[L] = n /\ \A k \in 1..L - 1 : new[k] = out[k]
    BY <1>2, <2>1, <2>2
  <2>4. PICK g : MadeBy(g, out[L], s, b[L - 1], i - 1, P, res)
    BY <1>5, <2>1 DEF Made
  <2>5. Made(n, s, b[L - 1], i, P, res)
    <3> DEFINE lo == b[L - 1]
               f == [j \in lo..i |-> IF j = i THEN n ELSE g[j]]
    <3>1. lo \in Nat /\ lo < i - 1
      BY <1>5, <2>1
    <3>2. f[lo] = g[lo] /\ f[i] = n /\ f[i - 1] = out[L]
      <4>1. lo \in lo..i /\ i \in lo..i /\ i - 1 \in lo..i /\ lo # i /\ i - 1 # i
        BY <3>1
      <4>2. g[i - 1] = out[L]
        BY <2>4 DEF MadeBy
      <4> HIDE DEF lo, n
      <4> QED
        BY <4>1, <4>2
    <3>3. ASSUME NEW j \in lo + 1..i
          PROVE  Start(s[j].at, res) = Start(s[lo + 1].at, res) /\ f[j] = AddSample(f[j - 1], s, j, P[j])
      <4>1. CASE j = i
        <5>1. Start(s[i].at, res) = Start(s[lo + 1].at, res)
          BY <1>5, <1>6, <2>1
        <5> QED
          BY <3>2, <4>1, <5>1
      <4>2. CASE j # i
        <5>1. j \in lo + 1..i - 1 /\ j \in lo..i /\ j - 1 \in lo..i /\ j - 1 # i
          BY <3>1, <4>2
        <5>2. f[j] = g[j] /\ f[j - 1] = g[j - 1]
          BY <4>2, <5>1
        <5> HIDE DEF f
        <5> QED
          BY <2>4, <5>1, <5>2 DEF MadeBy
      <4> QED
        BY <4>1, <4>2
    <3>4. f[lo] = NewBucket(Start(s[lo + 1].at, res), res)
      BY <2>4, <3>2 DEF MadeBy
    <3> HIDE DEF f, lo
    <3>5. MadeBy(f, n, s, lo, i, P, res)
      BY <3>2, <3>3, <3>4 DEF MadeBy
    <3>6. lo < i
      BY <3>1
    <3>7. Made(n, s, lo, i, P, res)
      BY <3>5, <3>6 DEF Made
    <3> QED
      BY <3>7 DEF lo
  <2>6. /\ c \in [0..L -> 0..i] /\ c[0] = 0 /\ c[L] = i
        /\ \A k \in 0..L - 1 : c[k] = b[k]
    BY <1>2, <1>3, <2>1
  <2> HIDE DEF c, n, new
  <2>7. ASSUME NEW k \in 1..L
        PROVE  /\ Made(new[k], s, c[k - 1], c[k], P, res)
               /\ k > 1 => Start(s[c[k - 1]].at, res) # Start(s[c[k - 1] + 1].at, res)
    <3>1. k - 1 \in 0..L - 1 /\ c[k - 1] = b[k - 1]
      BY <1>2, <2>6
    <3>2. CASE k = L
      BY <1>3, <2>3, <2>5, <2>6, <3>1, <3>2
    <3>3. CASE k # L
      <4>1. k \in 1..L - 1 /\ k \in 0..L - 1
        BY <1>2, <3>3
      <4> QED
        BY <1>3, <2>3, <2>6, <3>1, <4>1
    <3> QED
      BY <3>2, <3>3
  <2>8. TierBy(c, new, s, 0, i, P, res)
    BY <2>3, <2>6, <2>7 DEF TierBy
  <2> QED
    BY <1>4, <2>8 DEF TierOf, new
<1>7. CASE ~(out # <<>> /\ Last(out).start = t)
  <2> DEFINE fresh == NewBucket(t, res)
             n == AddSample(fresh, s, i, P[i])
             c == [k \in 0..L + 1 |-> IF k = L + 1 THEN i ELSE b[k]]
  <2>1. new = Append(out, n)
    BY <1>7 DEF Grown
  <2>2. Len(new) = L + 1 /\ new[L + 1] = n /\ \A k \in 1..L : new[k] = out[k]
    BY <1>2, <2>1
  <2>3. Made(n, s, i - 1, i, P, res)
    <3> DEFINE f == [j \in i - 1..i |-> IF j = i THEN n ELSE fresh]
    <3>1. i - 1 \in i - 1..i /\ i \in i - 1..i /\ i - 1 # i /\ (i - 1) + 1 = i /\ i - 1 < i
      OBVIOUS
    <3>2. f[i - 1] = fresh /\ f[i] = n
      BY <3>1
    <3>3. \A j \in (i - 1) + 1..i : j = i
      OBVIOUS
    <3> HIDE DEF f
    <3>4. MadeBy(f, n, s, i - 1, i, P, res)
      BY <3>1, <3>2, <3>3 DEF MadeBy
    <3> QED
      BY <3>1, <3>4 DEF Made
  <2>4. /\ c \in [0..L + 1 -> 0..i] /\ c[0] = 0 /\ c[L + 1] = i
        /\ \A k \in 0..L : c[k] = b[k]
    BY <1>2, <1>3
  <2>5. L > 0 => Start(s[i - 1].at, res) # t
    <3> SUFFICES ASSUME L > 0 PROVE Start(s[i - 1].at, res) # t
      OBVIOUS
    <3>1. out # <<>> /\ Last(out) = out[L]
      BY <1>2 DEF Last
    <3> QED
      BY <1>5, <1>7, <3>1
  <2> HIDE DEF c, n, new
  <2>6. ASSUME NEW k \in 1..L + 1
        PROVE  /\ Made(new[k], s, c[k - 1], c[k], P, res)
               /\ k > 1 => Start(s[c[k - 1]].at, res) # Start(s[c[k - 1] + 1].at, res)
    <3>1. k - 1 \in 0..L /\ c[k - 1] = b[k - 1]
      BY <1>2, <2>4
    <3>2. CASE k = L + 1
      <4>1. k - 1 = L /\ b[L] = i - 1 /\ (i - 1) + 1 = i /\ (k > 1 => L > 0)
        BY <1>2, <1>3, <3>2
      <4> QED
        BY <2>2, <2>3, <2>4, <2>5, <3>1, <3>2, <4>1
    <3>3. CASE k # L + 1
      <4>1. k \in 1..L /\ k \in 0..L
        BY <1>2, <3>3
      <4> QED
        BY <1>3, <2>2, <2>4, <3>1, <4>1
    <3> QED
      BY <3>2, <3>3
  <2>7. TierBy(c, new, s, 0, i, P, res)
    BY <2>2, <2>4, <2>6 DEF TierBy
  <2> QED
    BY <1>4, <2>7 DEF TierOf, new
<1> QED
  BY <1>6, <1>7

(* Build makes a tier of the samples it is given.                          *)
LEMMA BuildTier ==
  ASSUME NEW s, IsSeries(s), NEW res \in Nat \ {0}, NEW previous \in Previouses
  PROVE  TierOf(Build(s, res, previous), s, 0, Len(s),
                [i \in 1..Len(s) |-> IF i = 1 THEN previous ELSE <<s[i - 1]>>], res)
<1> DEFINE n == Len(s)
           P == [i \in 1..n |-> IF i = 1 THEN previous ELSE <<s[i - 1]>>]
<1>1. n \in Nat
  BY DEF IsSeries
<1>2. \A i \in 1..n : P[i] \in Previouses
  <2>1. ASSUME NEW i \in 1..n, i # 1 PROVE s[i - 1] \in RawSample
    <3>1. i - 1 \in 1..n
      BY <1>1, <2>1
    <3> QED
      BY <3>1, SampleFields
  <2> QED
    BY <2>1 DEF Previouses
<1>3. PICK h : /\ h[0] = <<>> /\ Build(s, res, previous) = h[n]
               /\ \A i \in 1..n :
                     h[i] = Grown(h[i - 1], s, i, res, IF i = 1 THEN previous ELSE <<s[i - 1]>>)
  BY BuildSteps
<1>4. \A i \in 1..n : h[i] = Grown(h[i - 1], s, i, res, P[i])
  BY <1>3
<1> DEFINE T == {i \in 0..n : TierOf(h[i], s, 0, i, P, res)}
<1> HIDE DEF P, n
<1>5. 0 \in T
  <2> DEFINE b == [k \in 0..0 |-> 0]
  <2>1. b \in [0..0 -> 0..0] /\ b[0] = 0 /\ Len(<<>>) = 0 /\ <<>> \in Seq(Buckets(res))
    OBVIOUS
  <2> HIDE DEF b
  <2>2. \A k \in 1..0 : FALSE
    OBVIOUS
  <2>3. TierBy(b, <<>>, s, 0, 0, P, res)
    BY <2>1, <2>2 DEF TierBy
  <2>4. TierOf(h[0], s, 0, 0, P, res)
    BY <1>3, <2>1, <2>3 DEF TierOf
  <2> QED
    BY <1>1, <2>4
<1>6. ASSUME NEW i \in 0 + 1..n, i - 1 \in T PROVE i \in T
  <2>1. i \in 1..Len(s) /\ i \in 0..n /\ i \in 1..n
    BY <1>1 DEF n
  <2>2. TierOf(h[i - 1], s, 0, i - 1, P, res) /\ \A j \in 1..i : P[j] \in Previouses
    BY <1>1, <1>2, <1>6, <2>1
  <2>3. TierOf(Grown(h[i - 1], s, i, res, P[i]), s, 0, i, P, res)
    BY <2>1, <2>2, TierGrows
  <2> QED
    BY <1>4, <2>1, <2>3
<1>7. n \in T
  <2> HIDE DEF T
  <2>1. \A i \in 0..n : i \in T
    BY <1>1, <1>5, <1>6, Upward
  <2> QED
    BY <1>1, <2>1
<1>8. TierOf(Build(s, res, previous), s, 0, n, P, res)
  BY <1>3, <1>7
<1> QED
  BY <1>8 DEF P, n

-----------------------------------------------------------------------------
(* A bucket of a stretch of the series is one of the series.               *)
LEMMA MadeShift ==
  ASSUME NEW s, IsSeries(s), NEW t, NEW lo, NEW hi, IsSlice(t, s, lo, hi), NEW res \in Nat \ {0},
         NEW l \in Nat, NEW h \in Nat, h <= hi - lo, NEW Q, \A i \in l + 1..h : Q[i] \in Previouses,
         NEW x, Made(x, t, l, h, Q, res),
         h < hi - lo \/ lo + h = Len(s) \/ s[lo + h + 1].at >= x.end,
         NEW P, \A i \in l + 1..h : P[lo + i] = Q[i]
  PROVE  Made(x, s, lo + l, lo + h, P, res)
<1>1. IsSeries(t) /\ Len(t) = hi - lo /\ hi - lo \in Nat
  BY SliceSeries
<1>2. lo \in Nat /\ hi \in Nat /\ l < h /\ \A i \in l + 1..h : i \in 1..hi - lo /\ t[i] = s[lo + i]
  BY DEF IsSlice, Made
<1>3. PICK g : MadeBy(g, x, t, l, h, Q, res)
  BY DEF Made
<1>4. \A i \in l..h : /\ Clean(g[i]) /\ g[i].start = Start(t[l + 1].at, res)
                      /\ g[i].end = g[i].start + res
  <2>1. h <= Len(t) /\ l < h /\ IsSeries(t) /\ \A i \in l + 1..h : Q[i] \in Previouses
    BY <1>1, <1>2
  <2>2. \A i \in l..h : /\ Clean(g[i]) /\ g[i].start = Start(t[l + 1].at, res)
                         /\ g[i].end = g[i].start + res
                         /\ \A j \in l + 1..h : g[i].start <= t[j].at /\ t[j].at < g[i].end
    BY ONLY <1>3, <2>1, l \in Nat, h \in Nat, res \in Nat \ {0}, StepsClean
  <2> QED
    BY <2>2
<1>5. x = g[h] /\ \A i \in l..h : g[i] \in Bucket(Flags) /\ g[i].end = x.end
  <2>1. h \in l..h /\ x = g[h]
    BY <1>2, <1>3 DEF MadeBy
  <2> QED
    BY <1>4, <2>1 DEF Clean
<1> DEFINE f == [j \in lo + l..lo + h |-> g[j - lo]]
<1>6. ASSUME NEW i \in l + 1..h
      PROVE  g[i] = AddSample(g[i - 1], s, lo + i, P[lo + i])
  <2>1. i - 1 \in l..h /\ i \in 1..hi - lo
    BY <1>2
  <2>2. g[i - 1] \in Bucket(Flags) /\ g[i - 1].end = x.end
    BY <1>5, <2>1
  <2>3. i < hi - lo \/ lo + i = Len(s) \/ s[lo + i + 1].at >= x.end
    <3>1. CASE i = h
      BY <3>1
    <3>2. CASE i # h
      BY <1>1, <1>2, <3>2
    <3> QED
      BY <3>1, <3>2
  <2>4. AddSample(g[i - 1], t, i, Q[i]) = AddSample(g[i - 1], s, lo + i, Q[i])
    BY <2>1, <2>2, <2>3, AddOfSlice
  <2>5. g[i] = AddSample(g[i - 1], t, i, Q[i])
    BY <1>3 DEF MadeBy
  <2> QED
    BY <2>4, <2>5
<1>7. l + 1 \in l + 1..h /\ t[l + 1] = s[(lo + l) + 1] /\ g[l] = NewBucket(Start(t[l + 1].at, res), res)
  <2>1. l + 1 \in l + 1..h /\ lo + (l + 1) = (lo + l) + 1
    BY <1>2, SMTT(30)
  <2> QED
    BY <1>2, <1>3, <2>1 DEF MadeBy
<1>8. f[lo + l] = g[l] /\ f[lo + h] = x
  <2>1. lo + l \in lo + l..lo + h /\ lo + h \in lo + l..lo + h /\ (lo + l) - lo = l /\ (lo + h) - lo = h
    <3>1. lo \in Nat /\ l < h
      BY <1>2
    <3> QED
      BY ONLY <3>1, l \in Nat, h \in Nat
  <2> QED
    BY <1>5, <2>1
<1>9. ASSUME NEW j \in (lo + l) + 1..lo + h
      PROVE  Start(s[j].at, res) = Start(s[(lo + l) + 1].at, res) /\ f[j] = AddSample(f[j - 1], s, j, P[j])
  <2>1. PICK i \in l + 1..h : i = j - lo /\ lo + i = j
    <3>1. j - lo \in l + 1..h /\ lo + (j - lo) = j
      BY <1>2
    <3> QED
      BY <3>1
  <2>2. j \in lo + l..lo + h /\ j - 1 \in lo + l..lo + h /\ (j - 1) - lo = i - 1
    BY <1>2, <2>1
  <2>3. f[j] = g[i] /\ f[j - 1] = g[i - 1]
    BY <2>1, <2>2
  <2>4. Start(t[i].at, res) = Start(t[l + 1].at, res) /\ t[i] = s[j]
    BY <1>2, <1>3, <2>1 DEF MadeBy
  <2> HIDE DEF f
  <2> QED
    BY <1>6, <1>7, <2>1, <2>3, <2>4
<1> HIDE DEF f
<1>10. MadeBy(f, x, s, lo + l, lo + h, P, res)
  BY <1>7, <1>8, <1>9 DEF MadeBy
<1>11. lo + l < lo + h
  BY <1>2
<1> QED
  BY <1>10, <1>11 DEF Made

(* A tier of a stretch is one of the series, unless the stretch ends in    *)
(* the middle of a bucket.                                                 *)
LEMMA TierShift ==
  ASSUME NEW s, IsSeries(s), NEW t, NEW lo, NEW hi, IsSlice(t, s, lo, hi), NEW res \in Nat \ {0},
         NEW h \in Nat, h <= hi - lo, NEW Q, \A i \in 1..h : Q[i] \in Previouses,
         NEW tier, TierOf(tier, t, 0, h, Q, res),
         h < hi - lo \/ lo + h = Len(s) \/ \A x \in ToSet(tier) : s[lo + h + 1].at >= x.end,
         NEW P, \A i \in 1..h : P[lo + i] = Q[i]
  PROVE  TierOf(tier, s, lo, lo + h, P, res)
<1>1. lo \in Nat /\ hi \in Nat /\ tier \in Seq(Buckets(res)) /\ Len(tier) \in Nat
      /\ \A i \in 1..hi - lo : t[i] = s[lo + i]
  BY DEF IsSlice, TierOf
<1>2. PICK b : TierBy(b, tier, t, 0, h, Q, res)
  BY DEF TierOf
<1> DEFINE L == Len(tier)
           c == [k \in 0..L |-> lo + b[k]]
<1>3. b \in [0..L -> 0..h] /\ b[0] = 0 /\ b[L] = h
  BY <1>2 DEF TierBy
<1>4. c \in [0..L -> lo..lo + h] /\ c[0] = lo /\ c[L] = lo + h /\ \A k \in 0..L : c[k] = lo + b[k]
  <2>1. 0 \in 0..L /\ L \in 0..L /\ \A k \in 0..L : lo + b[k] \in lo..lo + h
    BY <1>1, <1>3, SMTT(30)
  <2> QED
    BY <1>1, <1>3, <2>1
<1>5. ASSUME NEW k \in 1..L
      PROVE  /\ Made(tier[k], s, c[k - 1], c[k], P, res)
             /\ k > 1 => Start(s[c[k - 1]].at, res) # Start(s[c[k - 1] + 1].at, res)
  <2>1. k - 1 \in 0..L /\ k \in 0..L
    BY <1>1
  <2> DEFINE l == b[k - 1]
             e == b[k]
             x == tier[k]
  <2>2. l \in 0..h /\ e \in 0..h /\ c[k - 1] = lo + l /\ c[k] = lo + e
    BY <1>3, <1>4, <2>1
  <2>3. Made(x, t, l, e, Q, res) /\ (k > 1 => Start(t[l].at, res) # Start(t[l + 1].at, res))
    BY <1>2 DEF TierBy
  <2>4. x \in ToSet(tier)
    BY DEF ToSet
  <2> HIDE DEF l, e, x, c
  <2>5. l < e
    BY <2>3 DEF Made
  <2>6. e < hi - lo \/ lo + e = Len(s) \/ s[lo + e + 1].at >= x.end
    <3>1. CASE e = h
      BY <2>4, <3>1
    <3>2. CASE e # h
      BY <1>1, <2>2, <3>2, SMTT(30)
    <3> QED
      BY <3>1, <3>2
  <2>7. /\ e <= hi - lo /\ (\A i \in l + 1..e : Q[i] \in Previouses /\ P[lo + i] = Q[i])
        /\ l \in Nat /\ e \in Nat
    BY <1>1, <2>2
  <2>8. Made(x, s, lo + l, lo + e, P, res)
    BY <2>3, <2>6, <2>7, MadeShift, ZenonT(60)
  <2>9. k > 1 => l # 0
    <3> SUFFICES ASSUME k > 1, l = 0 PROVE FALSE
      OBVIOUS
    <3> DEFINE m == b[k - 2]
    <3>1. k - 1 \in 1..L /\ (k - 1) - 1 = k - 2 /\ k - 2 \in 0..L
      BY <1>1
    <3>2. Made(tier[k - 1], t, m, l, Q, res) /\ m \in 0..h
      BY <1>2, <1>3, <3>1 DEF TierBy, l
    <3>3. m < l
      BY <3>2 DEF Made
    <3> QED
      BY <3>2, <3>3
  <2>10. k > 1 => Start(s[lo + l].at, res) # Start(s[(lo + l) + 1].at, res)
    <3> SUFFICES ASSUME k > 1 PROVE Start(s[lo + l].at, res) # Start(s[(lo + l) + 1].at, res)
      OBVIOUS
    <3>1. l \in 1..hi - lo /\ l + 1 \in 1..hi - lo /\ lo + (l + 1) = (lo + l) + 1
      BY <1>1, <2>2, <2>5, <2>7, <2>9
    <3>2. t[l] = s[lo + l] /\ t[l + 1] = s[(lo + l) + 1]
      BY <1>1, <3>1, SMTT(30)
    <3> QED
      BY <2>3, <3>2
  <2> QED
    BY <2>2, <2>8, <2>10 DEF x
<1> HIDE DEF c
<1>6. TierBy(c, tier, s, lo, lo + h, P, res)
  BY <1>4, <1>5 DEF TierBy
<1> QED
  BY <1>1, <1>6 DEF TierOf

(* Two tiers in a row are one, if no bucket lies on both sides.            *)
LEMMA TierJoin ==
  ASSUME NEW s, IsSeries(s), NEW res \in Nat \ {0}, NEW P,
         NEW lo \in Nat, NEW m \in Nat, NEW hi \in Nat, hi <= Len(s),
         NEW A, TierOf(A, s, lo, m, P, res), NEW B, TierOf(B, s, m, hi, P, res),
         lo < m /\ m < hi => Start(s[m].at, res) # Start(s[m + 1].at, res)
  PROVE  TierOf(A \o B, s, lo, hi, P, res)
<1>1. A \in Seq(Buckets(res)) /\ B \in Seq(Buckets(res)) /\ Len(A) \in Nat /\ Len(B) \in Nat
  BY DEF TierOf
<1>2. PICK a : TierBy(a, A, s, lo, m, P, res)
  BY DEF TierOf
<1>3. PICK b : TierBy(b, B, s, m, hi, P, res)
  BY DEF TierOf
<1> DEFINE M == Len(A)
           N == Len(B)
           C == A \o B
           c == [k \in 0..M + N |-> IF k <= M THEN a[k] ELSE b[k - M]]
<1>4. a \in [0..M -> lo..m] /\ a[0] = lo /\ a[M] = m /\ b \in [0..N -> m..hi] /\ b[0] = m /\ b[N] = hi
  BY <1>2, <1>3 DEF TierBy
<1>5. /\ C \in Seq(Buckets(res)) /\ Len(C) = M + N
      /\ \A k \in 1..M : C[k] = A[k]
      /\ \A k \in M + 1..M + N : C[k] = B[k - M]
  BY <1>1
<1>6. lo <= m /\ m <= hi
  <2>1. M \in 0..M /\ N \in 0..N
    BY <1>1
  <2> QED
    BY <1>4, <2>1
<1>7. /\ \A k \in 0..M : c[k] = a[k]
      /\ \A k \in M..M + N : c[k] = b[k - M]
  <2>1. \A k \in 0..M : c[k] = a[k]
    BY <1>1
  <2>2. ASSUME NEW k \in M..M + N PROVE c[k] = b[k - M]
    <3>1. CASE k = M
      BY <1>1, <1>4, <3>1
    <3>2. CASE k # M
      BY <1>1, <3>2
    <3> QED
      BY <3>1, <3>2
  <2> QED
    BY <2>1, <2>2
<1>8. c \in [0..M + N -> lo..hi]
  <2>1. ASSUME NEW k \in 0..M + N PROVE c[k] \in lo..hi
    <3>1. CASE k <= M
      <4>1. k \in 0..M
        BY <1>1, <3>1
      <4>2. a[k] \in lo..m /\ c[k] = a[k]
        BY <1>4, <1>7, <4>1
      <4> HIDE DEF c
      <4> QED
        BY <1>6, <4>2
    <3>2. CASE ~(k <= M)
      <4>1. k \in M..M + N /\ k - M \in 0..N
        BY <1>1, <3>2
      <4>2. b[k - M] \in m..hi /\ c[k] = b[k - M]
        BY <1>4, <1>7, <4>1
      <4> HIDE DEF c
      <4> QED
        BY <1>6, <4>2
    <3> QED
      BY <3>1, <3>2
  <2> QED
    BY <2>1
<1> HIDE DEF c, C
<1>9. c[0] = lo /\ c[M + N] = hi
  <2>1. 0 \in 0..M /\ M + N \in M..M + N /\ (M + N) - M = N
    BY <1>1
  <2> QED
    BY <1>4, <1>7, <2>1
<1>10. ASSUME NEW k \in 1..M + N
       PROVE  /\ Made(C[k], s, c[k - 1], c[k], P, res)
              /\ k > 1 => Start(s[c[k - 1]].at, res) # Start(s[c[k - 1] + 1].at, res)
  <2>1. CASE k <= M
    <3>1. k \in 1..M /\ k - 1 \in 0..M /\ k \in 0..M
      BY <1>1, <2>1
    <3>2. C[k] = A[k] /\ c[k - 1] = a[k - 1] /\ c[k] = a[k]
      BY <1>5, <1>7, <3>1
    <3> QED
      BY <1>2, <3>1, <3>2 DEF TierBy
  <2>2. CASE ~(k <= M)
    <3>1. k - M \in 1..N /\ k - 1 \in M..M + N /\ k \in M..M + N /\ (k - 1) - M = (k - M) - 1 /\ k \in M + 1..M + N
      BY <1>1, <2>2
    <3>2. C[k] = B[k - M] /\ c[k - 1] = b[(k - M) - 1] /\ c[k] = b[k - M]
      BY <1>5, <1>7, <3>1
    <3>3. /\ Made(B[k - M], s, b[(k - M) - 1], b[k - M], P, res)
          /\ k - M > 1 => Start(s[b[(k - M) - 1]].at, res) # Start(s[b[(k - M) - 1] + 1].at, res)
      BY <1>3, <3>1 DEF TierBy
    <3>4. CASE k - M > 1
      BY <3>2, <3>3, <3>4
    <3>5. CASE ~(k - M > 1)
      <4>1. k - M = 1 /\ (k - M) - 1 = 0
        BY <3>1, <3>5
      <4>2. c[k - 1] = m /\ m < hi
        <5>1. c[k - 1] = m /\ m < b[k - M]
          BY <1>4, <3>2, <3>3, <4>1 DEF Made
        <5>2. k - M \in 0..N
          BY <3>1
        <5>3. b[k - M] \in m..hi
          BY <1>4, <5>2
        <5> QED
          BY <5>1, <5>3
      <4>3. k > 1 => lo < m
        <5> SUFFICES ASSUME k > 1 PROVE lo < m
          OBVIOUS
        <5>1. M \in 1..M /\ M - 1 \in 0..M
          BY <1>1, <4>1
        <5>2. a[M - 1] < m /\ a[M - 1] \in lo..m
          BY <1>2, <1>4, <5>1 DEF TierBy, Made
        <5> QED
          BY <5>2
      <4> QED
        BY <3>2, <3>3, <4>2, <4>3
    <3> QED
      BY <3>4, <3>5
  <2> QED
    BY <2>1, <2>2
<1>11. TierBy(c, C, s, lo, hi, P, res)
  BY <1>5, <1>8, <1>9, <1>10 DEF TierBy
<1> QED
  BY <1>5, <1>11 DEF TierOf, C

-----------------------------------------------------------------------------
(* The extremes after a value has been added.                              *)
LEMMA AddFields ==
  ASSUME NEW st \in Stat, st = NoStat \/ Observations(st) # 0,
         NEW v \in Nat, NEW at \in Nat, NEW w \in Nat, NEW n, n = AddStat(st, v, at, w)
  PROVE  /\ Observations(n) = Observations(st) + 1 /\ n.lastAt = at
         /\ n.min = (IF Observations(st) = 0 \/ v < st.min THEN v ELSE st.min)
         /\ n.minAt = (IF Observations(st) = 0 \/ v < st.min THEN at ELSE st.minAt)
         /\ n.max = (IF Observations(st) = 0 \/ v > st.max THEN v ELSE st.max)
         /\ n.maxAt = (IF Observations(st) = 0 \/ v > st.max THEN at ELSE st.maxAt)
<1>1. CASE st = NoStat
  <2>1. n = [sum |-> v * w, weight |-> w, first |-> v, last |-> v, min |-> v, max |-> v,
             firstAt |-> at, lastAt |-> at, minAt |-> at, maxAt |-> at,
             zero |-> IF v = 0 THEN 1 ELSE 0, positive |-> IF v = 0 THEN 0 ELSE 1]
    BY <1>1, AddFirst, ZenonT(60)
  <2>2. /\ n.lastAt = at /\ n.min = v /\ n.minAt = at /\ n.max = v /\ n.maxAt = at
        /\ n.zero = (IF v = 0 THEN 1 ELSE 0) /\ n.positive = (IF v = 0 THEN 0 ELSE 1)
    BY <2>1
  <2>3. st.zero = 0 /\ st.positive = 0
    BY <1>1 DEF NoStat
  <2> QED
    BY <2>2, <2>3 DEF Observations
<1>2. CASE Observations(st) # 0
  <2>1. n = [sum |-> st.sum + v * w, weight |-> st.weight + w,
             first |-> st.first, last |-> v,
             min |-> IF v < st.min THEN v ELSE st.min,
             max |-> IF v > st.max THEN v ELSE st.max,
             firstAt |-> st.firstAt, lastAt |-> at,
             minAt |-> IF v < st.min THEN at ELSE st.minAt,
             maxAt |-> IF v > st.max THEN at ELSE st.maxAt,
             zero |-> IF v = 0 THEN st.zero + 1 ELSE st.zero,
             positive |-> IF v = 0 THEN st.positive ELSE st.positive + 1]
    BY <1>2, AddIs, ZenonT(60)
  <2>2. /\ n.lastAt = at
        /\ n.min = (IF v < st.min THEN v ELSE st.min) /\ n.minAt = (IF v < st.min THEN at ELSE st.minAt)
        /\ n.max = (IF v > st.max THEN v ELSE st.max) /\ n.maxAt = (IF v > st.max THEN at ELSE st.maxAt)
        /\ n.zero = (IF v = 0 THEN st.zero + 1 ELSE st.zero)
        /\ n.positive = (IF v = 0 THEN st.positive ELSE st.positive + 1)
    BY <2>1
  <2>3. st.zero \in Nat /\ st.positive \in Nat
    BY DEF Stat
  <2> HIDE <1>2
  <2>4. Observations(n) = Observations(st) + 1
    BY <2>2, <2>3 DEF Observations
  <2> QED
    BY <1>2, <2>2, <2>4
<1> QED
  BY <1>1, <1>2

(* The samples lo + 1 .. hi with a speed.                                  *)
Speedy(s, lo, hi) == {i \in lo + 1..hi : "Up" \in s[i].valid}

(* A stat says of them how many there are, and their extremes with the     *)
(* earliest times.                                                         *)
Summary(st, s, lo, hi) ==
  LET U == Speedy(s, lo, hi)
  IN /\ Sound(st) /\ Observations(st) = Cardinality(U)
     /\ Observations(st) = 0 \/ st.lastAt <= s[hi].at
     /\ U # {} => /\ \E i \in U : st.min = s[i].up /\ st.minAt = s[i].at
                  /\ \E i \in U : st.max = s[i].up /\ st.maxAt = s[i].at
     /\ \A i \in U : /\ st.min <= s[i].up /\ s[i].up <= st.max
                     /\ s[i].up = st.min => st.minAt <= s[i].at
                     /\ s[i].up = st.max => st.maxAt <= s[i].at

LEMMA SpeedyFinite ==
  ASSUME NEW s, NEW lo \in Int, NEW hi \in Int
  PROVE  /\ IsFiniteSet(Speedy(s, lo, hi)) /\ Cardinality(Speedy(s, lo, hi)) \in Nat
         /\ Cardinality(Speedy(s, lo, hi)) = 0 <=> Speedy(s, lo, hi) = {}
<1>1. IsFiniteSet(lo + 1..hi)
  BY FS_Interval
<1>2. Speedy(s, lo, hi) \in SUBSET (lo + 1..hi)
  BY DEF Speedy
<1>3. IsFiniteSet(Speedy(s, lo, hi))
  BY <1>1, <1>2, FS_Subset
<1> QED
  BY <1>3, FS_CardinalityType, FS_EmptySet

LEMMA SummaryNone ==
  ASSUME NEW s, NEW lo \in Nat
  PROVE  Summary(NoStat, s, lo, lo)
<1>1. Speedy(s, lo, lo) = {}
  BY DEF Speedy
<1>2. NoStat \in Stat /\ Observations(NoStat) = 0
  BY DEF NoStat, Stat, Observations
<1>3. Cardinality({}) = 0
  BY FS_EmptySet
<1> QED
  BY <1>1, <1>2, <1>3 DEF Summary, Sound

LEMMA SummaryStep ==
  ASSUME NEW s, IsSeries(s), NEW i \in 1..Len(s), NEW lo \in 0..i - 1,
         NEW st, Summary(st, s, lo, i - 1), NEW w \in Nat
  PROVE  Summary(IF "Up" \in s[i].valid THEN AddStat(st, s[i].up, s[i].at, w) ELSE st, s, lo, i)
<1> DEFINE U == Speedy(s, lo, i - 1)
           V == Speedy(s, lo, i)
           n == AddStat(st, s[i].up, s[i].at, w)
<1>1. /\ s[i].up \in Nat /\ s[i].at \in Nat /\ Len(s) \in Nat
      /\ \A j \in U : j \in 1..Len(s) /\ s[j].up \in Nat /\ s[j].at \in Nat /\ s[j].at < s[i].at
  <2>1. Len(s) \in Nat /\ \A j \in U : j \in 1..Len(s) /\ j < i
    BY DEF Speedy, IsSeries
  <2>2. \A j \in U : s[j].at < s[i].at
    BY <2>1 DEF IsSeries
  <2> QED
    BY <2>1, <2>2, SampleFields
<1>2. /\ Sound(st) /\ Observations(st) = Cardinality(U) /\ (Observations(st) = 0 <=> U = {})
      /\ st \in Stat /\ (st = NoStat \/ Observations(st) # 0)
  BY SpeedyFinite DEF Summary, Sound
<1>3. Observations(st) = 0 \/ st.lastAt <= s[i].at
  <2> SUFFICES ASSUME Observations(st) # 0 PROVE st.lastAt <= s[i].at
    OBVIOUS
  <2>1. PICK j \in U : TRUE
    BY <1>2
  <2>2. i - 1 \in 1..Len(s) /\ i - 1 < i
    BY <1>1, <2>1 DEF Speedy
  <2>3. s[i - 1].at < s[i].at /\ s[i - 1].at \in Nat
    BY <2>2, SampleFields DEF IsSeries
  <2>4. st.lastAt \in Nat /\ st.lastAt <= s[i - 1].at
    BY <1>2 DEF Summary, Stat
  <2> QED
    BY <1>1, <2>3, <2>4
<1>4. CASE "Up" \notin s[i].valid
  <2>1. V = U
    BY <1>4 DEF Speedy
  <2> HIDE DEF U, V
  <2> QED
    BY <1>2, <1>3, <1>4, <2>1 DEF Summary, U, V
<1>5. CASE "Up" \in s[i].valid
  <2>1. V = U \cup {i} /\ i \notin U
    BY <1>5 DEF Speedy
  <2>2. Cardinality(V) = Cardinality(U) + 1
    <3>1. IsFiniteSet(U)
      BY SpeedyFinite
    <3> HIDE DEF U, V
    <3> QED
      BY <2>1, <3>1, FS_AddElement
  <2>3. Sound(n)
    BY <1>1, <1>2, <1>3, AddSound
  <2>4. /\ Observations(n) = Observations(st) + 1 /\ n.lastAt = s[i].at
        /\ n.min = (IF Observations(st) = 0 \/ s[i].up < st.min THEN s[i].up ELSE st.min)
        /\ n.minAt = (IF Observations(st) = 0 \/ s[i].up < st.min THEN s[i].at ELSE st.minAt)
        /\ n.max = (IF Observations(st) = 0 \/ s[i].up > st.max THEN s[i].up ELSE st.max)
        /\ n.maxAt = (IF Observations(st) = 0 \/ s[i].up > st.max THEN s[i].at ELSE st.maxAt)
    <3>1. PICK v \in Nat : v = s[i].up
      BY <1>1
    <3>2. PICK at \in Nat : at = s[i].at
      BY <1>1
    <3>3. n = AddStat(st, v, at, w) /\ st \in Stat /\ (st = NoStat \/ Observations(st) # 0)
      BY <1>2, <3>1, <3>2
    <3> HIDE DEF n
    <3>4. /\ Observations(n) = Observations(st) + 1 /\ n.lastAt = at
          /\ n.min = (IF Observations(st) = 0 \/ v < st.min THEN v ELSE st.min)
          /\ n.minAt = (IF Observations(st) = 0 \/ v < st.min THEN at ELSE st.minAt)
          /\ n.max = (IF Observations(st) = 0 \/ v > st.max THEN v ELSE st.max)
          /\ n.maxAt = (IF Observations(st) = 0 \/ v > st.max THEN at ELSE st.maxAt)
      BY <3>3, AddFields DEF n
    <3> QED
      BY <3>1, <3>2, <3>4
  <2>5. st.min \in Nat /\ st.max \in Nat /\ st.minAt \in Nat /\ st.maxAt \in Nat
    BY <1>2 DEF Stat
  <2> HIDE DEF n, U, V
  <2>6. (\E j \in V : n.min = s[j].up /\ n.minAt = s[j].at) /\ \E j \in V : n.max = s[j].up /\ n.maxAt = s[j].at
    BY <1>2, <2>1, <2>4 DEF Summary, U
  <2>7. ASSUME NEW j \in V
        PROVE  /\ n.min <= s[j].up /\ s[j].up <= n.max
               /\ s[j].up = n.min => n.minAt <= s[j].at
               /\ s[j].up = n.max => n.maxAt <= s[j].at
    <3>1. CASE j = i
      <4>1. s[i].up <= n.max /\ n.min <= s[i].up
        BY <1>1, <2>4, <2>5, <3>1
      <4>2. CASE Observations(st) = 0
        BY <1>1, <2>4, <3>1, <4>2
      <4>3. CASE Observations(st) # 0
        <5>1. PICK a \in U : st.min = s[a].up /\ st.minAt = s[a].at
          BY <1>2, <4>3 DEF Summary, U
        <5>2. PICK b \in U : st.max = s[b].up /\ st.maxAt = s[b].at
          BY <1>2, <4>3 DEF Summary, U
        <5>3. st.minAt <= s[i].at /\ st.maxAt <= s[i].at
          BY <1>1, <5>1, <5>2, SMTT(30)
        <5> QED
          BY <1>1, <2>4, <2>5, <3>1, <4>1, <5>3
      <4> QED
        BY <4>2, <4>3
    <3>2. CASE j \in U
      <4>1. /\ st.min <= s[j].up /\ s[j].up <= st.max
            /\ s[j].up = st.min => st.minAt <= s[j].at
            /\ s[j].up = st.max => st.maxAt <= s[j].at
        BY <3>2 DEF Summary, U
      <4>2. Observations(st) # 0 /\ s[j].up \in Nat /\ s[j].at \in Nat
        BY <1>1, <1>2, <3>2
      <4> QED
        BY <1>1, <2>4, <2>5, <4>1, <4>2, SMTT(30)
    <3> QED
      BY <2>1, <3>1, <3>2
  <2>8. Observations(n) = Cardinality(V) /\ n.lastAt <= s[i].at
    BY <1>1, <1>2, <2>2, <2>4
  <2>9. Summary(n, s, lo, i)
    BY <2>3, <2>6, <2>7, <2>8 DEF Summary, V
  <2> QED
    BY <1>5, <2>9 DEF n
<1> QED
  BY <1>4, <1>5

(* What the series has gained up to each of its samples.                   *)
GainOf(s, i) == IF i = 1 THEN 0 ELSE Observed(s[i], s[i - 1])
Gains(H, s, n) == /\ \A i \in 0..n : H[i] \in Nat
                  /\ H[0] = 0 /\ \A i \in 1..n : H[i] = H[i - 1] + GainOf(s, i)

(* A bucket tells of the samples lo + 1 .. hi.                             *)
Tells(x, s, lo, hi, res) ==
  /\ lo < hi /\ x \in Buckets(res) /\ Summary(x.up, s, lo, hi)
  /\ \A i \in lo + 1..hi : x.start = Start(s[i].at, res)
  /\ \A H : Gains(H, s, hi) => x.uploaded.delta = H[hi] - H[lo]

LEMMA MadeTells ==
  ASSUME NEW s, IsSeries(s), NEW res \in Nat \ {0}, NEW lo \in Nat, NEW hi \in Nat, hi <= Len(s),
         NEW x, Made(x, s, lo, hi, LeftOf(s), res)
  PROVE  Tells(x, s, lo, hi, res)
<1> DEFINE P == LeftOf(s)
<1>1. Len(s) \in Nat /\ \A i \in lo + 1..hi : i \in 1..Len(s) /\ P[i] \in Previouses
                                              /\ Gained(s[i], P[i]) = GainOf(s, i)
  <2>1. Len(s) \in Nat /\ \A i \in lo + 1..hi : i \in 1..Len(s)
    BY DEF IsSeries
  <2> HIDE DEF P
  <2> QED
    BY <2>1, LeftIn DEF P, GainOf
<1> HIDE DEF P
<1>2. Made(x, s, lo, hi, P, res)
  BY DEF P
<1>3. lo < hi /\ x \in Buckets(res) /\ \A i \in lo + 1..hi : x.start = Start(s[i].at, res)
  <2>1. /\ lo < hi /\ x \in Buckets(res) /\ Clean(x) /\ x.end = x.start + res
        /\ \A i \in lo + 1..hi : x.start = Start(s[i].at, res) /\ x.start <= s[i].at /\ s[i].at < x.end
    BY <1>1, <1>2, MadeIs
  <2> QED
    BY <2>1
<1>4. PICK g : MadeBy(g, x, s, lo, hi, P, res)
  BY <1>2 DEF Made
<1>5. \A i \in lo..hi : /\ Clean(g[i]) /\ g[i].start = Start(s[lo + 1].at, res)
                        /\ g[i].end = g[i].start + res
                        /\ \A j \in lo + 1..hi : g[i].start <= s[j].at /\ s[j].at < g[i].end
  BY <1>1, <1>3, <1>4, StepsClean
<1>6. s[lo + 1].at \in Nat /\ g[lo] = NewBucket(Start(s[lo + 1].at, res), res) /\ x = g[hi]
  <2>1. lo + 1 \in lo + 1..hi
    BY <1>3
  <2> QED
    BY <1>1, <1>4, <2>1, SampleFields DEF MadeBy
<1>7. ASSUME NEW i \in lo + 1..hi
      PROVE  \E w \in Nat : /\ g[i].up = IF "Up" \in s[i].valid THEN AddStat(g[i - 1].up, s[i].up, s[i].at, w)
                                         ELSE g[i - 1].up
                            /\ g[i].uploaded.delta = g[i - 1].uploaded.delta + GainOf(s, i)
  <2>1. i - 1 \in lo..hi /\ i \in 1..Len(s) /\ g[i] = AddSample(g[i - 1], s, i, P[i])
    BY <1>1, <1>4 DEF MadeBy
  <2>2. Clean(g[i - 1]) /\ s[i].at < g[i - 1].end
    BY <1>5, <2>1
  <2> DEFINE w == Weight(s, i, g[i - 1].end)
  <2>3. /\ w \in Nat
        /\ g[i].up = IF "Up" \in s[i].valid THEN AddStat(g[i - 1].up, s[i].up, s[i].at, w) ELSE g[i - 1].up
        /\ g[i].uploaded.delta = g[i - 1].uploaded.delta + Gained(s[i], P[i])
    BY <1>1, <2>1, <2>2, AddedIs
  <2> HIDE DEF w
  <2> QED
    BY <1>1, <2>3
<1>8. \A i \in lo..hi : Summary(g[i].up, s, lo, i)
  <2> DEFINE T == {i \in lo..hi : Summary(g[i].up, s, lo, i)}
  <2>1. lo \in T
    <3>1. g[lo].up = NoStat
      BY <1>6, NewIs
    <3> QED
      BY <1>3, <3>1, SummaryNone
  <2>2. ASSUME NEW i \in lo + 1..hi, i - 1 \in T PROVE i \in T
    <3>1. Summary(g[i - 1].up, s, lo, i - 1) /\ lo \in 0..i - 1 /\ i \in lo..hi /\ i \in 1..Len(s)
      BY <1>1, <2>2
    <3>2. PICK w \in Nat : g[i].up = IF "Up" \in s[i].valid
                                     THEN AddStat(g[i - 1].up, s[i].up, s[i].at, w) ELSE g[i - 1].up
      BY <1>7
    <3>3. Summary(g[i].up, s, lo, i)
      BY <3>1, <3>2, SummaryStep
    <3> QED
      BY <3>1, <3>3
  <2> HIDE DEF T
  <2>3. \A i \in lo..hi : i \in T
    BY <2>1, <2>2, Upward
  <2> QED
    BY <2>3 DEF T
<1>9. ASSUME NEW H, Gains(H, s, hi)
      PROVE  x.uploaded.delta = H[hi] - H[lo]
  <2> DEFINE T == {i \in lo..hi : g[i].uploaded.delta = H[i] - H[lo]}
  <2>1. lo \in T
    <3>1. g[lo].uploaded = NoCounter
      BY <1>6, NewIs
    <3>2. g[lo].uploaded.delta = 0
      BY <3>1 DEF NoCounter
    <3>3. H[lo] \in Nat
      BY <1>3, <1>9 DEF Gains
    <3> QED
      BY <1>3, <3>2, <3>3
  <2>2. ASSUME NEW i \in lo + 1..hi, i - 1 \in T PROVE i \in T
    <3>1. g[i].uploaded.delta = g[i - 1].uploaded.delta + GainOf(s, i)
      BY <1>7
    <3>2. i \in 1..hi /\ i \in lo..hi /\ i \in 0..hi /\ i - 1 \in 0..hi /\ lo \in 0..hi
      OBVIOUS
    <3>3. H[i] = H[i - 1] + GainOf(s, i) /\ H[i] \in Nat /\ H[i - 1] \in Nat /\ H[lo] \in Nat
      BY <1>9, <3>2 DEF Gains
    <3>4. g[i - 1].uploaded.delta = H[i - 1] - H[lo]
      BY <2>2
    <3>5. GainOf(s, i) \in Nat
      <4>1. Gained(s[i], P[i]) \in Nat
        BY <1>1, GainIn, SampleFields
      <4> QED
        BY <1>1, <4>1
    <3>6. g[i].uploaded.delta = H[i] - H[lo]
      BY <3>1, <3>3, <3>4, <3>5
    <3> QED
      BY <3>2, <3>6
  <2> HIDE DEF T
  <2>3. \A i \in lo..hi : i \in T
    BY <2>1, <2>2, Upward
  <2>4. hi \in lo..hi
    BY <1>3
  <2> QED
    BY <1>6, <2>3, <2>4 DEF T
<1>10. Summary(x.up, s, lo, hi)
  <2>1. hi \in lo..hi
    BY <1>3
  <2> QED
    BY <1>6, <1>8, <2>1
<1> QED
  BY <1>3, <1>9, <1>10 DEF Tells

-----------------------------------------------------------------------------
(* The summaries of two stretches in a row are merged to that of both.     *)
LEMMA SummaryJoins ==
  ASSUME NEW s, IsSeries(s), NEW lo \in Nat, NEW m \in Nat, NEW hi \in Nat,
         lo < m, m < hi, hi <= Len(s), NEW a, Summary(a, s, lo, m), NEW b, Summary(b, s, m, hi)
  PROVE  Summary(MergeStat(a, b), s, lo, hi)
<1> DEFINE A == Speedy(s, lo, m)
           B == Speedy(s, m, hi)
           U == Speedy(s, lo, hi)
<1>1. /\ Len(s) \in Nat /\ s[m].at \in Nat /\ s[hi].at \in Nat /\ s[m].at < s[hi].at
      /\ \A i \in U : s[i].up \in Nat /\ s[i].at \in Nat
      /\ \A i \in A : s[i].at <= s[m].at
      /\ \A i \in A, j \in B : s[i].at < s[j].at
  <2>1. /\ Len(s) \in Nat /\ m \in 1..Len(s) /\ hi \in 1..Len(s)
        /\ \A i \in U : i \in 1..Len(s)
        /\ \A i \in A : i \in 1..Len(s) /\ i <= m
        /\ \A j \in B : j \in 1..Len(s) /\ m < j
    BY DEF Speedy, IsSeries
  <2>2. \A i \in 1..Len(s) : s[i].up \in Nat /\ s[i].at \in Nat
    BY SampleFields
  <2>3. \A i, j \in 1..Len(s) : i < j => s[i].at < s[j].at
    BY DEF IsSeries
  <2>4. ASSUME NEW i \in A PROVE s[i].at <= s[m].at
    <3>1. i = m \/ i < m
      BY <2>1
    <3> HIDE DEF A
    <3> QED
      BY <2>1, <2>2, <2>3, <3>1
  <2>5. ASSUME NEW i \in A, NEW j \in B PROVE s[i].at < s[j].at
    <3>1. i < j
      BY <2>1
    <3> HIDE DEF A, B
    <3> QED
      BY <2>1, <2>3, <3>1
  <2> HIDE DEF A, B, U
  <2>6. s[m].at < s[hi].at
    BY <2>1, <2>3
  <2> QED
    BY <2>1, <2>2, <2>4, <2>5, <2>6
<1>2. /\ Sound(a) /\ Observations(a) = Cardinality(A) /\ (Observations(a) = 0 <=> A = {}) /\ a \in Stat
      /\ Sound(b) /\ Observations(b) = Cardinality(B) /\ (Observations(b) = 0 <=> B = {}) /\ b \in Stat
  BY SpeedyFinite DEF Summary, Sound
<1>3. U = A \cup B /\ A \cap B = {}
  BY DEF Speedy
<1>4. CASE Observations(a) = 0
  <2>1. MergeStat(a, b) = b /\ U = B
    BY <1>2, <1>3, <1>4 DEF MergeStat
  <2> HIDE DEF U, A, B
  <2>2. Summary(b, s, lo, hi)
    BY <2>1 DEF Summary, U, B
  <2> QED
    BY <2>1, <2>2
<1>5. CASE Observations(a) # 0 /\ Observations(b) = 0
  <2>1. MergeStat(a, b) = a /\ U = A
    BY <1>2, <1>3, <1>5 DEF MergeStat
  <2>2. a.lastAt <= s[hi].at
    <3>1. a.lastAt \in Nat /\ a.lastAt <= s[m].at
      BY <1>2, <1>5 DEF Summary, Stat
    <3> QED
      BY <1>1, <3>1
  <2> HIDE DEF U, A, B
  <2>3. Summary(a, s, lo, hi)
    BY <2>1, <2>2 DEF Summary, U, A
  <2> QED
    BY <2>1, <2>3
<1>6. CASE Observations(a) # 0 /\ Observations(b) # 0
  <2>1. PICK n : n = MergeStat(a, b)
    OBVIOUS
  <2>2. Sound(n) /\ Observations(n) = Observations(a) + Observations(b)
    BY <1>2, <2>1, MergeSound
  <2>3. /\ n.min = (IF b.min < a.min THEN b.min ELSE a.min)
        /\ n.max = (IF b.max > a.max THEN b.max ELSE a.max)
        /\ n.minAt = (IF b.min < a.min THEN b.minAt ELSE a.minAt)
        /\ n.maxAt = (IF b.max > a.max THEN b.maxAt ELSE a.maxAt)
        /\ n.lastAt = (IF b.lastAt > a.lastAt THEN b.lastAt ELSE a.lastAt)
    BY <1>2, <1>6, <2>1, MergeFields
  <2>4. /\ a.min \in Nat /\ a.max \in Nat /\ a.minAt \in Nat /\ a.maxAt \in Nat /\ a.lastAt \in Nat
        /\ b.min \in Nat /\ b.max \in Nat /\ b.minAt \in Nat /\ b.maxAt \in Nat /\ b.lastAt \in Nat
    BY <1>2, StatNumbers
  <2>5. Observations(n) = Cardinality(U)
    <3>1. IsFiniteSet(A) /\ IsFiniteSet(B) /\ Cardinality(A) \in Nat /\ Cardinality(B) \in Nat
      BY SpeedyFinite
    <3> HIDE DEF A, B, U
    <3>2. Cardinality(U) = Cardinality(A) + Cardinality(B) - Cardinality({})
      BY <1>3, <3>1, FS_Union
    <3>3. Cardinality({}) = 0
      BY FS_EmptySet
    <3> QED
      BY <1>2, <2>2, <3>1, <3>2, <3>3
  <2>6. n.lastAt <= s[hi].at
    <3>1. a.lastAt <= s[m].at /\ b.lastAt <= s[hi].at
      BY <1>6 DEF Summary
    <3> QED
      BY <1>1, <2>3, <2>4, <3>1, SMTT(30)
  <2> HIDE DEF A, B, U
  <2>7. /\ \A i \in A : /\ a.min <= s[i].up /\ s[i].up <= a.max
                        /\ s[i].up = a.min => a.minAt <= s[i].at
                        /\ s[i].up = a.max => a.maxAt <= s[i].at
        /\ \A i \in B : /\ b.min <= s[i].up /\ s[i].up <= b.max
                        /\ s[i].up = b.min => b.minAt <= s[i].at
                        /\ s[i].up = b.max => b.maxAt <= s[i].at
    BY DEF Summary, A, B
  <2>8. PICK i1 \in A, i2 \in A : a.min = s[i1].up /\ a.minAt = s[i1].at /\ a.max = s[i2].up /\ a.maxAt = s[i2].at
    BY <1>2, <1>6 DEF Summary, A
  <2>9. PICK j1 \in B, j2 \in B : b.min = s[j1].up /\ b.minAt = s[j1].at /\ b.max = s[j2].up /\ b.maxAt = s[j2].at
    BY <1>2, <1>6 DEF Summary, B
  <2>10. (\E i \in U : n.min = s[i].up /\ n.minAt = s[i].at) /\ \E i \in U : n.max = s[i].up /\ n.maxAt = s[i].at
    BY <1>3, <2>3, <2>8, <2>9
  <2>11. ASSUME NEW i \in U
         PROVE  /\ n.min <= s[i].up /\ s[i].up <= n.max
                /\ s[i].up = n.min => n.minAt <= s[i].at
                /\ s[i].up = n.max => n.maxAt <= s[i].at
    <3>1. s[i].up \in Nat /\ s[i].at \in Nat
      BY <1>1
    <3>2. CASE i \in A
      <4>1. /\ a.min <= s[i].up /\ s[i].up <= a.max
            /\ s[i].up = a.min => a.minAt <= s[i].at
            /\ s[i].up = a.max => a.maxAt <= s[i].at
        BY <2>7, <3>2
      <4>2. n.min <= s[i].up /\ (s[i].up = n.min => n.minAt <= s[i].at)
        <5>1. CASE b.min < a.min
          <6>1. n.min = b.min /\ n.minAt = b.minAt
            BY <2>3, <5>1
          <6> QED
            BY ONLY <2>4, <3>1, <4>1, <5>1, <6>1
        <5>2. CASE ~(b.min < a.min)
          <6>1. n.min = a.min /\ n.minAt = a.minAt
            BY <2>3, <5>2
          <6> QED
            BY ONLY <2>4, <3>1, <4>1, <5>2, <6>1
        <5> QED
          BY <5>1, <5>2
      <4>3. s[i].up <= n.max /\ (s[i].up = n.max => n.maxAt <= s[i].at)
        <5>1. CASE b.max > a.max
          <6>1. n.max = b.max /\ n.maxAt = b.maxAt
            BY <2>3, <5>1
          <6> QED
            BY ONLY <2>4, <3>1, <4>1, <5>1, <6>1
        <5>2. CASE ~(b.max > a.max)
          <6>1. n.max = a.max /\ n.maxAt = a.maxAt
            BY <2>3, <5>2
          <6> QED
            BY ONLY <2>4, <3>1, <4>1, <5>2, <6>1
        <5> QED
          BY <5>1, <5>2
      <4> QED
        BY <4>2, <4>3
    <3>3. CASE i \in B
      <4>1. a.minAt < s[i].at /\ a.maxAt < s[i].at
        BY <1>1, <2>8, <3>3
      <4>2. /\ b.min <= s[i].up /\ s[i].up <= b.max
            /\ s[i].up = b.min => b.minAt <= s[i].at
            /\ s[i].up = b.max => b.maxAt <= s[i].at
        BY <2>7, <3>3
      <4>3. n.min <= s[i].up /\ (s[i].up = n.min => n.minAt <= s[i].at)
        <5>1. CASE b.min < a.min
          <6>1. n.min = b.min /\ n.minAt = b.minAt
            BY <2>3, <5>1
          <6> QED
            BY ONLY <2>4, <3>1, <4>1, <4>2, <5>1, <6>1
        <5>2. CASE ~(b.min < a.min)
          <6>1. n.min = a.min /\ n.minAt = a.minAt
            BY <2>3, <5>2
          <6> QED
            BY ONLY <2>4, <3>1, <4>1, <4>2, <5>2, <6>1
        <5> QED
          BY <5>1, <5>2
      <4>4. s[i].up <= n.max /\ (s[i].up = n.max => n.maxAt <= s[i].at)
        <5>1. CASE b.max > a.max
          <6>1. n.max = b.max /\ n.maxAt = b.maxAt
            BY <2>3, <5>1
          <6> QED
            BY ONLY <2>4, <3>1, <4>1, <4>2, <5>1, <6>1
        <5>2. CASE ~(b.max > a.max)
          <6>1. n.max = a.max /\ n.maxAt = a.maxAt
            BY <2>3, <5>2
          <6> QED
            BY ONLY <2>4, <3>1, <4>1, <4>2, <5>2, <6>1
        <5> QED
          BY <5>1, <5>2
      <4> QED
        BY <4>3, <4>4
    <3> QED
      BY <1>3, <3>2, <3>3
  <2>12. Summary(n, s, lo, hi)
    BY <2>2, <2>5, <2>6, <2>10, <2>11 DEF Summary, U
  <2> QED
    BY <2>1, <2>12
<1> QED
  BY <1>4, <1>5, <1>6

Widened(x) == [x EXCEPT !.start = Start(x.start, Window), !.end = Start(x.start, Window) + Window]

LEMMA WidenedIs ==
  ASSUME NEW x \in Buckets(Minute)
  PROVE  LET n == Widened(x)
         IN /\ n \in Buckets(Window) /\ n.start = Start(x.start, Window) /\ n.up = x.up
            /\ n.uploaded = x.uploaded
<1>1. x \in Bucket(Flags) /\ Clean(x) /\ x.start \in Nat /\ Window \in Nat \ {0}
  BY RollupAssumption DEF Buckets, Bucket
<1> DEFINE t == Start(x.start, Window)
           n == Widened(x)
<1>2. t \in Nat /\ t + Window \in Nat
  BY <1>1, DivMod DEF Start
<1> HIDE DEF t
<1>3. n = [x EXCEPT !.start = t, !.end = t + Window]
  BY DEF Widened, t
<1> HIDE DEF n
<1>4. /\ n \in Bucket(Flags) /\ n.start = t /\ n.end = t + Window /\ n.up = x.up
      /\ n.uploaded = x.uploaded
  BY <1>1, <1>2, <1>3 DEF Bucket
<1>5. Clean(n)
  BY <1>1, <1>4 DEF Clean
<1> QED
  BY <1>4, <1>5 DEF Buckets, n, t

LEMMA TellsWidens ==
  ASSUME NEW s, IsSeries(s), NEW lo \in Nat, NEW hi \in Nat, hi <= Len(s), NEW x, Tells(x, s, lo, hi, Minute)
  PROVE  Tells(Widened(x), s, lo, hi, Window)
<1>1. PICK n : n = Widened(x)
  OBVIOUS
<1>2. /\ n \in Buckets(Window) /\ n.start = Start(x.start, Window) /\ n.up = x.up
      /\ n.uploaded = x.uploaded
  BY <1>1, WidenedIs DEF Tells
<1>3. ASSUME NEW i \in lo + 1..hi PROVE n.start = Start(s[i].at, Window)
  <2>1. i \in 1..Len(s)
    BY DEF IsSeries
  <2>2. s[i].at \in Nat
    BY <2>1, SampleFields
  <2>3. x.start = Start(s[i].at, Minute)
    BY DEF Tells
  <2> QED
    BY <1>2, <2>2, <2>3, WindowOfMinute
<1>4. Tells(n, s, lo, hi, Window)
  BY <1>2, <1>3 DEF Tells
<1> QED
  BY <1>1, <1>4

LEMMA MergedClean ==
  ASSUME NEW a \in Buckets(Window), NEW b \in Buckets(Window), a.start = b.start
  PROVE  LET n == Merge(a, b)
         IN /\ n \in Buckets(Window) /\ n.start = a.start /\ n.up = MergeStat(a.up, b.up)
            /\ n.uploaded.delta = a.uploaded.delta + b.uploaded.delta
<1>1. PICK n : n = Merge(a, b)
  OBVIOUS
<1>2. /\ a \in Bucket(Flags) /\ b \in Bucket(Flags) /\ Clean(a) /\ Clean(b)
      /\ a.end = a.start + Window /\ b.end = b.start + Window /\ a.start \in Nat /\ Window \in Nat
  BY RollupAssumption DEF Buckets, Bucket
<1>3. /\ n \in Bucket(Flags) /\ n.start = a.start /\ n.end = (IF a.end >= b.end THEN a.end ELSE b.end)
      /\ n.up = MergeStat(a.up, b.up) /\ n.uploaded = MergeCounter(a.uploaded, b.uploaded)
  BY <1>1, <1>2, MergedIs
<1>4. n.end = n.start + Window
  BY <1>2, <1>3
<1>6. a.uploaded \in Counter /\ b.uploaded \in Counter /\ a.up \in Stat /\ b.up \in Stat
  BY <1>2 DEF Bucket
<1>7. /\ n.uploaded \in Counter /\ n.uploaded.delta = a.uploaded.delta + b.uploaded.delta
      /\ ~n.uploaded.known => n.uploaded.delta = 0
  <2>1. a.uploaded.delta \in Nat /\ b.uploaded.delta \in Nat
    BY <1>6 DEF Counter
  <2>2. CASE ~a.uploaded.known
    <3>1. n.uploaded = b.uploaded /\ a.uploaded.delta = 0
      BY <1>2, <1>3, <2>2 DEF MergeCounter, Clean
    <3> QED
      BY <1>2, <1>6, <2>1, <3>1 DEF Clean
  <2>3. CASE a.uploaded.known /\ ~b.uploaded.known
    <3>1. n.uploaded = a.uploaded /\ b.uploaded.delta = 0
      BY <1>2, <1>3, <2>3 DEF MergeCounter, Clean
    <3> QED
      BY <1>2, <1>6, <2>1, <3>1 DEF Clean
  <2>4. CASE a.uploaded.known /\ b.uploaded.known
    <3>1. n.uploaded = [first |-> a.uploaded.first, last |-> b.uploaded.last,
                        delta |-> a.uploaded.delta + b.uploaded.delta,
                        duration |-> a.uploaded.duration + b.uploaded.duration,
                        firstAt |-> a.uploaded.firstAt, lastAt |-> b.uploaded.lastAt,
                        known |-> a.uploaded.known, reset |-> a.uploaded.reset \/ b.uploaded.reset]
      BY <1>3, <1>6, <2>4, CounterIs
    <3>2. n.uploaded.delta = a.uploaded.delta + b.uploaded.delta /\ n.uploaded.known
      BY <2>4, <3>1
    <3>3. n.uploaded \in Counter
      BY <1>3, <1>6, CounterIn
    <3> QED
      BY <3>2, <3>3
  <2> QED
    BY <2>2, <2>3, <2>4
<1>8. n.up = NoStat \/ Observations(n.up) # 0
  <2>1. CASE Observations(a.up) = 0
    BY <1>2, <1>3, <2>1 DEF MergeStat, Clean
  <2>2. CASE Observations(a.up) # 0 /\ Observations(b.up) = 0
    BY <1>2, <1>3, <2>2 DEF MergeStat, Clean
  <2>3. CASE Observations(a.up) # 0 /\ Observations(b.up) # 0
    BY <1>3, <1>6, <2>3, MergeFields
  <2> QED
    BY <2>1, <2>2, <2>3
<1>9. n \in Buckets(Window)
  BY <1>3, <1>4, <1>7, <1>8 DEF Buckets, Clean
<1> QED
  BY <1>1, <1>3, <1>7, <1>9

LEMMA TellsMerges ==
  ASSUME NEW s, IsSeries(s), NEW lo \in Nat, NEW m \in Nat, NEW hi \in Nat, hi <= Len(s),
         NEW a, Tells(a, s, lo, m, Window), NEW b, Tells(b, s, m, hi, Window), a.start = b.start
  PROVE  Tells(Merge(a, b), s, lo, hi, Window)
<1>1. PICK n : n = Merge(a, b)
  OBVIOUS
<1>2. lo < m /\ m < hi /\ a \in Buckets(Window) /\ b \in Buckets(Window)
  BY DEF Tells
<1>3. /\ n \in Buckets(Window) /\ n.start = a.start /\ n.up = MergeStat(a.up, b.up)
      /\ n.uploaded.delta = a.uploaded.delta + b.uploaded.delta
  BY <1>1, <1>2, MergedClean
<1>5. Summary(n.up, s, lo, hi)
  BY <1>2, <1>3, SummaryJoins DEF Tells
<1>10. ASSUME NEW i \in lo + 1..hi PROVE n.start = Start(s[i].at, Window)
  <2>1. CASE i <= m
    BY <1>2, <1>3, <2>1 DEF Tells
  <2>2. CASE ~(i <= m)
    BY <1>2, <1>3, <2>2 DEF Tells
  <2> QED
    BY <2>1, <2>2
<1>11. ASSUME NEW H, Gains(H, s, hi) PROVE n.uploaded.delta = H[hi] - H[lo]
  <2>1. Gains(H, s, m)
    BY <1>2, <1>11 DEF Gains
  <2>2. H[lo] \in Nat /\ H[m] \in Nat /\ H[hi] \in Nat
    BY <1>2, <1>11 DEF Gains
  <2>3. a.uploaded.delta = H[m] - H[lo] /\ b.uploaded.delta = H[hi] - H[m]
    BY <1>11, <2>1 DEF Tells
  <2> QED
    BY <1>3, <2>2, <2>3
<1>12. Tells(n, s, lo, hi, Window)
  BY <1>2, <1>3, <1>5, <1>10, <1>11 DEF Tells
<1> QED
  BY <1>1, <1>12

-----------------------------------------------------------------------------
(* ToFive's step for bucket x.                                             *)
FiveGrown(out, x) ==
  IF out # <<>> /\ Last(out).start = Start(x.start, Window)
  THEN [out EXCEPT ![Len(out)] = Merge(@, Widened(x))]
  ELSE Append(out, Widened(x))

LEMMA FiveSteps ==
  ASSUME NEW in \in Seq(Buckets(Minute))
  PROVE  \E h : /\ h[0] = <<>> /\ ToFive(in) = h[Len(in)]
                /\ \A i \in 1..Len(in) : h[i] = FiveGrown(h[i - 1], in[i])
<1> DEFINE n == Len(in)
           V == Seq(Buckets(Window))
           F == [p \in V \X (1..n) |-> FiveGrown(p[1], in[p[2]])]
           E(g) == g = [s \in SUBSET DOMAIN in |->
                          IF s = {} THEN <<>> ELSE FiveGrown(g[s \ {Max(s)}], in[Max(s)])]
<1>1. n \in Nat /\ DOMAIN in = 1..n
  OBVIOUS
<1>2. <<>> \in V /\ F \in [V \X (1..n) -> V]
  <2>1. ASSUME NEW v \in V, NEW x \in Buckets(Minute) PROVE FiveGrown(v, x) \in V
    <3>1. PICK y \in Buckets(Window) : y = Widened(x) /\ y.start = Start(x.start, Window)
      BY WidenedIs
    <3>2. CASE v # <<>> /\ Last(v).start = Start(x.start, Window)
      <4>1. Len(v) \in 1..Len(v) /\ Last(v) = v[Len(v)] /\ v[Len(v)] \in Buckets(Window)
        BY <3>2 DEF Last
      <4>2. Merge(v[Len(v)], y) \in Buckets(Window)
        BY <3>1, <3>2, <4>1, MergedClean
      <4>3. FiveGrown(v, x) = [v EXCEPT ![Len(v)] = Merge(v[Len(v)], y)]
        BY <3>1, <3>2 DEF FiveGrown
      <4> QED
        BY <4>1, <4>2, <4>3
    <3>3. CASE ~(v # <<>> /\ Last(v).start = Start(x.start, Window))
      <4>1. FiveGrown(v, x) = Append(v, y)
        BY <3>1, <3>3 DEF FiveGrown
      <4> QED
        BY <4>1
    <3> QED
      BY <3>2, <3>3
  <2>2. \A i \in 1..n : in[i] \in Buckets(Minute)
    BY <1>1
  <2> HIDE DEF n, V
  <2>3. \A v \in V, i \in 1..n : FiveGrown(v, in[i]) \in V
    BY <2>1, <2>2
  <2> QED
    BY <2>3 DEF V
<1>3. PICK it : Folds(it, V, <<>>, F, n)
  <2> HIDE DEF V, F, n
  <2> QED
    BY <1>1, <1>2, FoldExists
<1>4. ASSUME NEW s \in SUBSET (1..n), s # {} PROVE Max(s) \in 1..n /\ s \ {Max(s)} \in SUBSET (1..n)
  <2> HIDE DEF n
  <2> QED
    BY <1>1, <1>4, MaxOf
<1>5. E(it)
  <2>1. ASSUME NEW s \in SUBSET (1..n), s # {}
        PROVE  it[s] = FiveGrown(it[s \ {Max(s)}], in[Max(s)])
    <3>1. PICK m \in 1..n : m = Max(s)
      BY <1>4, <2>1
    <3>2. PICK v \in V : v = it[s \ {m}]
      BY <1>3, <1>4, <2>1, <3>1 DEF Folds
    <3>3. it[s] = F[<<v, m>>]
      BY <1>3, <2>1, <3>1, <3>2 DEF Folds
    <3>4. F[<<v, m>>] = FiveGrown(v, in[m])
      OBVIOUS
    <3> HIDE DEF F, V, n
    <3> QED
      BY <3>1, <3>2, <3>3, <3>4
  <2> HIDE DEF F, V, n
  <2> QED
    BY <1>1, <1>3, <2>1 DEF Folds
<1>6. PICK ch : ch = (CHOOSE g : E(g)) /\ E(ch)
  <2> HIDE DEF E
  <2> QED
    BY <1>5
<1>7. ToFive(in) = ch[DOMAIN in]
  BY <1>6 DEF ToFive, FiveGrown, Widened, FoldLeft, MapThenFoldSet
<1>8. ASSUME NEW i \in 1..n PROVE ch[1..i] = FiveGrown(ch[1..i - 1], in[i])
  <2>1. Max(1..i) = i /\ (1..i) \ {i} = 1..i - 1 /\ 1..i \in SUBSET (1..n) /\ 1..i # {}
    BY PrefixMax
  <2> HIDE DEF n
  <2>3. ch[1..i] = IF 1..i = {} THEN <<>> ELSE FiveGrown(ch[(1..i) \ {Max(1..i)}], in[Max(1..i)])
    BY <1>1, <1>6, <2>1
  <2> QED
    BY <2>1, <2>3
<1>9. ch[1..0] = <<>>
  <2>1. 1..0 = {} /\ 1..0 \in SUBSET (1..n)
    OBVIOUS
  <2> HIDE DEF n
  <2> QED
    BY <1>6, <1>1, <2>1
<1> DEFINE h == [k \in 0..n |-> ch[1..k]]
<1> HIDE DEF E
<1> QED
  <2>1. h[0] = <<>> /\ h[n] = ch[1..n] /\ \A i \in 1..n : h[i] = ch[1..i] /\ h[i - 1] = ch[1..i - 1]
    BY <1>9, <1>1
  <2> HIDE DEF h
  <2>2. ToFive(in) = h[n]
    BY <1>1, <1>7, <2>1
  <2> QED
    BY <2>1, <2>2, <1>8

(* The minutes of one window become one bucket that tells of all of it.    *)
LEMMA FiveOfWindow ==
  ASSUME NEW s, IsSeries(s), NEW lo \in Nat, NEW hi \in Nat, lo < hi, hi <= Len(s),
         NEW tier, TierOf(tier, s, lo, hi, LeftOf(s), Minute),
         NEW t, \A i \in lo + 1..hi : Start(s[i].at, Window) = t
  PROVE  \E x : ToFive(tier) = <<x>> /\ Tells(x, s, lo, hi, Window)
<1> DEFINE L == Len(tier)
<1>1. tier \in Seq(Buckets(Minute)) /\ L \in Nat /\ Len(s) \in Nat /\ Minute \in Nat \ {0}
  BY RollupAssumption DEF TierOf, IsSeries
<1>2. PICK b : TierBy(b, tier, s, lo, hi, LeftOf(s), Minute)
  BY DEF TierOf
<1>3. PICK h : /\ h[0] = <<>> /\ ToFive(tier) = h[L]
               /\ \A i \in 1..L : h[i] = FiveGrown(h[i - 1], tier[i])
  BY <1>1, FiveSteps
<1>4. b \in [0..L -> lo..hi] /\ b[0] = lo /\ b[L] = hi
  BY <1>2 DEF TierBy
<1>5. ASSUME NEW k \in 1..L
      PROVE  /\ Tells(Widened(tier[k]), s, b[k - 1], b[k], Window)
             /\ b[k - 1] \in lo..hi /\ b[k] \in lo..hi /\ b[k - 1] < b[k]
             /\ Start(tier[k].start, Window) = t /\ Widened(tier[k]).start = t
  <2>1. b[k - 1] \in lo..hi /\ b[k] \in lo..hi
    <3>1. k - 1 \in 0..L /\ k \in 0..L
      BY <1>1
    <3> QED
      BY <1>4, <3>1
  <2>2. Made(tier[k], s, b[k - 1], b[k], LeftOf(s), Minute)
    BY <1>2 DEF TierBy
  <2> DEFINE l == b[k - 1]
             e == b[k]
             x == tier[k]
  <2>3. l \in Nat /\ e \in Nat /\ e <= Len(s)
    BY <1>1, <2>1
  <2> HIDE DEF l, e, x, L
  <2>4. Tells(x, s, l, e, Minute)
    BY <1>1, <2>2, <2>3, MadeTells DEF l, e, x
  <2>5. Tells(Widened(x), s, l, e, Window)
    BY <2>3, <2>4, TellsWidens
  <2>6. l < e /\ e \in l + 1..e /\ e \in lo + 1..hi
    <3>1. l < e
      BY <2>4 DEF Tells
    <3> QED
      BY <2>1, <2>3, <3>1 DEF l, e
  <2>7. Widened(x).start = Start(s[e].at, Window) /\ Start(s[e].at, Window) = t
    BY <2>5, <2>6 DEF Tells
  <2>8. Widened(x).start = Start(x.start, Window)
    BY <2>4, WidenedIs DEF Tells
  <2> QED
    BY <2>1, <2>5, <2>6, <2>7, <2>8 DEF l, e, x
<1>6. L >= 1
  <2> SUFFICES ASSUME L = 0 PROVE FALSE
    BY <1>1
  <2> QED
    BY <1>4
<1> DEFINE T == {k \in 1..L : \E x : h[k] = <<x>> /\ Tells(x, s, lo, b[k], Window)}
<1> HIDE DEF L
<1>7. 1 \in T
  <2>1. 1 \in 1..L /\ 1 - 1 = 0
    BY <1>1, <1>6
  <2> DEFINE x == Widened(tier[1])
  <2>2. Tells(x, s, lo, b[1], Window)
    BY <1>4, <1>5, <2>1
  <2>3. h[1] = FiveGrown(<<>>, tier[1])
    BY <1>3, <2>1
  <2>4. h[1] = <<x>>
    BY <2>3 DEF FiveGrown
  <2> QED
    BY <2>1, <2>2, <2>4
<1>8. ASSUME NEW k \in 1 + 1..L, k - 1 \in T PROVE k \in T
  <2>1. PICK a : h[k - 1] = <<a>> /\ Tells(a, s, lo, b[k - 1], Window)
    BY <1>8
  <2>2. k \in 1..L /\ k - 1 \in 1..L
    BY <1>1
  <2> DEFINE x == tier[k]
             y == Widened(x)
             m == b[k - 1]
             e == b[k]
  <2>3. /\ Tells(y, s, m, e, Window) /\ m \in lo..hi /\ e \in lo..hi
        /\ Start(x.start, Window) = t /\ y.start = t
    BY <1>5, <2>2
  <2> HIDE DEF x, y, m, e
  <2>4. lo < m /\ m \in lo + 1..m /\ m \in lo + 1..hi /\ m \in Nat /\ e \in Nat /\ e <= Len(s)
    <3>1. lo < m
      BY <2>1 DEF Tells, m
    <3> QED
      BY <1>1, <2>3, <3>1
  <2>5. a.start = t
    <3>1. a.start = Start(s[m].at, Window)
      BY <2>1, <2>4 DEF Tells, m
    <3> QED
      BY <2>4, <3>1
  <2>6. Tells(Merge(a, y), s, lo, e, Window)
    <3>1. Tells(a, s, lo, m, Window) /\ a.start = y.start
      BY <2>1, <2>3, <2>5 DEF m
    <3> QED
      BY <2>3, <2>4, <3>1, TellsMerges
  <2>7. h[k] = FiveGrown(<<a>>, x)
    BY <1>3, <2>1, <2>2 DEF x
  <2>8. h[k] = [<<a>> EXCEPT ![Len(<<a>>)] = Merge(a, y)]
    <3>1. <<a>> # <<>> /\ Last(<<a>>) = a /\ Len(<<a>>) = 1 /\ <<a>>[1] = a
      BY DEF Last
    <3> QED
      BY <2>3, <2>5, <2>7, <3>1 DEF FiveGrown, y
  <2>9. h[k] = <<Merge(a, y)>>
    BY <2>8
  <2> QED
    BY <2>2, <2>6, <2>9 DEF e
<1>9. L \in T
  <2> HIDE DEF T
  <2>1. \A k \in 1..L : k \in T
    BY <1>1, <1>7, <1>8, Upward
  <2> QED
    BY <1>1, <1>6, <2>1
<1> QED
  BY <1>3, <1>4, <1>9 DEF L

-----------------------------------------------------------------------------
LEMMA Arranged ==
  ASSUME NEW a \in Nat, NEW b \in Nat, NEW c \in Nat
  PROVE  a * (b * c) = c * (a * b)
  OBVIOUS

LEMMA Multiple ==
  ASSUME NEW e \in Nat, NEW res \in Nat \ {0}
  PROVE  /\ e \div res \in Nat
         /\ e % res = 0 => e = (e \div res) * res
  OBVIOUS

LEMMA WindowMinutes ==
  ASSUME NEW e \in Nat, e % Window = 0
  PROVE  e % Minute = 0
<1>1. Minute \in Nat \ {0} /\ Window \in Nat \ {0} /\ Window % Minute = 0
  BY RollupAssumption
<1> DEFINE k == e \div Window
           w == Window \div Minute
<1>2. k \in Nat /\ e = k * Window /\ w \in Nat /\ Window = w * Minute
  BY <1>1, Multiple
<1> HIDE DEF k, w
<1>3. e = k * (w * Minute)
  BY <1>2
<1>4. e = Minute * (k * w)
  BY <1>1, <1>2, <1>3, Arranged
<1>5. PICK j \in Int : j = k * w
  BY <1>2
<1>6. e = Minute * j + 0
  BY <1>1, <1>4, <1>5
<1>7. 0 \in 0..Minute - 1
  BY <1>1
<1>8. PICK n \in Nat \ {0} : n = Minute
  BY <1>1
<1>9. e = n * j + 0 /\ 0 \in 0..n - 1
  BY <1>6, <1>7, <1>8
<1>10. e % n = 0
  BY <1>9, Remainder
<1> QED
  BY <1>8, <1>10

(* A bucket lies before a border or behind it.                             *)
LEMMA BucketEnd ==
  ASSUME NEW at \in Nat, NEW e \in Nat, NEW res \in Nat \ {0}, e % res = 0
  PROVE  /\ at < e => Start(at, res) + res <= e
         /\ at >= e => Start(at, res) >= e
<1> DEFINE q == at \div res
           m == e \div res
<1>1. /\ q \in Nat /\ q * res \in Nat /\ q * res <= at /\ at < q * res + res
      /\ m \in Nat /\ m * res = e
  BY DivMod, Multiple
<1>2. Start(at, res) = q * res
  BY DEF Start
<1> HIDE DEF q, m
<1>3. q >= m => q * res >= m * res
  BY <1>1, Scaled
<1>4. q + 1 <= m => (q + 1) * res <= m * res
  <2>1. q + 1 \in Nat
    BY <1>1
  <2> QED
    BY <1>1, <2>1, Scaled
<1>5. (q + 1) * res = q * res + res
  BY <1>1, OneMore
<1>6. q >= m \/ q + 1 <= m
  BY <1>1
<1> DEFINE x == q * res
           y == m * res
           z == (q + 1) * res
<1>7. x \in Nat /\ x <= at /\ at < x + res /\ y = e /\ z = x + res
  BY <1>1, <1>5
<1>8. x >= y \/ z <= y
  BY <1>3, <1>4, <1>6
<1>9. Start(at, res) = x
  BY <1>2
<1> HIDE DEF x, y, z
<1> QED
  BY <1>7, <1>8, <1>9

(* A tier tells of all samples up to hi.                                   *)
Covers(c, tier, s, hi, res) ==
  /\ c \in [0..Len(tier) -> 0..hi] /\ c[0] = 0 /\ c[Len(tier)] = hi
  /\ \A k \in 1..Len(tier) :
       /\ Tells(tier[k], s, c[k - 1], c[k], res)
       /\ k > 1 => Start(s[c[k - 1]].at, res) # Start(s[c[k - 1] + 1].at, res)

Covered(tier, s, hi, res) == tier \in Seq(Buckets(res)) /\ \E c : Covers(c, tier, s, hi, res)

LEMMA TierCovered ==
  ASSUME NEW s, IsSeries(s), NEW res \in Nat \ {0}, NEW hi \in 0..Len(s),
         NEW tier, TierOf(tier, s, 0, hi, LeftOf(s), res)
  PROVE  Covered(tier, s, hi, res)
<1>1. PICK b : TierBy(b, tier, s, 0, hi, LeftOf(s), res)
  BY DEF TierOf
<1>2. tier \in Seq(Buckets(res)) /\ Len(tier) \in Nat /\ Len(s) \in Nat
  BY DEF TierOf, IsSeries
<1>3. b \in [0..Len(tier) -> 0..hi]
  BY <1>1 DEF TierBy
<1>4. ASSUME NEW k \in 1..Len(tier) PROVE Tells(tier[k], s, b[k - 1], b[k], res)
  <2>1. k - 1 \in 0..Len(tier) /\ k \in 0..Len(tier)
    BY <1>2
  <2>2. b[k - 1] \in 0..hi /\ b[k] \in 0..hi
    BY <1>3, <2>1
  <2>3. b[k - 1] \in Nat /\ b[k] \in Nat /\ b[k] <= Len(s)
    BY <1>2, <2>2
  <2>4. Made(tier[k], s, b[k - 1], b[k], LeftOf(s), res)
    BY <1>1 DEF TierBy
  <2> QED
    BY <2>3, <2>4, MadeTells
<1>5. Covers(b, tier, s, hi, res)
  BY <1>1, <1>4 DEF Covers, TierBy
<1> QED
  BY <1>2, <1>5 DEF Covered

(* What a bucket tells holds in any series that goes on from there.        *)
LEMMA TellsOn ==
  ASSUME NEW s, IsSeries(s), NEW n, IsSeries(n), IsSlice(s, n, 0, Len(s)), NEW res \in Nat \ {0},
         NEW lo \in Nat, NEW hi \in Nat, hi <= Len(s), NEW x, Tells(x, s, lo, hi, res)
  PROVE  Tells(x, n, lo, hi, res)
<1>1. Len(s) \in Nat /\ lo < hi /\ \A i \in 1..hi : n[i] = s[i]
  <2>1. Len(s) \in Nat /\ lo < hi /\ \A i \in 1..Len(s) - 0 : s[i] = n[0 + i]
    BY DEF IsSlice, IsSeries, Tells
  <2>2. ASSUME NEW i \in 1..hi PROVE n[i] = s[i]
    <3>1. i \in 1..Len(s) - 0 /\ 0 + i = i
      BY <2>1
    <3> QED
      BY <2>1, <3>1
  <2> QED
    BY <2>1, <2>2
<1>2. \A i \in lo + 1..hi : i \in 1..hi /\ n[i] = s[i]
  BY <1>1
<1>3. Speedy(n, lo, hi) = Speedy(s, lo, hi)
  BY <1>2 DEF Speedy
<1>4. Summary(x.up, n, lo, hi)
  <2>1. n[hi] = s[hi]
    BY <1>1
  <2>2. \A i \in Speedy(s, lo, hi) : n[i] = s[i]
    BY <1>2 DEF Speedy
  <2> QED
    BY <1>3, <2>1, <2>2 DEF Summary, Tells
<1>5. ASSUME NEW H, Gains(H, n, hi) PROVE x.uploaded.delta = H[hi] - H[lo]
  <2>1. ASSUME NEW i \in 1..hi PROVE GainOf(n, i) = GainOf(s, i)
    <3>1. CASE i = 1
      BY <3>1 DEF GainOf
    <3>2. CASE i # 1
      <4>1. i - 1 \in 1..hi
        BY <3>2
      <4> QED
        BY <1>1, <4>1 DEF GainOf
    <3> QED
      BY <3>1, <3>2
  <2>2. Gains(H, s, hi)
    BY <1>5, <2>1 DEF Gains
  <2> QED
    BY <2>2 DEF Tells
<1>6. \A i \in lo + 1..hi : x.start = Start(n[i].at, res)
  BY <1>2 DEF Tells
<1> QED
  BY <1>4, <1>5, <1>6 DEF Tells

LEMMA CoveredOn ==
  ASSUME NEW s, IsSeries(s), NEW n, IsSeries(n), IsSlice(s, n, 0, Len(s)), NEW res \in Nat \ {0},
         NEW hi \in 0..Len(s), NEW tier, Covered(tier, s, hi, res)
  PROVE  Covered(tier, n, hi, res)
<1>1. PICK c : Covers(c, tier, s, hi, res)
  BY DEF Covered
<1>2. tier \in Seq(Buckets(res)) /\ Len(tier) \in Nat /\ Len(s) \in Nat
  BY DEF Covered, IsSeries
<1>3. c \in [0..Len(tier) -> 0..hi]
  BY <1>1 DEF Covers
<1>4. ASSUME NEW k \in 1..Len(tier)
      PROVE  /\ Tells(tier[k], n, c[k - 1], c[k], res)
             /\ k > 1 => Start(n[c[k - 1]].at, res) # Start(n[c[k - 1] + 1].at, res)
  <2>1. k - 1 \in 0..Len(tier) /\ k \in 0..Len(tier)
    BY <1>2
  <2>2. c[k - 1] \in 0..hi /\ c[k] \in 0..hi
    BY <1>3, <2>1
  <2> DEFINE l == c[k - 1]
             e == c[k]
  <2>3. l \in Nat /\ e \in Nat /\ e <= Len(s) /\ Tells(tier[k], s, l, e, res)
    BY <1>1, <1>2, <2>2 DEF Covers
  <2>4. k > 1 => Start(s[l].at, res) # Start(s[l + 1].at, res)
    BY <1>1 DEF Covers
  <2>5. k > 1 => l # 0
    <3> SUFFICES ASSUME k > 1 PROVE l # 0
      OBVIOUS
    <3>1. k - 1 \in 1..Len(tier) /\ (k - 1) - 1 \in 0..Len(tier)
      BY <1>2
    <3>2. c[(k - 1) - 1] < l /\ c[(k - 1) - 1] \in 0..hi
      BY <1>1, <1>3, <3>1 DEF Covers, Tells
    <3> QED
      BY <3>2
  <2> HIDE DEF l, e
  <2>6. Tells(tier[k], n, l, e, res)
    BY <2>3, TellsOn
  <2>7. k > 1 => n[l] = s[l] /\ n[l + 1] = s[l + 1]
    <3> SUFFICES ASSUME k > 1 PROVE n[l] = s[l] /\ n[l + 1] = s[l + 1]
      OBVIOUS
    <3>1. l \in 1..Len(s) - 0 /\ l + 1 \in 1..Len(s) - 0 /\ 0 + l = l /\ 0 + (l + 1) = l + 1
      <4>1. l < e
        BY <2>3 DEF Tells
      <4> QED
        BY <1>2, <2>3, <2>5, <4>1
    <3> QED
      BY <3>1 DEF IsSlice
  <2> QED
    BY <2>4, <2>6, <2>7 DEF l, e
<1>5. Covers(c, tier, n, hi, res)
  BY <1>1, <1>4 DEF Covers
<1> QED
  BY <1>2, <1>5 DEF Covered

LEMMA CoveredMore ==
  ASSUME NEW s, IsSeries(s), NEW res \in Nat \ {0}, NEW m \in Nat, NEW hi \in 0..Len(s),
         NEW tier, Covered(tier, s, m, res), NEW x, Tells(x, s, m, hi, res),
         m > 0 => Start(s[m].at, res) # Start(s[m + 1].at, res)
  PROVE  Covered(tier \o <<x>>, s, hi, res)
<1>1. PICK a : Covers(a, tier, s, m, res)
  BY DEF Covered
<1>2. tier \in Seq(Buckets(res)) /\ Len(tier) \in Nat /\ m < hi /\ x \in Buckets(res)
  BY DEF Covered, Tells
<1> DEFINE L == Len(tier)
           C == tier \o <<x>>
           c == [k \in 0..L + 1 |-> IF k = L + 1 THEN hi ELSE a[k]]
<1>3. /\ C \in Seq(Buckets(res)) /\ Len(C) = L + 1 /\ C[L + 1] = x
      /\ \A k \in 1..L : C[k] = tier[k]
  BY <1>2
<1>4. a \in [0..L -> 0..m] /\ a[0] = 0 /\ a[L] = m
  BY <1>1 DEF Covers
<1>5. /\ c \in [0..L + 1 -> 0..hi] /\ c[0] = 0 /\ c[L + 1] = hi
      /\ \A k \in 0..L : c[k] = a[k]
  BY <1>2, <1>4
<1> HIDE DEF c, C
<1>6. ASSUME NEW k \in 1..L + 1
      PROVE  /\ Tells(C[k], s, c[k - 1], c[k], res)
             /\ k > 1 => Start(s[c[k - 1]].at, res) # Start(s[c[k - 1] + 1].at, res)
  <2>1. k - 1 \in 0..L /\ c[k - 1] = a[k - 1]
    BY <1>2, <1>5, SMTT(30)
  <2>2. CASE k = L + 1
    <3>1. k - 1 = L /\ c[k - 1] = m /\ c[k] = hi /\ C[k] = x
      BY <1>2, <1>3, <1>4, <1>5, <2>1, <2>2
    <3>2. k > 1 => m > 0
      <4> SUFFICES ASSUME k > 1 PROVE m > 0
        OBVIOUS
      <4>1. L \in 1..L /\ L - 1 \in 0..L
        BY <1>2, <2>2
      <4>2. a[L - 1] < a[L] /\ a[L - 1] \in 0..m
        BY <1>1, <1>4, <4>1 DEF Covers, Tells
      <4> QED
        BY <1>4, <4>2
    <3> QED
      BY <3>1, <3>2
  <2>3. CASE k # L + 1
    <3>1. k \in 1..L /\ k \in 0..L
      BY <1>2, <2>3
    <3>2. C[k] = tier[k] /\ c[k] = a[k]
      BY <1>3, <1>5, <3>1
    <3> QED
      BY <1>1, <2>1, <3>1, <3>2 DEF Covers
  <2> QED
    BY <2>2, <2>3
<1>7. Covers(c, C, s, hi, res)
  BY <1>3, <1>5, <1>6 DEF Covers
<1> QED
  BY <1>3, <1>7 DEF Covered, C

-----------------------------------------------------------------------------
-----------------------------------------------------------------------------
(* A run and its difference.                                               *)
Pair == [run : Nat, delta : Int]

(* The difference that leads to cell j of the column f.                    *)
Rise(f, j) == Wrapped(f[j] - (IF j > 1 THEN f[j - 1] ELSE 0))

(* The runs E of the first n cells of f end at the cells c.                *)
RunsBy(c, E, f, n) ==
  /\ E \in Seq(Pair) /\ c \in [0..Len(E) -> 0..n] /\ c[0] = 0 /\ c[Len(E)] = n
  /\ \A k \in 1..Len(E) : /\ c[k] = c[k - 1] + E[k].run /\ E[k].run > 0
                          /\ \A j \in c[k - 1] + 1..c[k] : Rise(f, j) = E[k].delta

Runs(E, f, n) == \E c : RunsBy(c, E, f, n)

LEMMA AppendIn ==
  ASSUME NEW T, NEW ps \in Seq(T), NEW p \in T
  PROVE  \E new \in Seq(T) : new = Append(ps, p)
<1>1. Append(ps, p) \in Seq(T)
  OBVIOUS
<1> QED
  BY <1>1

(* One more pair.                                                          *)
LEMMA RunsJoin ==
  ASSUME NEW o \in Seq(Pair), NEW f, NEW i \in Nat, Runs(o, f, i), NEW p \in Pair, p.run > 0,
         \A j \in i + 1..i + p.run : Rise(f, j) = p.delta
  PROVE  Runs(Append(o, p), f, i + p.run)
<1>1. PICK c : RunsBy(c, o, f, i)
  BY DEF Runs
<1>2. PICK L \in Nat : L = Len(o)
  OBVIOUS
<1>3. PICK r \in Nat : r = p.run /\ r > 0
  BY DEF Pair
<1>4. PICK E \in Seq(Pair) : E = Append(o, p)
  BY AppendIn, Zenon
<1>5. Len(E) = L + 1 /\ E[L + 1] = p /\ \A k \in 1..L : E[k] = o[k]
  BY <1>2, <1>4
<1>6. PICK d : d = [k \in 0..L + 1 |-> IF k = L + 1 THEN i + r ELSE c[k]]
  OBVIOUS
<1>7. c \in [0..L -> 0..i] /\ c[0] = 0 /\ c[L] = i
  BY <1>1, <1>2 DEF RunsBy
<1>8. d \in [0..L + 1 -> 0..i + r] /\ d[0] = 0 /\ d[L + 1] = i + r /\ \A k \in 0..L : d[k] = c[k]
  BY <1>6, <1>7
<1>9. ASSUME NEW k \in 1..L + 1
      PROVE  /\ d[k] = d[k - 1] + E[k].run /\ E[k].run > 0
             /\ \A j \in d[k - 1] + 1..d[k] : Rise(f, j) = E[k].delta
  <2>1. CASE k = L + 1
    <3>1. d[k] = i + r /\ d[k - 1] = i /\ E[k] = p
      BY <1>5, <1>7, <1>8, <2>1
    <3> QED
      BY <1>3, <3>1
  <2>2. CASE k # L + 1
    <3>1. k \in 1..L /\ d[k] = c[k] /\ d[k - 1] = c[k - 1] /\ E[k] = o[k]
      BY <1>5, <1>8, <2>2, SMTT(30)
    <3> QED
      BY <1>1, <1>2, <3>1 DEF RunsBy
  <2> QED
    BY <2>1, <2>2
<1>10. RunsBy(d, E, f, i + r)
  BY <1>5, <1>8, <1>9 DEF RunsBy
<1> QED
  BY <1>3, <1>4, <1>10 DEF Runs

(* The last pair taken back.                                               *)
LEMMA RunsSplit ==
  ASSUME NEW o \in Seq(Pair), NEW f, NEW i \in Nat, NEW p \in Pair, Runs(Append(o, p), f, i)
  PROVE  \E m \in Nat : /\ i = m + p.run /\ p.run > 0 /\ Runs(o, f, m)
                        /\ \A j \in m + 1..i : Rise(f, j) = p.delta
<1>1. PICK E \in Seq(Pair) : E = Append(o, p)
  BY AppendIn, Zenon
<1>2. PICK c : RunsBy(c, E, f, i)
  BY <1>1 DEF Runs
<1>3. PICK L \in Nat : L = Len(o)
  OBVIOUS
<1>4. Len(E) = L + 1 /\ E[L + 1] = p /\ \A k \in 1..L : E[k] = o[k]
  BY <1>1, <1>3
<1>5. PICK r \in Nat : r = p.run
  BY DEF Pair
<1>6. PICK m \in Nat : m = c[L]
  <2>1. c \in [0..L + 1 -> 0..i]
    BY <1>2, <1>4 DEF RunsBy
  <2> QED
    BY <2>1
<1>7. c \in [0..L + 1 -> 0..i] /\ c[0] = 0 /\ c[L + 1] = i
  BY <1>2, <1>4 DEF RunsBy
<1>8. i = m + r /\ r > 0 /\ \A j \in m + 1..i : Rise(f, j) = p.delta
  <2>1. L + 1 \in 1..Len(E) /\ (L + 1) - 1 = L
    BY <1>4
  <2>2. c[L + 1] = c[(L + 1) - 1] + E[L + 1].run /\ E[L + 1].run > 0
        /\ \A j \in c[(L + 1) - 1] + 1..c[L + 1] : Rise(f, j) = E[L + 1].delta
    BY <1>2, <2>1 DEF RunsBy
  <2> QED
    BY <1>4, <1>5, <1>6, <1>7, <2>1, <2>2
<1>9. \A k \in 1..L : c[k] = c[k - 1] + o[k].run /\ o[k].run \in Nat /\ c[k] \in Nat /\ c[k - 1] \in Nat
  <2>1. ASSUME NEW k \in 1..L
        PROVE  c[k] = c[k - 1] + o[k].run /\ o[k].run \in Nat /\ c[k] \in Nat /\ c[k - 1] \in Nat
    <3>1. k \in 1..L + 1 /\ k \in 0..L + 1 /\ k - 1 \in 0..L + 1 /\ o[k] \in Pair /\ o[k] = E[k]
      BY <1>3, <1>4
    <3>2. c[k] = c[k - 1] + E[k].run
      BY <1>2, <1>4, <3>1 DEF RunsBy
    <3>3. o[k].run \in Nat
      BY <3>1 DEF Pair
    <3>4. c[k] \in Nat /\ c[k - 1] \in Nat
      BY <1>7, <3>1
    <3> QED
      BY <3>1, <3>2, <3>3, <3>4, Zenon
  <2> QED
    BY <2>1
<1>10. \A k \in 0..L : c[k] <= m
  <2> DEFINE T == {k \in 0..L : c[L - k] <= m}
  <2>1. 0 \in T
    BY <1>6
  <2>2. ASSUME NEW k \in 0 + 1..L, k - 1 \in T PROVE k \in T
    <3>1. L - k + 1 \in 1..L /\ (L - k + 1) - 1 = L - k /\ L - (k - 1) = L - k + 1 /\ k \in 0..L
      OBVIOUS
    <3>2. c[L - k + 1] <= m /\ c[L - k + 1] = c[L - k] + o[L - k + 1].run /\ o[L - k + 1].run \in Nat
          /\ c[L - k + 1] \in Nat /\ c[L - k] \in Nat
      BY <1>9, <2>2, <3>1
    <3>3. c[L - k] <= m
      BY <3>2
    <3> QED
      BY <3>1, <3>3
  <2>3. \A k \in 0..L : k \in T
    <3> HIDE DEF T
    <3>1. 0 \in Nat /\ 0 \in T /\ \A k \in 0 + 1..L : k - 1 \in T => k \in T
      BY <2>1, <2>2
    <3> QED
      BY ONLY <3>1, L \in Nat, Upward
  <2>4. ASSUME NEW k \in 0..L PROVE c[k] <= m
    <3>1. L - k \in 0..L /\ L - (L - k) = k
      OBVIOUS
    <3> QED
      BY <2>3, <3>1
  <2> QED
    BY <2>4
<1>11. PICK d : d = [k \in 0..L |-> c[k]]
  OBVIOUS
<1>12. d \in [0..L -> 0..m] /\ d[0] = 0 /\ d[L] = m /\ \A k \in 0..L : d[k] = c[k]
  BY <1>6, <1>7, <1>10, <1>11
<1>13. ASSUME NEW k \in 1..L
       PROVE  /\ d[k] = d[k - 1] + o[k].run /\ o[k].run > 0
              /\ \A j \in d[k - 1] + 1..d[k] : Rise(f, j) = o[k].delta
  <2>1. k \in 1..L + 1 /\ d[k] = c[k] /\ d[k - 1] = c[k - 1] /\ E[k] = o[k]
    BY <1>4, <1>12
  <2> QED
    BY <1>2, <1>4, <2>1 DEF RunsBy
<1>14. RunsBy(d, o, f, m)
  BY <1>3, <1>12, <1>13 DEF RunsBy
<1> QED
  BY <1>5, <1>8, <1>14 DEF Runs

LEMMA RunsNone ==
  ASSUME NEW f
  PROVE  Runs(<<>>, f, 0)
<1>1. PICK c : c = [k \in 0..0 |-> 0]
  OBVIOUS
<1>2. <<>> \in Seq(Pair) /\ Len(<<>>) = 0 /\ c \in [0..0 -> 0..0] /\ c[0] = 0
  BY <1>1
<1>3. RunsBy(c, <<>>, f, 0)
  BY <1>2 DEF RunsBy
<1> QED
  BY <1>3 DEF Runs

-----------------------------------------------------------------------------
(* What the writer does with a row.                                        *)
EncodeStep(w, table, col, row) ==
  LET d == Wrapped(table[row][col] - Before(table, col, row))
  IN IF w.cur.run > 0 /\ d # w.cur.delta
     THEN [out |-> Flush(w.out, w.cur), cur |-> [run |-> 1, delta |-> d]]
     ELSE [w EXCEPT !.cur = [run |-> @.run + 1, delta |-> d]]

Writer == [out : Seq(Pair), cur : Pair]
Rows == Seq([1..Cols -> Cell])
Column(table, col) == [row \in 1..Len(table) |-> table[row][col]]

LEMMA CellIs == Cell \subseteq Int
  BY CodecAssumption DEF Cell

LEMMA RiseIs ==
  ASSUME NEW table \in Rows, NEW col \in 1..Cols, NEW row \in 1..Len(table)
  PROVE  /\ Wrapped(table[row][col] - Before(table, col, row)) = Rise(Column(table, col), row)
         /\ Rise(Column(table, col), row) \in Cell
<1>1. table[row] \in [1..Cols -> Cell] /\ table[row][col] \in Int
  <2>1. table[row] \in [1..Cols -> Cell]
    BY DEF Rows
  <2>2. table[row][col] \in Cell
    BY <2>1
  <2> QED
    BY <2>1, <2>2, CellIs
<1>2. PICK b \in Int : b = Before(table, col, row)
                       /\ b = (IF row > 1 THEN Column(table, col)[row - 1] ELSE 0)
  <2>1. CASE row > 1
    <3>1. row - 1 \in 1..Len(table)
      BY <2>1
    <3>2. table[row - 1] \in [1..Cols -> Cell]
      BY <3>1 DEF Rows
    <3>3. table[row - 1][col] \in Cell
      BY <3>2
    <3>4. table[row - 1][col] \in Int
      BY <3>3, CellIs
    <3> QED
      BY <2>1, <3>1, <3>4 DEF Before, Column
  <2>2. CASE ~(row > 1)
    BY <2>2 DEF Before
  <2> QED
    BY <2>1, <2>2
<1>3. table[row][col] - b \in Int /\ Half \in Nat \ {0}
  BY <1>1, <1>2, CodecAssumption
<1>4. Wrapped(table[row][col] - b) \in Cell
  BY <1>3, WrappedFits
<1> QED
  BY <1>2, <1>4 DEF Rise, Column

LEMMA EncodeKeeps ==
  ASSUME NEW table \in Rows, NEW col \in 1..Cols, NEW row \in 1..Len(table), NEW w \in Writer
  PROVE  /\ EncodeStep(w, table, col, row) \in Writer
         /\ w.cur.run > 0 /\ Rise(Column(table, col), row) # w.cur.delta =>
              EncodeStep(w, table, col, row) =
                [out |-> Append(w.out, w.cur),
                 cur |-> [run |-> 1, delta |-> Rise(Column(table, col), row)]]
         /\ ~(w.cur.run > 0 /\ Rise(Column(table, col), row) # w.cur.delta) =>
              EncodeStep(w, table, col, row) =
                [out |-> w.out, cur |-> [run |-> w.cur.run + 1, delta |-> Rise(Column(table, col), row)]]
<1>1. PICK d \in Int : d = Wrapped(table[row][col] - Before(table, col, row))
                       /\ d = Rise(Column(table, col), row)
  BY RiseIs, CellIs
<1>2. PICK o \in Seq(Pair), c \in Pair : w = [out |-> o, cur |-> c]
  BY DEF Writer
<1>3. PICK r \in Nat : r = c.run
  BY DEF Pair
<1>4. CASE r > 0 /\ d # c.delta
  <2>1. EncodeStep(w, table, col, row) = [out |-> Append(o, c), cur |-> [run |-> 1, delta |-> d]]
    BY <1>1, <1>2, <1>3, <1>4 DEF EncodeStep, Flush
  <2>2. Append(o, c) \in Seq(Pair) /\ [run |-> 1, delta |-> d] \in Pair
    BY AppendIn DEF Pair
  <2> QED
    <3>1. [out |-> Append(o, c), cur |-> [run |-> 1, delta |-> d]] \in Writer
      BY <2>2 DEF Writer
    <3> QED
      BY <1>1, <1>2, <1>3, <1>4, <2>1, <3>1
<1>5. CASE ~(r > 0 /\ d # c.delta)
  <2>1. EncodeStep(w, table, col, row) = [out |-> o, cur |-> [run |-> r + 1, delta |-> d]]
    BY <1>1, <1>2, <1>3, <1>5 DEF EncodeStep
  <2>2. [run |-> r + 1, delta |-> d] \in Pair
    BY DEF Pair
  <2> QED
    <3>1. [out |-> o, cur |-> [run |-> r + 1, delta |-> d]] \in Writer
      BY <2>2 DEF Writer
    <3> QED
      BY <1>1, <1>2, <1>3, <1>5, <2>1, <3>1
<1> QED
  BY <1>4, <1>5

LEMMA EncodeSteps ==
  ASSUME NEW table \in Rows, NEW col \in 1..Cols
  PROVE  \E h : /\ h[0] = [out |-> <<>>, cur |-> NoRun]
                /\ EncodeColumn(table, col) = Flush(h[Len(table)].out, h[Len(table)].cur)
                /\ \A i \in 1..Len(table) : h[i] = EncodeStep(h[i - 1], table, col, i)
<1> DEFINE n == Len(table)
           V == Writer
           base == [out |-> <<>>, cur |-> NoRun]
           F == [p \in V \X (1..n) |-> EncodeStep(p[1], table, col, p[2])]
           ids == [i \in DOMAIN table |-> i]
           E(g) == g = [s \in SUBSET DOMAIN ids |->
                          IF s = {} THEN base ELSE EncodeStep(g[s \ {Max(s)}], table, col, ids[Max(s)])]
<1>1. n \in Nat /\ DOMAIN ids = 1..n /\ \A i \in 1..n : ids[i] = i
  BY DEF Rows
<1>2. base \in V /\ F \in [V \X (1..n) -> V] /\ \A v \in V, i \in 1..n : F[<<v, i>>] = EncodeStep(v, table, col, i)
  <2>1. \A v \in V, i \in 1..n : EncodeStep(v, table, col, i) \in V
    BY EncodeKeeps
  <2> HIDE DEF n
  <2>2. \A p \in V \X (1..n) : p[1] \in V /\ p[2] \in 1..n
    OBVIOUS
  <2>3. base \in V
    BY DEF Writer, NoRun, Pair
  <2> HIDE DEF V, base
  <2> QED
    BY <2>1, <2>2, <2>3
<1>3. PICK it : Folds(it, V, base, F, n)
  <2> HIDE DEF V, F, n, base
  <2> QED
    BY <1>1, <1>2, FoldExists
<1>4. ASSUME NEW s \in SUBSET (1..n), s # {} PROVE Max(s) \in 1..n /\ s \ {Max(s)} \in SUBSET (1..n)
  <2> HIDE DEF n
  <2> QED
    BY <1>1, <1>4, MaxOf
<1>5. E(it)
  <2>1. ASSUME NEW s \in SUBSET (1..n), s # {}
        PROVE  it[s] = EncodeStep(it[s \ {Max(s)}], table, col, ids[Max(s)])
    <3>1. PICK m \in 1..n : m = Max(s) /\ ids[Max(s)] = m
      BY <1>1, <1>4, <2>1
    <3>2. PICK v \in V : v = it[s \ {m}]
      BY <1>3, <1>4, <2>1, <3>1 DEF Folds
    <3>3. it[s] = F[<<v, m>>]
      BY <1>3, <2>1, <3>1, <3>2 DEF Folds
    <3>4. F[<<v, m>>] = EncodeStep(v, table, col, m)
      BY <1>2
    <3> HIDE DEF F, n, ids
    <3> QED
      BY <3>1, <3>2, <3>3, <3>4
  <2> HIDE DEF F, V, n, ids, base
  <2> QED
    BY <1>1, <1>3, <2>1 DEF Folds
<1>6. PICK ch : ch = (CHOOSE g : E(g)) /\ E(ch)
  <2> HIDE DEF E
  <2> QED
    BY <1>5
<1>7. EncodeColumn(table, col) = Flush(ch[DOMAIN ids].out, ch[DOMAIN ids].cur)
  BY <1>6 DEF EncodeColumn, FoldLeftDomain, FoldLeft, MapThenFoldSet, EncodeStep
<1>8. ASSUME NEW i \in 1..n PROVE ch[1..i] = EncodeStep(ch[1..i - 1], table, col, i)
  <2>1. Max(1..i) = i /\ (1..i) \ {i} = 1..i - 1 /\ 1..i \in SUBSET (1..n) /\ 1..i # {}
    BY PrefixMax
  <2>2. ids[i] = i
    BY <1>1
  <2> HIDE DEF n, ids, base
  <2>3. ch[1..i] = IF 1..i = {} THEN base
                   ELSE EncodeStep(ch[(1..i) \ {Max(1..i)}], table, col, ids[Max(1..i)])
    BY <1>1, <1>6, <2>1, ZenonT(60)
  <2> QED
    BY <2>1, <2>2, <2>3
<1>9. ch[1..0] = base
  <2>1. 1..0 = {} /\ 1..0 \in SUBSET (1..n)
    OBVIOUS
  <2> HIDE DEF n, ids, base
  <2> QED
    BY <1>6, <1>1, <2>1, ZenonT(60)
<1> DEFINE h == [k \in 0..n |-> ch[1..k]]
<1> HIDE DEF ids, E, F
<1> QED
  <2>1. h[0] = base /\ h[n] = ch[1..n] /\ \A i \in 1..n : h[i] = ch[1..i] /\ h[i - 1] = ch[1..i - 1]
    BY <1>9, <1>1
  <2> HIDE DEF h
  <2>2. EncodeColumn(table, col) = Flush(h[n].out, h[n].cur)
    BY <1>1, <1>7, <2>1
  <2> QED
    BY <2>1, <2>2, <1>8

(* The pairs of a column are its runs.                                     *)
LEMMA EncodeRuns ==
  ASSUME NEW table \in Rows, NEW col \in 1..Cols
  PROVE  Runs(EncodeColumn(table, col), Column(table, col), Len(table))
<1>1. PICK h : /\ h[0] = [out |-> <<>>, cur |-> NoRun]
               /\ EncodeColumn(table, col) = Flush(h[Len(table)].out, h[Len(table)].cur)
               /\ \A i \in 1..Len(table) : h[i] = EncodeStep(h[i - 1], table, col, i)
  BY EncodeSteps
<1>2. PICK f : f = Column(table, col)
  OBVIOUS
<1>3. PICK n \in Nat : n = Len(table)
  BY DEF Rows
<1> DEFINE T == {i \in 0..n : /\ h[i] \in Writer
                              /\ i = 0 => h[i] = [out |-> <<>>, cur |-> NoRun]
                              /\ i > 0 => h[i].cur.run > 0 /\ Runs(Append(h[i].out, h[i].cur), f, i)}
<1>4. 0 \in T
  <2>1. [out |-> <<>>, cur |-> NoRun] \in Writer
    BY DEF Writer, NoRun, Pair
  <2> QED
    BY <1>1, <2>1
<1>5. ASSUME NEW i \in 0 + 1..n, i - 1 \in T PROVE i \in T
  <2>1. i \in 1..n /\ i \in 0..n /\ i > 0 /\ i - 1 \in Nat
    OBVIOUS
  <2>2. PICK o \in Seq(Pair), c \in Pair : h[i - 1] = [out |-> o, cur |-> c]
    BY <1>5 DEF Writer
  <2>3. PICK r \in Nat : r = c.run
    BY DEF Pair
  <2>4. PICK d \in Int : d = Rise(f, i)
    BY <1>2, <1>3, <2>1, RiseIs, CellIs
  <2>5. /\ h[i] \in Writer
        /\ r > 0 /\ d # c.delta => h[i] = [out |-> Append(o, c), cur |-> [run |-> 1, delta |-> d]]
        /\ ~(r > 0 /\ d # c.delta) => h[i] = [out |-> o, cur |-> [run |-> r + 1, delta |-> d]]
    <3>1. h[i] = EncodeStep(h[i - 1], table, col, i) /\ h[i - 1] \in Writer
      BY <1>1, <1>3, <1>5, <2>1
    <3>2. PICK w \in Writer : w = h[i - 1] /\ w.out = o /\ w.cur = c
      BY <2>2, <3>1
    <3>3. i \in 1..Len(table) /\ d = Rise(Column(table, col), i)
      BY <1>2, <1>3, <2>1, <2>4
    <3>4. /\ EncodeStep(w, table, col, i) \in Writer
          /\ w.cur.run > 0 /\ d # w.cur.delta =>
               EncodeStep(w, table, col, i) = [out |-> Append(w.out, w.cur), cur |-> [run |-> 1, delta |-> d]]
          /\ ~(w.cur.run > 0 /\ d # w.cur.delta) =>
               EncodeStep(w, table, col, i) = [out |-> w.out, cur |-> [run |-> w.cur.run + 1, delta |-> d]]
      BY <3>3, EncodeKeeps
    <3> HIDE DEF T
    <3> QED
      BY <2>3, <3>1, <3>2, <3>4
  <2>6. PICK new \in Pair : new = [run |-> 1, delta |-> d] /\ new.run = 1 /\ new.delta = d
    <3>1. [run |-> 1, delta |-> d] \in Pair
      BY DEF Pair
    <3> QED
      BY <3>1
  <2>7. CASE i = 1
    <3>1. o = <<>> /\ r = 0
      BY <1>5, <2>2, <2>3, <2>7 DEF NoRun
    <3>2. h[i] = [out |-> o, cur |-> new]
      BY <2>5, <2>6, <3>1
    <3>3. Runs(o, f, 0)
      BY <3>1, RunsNone
    <3>4. \A j \in 0 + 1..0 + new.run : Rise(f, j) = new.delta
      BY <2>4, <2>6, <2>7
    <3>5. Runs(Append(o, new), f, 0 + new.run)
      BY <2>6, <3>3, <3>4, RunsJoin
    <3> QED
      BY <2>1, <2>5, <2>6, <2>7, <3>2, <3>5
  <2>8. CASE i > 1
    <3>1. r > 0 /\ Runs(Append(o, c), f, i - 1)
      BY <1>5, <2>2, <2>3, <2>8
    <3>2. CASE d # c.delta
      <4>1. h[i] = [out |-> Append(o, c), cur |-> new]
        BY <2>5, <2>6, <3>1, <3>2
      <4>2. PICK p \in Seq(Pair) : p = Append(o, c)
        BY AppendIn
      <4>3. (i - 1) + new.run = i /\ \A j \in (i - 1) + 1..(i - 1) + new.run : Rise(f, j) = new.delta
        BY <2>4, <2>6
      <4>4. PICK g \in Nat : g = i - 1
        BY <2>1
      <4>5. Runs(p, f, g) /\ new.run > 0 /\ \A j \in g + 1..g + new.run : Rise(f, j) = new.delta
        BY <2>6, <3>1, <4>2, <4>3, <4>4
      <4>6. Runs(Append(p, new), f, g + new.run)
        BY ONLY <4>5, p \in Seq(Pair), new \in Pair, g \in Nat, RunsJoin
      <4>7. h[i].out = p /\ h[i].cur = new
        BY <4>1, <4>2
      <4> QED
        BY <2>1, <2>5, <2>6, <4>3, <4>4, <4>6, <4>7
    <3>3. CASE d = c.delta
      <4>1. PICK m \in Nat : /\ i - 1 = m + c.run /\ c.run > 0 /\ Runs(o, f, m)
                             /\ \A j \in m + 1..i - 1 : Rise(f, j) = c.delta
        BY <2>1, <3>1, RunsSplit
      <4>2. PICK p \in Pair : p = [run |-> r + 1, delta |-> d] /\ p.run = r + 1 /\ p.delta = d
        <5>1. [run |-> r + 1, delta |-> d] \in Pair
          BY DEF Pair
        <5> QED
          BY <5>1
      <4>3. h[i] = [out |-> o, cur |-> p]
        BY <2>5, <3>3, <4>2
      <4>4. m + p.run = i /\ p.run > 0
        <5>1. i - 1 = m + r /\ p.run = r + 1
          BY <2>3, <4>1, <4>2
        <5> QED
          BY ONLY <5>1, <2>1, m \in Nat, r \in Nat, n \in Nat
      <4>5. \A j \in m + 1..m + p.run : Rise(f, j) = p.delta
        <5>1. ASSUME NEW j \in m + 1..i PROVE Rise(f, j) = d
          <6>1. j \in m + 1..i - 1 \/ j = i
            OBVIOUS
          <6> QED
            BY <2>4, <3>3, <4>1, <6>1
        <5> QED
          BY <4>2, <4>4, <5>1
      <4>6. Runs(Append(o, p), f, m + p.run)
        BY <4>4, <4>5, <4>1, RunsJoin
      <4> QED
        BY <2>1, <2>5, <4>3, <4>4, <4>6
    <3> QED
      BY <3>2, <3>3
  <2> QED
    BY <2>1, <2>7, <2>8
<1> HIDE DEF T
<1>6. \A i \in 0..n : i \in T
  <2>1. 0 \in Nat /\ 0 \in T /\ \A i \in 0 + 1..n : i - 1 \in T => i \in T
    BY <1>4, <1>5
  <2> QED
    BY ONLY <2>1, n \in Nat, Upward
<1>7. n \in 0..n
  OBVIOUS
<1>8. n \in T
  BY <1>6, <1>7
<1>9. CASE n = 0
  <2>1. EncodeColumn(table, col) = <<>>
    BY <1>1, <1>3, <1>9 DEF Flush, NoRun
  <2> QED
    BY <1>2, <1>3, <1>9, <2>1, RunsNone
<1>10. CASE n > 0
  BY <1>1, <1>2, <1>3, <1>8, <1>10 DEF T, Flush
<1> QED
  BY <1>9, <1>10

-----------------------------------------------------------------------------
(* The columns of a payload, one after the other: column c ends at off[c]. *)
LaidOut(raw, seqs, off, n) ==
  /\ raw \in Seq(Pair) /\ off \in [0..n -> Nat] /\ off[0] = 0 /\ off[n] = Len(raw)
  /\ \A c \in 1..n : /\ off[c] = off[c - 1] + Len(seqs[c]) /\ off[c] <= Len(raw)
                     /\ \A k \in 1..Len(seqs[c]) : raw[off[c - 1] + k] = seqs[c][k]

LEMMA JoinIs ==
  ASSUME NEW T, NEW a \in Seq(T), NEW b \in Seq(T)
  PROVE  /\ a \o b \in Seq(T) /\ Len(a \o b) = Len(a) + Len(b)
         /\ \A k \in 1..Len(a) : (a \o b)[k] = a[k]
         /\ \A k \in 1..Len(b) : (a \o b)[Len(a) + k] = b[k]
         /\ <<>> \o b = b
  OBVIOUS

LEMMA Flattened ==
  ASSUME NEW n \in Nat \ {0}, NEW seqs \in [1..n -> Seq(Pair)]
  PROVE  \E h \in [0..n -> Seq(Pair)] :
           /\ h[0] = <<>> /\ FlattenSeq(seqs) = h[n]
           /\ \A i \in 1..n : h[i] = h[i - 1] \o seqs[i]
<1> DEFINE V == Seq(Pair)
           F == [p \in V \X (1..n) |-> p[1] \o seqs[p[2]]]
           R(g) == g = [i \in 1..Len(seqs) |-> IF i = 1 THEN seqs[i] ELSE g[i - 1] \o seqs[i]]
<1>1. F \in [V \X (1..n) -> V] /\ \A v \in V, i \in 1..n : F[<<v, i>>] = v \o seqs[i]
  <2>1. \A v \in V, i \in 1..n : v \o seqs[i] \in V
    BY JoinIs
  <2>2. \A p \in V \X (1..n) : p[1] \in V /\ p[2] \in 1..n
    OBVIOUS
  <2> HIDE DEF V
  <2> QED
    BY <2>1, <2>2
<1>2. <<>> \in V
  OBVIOUS
<1>3. PICK it : Folds(it, V, <<>>, F, n)
  <2> HIDE DEF V, F
  <2> QED
    BY <1>1, <1>2, FoldExists
<1> DEFINE h == [k \in 0..n |-> it[1..k]]
<1>4. /\ h \in [0..n -> V] /\ h[0] = <<>>
      /\ \A i \in 1..n : h[i] = h[i - 1] \o seqs[i]
  <2>1. ASSUME NEW i \in 0..n PROVE 1..i \in SUBSET (1..n) /\ h[i] = it[1..i]
    BY <1>3 DEF Folds
  <2>2. \A i \in 0..n : h[i] \in V
    BY <1>3, <2>1 DEF Folds
  <2>3. h[0] = <<>>
    <3>1. 1..0 = {} /\ 1..0 \in SUBSET (1..n)
      OBVIOUS
    <3>2. h[0] = it[1..0]
      BY <2>1
    <3> HIDE DEF h
    <3> QED
      BY <1>3, <3>1, <3>2 DEF Folds
  <2>4. ASSUME NEW i \in 1..n PROVE h[i] = h[i - 1] \o seqs[i]
    <3>1. Max(1..i) = i /\ (1..i) \ {i} = 1..i - 1 /\ 1..i \in SUBSET (1..n) /\ 1..i # {}
      BY PrefixMax
    <3>2. i \in 0..n /\ i - 1 \in 0..n
      OBVIOUS
    <3>3. h[i] = it[1..i] /\ h[i - 1] = it[1..i - 1] /\ h[i - 1] \in V
      BY <2>1, <2>2, <3>2
    <3> HIDE DEF h
    <3>4. it[1..i] = F[<<it[(1..i) \ {Max(1..i)}], Max(1..i)>>]
      BY <1>3, <3>1 DEF Folds
    <3>5. it[1..i] = F[<<h[i - 1], i>>]
      BY <3>1, <3>3, <3>4
    <3> HIDE DEF F
    <3> QED
      BY <1>1, <3>3, <3>5
  <2>5. DOMAIN h = 0..n /\ h = [k \in 0..n |-> h[k]]
    OBVIOUS
  <2> HIDE DEF h, V
  <2> QED
    BY <2>2, <2>3, <2>4, <2>5
<1>5. Len(seqs) = n /\ DOMAIN seqs = 1..n
  OBVIOUS
<1> DEFINE fl == [i \in 1..n |-> h[i]]
<1> HIDE DEF h, V
<1>6. R(fl)
  <2>1. ASSUME NEW i \in 1..n
        PROVE  fl[i] = IF i = 1 THEN seqs[i] ELSE fl[i - 1] \o seqs[i]
    <3>1. CASE i = 1
      <4>1. h[1] = <<>> \o seqs[1] /\ seqs[1] \in Seq(Pair)
        <5>1. 1 \in 1..n /\ 1 - 1 = 0
          OBVIOUS
        <5>2. h[1] = h[1 - 1] \o seqs[1]
          BY <1>4, <5>1
        <5> QED
          BY <1>4, <5>1, <5>2
      <4>2. h[1] = seqs[1]
        BY <4>1, JoinIs
      <4> QED
        BY <3>1, <4>2
    <3>2. CASE i # 1
      <4>1. i - 1 \in 1..n /\ h[i] = h[i - 1] \o seqs[i]
        <5>1. i - 1 \in 1..n
          BY <3>2
        <5> QED
          BY <1>4, <5>1
      <4> QED
        BY <3>2, <4>1
    <3> QED
      BY <3>1, <3>2
  <2>2. fl = [i \in 1..n |-> fl[i]]
    OBVIOUS
  <2> HIDE DEF fl
  <2> QED
    BY <1>5, <2>1, <2>2
<1>7. PICK ch : ch = (CHOOSE g : R(g)) /\ R(ch)
  <2> HIDE DEF R
  <2> QED
    BY <1>6
<1>8. FlattenSeq(seqs) = ch[n]
  BY <1>5, <1>7 DEF FlattenSeq
<1>9. \A i \in 1..n : ch[i] = h[i]
  <2> DEFINE T == {i \in 0..n : i > 0 => ch[i] = h[i]}
  <2>1. 0 \in T
    OBVIOUS
  <2>2. ASSUME NEW i \in 0 + 1..n, i - 1 \in T PROVE i \in T
    <3>1. i \in 1..n /\ i \in 0..n
      OBVIOUS
    <3>2. ch[i] = IF i = 1 THEN seqs[i] ELSE ch[i - 1] \o seqs[i]
      BY <1>5, <1>7, <3>1
    <3>3. fl[i] = IF i = 1 THEN seqs[i] ELSE fl[i - 1] \o seqs[i]
      <4> HIDE DEF fl
      <4> QED
        BY <1>5, <1>6, <3>1
    <3>4. CASE i = 1
      BY <3>1, <3>2, <3>3, <3>4
    <3>5. CASE i # 1
      <4>1. i - 1 \in 1..n /\ ch[i - 1] = h[i - 1]
        BY <2>2, <3>5
      <4> QED
        BY <3>1, <3>2, <3>3, <3>5, <4>1
    <3> QED
      BY <3>4, <3>5
  <2>3. \A i \in 0..n : i \in T
    <3> HIDE DEF T
    <3>1. 0 \in Nat /\ 0 \in T /\ n \in Nat /\ \A i \in 0 + 1..n : i - 1 \in T => i \in T
      BY <2>1, <2>2
    <3> QED
      BY ONLY <3>1, Upward
  <2> QED
    BY <2>3
<1>10. FlattenSeq(seqs) = h[n]
  BY <1>8, <1>9
<1> QED
  BY <1>4, <1>10 DEF V

LEMMA FlattenLays ==
  ASSUME NEW n \in Nat \ {0}, NEW seqs \in [1..n -> Seq(Pair)]
  PROVE  \E off : LaidOut(FlattenSeq(seqs), seqs, off, n)
<1>1. PICK h \in [0..n -> Seq(Pair)] :
           /\ h[0] = <<>> /\ FlattenSeq(seqs) = h[n]
           /\ \A i \in 1..n : h[i] = h[i - 1] \o seqs[i]
  BY Flattened
<1>2. PICK off : off = [k \in 0..n |-> Len(h[k])]
  OBVIOUS
<1>3. /\ off \in [0..n -> Nat] /\ off[0] = 0 /\ off[n] = Len(h[n])
      /\ \A k \in 0..n : off[k] = Len(h[k]) /\ h[k] \in Seq(Pair)
  <2>1. \A k \in 0..n : off[k] = Len(h[k]) /\ h[k] \in Seq(Pair) /\ Len(h[k]) \in Nat
    <3>1. ASSUME NEW k \in 0..n PROVE off[k] = Len(h[k]) /\ h[k] \in Seq(Pair) /\ Len(h[k]) \in Nat
      <4>1. PICK a \in Seq(Pair) : a = h[k]
        BY <1>1
      <4>2. Len(a) \in Nat
        OBVIOUS
      <4>3. off[k] = Len(h[k])
        BY <1>2
      <4> QED
        BY <4>1, <4>2, <4>3
    <3> QED
      BY <3>1
  <2>2. 0 \in 0..n /\ n \in 0..n /\ Len(<<>>) = 0
    OBVIOUS
  <2>3. off \in [0..n -> Nat]
    BY <1>2, <2>1
  <2> QED
    BY <1>1, <2>1, <2>2, <2>3
<1>30. \A k \in 0..n : off[k] \in Nat
  BY <1>3
<1>4. ASSUME NEW i \in 1..n
      PROVE  /\ i \in 0..n /\ i - 1 \in 0..n /\ off[i] = off[i - 1] + Len(seqs[i])
             /\ \A k \in 1..off[i - 1] : h[i][k] = h[i - 1][k]
             /\ \A k \in 1..Len(seqs[i]) : h[i][off[i - 1] + k] = seqs[i][k]
  <2>1. i \in 0..n /\ i - 1 \in 0..n
    OBVIOUS
  <2>2. PICK a \in Seq(Pair) : a = h[i - 1] /\ off[i - 1] = Len(a)
    BY <1>3, <2>1
  <2>3. PICK b \in Seq(Pair) : b = seqs[i]
    OBVIOUS
  <2>4. h[i] = a \o b /\ off[i] = Len(h[i])
    BY <1>1, <1>3, <2>1, <2>2, <2>3
  <2> QED
    BY <2>1, <2>2, <2>3, <2>4, JoinIs
<1>5. ASSUME NEW c \in 1..n
      PROVE  off[c] <= off[n] /\ \A k \in 1..off[c] : h[n][k] = h[c][k]
  <2> DEFINE T == {m \in c..n : off[c] <= off[m] /\ \A k \in 1..off[c] : h[m][k] = h[c][k]}
  <2>1. c \in T
    <3>1. off[c] \in Nat
      BY <1>30
    <3> QED
      BY <3>1
  <2>2. ASSUME NEW m \in c + 1..n, m - 1 \in T PROVE m \in T
    <3>1. m \in 1..n /\ m \in c..n
      OBVIOUS
    <3>2. off[m] = off[m - 1] + Len(seqs[m]) /\ \A k \in 1..off[m - 1] : h[m][k] = h[m - 1][k]
      BY <1>4, <3>1
    <3>3. off[c] \in Nat /\ off[m] \in Nat /\ off[m - 1] \in Nat /\ Len(seqs[m]) \in Nat
      <4>1. c \in 0..n /\ m \in 0..n /\ m - 1 \in 0..n /\ seqs[m] \in Seq(Pair)
        BY <3>1
      <4> QED
        BY <1>30, <4>1
    <3>4. off[c] <= off[m - 1] /\ \A k \in 1..off[c] : h[m - 1][k] = h[c][k]
      BY <2>2
    <3>5. PICK x \in Nat, y \in Nat, z \in Nat, w \in Nat :
            x = off[c] /\ y = off[m - 1] /\ z = off[m] /\ w = Len(seqs[m])
      BY <3>3
    <3>6. z = y + w /\ x <= y
      BY <3>2, <3>4, <3>5
    <3>7. x <= z
      BY ONLY <3>6, x \in Nat, y \in Nat, w \in Nat
    <3>8. ASSUME NEW k \in 1..x PROVE h[m][k] = h[c][k]
      <4>1. k \in 1..y
        BY ONLY <3>6, x \in Nat, y \in Nat, k \in 1..x
      <4>2. h[m][k] = h[m - 1][k]
        BY <3>2, <3>5, <4>1
      <4>3. h[m - 1][k] = h[c][k]
        BY <3>4, <3>5
      <4> QED
        BY <4>2, <4>3
    <3> QED
      BY <3>1, <3>5, <3>7, <3>8
  <2>3. \A m \in c..n : m \in T
    <3> HIDE DEF T
    <3>1. c \in Nat /\ c \in T /\ n \in Nat /\ \A m \in c + 1..n : m - 1 \in T => m \in T
      BY <2>1, <2>2
    <3> QED
      BY ONLY <3>1, Upward
  <2>4. n \in c..n
    OBVIOUS
  <2> QED
    BY <2>3, <2>4
<1>6. ASSUME NEW c \in 1..n, NEW k \in 1..Len(seqs[c])
      PROVE  h[n][off[c - 1] + k] = seqs[c][k]
  <2>1. off[c] = off[c - 1] + Len(seqs[c]) /\ h[c][off[c - 1] + k] = seqs[c][k]
    BY <1>4
  <2>2. off[c - 1] \in Nat /\ Len(seqs[c]) \in Nat
    <3>1. c - 1 \in 0..n /\ seqs[c] \in Seq(Pair)
      OBVIOUS
    <3> QED
      BY <1>30, <3>1
  <2>3. off[c - 1] + k \in 1..off[c]
    <3>1. PICK x \in Nat, w \in Nat : x = off[c - 1] /\ w = Len(seqs[c]) /\ k \in 1..w
      BY <2>2
    <3>2. x + k \in 1..x + w
      <4>1. k \in Nat /\ 1 <= k /\ k <= w
        BY <3>1
      <4> QED
        BY ONLY x \in Nat, w \in Nat, <4>1
    <3>3. off[c] = x + w
      BY <2>1, <3>1, Zenon
    <3> QED
      BY <3>1, <3>2, <3>3, Zenon
  <2> QED
    BY <1>5, <2>1, <2>3
<1>7. h[n] \in Seq(Pair) /\ FlattenSeq(seqs) = h[n]
  BY <1>1
<1>8. LaidOut(h[n], seqs, off, n)
  BY <1>3, <1>4, <1>5, <1>6, <1>7 DEF LaidOut
<1> QED
  BY <1>7, <1>8

-----------------------------------------------------------------------------
(* How many cells the first pairs of a payload stand for.                  *)
Sums(S, raw) ==
  /\ S \in [0..Len(raw) -> Nat] /\ S[0] = 0
  /\ \A k \in 1..Len(raw) : S[k] = S[k - 1] + raw[k].run

LEMMA SumsExist ==
  ASSUME NEW raw \in Seq(Pair)
  PROVE  \E S : Sums(S, raw)
<1>1. PICK n \in Nat : n = Len(raw)
  OBVIOUS
<1> DEFINE F == [p \in Nat \X (1..n) |-> p[1] + raw[p[2]].run]
<1>2. F \in [Nat \X (1..n) -> Nat] /\ \A v \in Nat, i \in 1..n : F[<<v, i>>] = v + raw[i].run
  <2>1. \A i \in 1..n : raw[i].run \in Nat
    <3>1. ASSUME NEW i \in 1..n PROVE raw[i].run \in Nat
      <4>1. raw[i] \in Pair
        BY <1>1
      <4> QED
        BY <4>1 DEF Pair
    <3> QED
      BY <3>1
  <2>2. \A p \in Nat \X (1..n) : p[1] \in Nat /\ p[2] \in 1..n
    OBVIOUS
  <2>3. \A p \in Nat \X (1..n) : p[1] + raw[p[2]].run \in Nat
    BY <2>1, <2>2
  <2> QED
    BY <2>3
<1>3. PICK it : Folds(it, Nat, 0, F, n)
  <2> HIDE DEF F
  <2> QED
    BY <1>2, FoldExists
<1> DEFINE S == [k \in 0..n |-> it[1..k]]
<1>4. \A i \in 0..n : S[i] = it[1..i] /\ S[i] \in Nat
  <2>1. \A i \in 0..n : 1..i \in SUBSET (1..n)
    OBVIOUS
  <2> QED
    BY <1>3, <2>1 DEF Folds
<1>5. S[0] = 0
  <2>1. 1..0 = {} /\ 1..0 \in SUBSET (1..n) /\ S[0] = it[1..0]
    BY <1>4
  <2> HIDE DEF S
  <2> QED
    BY <1>3, <2>1 DEF Folds
<1>6. ASSUME NEW i \in 1..n PROVE S[i] = S[i - 1] + raw[i].run
  <2>1. Max(1..i) = i /\ (1..i) \ {i} = 1..i - 1 /\ 1..i \in SUBSET (1..n) /\ 1..i # {}
    BY PrefixMax
  <2>2. i \in 0..n /\ i - 1 \in 0..n
    OBVIOUS
  <2>3. S[i] = it[1..i] /\ S[i - 1] = it[1..i - 1] /\ S[i - 1] \in Nat
    BY <1>4, <2>2
  <2> HIDE DEF S
  <2>4. it[1..i] = F[<<it[(1..i) \ {Max(1..i)}], Max(1..i)>>]
    BY <1>3, <2>1 DEF Folds
  <2>5. it[1..i] = F[<<S[i - 1], i>>]
    BY <2>1, <2>3, <2>4
  <2> HIDE DEF F
  <2> QED
    BY <1>2, <2>3, <2>5
<1>7. S \in [0..n -> Nat]
  <2>1. S = [k \in 0..n |-> S[k]]
    OBVIOUS
  <2> HIDE DEF S
  <2> QED
    BY <1>4, <2>1
<1> HIDE DEF S
<1>8. Sums(S, raw)
  BY <1>1, <1>5, <1>6, <1>7 DEF Sums
<1> QED
  BY <1>8

LEMMA SumsGrow ==
  ASSUME NEW raw \in Seq(Pair), NEW S, Sums(S, raw), NEW i \in 0..Len(raw), NEW j \in i..Len(raw)
  PROVE  S[i] <= S[j] /\ S[i] \in Nat /\ S[j] \in Nat
<1> DEFINE T == {m \in i..Len(raw) : S[i] <= S[m]}
<1>1. \A m \in 0..Len(raw) : S[m] \in Nat
  BY DEF Sums
<1>2. i \in T /\ i \in Nat /\ Len(raw) \in Nat
  BY <1>1
<1>3. ASSUME NEW m \in i + 1..Len(raw), m - 1 \in T PROVE m \in T
  <2>1. m \in 1..Len(raw) /\ m \in 0..Len(raw) /\ m - 1 \in 0..Len(raw) /\ m \in i..Len(raw)
    BY <1>2
  <2>2. S[m] = S[m - 1] + raw[m].run /\ raw[m] \in Pair
    BY <2>1 DEF Sums
  <2>3. raw[m].run \in Nat
    BY <2>2 DEF Pair
  <2>4. S[m] \in Nat /\ S[m - 1] \in Nat /\ S[i] \in Nat
    BY <1>1, <2>1
  <2>5. S[i] <= S[m]
    BY <1>3, <2>2, <2>3, <2>4
  <2> QED
    BY <2>1, <2>5
<1>4. \A m \in i..Len(raw) : m \in T
  <2> HIDE DEF T
  <2> QED
    BY ONLY <1>2, <1>3, Upward
<1>5. j \in 0..Len(raw)
  OBVIOUS
<1> QED
  BY <1>1, <1>4, <1>5

(* The payload from a place on.                                            *)
Rest(raw, p) == SubSeq(raw, p + 1, Len(raw))

LEMMA TailIs ==
  ASSUME NEW T, NEW t \in Seq(T), t # <<>>
  PROVE  /\ Tail(t) \in Seq(T) /\ Len(Tail(t)) = Len(t) - 1
         /\ \A i \in 1..Len(t) - 1 : Tail(t)[i] = t[i + 1]
  OBVIOUS

LEMMA RestIs ==
  ASSUME NEW raw \in Seq(Pair), NEW p \in 0..Len(raw)
  PROVE  /\ Rest(raw, p) \in Seq(Pair)
         /\ p = Len(raw) <=> Rest(raw, p) = <<>>
         /\ p < Len(raw) => Head(Rest(raw, p)) = raw[p + 1] /\ Tail(Rest(raw, p)) = Rest(raw, p + 1)
         /\ Rest(raw, 0) = raw
<1>1. PICK n \in Nat : n = Len(raw)
  OBVIOUS
<1>2. /\ Rest(raw, p) \in Seq(Pair) /\ Len(Rest(raw, p)) = n - p
      /\ \A i \in 1..n - p : Rest(raw, p)[i] = raw[p + i]
  BY <1>1 DEF Rest
<1>3. p = n <=> Rest(raw, p) = <<>>
  BY <1>1, <1>2
<1>4. ASSUME p < n
      PROVE Head(Rest(raw, p)) = raw[p + 1] /\ Tail(Rest(raw, p)) = Rest(raw, p + 1)
  <2>1. Rest(raw, p) # <<>> /\ Head(Rest(raw, p)) = Rest(raw, p)[1]
    BY <1>2, <1>3, <1>4, <1>1
  <2>2. /\ Rest(raw, p + 1) \in Seq(Pair) /\ Len(Rest(raw, p + 1)) = n - (p + 1)
        /\ \A i \in 1..n - (p + 1) : Rest(raw, p + 1)[i] = raw[(p + 1) + i]
    BY <1>1, <1>4 DEF Rest
  <2>3. PICK t \in Seq(Pair) : t = Rest(raw, p)
    BY <1>2
  <2>4. /\ Tail(t) \in Seq(Pair) /\ Len(Tail(t)) = n - (p + 1)
        /\ \A i \in 1..n - (p + 1) : Tail(t)[i] = t[i + 1]
    <3>1. t # <<>> /\ Len(t) - 1 = n - (p + 1)
      <4>1. Len(t) = n - p /\ t # <<>>
        BY <1>2, <2>1, <2>3
      <4> QED
        BY <4>1
    <3> QED
      BY <3>1, TailIs
  <2>5. \A i \in 1..n - (p + 1) : Tail(t)[i] = raw[(p + 1) + i]
    <3>1. ASSUME NEW i \in 1..n - (p + 1) PROVE Tail(t)[i] = raw[(p + 1) + i]
      <4>1. i + 1 \in 1..n - p /\ p + (i + 1) = (p + 1) + i
        BY <1>1, <1>4
      <4> QED
        BY <1>2, <2>3, <2>4, <4>1
    <3> QED
      BY <3>1
  <2>6. Tail(t) = Rest(raw, p + 1)
    BY <2>2, <2>4, <2>5
  <2> QED
    BY <1>1, <1>2, <1>4, <2>1, <2>3, <2>6
<1>5. Rest(raw, 0) = raw
  BY <1>1 DEF Rest
<1> QED
  BY <1>1, <1>2, <1>3, <1>4, <1>5

-----------------------------------------------------------------------------
(* The pairs after p0 up to p1 are the runs of the n cells of f.           *)
Holds(raw, S, p0, p1, f, n) ==
  /\ p0 \in 0..Len(raw) /\ p1 \in p0..Len(raw) /\ S[p1] = S[p0] + n
  /\ \A k \in p0 + 1..p1 : /\ raw[k].run > 0
                           /\ \A j \in S[k - 1] - S[p0] + 1..S[k] - S[p0] : Rise(f, j) = raw[k].delta

LEMMA ColumnHeld ==
  ASSUME NEW raw, NEW seqs, NEW off, NEW n \in Nat, LaidOut(raw, seqs, off, n), NEW S, Sums(S, raw),
         NEW c \in 1..n, NEW f, NEW L \in Nat, Runs(seqs[c], f, L)
  PROVE  Holds(raw, S, off[c - 1], off[c], f, L)
<1>1. PICK cc : RunsBy(cc, seqs[c], f, L)
  BY DEF Runs
<1>0. PICK E \in Seq(Pair) : E = seqs[c]
  BY <1>1 DEF RunsBy
<1>2. PICK m \in Nat : m = Len(E)
  OBVIOUS
<1>3. PICK p \in Nat, q \in Nat, N \in Nat :
        /\ p = off[c - 1] /\ q = off[c] /\ N = Len(raw) /\ q = p + m /\ q <= N
        /\ \A k \in 1..m : raw[p + k] = E[k]
  <2>1. c \in 0..n /\ c - 1 \in 0..n
    OBVIOUS
  <2>2. off[c] \in Nat /\ off[c - 1] \in Nat /\ Len(raw) \in Nat
    BY <2>1 DEF LaidOut
  <2> QED
    BY <1>0, <1>2, <2>2 DEF LaidOut
<1>4. /\ cc \in [0..m -> 0..L] /\ cc[0] = 0 /\ cc[m] = L
      /\ \A k \in 1..m : /\ cc[k] = cc[k - 1] + E[k].run /\ E[k].run > 0
                         /\ \A j \in cc[k - 1] + 1..cc[k] : Rise(f, j) = E[k].delta
  BY <1>0, <1>1, <1>2 DEF RunsBy
<1>5. PICK s \in Nat : s = S[p]
  <2>1. p \in 0..Len(raw)
    BY <1>3
  <2> QED
    BY <2>1 DEF Sums
<1> DEFINE T == {k \in 0..m : S[p + k] = s + cc[k]}
<1>6. 0 \in T
  BY <1>4, <1>5
<1>7. ASSUME NEW k \in 0 + 1..m, k - 1 \in T PROVE k \in T
  <2>1. k \in 1..m /\ k \in 0..m /\ k - 1 \in 0..m /\ p + k \in 1..Len(raw) /\ (p + k) - 1 = p + (k - 1)
    <3>1. N = Len(raw) /\ p + m <= N
      BY <1>3
    <3>2. k \in 1..m /\ k \in 0..m /\ k - 1 \in 0..m /\ p + k \in 1..N /\ (p + k) - 1 = p + (k - 1)
      BY <3>1
    <3> QED
      BY <3>1, <3>2
  <2>2. S[p + k] = S[(p + k) - 1] + raw[p + k].run
    BY <2>1 DEF Sums
  <2>3. S[p + k] = (s + cc[k - 1]) + E[k].run
    BY <1>3, <1>7, <2>1, <2>2
  <2>4. PICK r \in Nat : r = E[k].run
    <3>1. E[k] \in Pair
      BY <1>2, <2>1
    <3> QED
      BY <3>1 DEF Pair
  <2>5. cc[k] = cc[k - 1] + r /\ cc[k - 1] \in Nat
    BY <1>4, <2>1, <2>4
  <2> QED
    BY <2>1, <2>3, <2>4, <2>5, SMTT(30)
<1>8. \A k \in 0..m : S[p + k] = s + cc[k] /\ cc[k] \in Nat
  <2>1. \A k \in 0..m : k \in T
    <3> HIDE DEF T
    <3>1. 0 \in Nat /\ 0 \in T /\ \A k \in 0 + 1..m : k - 1 \in T => k \in T
      BY <1>6, <1>7
    <3> QED
      BY ONLY <3>1, m \in Nat, Upward
  <2> QED
    BY <1>4, <2>1
<1> HIDE DEF T
<1>9. ASSUME NEW i \in p + 1..q
      PROVE  /\ raw[i].run > 0
             /\ \A j \in S[i - 1] - s + 1..S[i] - s : Rise(f, j) = raw[i].delta
  <2>1. PICK k \in 1..m : i = p + k
    <3>1. i - p \in 1..m /\ i = p + (i - p)
      <4>1. q = p + m
        BY <1>3
      <4> QED
        BY <4>1
    <3> QED
      BY <3>1
  <2>2. k \in 0..m /\ k - 1 \in 0..m /\ i - 1 = p + (k - 1)
    BY <2>1
  <2>3. S[i] = s + cc[k] /\ S[i - 1] = s + cc[k - 1] /\ cc[k] \in Nat /\ cc[k - 1] \in Nat
    BY <1>8, <2>1, <2>2
  <2>4. S[i] - s = cc[k] /\ S[i - 1] - s = cc[k - 1]
    BY <2>3
  <2>5. raw[i] = E[k]
    BY <1>3, <2>1
  <2> QED
    BY <1>4, <2>4, <2>5
<1>10. S[q] = s + L
  <2>1. m \in 0..m
    OBVIOUS
  <2> QED
    BY <1>3, <1>4, <1>8, <2>1
<1>11. p \in 0..N /\ q \in p..N
  BY <1>3
<1> QED
  BY <1>3, <1>5, <1>9, <1>10, <1>11 DEF Holds

-----------------------------------------------------------------------------
(* What the reader does with a pair.                                       *)
DecodeStep(r, n) ==
  LET left == n - Len(r.col)
      pair == Head(r.raw)
      last == IF r.col = <<>> THEN 0 ELSE Last(r.col)
  IN IF ~r.ok \/ left = 0 THEN r
     ELSE IF r.raw = <<>> \/ pair.run = 0 \/ pair.run > left THEN [r EXCEPT !.ok = FALSE]
          ELSE [r EXCEPT !.raw = Tail(@),
                         !.col = @ \o [j \in 1..pair.run |-> Wrapped(last + j * pair.delta)]]

Decoder == [raw : Seq(Pair), ok : BOOLEAN, col : Seq(Int)]
EndOf(col) == IF col = <<>> THEN 0 ELSE Last(col)
CellsOf(last, pair) == [j \in 1..pair.run |-> Wrapped(last + j * pair.delta)]

LEMMA LastIs ==
  ASSUME NEW col \in Seq(Int)
  PROVE  EndOf(col) \in Int /\ (Len(col) > 0 => EndOf(col) = col[Len(col)])
<1>1. CASE col = <<>>
  BY <1>1 DEF EndOf
<1>2. CASE col # <<>>
  <2>1. Len(col) \in 1..Len(col)
    BY <1>2
  <2>2. col[Len(col)] \in Int
    BY <2>1
  <2> QED
    BY <1>2, <2>2 DEF EndOf, Last
<1> QED
  BY <1>1, <1>2

LEMMA CellsAre ==
  ASSUME NEW last \in Int, NEW pair \in Pair
  PROVE  /\ CellsOf(last, pair) \in Seq(Int) /\ Len(CellsOf(last, pair)) = pair.run
         /\ \A j \in 1..pair.run : CellsOf(last, pair)[j] = Wrapped(last + j * pair.delta)
<1>1. PICK r \in Nat, d \in Int : r = pair.run /\ d = pair.delta
  BY DEF Pair
<1>2. ASSUME NEW j \in 1..r PROVE Wrapped(last + j * d) \in Int
  <2>1. last + j * d \in Int /\ Half \in Nat \ {0}
    BY CodecAssumption
  <2>2. Wrapped(last + j * d) \in Cell
    BY <2>1, WrappedFits
  <2> QED
    BY <2>2, CellIs
<1>3. CellsOf(last, pair) = [j \in 1..r |-> Wrapped(last + j * d)]
  BY <1>1 DEF CellsOf
<1>4. [j \in 1..r |-> Wrapped(last + j * d)] \in [1..r -> Int]
  BY <1>2
<1>5. PICK g \in [1..r -> Int] : g = CellsOf(last, pair) /\ \A j \in 1..r : g[j] = Wrapped(last + j * d)
  BY <1>3, <1>4
<1>6. g \in Seq(Int) /\ Len(g) = r
  OBVIOUS
<1> QED
  BY <1>1, <1>5, <1>6

LEMMA DecodeTakes ==
  ASSUME NEW r \in Decoder, NEW n \in Nat
  PROVE  /\ ~r.ok \/ Len(r.col) = n => DecodeStep(r, n) = r
         /\ r.ok /\ Len(r.col) # n /\ (r.raw = <<>> \/ Head(r.raw).run = 0 \/ Head(r.raw).run > n - Len(r.col)) =>
              DecodeStep(r, n) = [r EXCEPT !.ok = FALSE]
         /\ r.ok /\ Len(r.col) # n /\ ~(r.raw = <<>> \/ Head(r.raw).run = 0 \/ Head(r.raw).run > n - Len(r.col)) =>
              DecodeStep(r, n) = [raw |-> Tail(r.raw), ok |-> TRUE,
                                  col |-> r.col \o CellsOf(EndOf(r.col), Head(r.raw))]
<1>1. PICK w \in Seq(Pair), b \in BOOLEAN, c \in Seq(Int) : r = [raw |-> w, ok |-> b, col |-> c]
  BY DEF Decoder
<1>2. PICK m \in Nat : m = Len(c)
  OBVIOUS
<1>3. r.raw = w /\ r.ok = b /\ r.col = c
  BY <1>1
<1>4. n - m = 0 <=> m = n
  OBVIOUS
<1>5. ~b \/ m = n => DecodeStep(r, n) = r
  BY <1>2, <1>3, <1>4 DEF DecodeStep
<1>6. b /\ m # n /\ (w = <<>> \/ Head(w).run = 0 \/ Head(w).run > n - m) =>
        DecodeStep(r, n) = [r EXCEPT !.ok = FALSE]
  BY <1>2, <1>3, <1>4 DEF DecodeStep
<1>7. ASSUME b, m # n, ~(w = <<>> \/ Head(w).run = 0 \/ Head(w).run > n - m)
      PROVE  DecodeStep(r, n) = [raw |-> Tail(w), ok |-> TRUE, col |-> c \o CellsOf(EndOf(c), Head(w))]
  <2>1. DecodeStep(r, n) = [r EXCEPT !.raw = Tail(@), !.col = @ \o CellsOf(EndOf(c), Head(w))]
    BY <1>2, <1>3, <1>4, <1>7 DEF DecodeStep, CellsOf, EndOf
  <2> QED
    BY <1>1, <1>7, <2>1
<1> QED
  BY <1>2, <1>3, <1>5, <1>6, <1>7

LEMMA DecodeKeeps ==
  ASSUME NEW r \in Decoder, NEW n \in Nat
  PROVE  DecodeStep(r, n) \in Decoder
<1>1. CASE ~r.ok \/ Len(r.col) = n
  BY <1>1, DecodeTakes
<1>2. CASE r.ok /\ Len(r.col) # n /\ (r.raw = <<>> \/ Head(r.raw).run = 0 \/ Head(r.raw).run > n - Len(r.col))
  <2>1. DecodeStep(r, n) = [r EXCEPT !.ok = FALSE]
    BY <1>2, DecodeTakes
  <2> QED
    BY <2>1 DEF Decoder
<1>3. CASE r.ok /\ Len(r.col) # n /\ ~(r.raw = <<>> \/ Head(r.raw).run = 0 \/ Head(r.raw).run > n - Len(r.col))
  <2>1. PICK w \in Seq(Pair), c \in Seq(Int) : w = r.raw /\ c = r.col /\ w # <<>>
    BY <1>3 DEF Decoder
  <2>2. Head(w) \in Pair
    BY <2>1
  <2>3. CellsOf(EndOf(c), Head(w)) \in Seq(Int)
    BY <2>2, LastIs, CellsAre
  <2>4. Tail(w) \in Seq(Pair)
    BY <2>1, TailIs
  <2>5. c \o CellsOf(EndOf(c), Head(w)) \in Seq(Int)
    BY <2>3, JoinIs
  <2>6. DecodeStep(r, n) = [raw |-> Tail(w), ok |-> TRUE, col |-> c \o CellsOf(EndOf(c), Head(w))]
    BY <1>3, <2>1, DecodeTakes
  <2> QED
    BY <2>4, <2>5, <2>6 DEF Decoder
<1> QED
  BY <1>1, <1>2, <1>3

(* A column is read pair by pair.                                          *)
Begun(reader) == [raw |-> reader.raw, ok |-> reader.ok, col |-> <<>>]
Readers == [raw : Seq(Pair), ok : BOOLEAN, cells : Seq(Seq(Int))]

DecodeTrace(h, reader, n) ==
  /\ h[0] = Begun(reader)
  /\ DecodeColumn(reader, n) = [raw |-> h[n].raw, ok |-> h[n].ok, cells |-> Append(reader.cells, h[n].col)]
  /\ \A i \in 0..n : h[i] \in Decoder
  /\ \A i \in 1..n : h[i] = DecodeStep(h[i - 1], n)

LEMMA DecodeSteps ==
  ASSUME NEW reader \in Readers, NEW n \in Nat
  PROVE  \E h : DecodeTrace(h, reader, n)
<1> DEFINE V == Decoder
           base == Begun(reader)
           F == [p \in V \X (1..n) |-> DecodeStep(p[1], n)]
           ids == [k \in 1..n |-> k]
           E(g) == g = [s \in SUBSET DOMAIN ids |->
                          IF s = {} THEN base ELSE DecodeStep(g[s \ {Max(s)}], n)]
<1>1. n \in Nat /\ DOMAIN ids = 1..n
  OBVIOUS
<1>2. base \in V /\ F \in [V \X (1..n) -> V] /\ \A v \in V, i \in 1..n : F[<<v, i>>] = DecodeStep(v, n)
  <2>1. \A v \in V : DecodeStep(v, n) \in V
    BY DecodeKeeps
  <2>2. \A p \in V \X (1..n) : p[1] \in V /\ p[2] \in 1..n
    OBVIOUS
  <2>3. base \in V
    BY DEF Begun, Readers, Decoder
  <2> HIDE DEF V, base
  <2> QED
    BY <2>1, <2>2, <2>3
<1>3. PICK it : Folds(it, V, base, F, n)
  <2> HIDE DEF V, F, base
  <2> QED
    BY <1>1, <1>2, FoldExists
<1>4. ASSUME NEW s \in SUBSET (1..n), s # {} PROVE Max(s) \in 1..n /\ s \ {Max(s)} \in SUBSET (1..n)
  BY <1>1, <1>4, MaxOf
<1>5. E(it)
  <2>1. ASSUME NEW s \in SUBSET (1..n), s # {}
        PROVE  it[s] = DecodeStep(it[s \ {Max(s)}], n)
    <3>1. PICK m \in 1..n : m = Max(s)
      BY <1>1, <1>4, <2>1
    <3>2. PICK v \in V : v = it[s \ {m}]
      BY <1>3, <1>4, <2>1, <3>1 DEF Folds
    <3>3. it[s] = F[<<v, m>>]
      BY <1>3, <2>1, <3>1, <3>2 DEF Folds
    <3>4. F[<<v, m>>] = DecodeStep(v, n)
      BY <1>2
    <3> HIDE DEF F, ids
    <3> QED
      BY <3>1, <3>2, <3>3, <3>4
  <2> HIDE DEF F, V, ids, base
  <2> QED
    BY <1>1, <1>3, <2>1 DEF Folds
<1>6. PICK ch : ch = (CHOOSE g : E(g)) /\ E(ch)
  <2> HIDE DEF E
  <2> QED
    BY <1>5
<1>7. DecodeColumn(reader, n) = [raw |-> ch[DOMAIN ids].raw, ok |-> ch[DOMAIN ids].ok,
                                 cells |-> Append(reader.cells, ch[DOMAIN ids].col)]
  BY <1>6 DEF DecodeColumn, FoldLeft, MapThenFoldSet, DecodeStep, Begun
<1>8. ASSUME NEW i \in 1..n PROVE ch[1..i] = DecodeStep(ch[1..i - 1], n)
  <2>1. Max(1..i) = i /\ (1..i) \ {i} = 1..i - 1 /\ 1..i \in SUBSET (1..n) /\ 1..i # {}
    BY PrefixMax
  <2> HIDE DEF ids, base
  <2>3. ch[1..i] = IF 1..i = {} THEN base
                   ELSE DecodeStep(ch[(1..i) \ {Max(1..i)}], n)
    BY <1>1, <1>6, <2>1, ZenonT(60)
  <2> QED
    BY <2>1, <2>3
<1>9. ch[1..0] = base
  <2>1. 1..0 = {} /\ 1..0 \in SUBSET (1..n)
    OBVIOUS
  <2> HIDE DEF ids, base
  <2> QED
    BY <1>6, <1>1, <2>1
<1> DEFINE h == [k \in 0..n |-> ch[1..k]]
<1> HIDE DEF ids, E, F
<1>10. h[0] = base /\ h[n] = ch[1..n] /\ \A i \in 1..n : h[i] = ch[1..i] /\ h[i - 1] = ch[1..i - 1]
  BY <1>9, <1>1
<1> HIDE DEF h, base
<1>11. \A i \in 1..n : h[i] = DecodeStep(h[i - 1], n)
  BY <1>8, <1>10
<1>12. \A i \in 0..n : h[i] \in V
  <2> DEFINE T == {i \in 0..n : h[i] \in V}
  <2>1. 0 \in T
    BY <1>2, <1>10
  <2>2. ASSUME NEW i \in 0 + 1..n, i - 1 \in T PROVE i \in T
    <3>1. i \in 1..n /\ i \in 0..n
      OBVIOUS
    <3>2. h[i] = DecodeStep(h[i - 1], n) /\ h[i - 1] \in V
      BY <1>11, <2>2, <3>1
    <3> QED
      BY <3>1, <3>2, DecodeKeeps
  <2>3. \A i \in 0..n : i \in T
    <3> HIDE DEF T
    <3>1. 0 \in Nat /\ 0 \in T /\ \A k \in 0 + 1..n : k - 1 \in T => k \in T
      BY <2>1, <2>2
    <3> QED
      BY ONLY <3>1, n \in Nat, Upward
  <2> QED
    BY <2>3
<1>13. DecodeColumn(reader, n) = [raw |-> h[n].raw, ok |-> h[n].ok, cells |-> Append(reader.cells, h[n].col)]
  BY <1>1, <1>7, <1>10
<1>14. DecodeTrace(h, reader, n)
  BY <1>10, <1>11, <1>12, <1>13 DEF DecodeTrace, base, V
<1> QED
  BY <1>14

-----------------------------------------------------------------------------
LEMMA ZeroIs ==
  /\ 0 \in Cell
  /\ \A v \in Cell : Wrapped(v) = v
<1>1. Half \in Nat \ {0}
  BY CodecAssumption
<1>2. 0 \in Cell
  BY <1>1 DEF Cell
<1>3. ASSUME NEW v \in Cell PROVE Wrapped(v) = v
  <2>1. v \in Int /\ -Half <= v /\ v < Half
    BY <1>1 DEF Cell
  <2>2. v + Half \in 0..2 * Half - 1
    BY <1>1, <2>1
  <2>3. (v + Half) % (2 * Half) = v + Half
    BY <1>1, <2>1, <2>2
  <2> QED
    BY <1>1, <2>1, <2>3 DEF Wrapped
<1> QED
  BY <1>2, <1>3

(* r cells of f after the m-th rise by d; they are computed from the one   *)
(* before them.                                                            *)
Steady(f, m, r, d) == \A j \in m + 1..m + r : Rise(f, j) = d
CellAt(f, m) == IF m > 0 THEN f[m] ELSE 0
Computed(f, m, r, last, d) == \A j \in 1..r : f[m + j] = Wrapped(last + j * d)

LEMMA RunCells ==
  ASSUME NEW n \in Nat, NEW f \in [1..n -> Cell], NEW m \in Nat, NEW r \in Nat, m + r <= n,
         NEW d, Steady(f, m, r, d)
  PROVE  Computed(f, m, r, CellAt(f, m), d)
<1> DEFINE last == CellAt(f, m)
<1>1. last \in Cell /\ last \in Int
  <2>1. CASE m > 0
    <3>1. m \in 1..n
      BY <2>1
    <3>2. f[m] \in Cell
      BY <3>1
    <3> QED
      BY <2>1, <3>2, CellIs DEF CellAt
  <2>2. CASE m = 0
    BY <2>2, ZeroIs, CellIs DEF CellAt
  <2> QED
    BY <2>1, <2>2
<1> HIDE DEF last
<1> DEFINE T == {j \in 0..r : j > 0 => f[m + j] = Wrapped(last + j * d)}
<1>2. 0 \in T
  OBVIOUS
<1>3. ASSUME NEW j \in 0 + 1..r, j - 1 \in T PROVE j \in T
  <2>1. j \in 1..r /\ j \in 0..r /\ m + j \in 1..n /\ m + j \in m + 1..m + r
    OBVIOUS
  <2>2. PICK p \in Cell : p = (IF m + j > 1 THEN f[m + j - 1] ELSE 0)
    <3>1. CASE m + j > 1
      <4>1. m + j - 1 \in 1..n
        BY <2>1, <3>1
      <4>2. f[m + j - 1] \in Cell
        BY <4>1
      <4> QED
        BY <3>1, <4>2
    <3>2. CASE ~(m + j > 1)
      BY <3>2, ZeroIs
    <3> QED
      BY <3>1, <3>2
  <2>3. d = Wrapped(f[m + j] - p)
    BY <2>1, <2>2 DEF Rise, Steady
  <2>4. PICK v \in Cell : v = f[m + j]
    BY <2>1
  <2>5. PICK k \in Nat : k = j - 1 /\ j = k + 1
    BY <2>1
  <2>6. d \in Int
    <3>1. v - p \in Int /\ Half \in Nat \ {0}
      BY CellIs, CodecAssumption
    <3>2. Wrapped(v - p) \in Cell
      BY <3>1, WrappedFits
    <3> QED
      BY <2>3, <2>4, <3>2, CellIs
  <2>7. p = Wrapped(last + k * d)
    <3>1. CASE k = 0
      <4>1. p = last
        <5>1. CASE m > 0
          <6>1. m + j > 1 /\ m + j - 1 = m
            BY <2>5, <3>1, <5>1
          <6> QED
            BY <2>2, <5>1, <6>1 DEF CellAt, last
        <5>2. CASE m = 0
          <6>1. ~(m + j > 1)
            BY <2>5, <3>1, <5>2
          <6> QED
            BY <2>2, <5>2, <6>1 DEF CellAt, last
        <5> QED
          BY <5>1, <5>2
      <4>2. last + k * d = last
        BY <1>1, <2>6, <3>1
      <4> QED
        BY <1>1, <4>1, <4>2, ZeroIs
    <3>2. CASE k > 0
      <4>1. m + j > 1 /\ m + j - 1 = m + k
        BY <2>5, <3>2
      <4>2. f[m + k] = Wrapped(last + k * d)
        BY <1>3, <2>5, <3>2
      <4> QED
        BY <2>2, <4>1, <4>2
    <3> QED
      BY <2>5, <3>1, <3>2
  <2>8. v = Wrapped(last + (k + 1) * d)
    <3>1. Half \in Nat \ {0} /\ d = Wrapped(v - p)
      BY <2>3, <2>4, CodecAssumption
    <3> QED
      BY <1>1, <2>7, <3>1, RunContinues
  <2> QED
    BY <2>1, <2>4, <2>5, <2>8
<1>4. \A j \in 0..r : j \in T
  <2> HIDE DEF T
  <2>1. 0 \in Nat /\ 0 \in T /\ \A k \in 0 + 1..r : k - 1 \in T => k \in T
    BY <1>2, <1>3
  <2> QED
    BY ONLY <2>1, r \in Nat, Upward
<1> QED
  BY <1>1, <1>4 DEF Computed, last

LEMMA EmptyIs ==
  ASSUME NEW T, NEW c \in Seq(T), Len(c) = 0
  PROVE  c = <<>>
  OBVIOUS

LEMMA PairTaken ==
  ASSUME NEW raw \in Seq(Pair), NEW p \in 0..Len(raw), NEW n \in Nat, NEW r \in Decoder,
         r.raw = Rest(raw, p), r.ok, Len(r.col) < n
  PROVE  /\ DecodeStep(r, n).ok => p < Len(raw) /\ raw[p + 1].run \in 1..n - Len(r.col)
         /\ p < Len(raw) /\ raw[p + 1].run \in 1..n - Len(r.col) =>
              DecodeStep(r, n) = [raw |-> Rest(raw, p + 1), ok |-> TRUE,
                                  col |-> r.col \o CellsOf(EndOf(r.col), raw[p + 1])]
<1>1. PICK N \in Nat, m \in Nat, c \in Seq(Int) : N = Len(raw) /\ c = r.col /\ m = Len(c) /\ m < n
  BY DEF Decoder
<1>2. CASE p = N
  <2>1. r.raw = <<>>
    BY <1>1, <1>2, RestIs
  <2>2. DecodeStep(r, n) = [r EXCEPT !.ok = FALSE]
    <3>1. r.ok /\ Len(r.col) # n
      BY <1>1
    <3> QED
      BY <2>1, <3>1, DecodeTakes
  <2>3. ~DecodeStep(r, n).ok
    BY <2>2 DEF Decoder
  <2>4. ~(p < N)
    BY <1>2
  <2> QED
    BY <1>1, <2>3, <2>4
<1>3. CASE p < N
  <2>1. /\ r.raw # <<>> /\ Head(r.raw) = raw[p + 1] /\ Tail(r.raw) = Rest(raw, p + 1)
    <3>1. p # Len(raw) /\ p < Len(raw)
      BY <1>1, <1>3
    <3> QED
      BY <3>1, RestIs
  <2>2. PICK u \in Nat : u = raw[p + 1].run
    <3>1. p + 1 \in 1..Len(raw)
      BY <1>1, <1>3
    <3>2. raw[p + 1] \in Pair
      BY <3>1
    <3> QED
      BY <3>2 DEF Pair
  <2>3. r.ok /\ Len(r.col) # n
    BY <1>1
  <2>4. CASE u \in 1..n - m
    <3>1. ~(r.raw = <<>> \/ Head(r.raw).run = 0 \/ Head(r.raw).run > n - Len(r.col))
      BY <1>1, <2>1, <2>2, <2>4
    <3>2. DecodeStep(r, n) = [raw |-> Tail(r.raw), ok |-> TRUE,
                              col |-> r.col \o CellsOf(EndOf(r.col), Head(r.raw))]
      BY <2>3, <3>1, DecodeTakes
    <3> QED
      BY <1>1, <1>3, <2>1, <2>2, <2>4, <3>2
  <2>5. CASE u \notin 1..n - m
    <3>1. Head(r.raw).run = 0 \/ Head(r.raw).run > n - Len(r.col)
      BY <1>1, <2>1, <2>2, <2>5
    <3>2. DecodeStep(r, n) = [r EXCEPT !.ok = FALSE]
      BY <2>3, <3>1, DecodeTakes
    <3>3. ~DecodeStep(r, n).ok
      BY <3>2 DEF Decoder
    <3> QED
      BY <1>1, <2>2, <2>5, <3>3
  <2> QED
    BY <2>4, <2>5
<1>4. p = N \/ p < N
  BY <1>1
<1> QED
  BY <1>2, <1>3, <1>4

LEMMA TakenLen ==
  ASSUME NEW col \in Seq(Int), NEW pair \in Pair
  PROVE  /\ Len(col \o CellsOf(EndOf(col), pair)) = Len(col) + pair.run
         /\ col \o CellsOf(EndOf(col), pair) \in Seq(Int)
         /\ \A j \in 1..Len(col) : (col \o CellsOf(EndOf(col), pair))[j] = col[j]
         /\ \A j \in 1..pair.run : (col \o CellsOf(EndOf(col), pair))[Len(col) + j]
                                     = Wrapped(EndOf(col) + j * pair.delta)
<1>1. PICK g \in Seq(Int) : /\ g = CellsOf(EndOf(col), pair) /\ Len(g) = pair.run
                            /\ \A j \in 1..pair.run : g[j] = Wrapped(EndOf(col) + j * pair.delta)
  BY LastIs, CellsAre
<1> QED
  BY <1>1, JoinIs

(* A column that is read takes pairs for exactly its cells.                *)
LEMMA ColumnRead ==
  ASSUME NEW reader \in Readers, NEW n \in Nat, NEW raw \in Seq(Pair), NEW S, Sums(S, raw),
         NEW p0 \in 0..Len(raw), reader.ok => reader.raw = Rest(raw, p0),
         NEW h, DecodeTrace(h, reader, n), h[n].ok
  PROVE  reader.ok /\ \E p \in 0..Len(raw) : h[n].raw = Rest(raw, p) /\ S[p] = S[p0] + n
<1> DEFINE Good(r, i) == r.ok => /\ reader.ok
                                 /\ \E p \in 0..Len(raw) :
                                      /\ r.raw = Rest(raw, p) /\ S[p] = S[p0] + Len(r.col)
                                      /\ i <= Len(r.col) /\ Len(r.col) <= n
           T == {i \in 0..n : Good(h[i], i)}
<1>1. \A p \in 0..Len(raw) : S[p] \in Nat
  BY DEF Sums
<1>2. 0 \in T
  <2>1. h[0] = Begun(reader)
    BY DEF DecodeTrace
  <2>2. h[0].raw = reader.raw /\ h[0].ok = reader.ok /\ h[0].col = <<>>
    BY <2>1 DEF Begun
  <2>3. S[p0] = S[p0] + Len(h[0].col) /\ 0 <= Len(h[0].col) /\ Len(h[0].col) <= n
    BY <1>1, <2>2
  <2> QED
    BY <2>2, <2>3
<1>3. ASSUME NEW i \in 0 + 1..n, i - 1 \in T PROVE i \in T
  <2>1. i \in 1..n /\ i \in 0..n /\ i - 1 \in 0..n
    OBVIOUS
  <2>2. PICK r \in Decoder : r = h[i - 1] /\ h[i] = DecodeStep(r, n) /\ Good(r, i - 1)
    BY <1>3, <2>1 DEF DecodeTrace
  <2> SUFFICES ASSUME h[i].ok PROVE Good(h[i], i)
    BY <2>1
  <2>3. r.ok
    <3>1. CASE ~r.ok
      <4>1. DecodeStep(r, n) = r
        BY <3>1, DecodeTakes
      <4> QED
        BY <2>2, <3>1, <4>1
    <3> QED
      BY <3>1
  <2>4. PICK p \in 0..Len(raw) : r.raw = Rest(raw, p) /\ S[p] = S[p0] + Len(r.col)
                                 /\ i - 1 <= Len(r.col) /\ Len(r.col) <= n /\ reader.ok
    BY <2>2, <2>3
  <2>5. PICK c \in Seq(Int), m \in Nat : c = r.col /\ m = Len(c)
    BY DEF Decoder
  <2>6. CASE m = n
    <3>1. h[i] = r
      BY <2>2, <2>5, <2>6, DecodeTakes
    <3>2. i <= m
      BY <2>1, <2>6
    <3> QED
      BY <2>4, <2>5, <3>1, <3>2
  <2>7. CASE m < n
    <3>1. p < Len(raw) /\ raw[p + 1].run \in 1..n - m
      BY <2>2, <2>3, <2>4, <2>5, <2>7, PairTaken
    <3>2. h[i] = [raw |-> Rest(raw, p + 1), ok |-> TRUE, col |-> c \o CellsOf(EndOf(c), raw[p + 1])]
      BY <2>2, <2>3, <2>4, <2>5, <2>7, <3>1, PairTaken
    <3>3. p + 1 \in 1..Len(raw) /\ p + 1 \in 0..Len(raw) /\ (p + 1) - 1 = p
      BY <3>1
    <3>4. PICK pair \in Pair : pair = raw[p + 1]
      BY <3>3
    <3>5. PICK u \in Nat : u = pair.run /\ u \in 1..n - m
      BY <3>1, <3>4
    <3>6. S[p + 1] = S[p] + u
      BY <3>3, <3>4, <3>5 DEF Sums
    <3>7. PICK g \in Seq(Int) : g = c \o CellsOf(EndOf(c), pair) /\ Len(g) = m + u
      BY <2>5, <3>5, TakenLen
    <3>8. h[i].raw = Rest(raw, p + 1) /\ h[i].col = g
      BY <3>2, <3>4, <3>7
    <3>9. S[p + 1] = S[p0] + Len(g) /\ i <= Len(g) /\ Len(g) <= n
      <4>1. PICK a \in Nat, b \in Nat : a = S[p] /\ b = S[p0]
        BY <1>1
      <4>2. a = b + m /\ i - 1 <= m
        BY <2>4, <2>5, <4>1
      <4>3. a + u = b + (m + u) /\ i <= m + u /\ m + u <= n
        BY <2>1, <3>5, <4>2, SMTT(30)
      <4> QED
        BY <3>6, <3>7, <4>1, <4>3
    <3> QED
      BY <2>4, <3>3, <3>8, <3>9
  <2>8. m = n \/ m < n
    BY <2>4, <2>5
  <2> QED
    BY <2>6, <2>7, <2>8
<1>4. \A i \in 0..n : i \in T
  <2> HIDE DEF T
  <2>1. 0 \in Nat /\ 0 \in T /\ \A k \in 0 + 1..n : k - 1 \in T => k \in T
    BY <1>2, <1>3
  <2> QED
    BY ONLY <2>1, n \in Nat, Upward
<1>5. n \in 0..n
  OBVIOUS
<1>6. PICK p \in 0..Len(raw) : h[n].raw = Rest(raw, p) /\ S[p] = S[p0] + Len(h[n].col)
                               /\ n <= Len(h[n].col) /\ Len(h[n].col) <= n /\ reader.ok
  BY <1>4, <1>5
<1>7. Len(h[n].col) = n
  <2>1. h[n].col \in Seq(Int)
    BY <1>5 DEF DecodeTrace, Decoder
  <2> QED
    BY <1>6, <2>1
<1> QED
  BY <1>6, <1>7

(* The runs of a column are read back as the column.                       *)
LEMMA ColumnFound ==
  ASSUME NEW reader \in Readers, NEW n \in Nat, NEW raw \in Seq(Pair), NEW S, Sums(S, raw),
         NEW p0, NEW p1, NEW f \in [1..n -> Cell], Holds(raw, S, p0, p1, f, n),
         reader.ok, reader.raw = Rest(raw, p0), NEW h, DecodeTrace(h, reader, n)
  PROVE  h[n].ok /\ h[n].raw = Rest(raw, p1) /\ h[n].col = f
<1> DEFINE Good(r, i) == /\ r.ok
                         /\ \E p \in p0..p1 :
                              /\ r.raw = Rest(raw, p) /\ S[p] = S[p0] + Len(r.col)
                              /\ i <= Len(r.col) /\ Len(r.col) <= n
                              /\ \A j \in 1..Len(r.col) : r.col[j] = f[j]
           T == {i \in 0..n : Good(h[i], i)}
<1>1. PICK N \in Nat : N = Len(raw)
  OBVIOUS
<1>2. p0 \in 0..N /\ p1 \in p0..N /\ S[p1] = S[p0] + n
  BY <1>1 DEF Holds
<1>3. \A p \in 0..N : S[p] \in Nat
  BY <1>1 DEF Sums
<1>4. 0 \in T
  <2>1. h[0] = Begun(reader)
    BY DEF DecodeTrace
  <2>2. h[0].raw = reader.raw /\ h[0].ok = reader.ok /\ h[0].col = <<>>
    BY <2>1 DEF Begun
  <2>3. S[p0] = S[p0] + Len(h[0].col) /\ 0 <= Len(h[0].col) /\ Len(h[0].col) <= n
    BY <1>2, <1>3, <2>2
  <2>4. p0 \in p0..p1 /\ \A j \in 1..Len(h[0].col) : h[0].col[j] = f[j]
    BY <1>2, <2>2
  <2>5. h[0].raw = Rest(raw, p0) /\ h[0].ok
    BY <2>2
  <2>6. Good(h[0], 0)
    BY <2>3, <2>4, <2>5
  <2> QED
    BY <2>6
<1>5. ASSUME NEW i \in 0 + 1..n, i - 1 \in T PROVE i \in T
  <2>1. i \in 1..n /\ i \in 0..n /\ i - 1 \in 0..n
    OBVIOUS
  <2>2. PICK r \in Decoder : r = h[i - 1] /\ h[i] = DecodeStep(r, n) /\ Good(r, i - 1)
    BY <1>5, <2>1 DEF DecodeTrace
  <2> SUFFICES Good(h[i], i)
    BY <2>1
  <2>4. PICK p \in p0..p1 : r.raw = Rest(raw, p) /\ S[p] = S[p0] + Len(r.col)
                            /\ i - 1 <= Len(r.col) /\ Len(r.col) <= n /\ r.ok
                            /\ \A j \in 1..Len(r.col) : r.col[j] = f[j]
    BY <2>2
  <2>5. PICK c \in Seq(Int), m \in Nat : c = r.col /\ m = Len(c)
    BY DEF Decoder
  <2>6. CASE m = n
    <3>1. h[i] = r
      <4>1. Len(r.col) = n
        BY <2>5, <2>6
      <4>2. DecodeStep(r, n) = r
        BY <4>1, DecodeTakes
      <4> QED
        BY <2>2, <4>2
    <3>2. i <= m
      BY <2>1, <2>6
    <3> QED
      BY <2>4, <2>5, <3>1, <3>2
  <2>7. CASE m < n
    <3>1. p \in 0..N /\ p \in Nat /\ p1 \in 0..N
      BY <1>2
    <3>2. S[p] = S[p0] + m /\ S[p] \in Nat /\ S[p0] \in Nat
      BY <1>2, <1>3, <2>4, <2>5, <3>1
    <3>3. p # p1
      BY <1>2, <2>7, <3>2
    <3>4. p + 1 \in 1..N /\ p + 1 \in 0..N /\ p + 1 \in p0..p1 /\ p + 1 \in p0 + 1..p1 /\ (p + 1) - 1 = p /\ p < N
      BY <1>2, <3>1, <3>3
    <3>5. PICK pair \in Pair : pair = raw[p + 1]
      BY <1>1, <3>4
    <3>6. PICK u \in Nat, d \in Int : u = pair.run /\ d = pair.delta
      BY DEF Pair
    <3>7. S[p + 1] = S[p] + u
      BY <1>1, <3>4, <3>5, <3>6 DEF Sums
    <3>8. S[p + 1] <= S[p1]
      <4>1. p1 \in p + 1..Len(raw) /\ p + 1 \in 0..Len(raw)
        BY <1>1, <1>2, <3>4
      <4> QED
        BY <4>1, SumsGrow
    <3>9. u > 0 /\ \A j \in S[p] - S[p0] + 1..S[p + 1] - S[p0] : Rise(f, j) = d
      BY <3>4, <3>5, <3>6 DEF Holds
    <3>10. u \in 1..n - m
      BY <1>2, <3>2, <3>7, <3>8, <3>9
    <3>11. \A j \in m + 1..m + u : Rise(f, j) = d
      <4>1. S[p] - S[p0] = m /\ S[p + 1] - S[p0] = m + u
        BY <3>2, <3>7
      <4> QED
        BY <3>9, <4>1
    <3>12. h[i] = [raw |-> Rest(raw, p + 1), ok |-> TRUE, col |-> c \o CellsOf(EndOf(c), pair)]
      <4>1. p \in 0..Len(raw) /\ p < Len(raw) /\ Len(r.col) < n /\ raw[p + 1].run \in 1..n - Len(r.col)
        BY <1>1, <2>5, <2>7, <3>1, <3>4, <3>5, <3>6, <3>10
      <4> QED
        BY <2>2, <2>4, <2>5, <3>5, <4>1, PairTaken
    <3>13. PICK g \in Seq(Int) : /\ g = c \o CellsOf(EndOf(c), pair) /\ Len(g) = m + u
                                 /\ \A j \in 1..m : g[j] = c[j]
                                 /\ \A j \in 1..u : g[m + j] = Wrapped(EndOf(c) + j * d)
      BY <2>5, <3>6, TakenLen, ZenonT(60)
    <3>14. EndOf(c) = (IF m > 0 THEN f[m] ELSE 0)
      <4>1. CASE m > 0
        <5>1. m \in 1..m /\ EndOf(c) = c[m]
          BY <2>5, <4>1, LastIs
        <5> QED
          BY <2>4, <2>5, <4>1, <5>1
      <4>2. CASE m = 0
        <5>1. c = <<>>
          <6>1. Len(c) = 0
            BY <2>5, <4>2
          <6> QED
            BY <6>1, EmptyIs
        <5> QED
          BY <4>2, <5>1 DEF EndOf
      <4> QED
        BY <4>1, <4>2
    <3>15. \A j \in 1..u : f[m + j] = Wrapped(EndOf(c) + j * d)
      <4>1. m + u <= n
        BY <3>10
      <4>2. Steady(f, m, u, d)
        BY <3>11 DEF Steady
      <4>3. Computed(f, m, u, CellAt(f, m), d)
        BY <4>1, <4>2, RunCells
      <4>4. CellAt(f, m) = EndOf(c)
        BY <3>14 DEF CellAt
      <4> QED
        BY <4>3, <4>4 DEF Computed
    <3>16. ASSUME NEW j \in 1..m + u PROVE g[j] = f[j]
      <4>1. CASE j \in 1..m
        BY <2>4, <2>5, <3>13, <4>1
      <4>2. CASE j \notin 1..m
        <5>1. PICK k \in 1..u : j = m + k
          <6>1. j - m \in 1..u /\ j = m + (j - m)
            BY <4>2
          <6> QED
            BY <6>1
        <5> QED
          BY <3>13, <3>15, <5>1
      <4> QED
        BY <4>1, <4>2
    <3>17. h[i].raw = Rest(raw, p + 1) /\ h[i].col = g /\ h[i].ok
      BY <3>12, <3>13
    <3>18. S[p + 1] = S[p0] + Len(g) /\ i <= Len(g) /\ Len(g) <= n
      <4>1. PICK a \in Nat, b \in Nat : a = S[p] /\ b = S[p0] /\ a = b + m
        BY <3>2
      <4>2. i - 1 <= m
        BY <2>4, <2>5
      <4>3. a + u = b + (m + u) /\ i <= m + u /\ m + u <= n
        BY <2>1, <3>10, <4>1, <4>2
      <4> QED
        BY <3>7, <3>13, <4>1, <4>3
    <3> QED
      BY <3>4, <3>13, <3>16, <3>17, <3>18
  <2>8. m = n \/ m < n
    BY <2>4, <2>5
  <2> QED
    BY <2>6, <2>7, <2>8
<1>6. \A i \in 0..n : i \in T
  <2> HIDE DEF T
  <2>1. 0 \in Nat /\ 0 \in T /\ \A k \in 0 + 1..n : k - 1 \in T => k \in T
    BY <1>4, <1>5
  <2> QED
    BY ONLY <2>1, n \in Nat, Upward
<1>7. n \in 0..n
  OBVIOUS
<1>8. PICK c \in Seq(Int), p \in p0..p1 :
        /\ c = h[n].col /\ h[n].ok /\ h[n].raw = Rest(raw, p) /\ S[p] = S[p0] + Len(c)
        /\ n <= Len(c) /\ Len(c) <= n /\ \A j \in 1..Len(c) : c[j] = f[j]
  <2>1. h[n].col \in Seq(Int) /\ n \in T
    BY <1>6, <1>7 DEF DecodeTrace, Decoder
  <2> QED
    BY <2>1
<1>9. Len(c) = n
  BY <1>8
<1>10. c = f
  BY <1>8, <1>9
<1>11. p = p1
  <2> SUFFICES ASSUME p # p1 PROVE FALSE
    OBVIOUS
  <2>1. p + 1 \in 1..N /\ p + 1 \in 0..N /\ p1 \in p + 1..N /\ p + 1 \in p0 + 1..p1 /\ (p + 1) - 1 = p
        /\ p \in 0..N
    BY <1>2
  <2>2. S[p + 1] = S[p] + raw[p + 1].run /\ raw[p + 1] \in Pair
    BY <1>1, <2>1 DEF Sums
  <2>3. raw[p + 1].run > 0
    BY <2>1 DEF Holds
  <2>4. S[p + 1] <= S[p1]
    BY <1>1, <2>1, SumsGrow
  <2>5. PICK u \in Nat : u = raw[p + 1].run
    BY <2>2 DEF Pair
  <2>6. S[p] \in Nat /\ S[p + 1] \in Nat /\ S[p] = S[p0] + n
    BY <1>3, <1>8, <1>9, <2>1
  <2> QED
    BY <1>2, <2>2, <2>3, <2>4, <2>5, <2>6
<1> QED
  BY <1>8, <1>10, <1>11

-----------------------------------------------------------------------------
(* A payload is read column by column.                                     *)
ColumnsTrace(g, raw, n) ==
  /\ g[0] = Reader(raw)
  /\ DecodeColumns(raw, n) =
       [ok |-> Consumed(g[Cols]),
        table |-> IF Consumed(g[Cols]) THEN [row \in 1..n |-> [c \in 1..Cols |-> g[Cols].cells[c][row]]]
                                       ELSE <<>>]
  /\ \A c \in 0..Cols : g[c] \in Readers
  /\ \A c \in 1..Cols : g[c] = DecodeColumn(g[c - 1], n)

LEMMA ColumnKeeps ==
  ASSUME NEW reader \in Readers, NEW n \in Nat
  PROVE  DecodeColumn(reader, n) \in Readers
<1>1. PICK h : DecodeTrace(h, reader, n)
  BY DecodeSteps
<1>2. n \in 0..n
  OBVIOUS
<1>3. h[n] \in Decoder
  BY <1>1, <1>2 DEF DecodeTrace
<1>4. PICK cs \in Seq(Seq(Int)), c \in Seq(Int) : cs = reader.cells /\ c = h[n].col
  BY <1>3 DEF Readers, Decoder
<1>5. Append(cs, c) \in Seq(Seq(Int))
  BY AppendIn
<1>6. DecodeColumn(reader, n) = [raw |-> h[n].raw, ok |-> h[n].ok, cells |-> Append(cs, c)]
  BY <1>1, <1>4 DEF DecodeTrace
<1>7. h[n].raw \in Seq(Pair) /\ h[n].ok \in BOOLEAN
  BY <1>3 DEF Decoder
<1> QED
  BY <1>5, <1>6, <1>7 DEF Readers

LEMMA ColumnsSteps ==
  ASSUME NEW raw \in Seq(Pair), NEW n \in Nat
  PROVE  \E g : ColumnsTrace(g, raw, n)
<1> DEFINE V == Readers
           base == Reader(raw)
           F == [p \in V \X (1..Cols) |-> DecodeColumn(p[1], n)]
           ids == [c \in 1..Cols |-> c]
           E(g) == g = [s \in SUBSET DOMAIN ids |->
                          IF s = {} THEN base ELSE DecodeColumn(g[s \ {Max(s)}], n)]
<1>1. Cols \in Nat /\ DOMAIN ids = 1..Cols
  BY CodecAssumption
<1>2. base \in V /\ F \in [V \X (1..Cols) -> V]
      /\ \A v \in V, i \in 1..Cols : F[<<v, i>>] = DecodeColumn(v, n)
  <2>1. \A v \in V : DecodeColumn(v, n) \in V
    BY ColumnKeeps
  <2>2. \A p \in V \X (1..Cols) : p[1] \in V /\ p[2] \in 1..Cols
    OBVIOUS
  <2>3. base \in V
    BY DEF Reader, Readers
  <2> HIDE DEF V, base
  <2> QED
    BY <2>1, <2>2, <2>3
<1>3. PICK it : Folds(it, V, base, F, Cols)
  <2> HIDE DEF V, F, base
  <2> QED
    BY <1>1, <1>2, FoldExists
<1>4. ASSUME NEW s \in SUBSET (1..Cols), s # {} PROVE Max(s) \in 1..Cols /\ s \ {Max(s)} \in SUBSET (1..Cols)
  BY <1>1, <1>4, MaxOf
<1>5. E(it)
  <2>1. ASSUME NEW s \in SUBSET (1..Cols), s # {}
        PROVE  it[s] = DecodeColumn(it[s \ {Max(s)}], n)
    <3>1. PICK m \in 1..Cols : m = Max(s)
      BY <1>1, <1>4, <2>1
    <3>2. PICK v \in V : v = it[s \ {m}]
      BY <1>3, <1>4, <2>1, <3>1 DEF Folds
    <3>3. it[s] = F[<<v, m>>]
      BY <1>3, <2>1, <3>1, <3>2 DEF Folds
    <3>4. F[<<v, m>>] = DecodeColumn(v, n)
      BY <1>2
    <3> HIDE DEF F, ids
    <3> QED
      BY <3>1, <3>2, <3>3, <3>4
  <2> HIDE DEF F, V, ids, base
  <2> QED
    BY <1>1, <1>3, <2>1 DEF Folds
<1>6. PICK ch : ch = (CHOOSE g : E(g)) /\ E(ch)
  <2> HIDE DEF E
  <2> QED
    BY <1>5
<1> DEFINE end == ch[DOMAIN ids]
<1>7. DecodeColumns(raw, n) =
       [ok |-> Consumed(end),
        table |-> IF Consumed(end) THEN [row \in 1..n |-> [c \in 1..Cols |-> end.cells[c][row]]]
                                   ELSE <<>>]
  BY <1>6 DEF DecodeColumns, FoldLeft, MapThenFoldSet
<1>8. ASSUME NEW i \in 1..Cols PROVE ch[1..i] = DecodeColumn(ch[1..i - 1], n)
  <2>1. Max(1..i) = i /\ (1..i) \ {i} = 1..i - 1 /\ 1..i \in SUBSET (1..Cols) /\ 1..i # {}
    BY <1>1, PrefixMax
  <2> HIDE DEF ids, base
  <2>3. ch[1..i] = IF 1..i = {} THEN base
                   ELSE DecodeColumn(ch[(1..i) \ {Max(1..i)}], n)
    BY <1>1, <1>6, <2>1, ZenonT(60)
  <2> QED
    BY <2>1, <2>3
<1>9. ch[1..0] = base
  <2>1. 1..0 = {} /\ 1..0 \in SUBSET (1..Cols)
    BY <1>1
  <2> HIDE DEF ids, base
  <2> QED
    BY <1>6, <1>1, <2>1
<1> DEFINE h == [k \in 0..Cols |-> ch[1..k]]
<1> HIDE DEF ids, E, F
<1>10. h[0] = base /\ h[Cols] = ch[1..Cols] /\ \A i \in 1..Cols : h[i] = ch[1..i] /\ h[i - 1] = ch[1..i - 1]
  BY <1>9, <1>1
<1> HIDE DEF h, base
<1>11. \A i \in 1..Cols : h[i] = DecodeColumn(h[i - 1], n)
  BY <1>8, <1>10
<1>12. \A i \in 0..Cols : h[i] \in V
  <2> DEFINE T == {i \in 0..Cols : h[i] \in V}
  <2>1. 0 \in T
    BY <1>1, <1>2, <1>10
  <2>2. ASSUME NEW i \in 0 + 1..Cols, i - 1 \in T PROVE i \in T
    <3>1. i \in 1..Cols /\ i \in 0..Cols
      BY <1>1
    <3>2. h[i] = DecodeColumn(h[i - 1], n) /\ h[i - 1] \in V
      BY <1>11, <2>2, <3>1
    <3> QED
      BY <3>1, <3>2, ColumnKeeps
  <2>3. \A i \in 0..Cols : i \in T
    <3> HIDE DEF T
    <3>1. 0 \in Nat /\ 0 \in T /\ \A k \in 0 + 1..Cols : k - 1 \in T => k \in T
      BY <2>1, <2>2
    <3> QED
      BY ONLY <3>1, <1>1, Upward
  <2> QED
    BY <2>3
<1>13. end = h[Cols]
  BY <1>1, <1>10
<1> HIDE DEF end
<1>14. ColumnsTrace(h, raw, n)
  BY <1>7, <1>10, <1>11, <1>12, <1>13 DEF ColumnsTrace, base, V
<1> QED
  BY <1>14

-----------------------------------------------------------------------------
(* The payload of a table: one column after the other.                     *)
PayloadOf(raw, S, off, table) ==
  /\ raw \in Seq(Pair) /\ Sums(S, raw) /\ off[0] = 0 /\ off[Cols] = Len(raw)
  /\ \A c \in 1..Cols : Holds(raw, S, off[c - 1], off[c], Column(table, c), Len(table))

LEMMA Payload ==
  ASSUME NEW table \in Rows
  PROVE  \E S, off : PayloadOf(EncodeColumns(table), S, off, table)
<1>1. PICK L \in Nat : L = Len(table)
  BY DEF Rows
<1>2. PICK n \in Nat \ {0} : n = Cols
  BY CodecAssumption
<1>3. PICK seqs : seqs = [col \in 1..n |-> EncodeColumn(table, col)]
  OBVIOUS
<1>4. \A c \in 1..n : seqs[c] = EncodeColumn(table, c) /\ Runs(seqs[c], Column(table, c), L)
                      /\ seqs[c] \in Seq(Pair)
  <2>1. ASSUME NEW c \in 1..n
        PROVE  seqs[c] = EncodeColumn(table, c) /\ Runs(seqs[c], Column(table, c), L)
               /\ seqs[c] \in Seq(Pair)
    <3>1. seqs[c] = EncodeColumn(table, c)
      BY <1>3
    <3>2. Runs(seqs[c], Column(table, c), L)
      BY <1>1, <1>2, <3>1, EncodeRuns
    <3> QED
      BY <3>1, <3>2 DEF Runs, RunsBy
  <2> QED
    BY <2>1
<1>5. seqs \in [1..n -> Seq(Pair)]
  BY <1>3, <1>4
<1>6. PICK raw, off : raw = EncodeColumns(table) /\ LaidOut(raw, seqs, off, n)
  <2>1. EncodeColumns(table) = FlattenSeq(seqs)
    BY <1>2, <1>3 DEF EncodeColumns
  <2> QED
    BY <1>5, <2>1, FlattenLays
<1>7. PICK S : raw \in Seq(Pair) /\ Sums(S, raw)
  <2>1. raw \in Seq(Pair)
    BY <1>6 DEF LaidOut
  <2> QED
    BY <2>1, SumsExist
<1>8. ASSUME NEW c \in 1..n PROVE Holds(raw, S, off[c - 1], off[c], Column(table, c), L)
  BY <1>4, <1>6, <1>7, ColumnHeld
<1>9. off[0] = 0 /\ off[n] = Len(raw)
  BY <1>6 DEF LaidOut
<1>10. PayloadOf(raw, S, off, table)
  BY <1>1, <1>2, <1>7, <1>8, <1>9 DEF PayloadOf
<1> QED
  BY <1>6, <1>10

LEMMA ColumnIs ==
  ASSUME NEW table \in Rows, NEW c \in 1..Cols
  PROVE  Column(table, c) \in [1..Len(table) -> Cell]
<1>1. ASSUME NEW r \in 1..Len(table) PROVE table[r][c] \in Cell
  <2>1. table[r] \in [1..Cols -> Cell]
    BY DEF Rows
  <2> QED
    BY <2>1
<1> QED
  BY <1>1 DEF Column

(* What is written is read back, column by column.                         *)
LEMMA ReadBack ==
  ASSUME NEW table \in Rows
  PROVE  DecodeColumns(EncodeColumns(table), Len(table)) = [ok |-> TRUE, table |-> table]
<1>1. PICK S, off, raw : raw = EncodeColumns(table) /\ PayloadOf(raw, S, off, table)
  BY Payload
<1>2. PICK n \in Nat : n = Len(table)
  BY DEF Rows
<1>3. raw \in Seq(Pair) /\ Sums(S, raw) /\ off[0] = 0 /\ off[Cols] = Len(raw)
      /\ \A c \in 1..Cols : Holds(raw, S, off[c - 1], off[c], Column(table, c), n)
  BY <1>1, <1>2 DEF PayloadOf
<1>4. PICK g : ColumnsTrace(g, raw, n)
  BY <1>3, ColumnsSteps
<1>5. PICK N \in Nat \ {0} : N = Cols
  BY CodecAssumption
<1> DEFINE Good(r, c) == /\ r.ok /\ r.raw = Rest(raw, off[c]) /\ Len(r.cells) = c
                         /\ \A b \in 1..c : r.cells[b] = Column(table, b)
           T == {c \in 0..N : Good(g[c], c)}
<1>6. 0 \in T
  <2>1. g[0] = Reader(raw)
    BY <1>4 DEF ColumnsTrace
  <2>2. g[0].raw = raw /\ g[0].ok = TRUE /\ g[0].cells = <<>>
    BY <2>1 DEF Reader
  <2>3. raw = Rest(raw, off[0])
    <3>1. 0 \in 0..Len(raw)
      BY <1>3
    <3> QED
      BY <1>3, <3>1, RestIs
  <2> QED
    BY <2>2, <2>3
<1>7. ASSUME NEW c \in 0 + 1..N, c - 1 \in T PROVE c \in T
  <2>1. c \in 1..N /\ c \in 0..N /\ c - 1 \in 0..N /\ c \in 1..Cols
    BY <1>5
  <2>2. PICK reader \in Readers : reader = g[c - 1] /\ g[c] = DecodeColumn(reader, n) /\ Good(reader, c - 1)
    BY <1>4, <1>5, <1>7, <2>1 DEF ColumnsTrace
  <2>3. PICK h : DecodeTrace(h, reader, n)
    BY DecodeSteps
  <2>4. PICK f \in [1..n -> Cell] : f = Column(table, c)
    BY <1>2, <2>1, ColumnIs
  <2>5. Holds(raw, S, off[c - 1], off[c], f, n)
    BY <1>3, <2>1, <2>4
  <2>6. h[n].ok /\ h[n].raw = Rest(raw, off[c]) /\ h[n].col = f
    <3>1. reader.ok /\ reader.raw = Rest(raw, off[c - 1])
      BY <2>2
    <3> QED
      BY ONLY <1>3, <2>3, <2>5, <3>1, reader \in Readers, n \in Nat, f \in [1..n -> Cell], ColumnFound
  <2>7. PICK cs \in Seq(Seq(Int)) : cs = reader.cells
    BY DEF Readers
  <2>8. f \in Seq(Int)
    <3>1. n \in 0..n
      OBVIOUS
    <3>2. h[n].col \in Seq(Int)
      BY <2>3, <3>1 DEF DecodeTrace, Decoder
    <3> QED
      BY <2>6, <3>2
  <2>9. g[c] = [raw |-> h[n].raw, ok |-> h[n].ok, cells |-> Append(cs, f)]
    BY <2>2, <2>3, <2>6, <2>7 DEF DecodeTrace
  <2>10. Len(cs) = c - 1 /\ \A b \in 1..c - 1 : cs[b] = Column(table, b)
    BY <2>2, <2>7
  <2>11. PICK new \in Seq(Seq(Int)) : new = Append(cs, f)
    BY <2>8, AppendIn
  <2>12. Len(new) = c /\ \A b \in 1..c : new[b] = Column(table, b)
    <3>1. Len(new) = c /\ new[c] = f /\ \A b \in 1..c - 1 : new[b] = cs[b]
      BY <2>1, <2>8, <2>10, <2>11
    <3>2. \A b \in 1..c : b = c \/ b \in 1..c - 1
      BY <2>1
    <3> QED
      BY <2>4, <2>10, <3>1, <3>2
  <2>13. g[c].raw = h[n].raw /\ g[c].ok = h[n].ok /\ g[c].cells = new
    BY <2>9, <2>11
  <2>14. Good(g[c], c)
    BY <2>6, <2>12, <2>13
  <2> QED
    BY <2>1, <2>14
<1>8. \A c \in 0..N : c \in T
  <2> HIDE DEF T
  <2>1. 0 \in Nat /\ 0 \in T /\ N \in Nat /\ \A k \in 0 + 1..N : k - 1 \in T => k \in T
    BY <1>6, <1>7
  <2> QED
    BY ONLY <2>1, Upward
<1>9. PICK end : end = g[Cols] /\ end.ok /\ end.raw = <<>> /\ \A b \in 1..Cols : end.cells[b] = Column(table, b)
  <2>1. N \in 0..N
    OBVIOUS
  <2>2. Good(g[N], N)
    BY <1>8, <2>1
  <2>3. Rest(raw, off[Cols]) = <<>>
    <3>1. PICK p \in 0..Len(raw) : p = Len(raw)
      BY <1>3
    <3> QED
      BY <1>3, <3>1, RestIs
  <2> QED
    BY <1>5, <2>2, <2>3
<1>10. Consumed(end)
  BY <1>9 DEF Consumed
<1>11. DecodeColumns(raw, n) = [ok |-> TRUE, table |-> [row \in 1..n |-> [c \in 1..Cols |-> end.cells[c][row]]]]
  <2>1. Consumed(end) = TRUE
    BY <1>10 DEF Consumed
  <2> QED
    BY <1>4, <1>9, <2>1 DEF ColumnsTrace
<1>12. [row \in 1..n |-> [c \in 1..Cols |-> end.cells[c][row]]] = table
  <2>1. ASSUME NEW row \in 1..n PROVE [c \in 1..Cols |-> end.cells[c][row]] = table[row]
    <3>1. table[row] \in [1..Cols -> Cell]
      BY <1>2, <2>1 DEF Rows
    <3>2. ASSUME NEW c \in 1..Cols PROVE end.cells[c][row] = table[row][c]
      <4>1. end.cells[c] = Column(table, c)
        BY <1>9
      <4>2. Column(table, c)[row] = table[row][c]
        BY <1>2 DEF Column
      <4> QED
        BY <4>1, <4>2
    <3> QED
      BY <3>1, <3>2
  <2>2. table = [row \in 1..n |-> table[row]]
    BY <1>2 DEF Rows
  <2>3. [row \in 1..n |-> [c \in 1..Cols |-> end.cells[c][row]]] = [row \in 1..n |-> table[row]]
    BY <2>1
  <2> QED
    BY <2>2, <2>3
<1> QED
  BY <1>1, <1>2, <1>11, <1>12

LEMMA Factor ==
  ASSUME NEW k \in Nat \ {0}, NEW a \in Nat, NEW b \in Nat, k * a = k * b
  PROVE  a = b
  OBVIOUS

(* A payload is of one number of rows only: the runs of a column that is   *)
(* read add up to the rows asked for, those of the payload to its own.     *)
LEMMA OneRowCount ==
  ASSUME NEW table \in Rows, NEW n \in Nat, DecodeColumns(EncodeColumns(table), n).ok
  PROVE  n = Len(table)
<1>1. PICK S, off, raw : raw = EncodeColumns(table) /\ PayloadOf(raw, S, off, table)
  BY Payload
<1>2. PICK L \in Nat : L = Len(table)
  BY DEF Rows
<1>3. raw \in Seq(Pair) /\ Sums(S, raw) /\ off[0] = 0 /\ off[Cols] = Len(raw)
      /\ \A c \in 1..Cols : Holds(raw, S, off[c - 1], off[c], Column(table, c), L)
  BY <1>1, <1>2 DEF PayloadOf
<1>4. PICK g : ColumnsTrace(g, raw, n)
  BY <1>3, ColumnsSteps
<1>5. PICK N \in Nat \ {0} : N = Cols
  BY CodecAssumption
<1>6. PICK M \in Nat : M = Len(raw)
  BY <1>3
<1>7. S[0] = 0 /\ \A p \in 0..M : S[p] \in Nat
  BY <1>3, <1>6 DEF Sums
<1>8. S[M] = N * L
  <2> DEFINE T == {c \in 0..N : S[off[c]] = c * L}
  <2>1. 0 \in T
    BY <1>3, <1>7
  <2>2. ASSUME NEW c \in 0 + 1..N, c - 1 \in T PROVE c \in T
    <3>1. c \in 1..Cols /\ c \in 0..N
      BY <1>5
    <3>2. S[off[c]] = S[off[c - 1]] + L
      BY <1>3, <3>1 DEF Holds
    <3>3. PICK b \in Int : b = c - 1 /\ c = b + 1
      BY <3>1
    <3>4. (b + 1) * L = b * L + L
      BY OneMore
    <3>5. S[off[c]] = c * L
      BY <2>2, <3>2, <3>3, <3>4
    <3> QED
      BY <3>1, <3>5
  <2>3. \A c \in 0..N : c \in T
    <3> HIDE DEF T
    <3>1. 0 \in Nat /\ 0 \in T /\ N \in Nat /\ \A k \in 0 + 1..N : k - 1 \in T => k \in T
      BY <2>1, <2>2
    <3> QED
      BY ONLY <3>1, Upward
  <2>4. N \in 0..N
    OBVIOUS
  <2> QED
    BY <1>3, <1>5, <1>6, <2>3, <2>4
<1> DEFINE Good(r, c) == r.ok => \E p \in 0..M : r.raw = Rest(raw, p) /\ S[p] = c * n
           U == {c \in 0..N : Good(g[c], c)}
<1>9. 0 \in U
  <2>1. g[0] = Reader(raw)
    BY <1>4 DEF ColumnsTrace
  <2>2. g[0].raw = raw
    BY <2>1 DEF Reader
  <2>3. 0 \in 0..M /\ raw = Rest(raw, 0) /\ S[0] = 0 * n
    BY <1>3, <1>6, <1>7, RestIs
  <2>4. Good(g[0], 0)
    BY <2>2, <2>3
  <2> QED
    BY <2>4
<1>10. ASSUME NEW c \in 0 + 1..N, c - 1 \in U PROVE c \in U
  <2>1. c \in 1..Cols /\ c \in 0..N /\ c - 1 \in 0..Cols
    BY <1>5
  <2>2. PICK reader \in Readers : reader = g[c - 1] /\ g[c] = DecodeColumn(reader, n) /\ Good(reader, c - 1)
    BY <1>4, <1>10, <2>1 DEF ColumnsTrace
  <2>3. PICK h : DecodeTrace(h, reader, n)
    BY DecodeSteps
  <2>4. g[c].ok = h[n].ok /\ g[c].raw = h[n].raw
    BY <2>2, <2>3 DEF DecodeTrace
  <2> SUFFICES ASSUME h[n].ok PROVE \E p \in 0..M : h[n].raw = Rest(raw, p) /\ S[p] = c * n
    BY <2>1, <2>4
  <2>5. PICK p0 \in 0..M : reader.ok => reader.raw = Rest(raw, p0) /\ S[p0] = (c - 1) * n
    <3>1. CASE reader.ok
      BY <2>2, <3>1
    <3>2. CASE ~reader.ok
      <4>1. 0 \in 0..M
        OBVIOUS
      <4> QED
        BY <3>2, <4>1
    <3> QED
      BY <3>1, <3>2
  <2>6. reader.ok /\ \E p \in 0..M : h[n].raw = Rest(raw, p) /\ S[p] = S[p0] + n
    <3>1. p0 \in 0..Len(raw) /\ h[n].ok /\ (reader.ok => reader.raw = Rest(raw, p0))
      BY <1>6, <2>5
    <3>2. reader.ok /\ \E p \in 0..Len(raw) : h[n].raw = Rest(raw, p) /\ S[p] = S[p0] + n
      BY ONLY <1>3, <2>3, <3>1, reader \in Readers, n \in Nat, ColumnRead
    <3> QED
      BY <1>6, <3>2
  <2>7. PICK b \in Int : b = c - 1 /\ c = b + 1
    BY <2>1
  <2>8. (b + 1) * n = b * n + n
    BY OneMore
  <2>9. S[p0] + n = c * n
    BY <2>5, <2>6, <2>7, <2>8
  <2> QED
    BY <2>6, <2>9
<1>11. \A c \in 0..N : c \in U
  <2> HIDE DEF U
  <2>1. 0 \in Nat /\ 0 \in U /\ N \in Nat /\ \A k \in 0 + 1..N : k - 1 \in U => k \in U
    BY <1>9, <1>10
  <2> QED
    BY ONLY <2>1, Upward
<1>12. g[N].ok /\ g[N].raw = <<>>
  <2>1. DecodeColumns(raw, n).ok = Consumed(g[N])
    BY <1>4, <1>5 DEF ColumnsTrace
  <2> QED
    BY <1>1, <2>1 DEF Consumed
<1>13. PICK p \in 0..M : <<>> = Rest(raw, p) /\ S[p] = N * n
  <2>1. N \in 0..N
    OBVIOUS
  <2>2. Good(g[N], N)
    BY <1>11, <2>1
  <2> QED
    BY <1>12, <2>2
<1>14. p = M
  <2>1. p \in 0..Len(raw)
    BY <1>6
  <2> QED
    BY <1>3, <1>6, <1>13, <2>1, RestIs
<1>15. N * n = N * L
  BY <1>8, <1>13, <1>14
<1>16. n = L
  BY <1>15, Factor
<1> QED
  BY <1>2, <1>16
=============================================================================
