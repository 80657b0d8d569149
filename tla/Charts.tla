------------------------------- MODULE Charts -------------------------------
(***************************************************************************)
(* What readers make of samples and buckets: the curves of a chart and its *)
(* observed upload (query/query.go: Series, emitFlat, Thin), the aligned   *)
(* sum of several instances (aligned, Overview) and the list's cached 24 h *)
(* upload (collector/manager.go: refreshStats).  One direction and the     *)
(* speed metric; a point's number is a fraction, and a gap is a point with *)
(* denominator 0.  Labels, notes, events and extremes are left out.        *)
(***************************************************************************)
EXTENDS Rollup

CONSTANTS
  Hour, Day,   \* the two spans of the cached upload
  TailSpan     \* how far back its raw tail is read

(* 1 h, 24 h and 15 min; windows take 5 min and samples come every 5 s or  *)
(* more often (store.go: ValidateSettings), so the tail holds a whole      *)
(* window that is not sealed and the sample before it.                     *)
ASSUME ChartsAssumption ==
  /\ Hour \in Nat /\ Day \in Nat /\ TailSpan \in Nat
  /\ Hour <= Day /\ Window <= Day /\ Window + 2 * StepMS <= TailSpan

Point(at, num, den, kind) == [at |-> at, num |-> num, den |-> den, kind |-> kind, flagged |-> FALSE]
Null(at) == Point(at, 0, 0, "gap")
IsGap(p) == p.den = 0

(* Numbers in order, as point.number compares them.                        *)
Below(p, q) == p.num * q.den < q.num * p.den

-----------------------------------------------------------------------------
(* The raw tier.                                                           *)

RawPoint(p) == IF "Up" \in p.valid THEN Point(p.at, p.up, 1, "observation") ELSE Null(p.at)

(* Mutant: a break needs a hole in time.                                   *)
BrokenByTime(s, p) == s.at - p.at > 2 * StepMS

Broken(s, p) == ~Continuous(s, p)

RawCurve(ps) ==
  FoldLeftDomain(
    LAMBDA out, i :
      out \o (IF i > 1 /\ Broken(ps[i], ps[i - 1]) THEN <<Null(ps[i - 1].at + 1)>> ELSE <<>>)
          \o <<RawPoint(ps[i])>>,
    <<>>, ps)

(* The observed upload between two neighbours.                             *)
Observed(s, p) ==
  IF Continuous(s, p) /\ "Uploaded" \in p.valid \cap s.valid /\ s.uploaded >= p.uploaded
  THEN s.uploaded - p.uploaded ELSE 0

RawObserved(ps) ==
  FoldLeftDomain(LAMBDA n, i : IF i = 1 THEN n ELSE n + Observed(ps[i], ps[i - 1]), 0, ps)

-----------------------------------------------------------------------------
(* A summary tier over [a, b): a chart under construction has the points,  *)
(* the pending group of flat buckets and their merged stat.                *)

NewChart == [points |-> <<>>, group |-> <<>>, stat |-> NoStat, lastEnd |-> 0, observed |-> 0]

EmitFlat(c) ==
  IF c.group = <<>> THEN c
  ELSE LET at(t) == Point(t, c.stat.sum, c.stat.weight, "flat_5pct")
       IN [c EXCEPT !.points = @ \o <<at(Head(c.group).start), at(Last(c.group).end - 1)>>,
                    !.group = <<>>, !.stat = NoStat]

Break(c, at) == LET e == EmitFlat(c) IN [e EXCEPT !.points = Append(@, Null(at))]

(* Mutant: the last bucket of the group alone is checked with the new one. *)
AcceptsDrift(c, x, partial, maxSpan) ==
  /\ ~partial /\ x.quality = {} /\ x.up.weight > 0
  /\ IF c.group = <<>> THEN Flat(x.up, {})
     ELSE /\ Last(c.group).end = x.start /\ x.end - Head(c.group).start <= maxSpan
          /\ Flat(MergeStat(Last(c.group).up, x.up), {})

(* flatGroup.accepts: the whole candidate span is checked again.           *)
Accepts(c, x, partial, maxSpan) ==
  /\ ~partial /\ x.quality = {} /\ x.up.weight > 0
  /\ IF c.group = <<>> THEN Flat(x.up, {})
     ELSE /\ Last(c.group).end = x.start /\ x.end - Head(c.group).start <= maxSpan
          /\ Flat(MergeStat(c.stat, x.up), {})

AddSpeed(c, x, left, partial, maxSpan) ==
  CASE x.up.weight = 0 -> Break(c, left)
    [] x.up.weight > 0 /\ Accepts(c, x, partial, maxSpan) ->
         [c EXCEPT !.group = Append(@, x), !.stat = MergeStat(@, x.up)]
    [] OTHER ->
         LET e == EmitFlat(c)
         IN IF Flat(x.up, x.quality) /\ ~partial
            THEN [e EXCEPT !.group = <<x>>, !.stat = x.up]
            ELSE [e EXCEPT !.points =
                    Append(@, Point(left, x.up.sum, x.up.weight, "weighted_mean"))]

AddBucket(c, x, a, b, maxSpan) ==
  LET partial == x.start < a \/ x.end > b
      left    == Max({x.start, a})
      broken  == (c.lastEnd > 0 /\ x.start > c.lastEnd) \/ "GapBefore" \in x.quality
      fresh   == IF broken THEN Break(c, left - 1) ELSE c
  IN [AddSpeed(fresh, x, left, partial, maxSpan) EXCEPT
        !.lastEnd = x.end, !.observed = IF partial THEN @ ELSE @ + x.uploaded.delta]

SummaryChart(bs, a, b, maxSpan) ==
  EmitFlat(FoldLeft(LAMBDA c, x : AddBucket(c, x, a, b, maxSpan), NewChart, bs))

-----------------------------------------------------------------------------
(* Thin: per cell of time the first, last, lowest and highest point, one   *)
(* gap and one flagged point; the answer is cut at the budget.             *)

CellOf(in, i, budget) ==
  ((in[i].at - in[1].at) * Max({1, budget \div 6}))
    \div Max({1, in[Len(in)].at + 1 - in[1].at})

Lowest(in, nums)  == Min({i \in nums : \A j \in nums : ~Below(in[j], in[i])})
Highest(in, nums) == Min({i \in nums : \A j \in nums : ~Below(in[i], in[j])})
LastOf(S)         == IF S = {} THEN {} ELSE {Max(S)}

(* Mutant: the end of a cell is not kept for itself.                       *)
KeptWithoutEnd(in, cell) ==
  LET nums == {i \in cell : ~IsGap(in[i])}
  IN {Min(cell)} \cup (IF nums = {} THEN {} ELSE {Lowest(in, nums), Highest(in, nums)})
     \cup LastOf(cell \ nums)

Kept(in, cell) ==
  LET nums == {i \in cell : ~IsGap(in[i])}
  IN {Min(cell), Max(cell)}
     \cup (IF nums = {} THEN {} ELSE {Lowest(in, nums), Highest(in, nums)})
     \cup LastOf(cell \ nums) \cup LastOf({i \in nums : in[i].flagged})

(* The points of a curve that its cells keep.                              *)
KeptAll(in, budget) ==
  LET cell == [i \in DOMAIN in |-> CellOf(in, i, budget)]
  IN UNION {Kept(in, {i \in DOMAIN in : cell[i] = c}) : c \in {cell[i] : i \in DOMAIN in}}

Picked(in, kept) ==
  FoldLeftDomain(LAMBDA out, i : IF i \in kept THEN Append(out, in[i]) ELSE out, <<>>, in)

Thin(in, budget) ==
  LET kept == KeptAll(in, budget)
      out  == Picked(in, kept)
  IN IF Len(in) <= budget THEN in
     ELSE SubSeq(out, 1, Min({Len(out), budget}))

-----------------------------------------------------------------------------
(* Aligned means: sum and weight per cell of a grid, from raw samples or   *)
(* from minute buckets over [a, b).                                        *)

NoAccum == [sum |-> 0, weight |-> 0, filled |-> FALSE]
Accum(m, v, w) == [sum |-> m.sum + v, weight |-> m.weight + w, filled |-> TRUE]

AlignedRaw(ps, step, b, t) ==
  FoldLeftDomain(
    LAMBDA m, i :
      IF Start(ps[i].at, step) # t \/ "Up" \notin ps[i].valid THEN m
      ELSE LET w == Min({Weight(ps, i, t + step), b - ps[i].at})
           IN Accum(m, ps[i].up * w, w),
    NoAccum, ps)

AlignedSummary(bs, step, a, b, t) ==
  FoldLeft(
    LAMBDA m, x : IF /\ x.start >= a /\ x.end <= b /\ Start(x.start, step) = t
                     /\ x.up.weight > 0
                  THEN Accum(m, x.up.sum, x.up.weight) ELSE m,
    NoAccum, bs)

(* Mutant: an instance without data counts as zero.                        *)
CompleteAny(cell) == \E i \in DOMAIN cell : cell[i].filled

Complete(cell) == \A i \in DOMAIN cell : cell[i].filled /\ cell[i].weight > 0

SumOfMeans(accums) ==
  FoldLeft(LAMBDA q, m : IF m.filled
                         THEN [num |-> q.num * m.weight + m.sum * q.den, den |-> q.den * m.weight]
                         ELSE q,
           [num |-> 0, den |-> 1], accums)

(* Overview: cells is a sequence of grid cells [at, of], of a sequence     *)
(* with one accum per instance; one sum per complete cell, one gap after   *)
(* a stretch of sums.                                                      *)
Overview(cells) ==
  FoldLeft(
    LAMBDA out, cell :
      IF Complete(cell.of)
      THEN LET q == SumOfMeans(cell.of) IN Append(out, Point(cell.at, q.num, q.den, "aligned_sum"))
      ELSE IF out = <<>> \/ IsGap(Last(out)) THEN out ELSE Append(out, Null(cell.at)),
    <<>>, cells)

-----------------------------------------------------------------------------
(* refreshStats at time t: whole buckets of the second tier, and what the  *)
(* samples behind the last of them add.                                    *)

Deltas(bs, chosen) ==
  FoldLeftDomain(LAMBDA n, i : IF i \in chosen THEN n + bs[i].uploaded.delta ELSE n, 0, bs)

SealedEnd(bs, read) == Max({0} \cup {bs[i].end : i \in read})

(* Mutant: both ends of a difference must lie behind the sealed windows.   *)
TailUploadBehind(tail, sealedEnd) ==
  FoldLeftDomain(LAMBDA n, i : IF i = 1 \/ tail[Max({i - 1, 1})].at < sealedEnd THEN n
                               ELSE n + Observed(tail[i], tail[i - 1]), 0, tail)

TailUpload(tail, sealedEnd) ==
  FoldLeftDomain(LAMBDA n, i : IF i = 1 \/ tail[i].at < sealedEnd THEN n
                               ELSE n + Observed(tail[i], tail[i - 1]), 0, tail)

RefreshStats(bs, ps, t) ==
  LET read  == {i \in DOMAIN bs : bs[i].start < t /\ bs[i].end > t - Day}
      day   == {i \in read : bs[i].start >= t - Day /\ bs[i].end <= t}
      hour  == {i \in day : bs[i].start >= t - Hour}
      fresh == TailUpload(Within(ps, t - TailSpan, t), SealedEnd(bs, read))
  IN [hour |-> Deltas(bs, hour) + fresh, day |-> Deltas(bs, day) + fresh]
=============================================================================
