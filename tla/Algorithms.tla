----------------------------- MODULE Algorithms -----------------------------
(***************************************************************************)
(* The program's arithmetic over inputs that grow step by step: a series   *)
(* is observed and its windows are sealed (collector.go: apply; history.go:*)
(* sealOne); a table is written through the codec; a curve is thinned.     *)
(* Each behaviour is about one of the three.                               *)
(***************************************************************************)
EXTENDS Charts, Codec

CONSTANTS
  Shapes,       \* a sample after the last: [dt, lost, flag, valid]
  Readings,     \* what it reads: [up, rise], rise negative for a reset
  Peers,        \* raw samples of a second instance in the overview
  MaxSamples,   \* bound: samples of the series
  MaxRows,      \* bound: rows of the table
  CurveLength,  \* points of the curve
  Budgets,      \* the points a curve is thinned to
  MaxSpan,      \* the longest flat segment
  MaxOdd        \* bound: points of the curve that are not ordinary

(* A sample is later than the last, and its numbers are whole.             *)
ASSUME SeriesAssumption ==
  /\ \A sh \in Shapes : /\ sh.dt \in Nat \ {0} /\ sh.lost \in BOOLEAN /\ sh.flag \in BOOLEAN
                         /\ sh.valid \in SUBSET {"Up", "Uploaded"}
  /\ \A r \in Readings : r.up \in Nat /\ r.rise \in Int

(* Parse takes 16 points or more, of which the extremes get a third at     *)
(* most: 11 are left for a curve, and a cell keeps 6.                      *)
ASSUME CurveAssumption ==
  /\ CurveLength \in Nat \ {0}
  /\ \A budget \in Budgets : budget \in Nat /\ budget >= 6

(* The samples of the other instances are stored like those of the series. *)
ASSUME PeersAssumption ==
  \A peer \in Peers :
    /\ peer \in Seq([at : Nat, seq : Nat, up : Nat, uploaded : Nat,
                     valid : SUBSET {"Up", "Uploaded"},
                     quality : SUBSET {"GapBefore", "CounterReset"}])
    /\ \A i, j \in DOMAIN peer : i < j => peer[i].at < peer[j].at

VARIABLES
  kind,     \* "series", "table" or "curve": what the behaviour is about
  samples,  \* observed and stored
  edge,     \* end of the last window looked at by SealRaw
  one,      \* minute buckets of the sealed windows
  five,     \* their buckets of the second tier
  table,    \* rows given to the codec
  curve,    \* points given to Thin
  odd       \* position of the curve's last odd point

vars == <<kind, samples, edge, one, five, table, curve, odd>>

Kinds == {"series", "table", "curve"}

(* Times along the curve, with a hole in it.                               *)
TimeOf(i) == IF i <= CurveLength \div 2 THEN i ELSE i + CurveLength \div 2

Init ==
  /\ kind \in Kinds
  /\ samples = <<>> /\ edge = 0 /\ one = <<>> /\ five = <<>> /\ table = <<>> /\ odd = 0
  /\ curve = IF kind = "curve" THEN [i \in 1..CurveLength |-> Point(TimeOf(i), 2, 1, "observation")]
                               ELSE <<>>

(* The next sample of the series; it is later than what is sealed.  A      *)
(* reset starts again from zero, and the collector flags it if it saw the  *)
(* round before.                                                           *)
Measured(sh, r) ==
  LET prev == Last(samples)
      s == [at |-> prev.at + sh.dt, seq |-> prev.seq + (IF sh.lost THEN 2 ELSE 1),
            up |-> r.up, uploaded |-> IF r.rise < 0 THEN 0 ELSE prev.uploaded + r.rise,
            valid |-> sh.valid, quality |-> IF sh.flag THEN {"GapBefore"} ELSE {}]
  IN IF Continuous(s, prev) /\ s.uploaded < prev.uploaded
     THEN [s EXCEPT !.quality = @ \cup {"CounterReset"}] ELSE s

First(r) ==
  [at |-> 1, seq |-> 1, up |-> r.up, uploaded |-> 5, valid |-> {"Up", "Uploaded"},
   quality |-> {}]

Observe ==
  /\ kind = "series" /\ Len(samples) < MaxSamples
  /\ \E r \in Readings, sh \in Shapes :
       LET s == IF samples = <<>> THEN First(r) ELSE Measured(sh, r)
       IN s.at >= edge /\ samples' = Append(samples, s)
  /\ UNCHANGED <<kind, edge, one, five, table, curve, odd>>

Unsealed == {i \in DOMAIN samples : samples[i].at >= edge}

(* sealOne of the oldest window with frames, once its time is over.        *)
SealOne ==
  LET start  == Start(samples[Min(Unsealed)].at, Window)
      inside == Within(samples, start, start + Window)
      before == Within(samples, 0, start)
      built  == Build(inside, Minute, Previous(before, Head(inside)))
  IN /\ kind = "series" /\ Unsealed # {}
     /\ edge' = start + Window
     /\ one' = one \o built /\ five' = five \o ToFive(built)
     /\ UNCHANGED <<kind, samples, table, curve, odd>>

Row ==
  /\ kind = "table" /\ Len(table) < MaxRows
  /\ \E row \in [1..Cols -> Cell] : table' = Append(table, row)
  /\ UNCHANGED <<kind, samples, edge, one, five, curve, odd>>

(* An odd point of the curve: a peak, a dip, a gap, or a flagged point.    *)
Put ==
  /\ kind = "curve"
  /\ Cardinality({i \in DOMAIN curve : curve[i] # Point(TimeOf(i), 2, 1, "observation")}) < MaxOdd
  /\ \E i \in odd + 1..CurveLength :
       /\ odd' = i
       /\ \E p \in {Point(TimeOf(i), 3, 1, "observation"), Point(TimeOf(i), 1, 1, "observation"),
                    Null(TimeOf(i)),
                    [Point(TimeOf(i), 2, 1, "observation") EXCEPT !.flagged = TRUE]} :
            curve' = [curve EXCEPT ![i] = p]
  /\ UNCHANGED <<kind, samples, edge, one, five, table>>

Next == Observe \/ SealOne \/ Row \/ Put

Spec == Init /\ [][Next]_vars

-----------------------------------------------------------------------------
(* Helpers of the properties.                                              *)

SealedSamples == Within(samples, 0, edge)
Speeds(x) == {s \in ToSet(samples) : s.at >= x.start /\ s.at < x.end /\ "Up" \in s.valid}

(* A chart draws a line over (from, to) between two neighbouring points.   *)
Drawn(points, from, to) ==
  \E i \in 1..Len(points) - 1 :
    /\ ~IsGap(points[i]) /\ ~IsGap(points[i + 1])
    /\ points[i].at <= from /\ points[i + 1].at >= to

(* The end of what the tiers hold.                                         *)
End == Max({edge} \cup {s.at + 1 : s \in ToSet(samples)})

-----------------------------------------------------------------------------
(* The buckets of a tier are of the sealed windows, in order and disjoint. *)
(* A summary keeps the peaks of its samples with the time they happened,   *)
(* and a mean between them, in both tiers.                                 *)
BucketsExact ==
  /\ \A tier \in {one, five} : \A i \in DOMAIN tier :
       tier[i].end <= edge /\ (i > 1 => tier[i - 1].end <= tier[i].start)
  /\ \A x \in ToSet(one) \cup ToSet(five) :
    LET seen == Speeds(x)
    IN /\ Observations(x.up) = Cardinality(seen)
       /\ seen # {} =>
            /\ \E s \in seen : x.up.min = s.up /\ x.up.minAt = s.at
            /\ \E s \in seen : x.up.max = s.up /\ x.up.maxAt = s.at
            /\ \A s \in seen : /\ x.up.min <= s.up /\ s.up <= x.up.max
                               /\ s.up = x.up.min => x.up.minAt <= s.at
                               /\ s.up = x.up.max => x.up.maxAt <= s.at
            /\ x.up.min * x.up.weight <= x.up.sum /\ x.up.sum <= x.up.max * x.up.weight

(* The upload observed in a stretch of time is the same number whether it  *)
(* is read from raw samples or, later, from either summary tier: nothing   *)
(* is lost or counted twice at the borders of buckets and windows.         *)
DeltasExact ==
  /\ SummaryChart(one, 0, edge, MaxSpan).observed = RawObserved(SealedSamples)
  /\ SummaryChart(five, 0, edge, MaxSpan).observed = RawObserved(SealedSamples)

(* Sealing window by window gives what one pass over the whole series      *)
(* gives; only the gap flag may be missing, where a sequence number is     *)
(* skipped across the border of two windows.                               *)
SealedAsWhole ==
  LET whole == Build(SealedSamples, Minute, <<>>)
  IN /\ Len(one) = Len(whole)
     /\ \A i \in DOMAIN one :
          /\ [one[i] EXCEPT !.quality = {}] = [whole[i] EXCEPT !.quality = {}]
          /\ one[i].quality \subseteq whole[i].quality
          /\ one[i].quality # whole[i].quality =>
               i = 1 \/ Start(one[i - 1].start, Window) # Start(one[i].start, Window)

(* No chart of the raw tier draws a line between samples that do not       *)
(* follow each other, and none of a summary tier draws one over a missing  *)
(* bucket or into a bucket with a gap.                                     *)
LinesBreak ==
  /\ \A i \in 2..Len(samples) :
       Drawn(RawCurve(samples), samples[i - 1].at, samples[i].at) => Continuous(samples[i], samples[i - 1])
  /\ \A tier \in {one, five} :
       LET points == SummaryChart(tier, 0, edge, MaxSpan).points
       IN \A i \in 2..Len(tier) :
            Drawn(points, tier[i - 1].end - 1, tier[i].start) =>
              tier[i].start = tier[i - 1].end /\ "GapBefore" \notin tier[i].quality

(* Every sample under a segment drawn as flat is within 5 % of it: a slow  *)
(* drift is never drawn as a trend line.                                   *)
FlatHonest ==
  LET points == SummaryChart(one, 0, edge, MaxSpan).points
  IN \A i \in 1..Len(points) - 1 :
       LET p == points[i] q == points[i + 1]
       IN p.kind = "flat_5pct" /\ q.kind = "flat_5pct" /\ p.num = q.num /\ p.den = q.den =>
            \A s \in ToSet(samples) :
              s.at \in p.at..q.at /\ "Up" \in s.valid =>
                100 * s.up * p.den >= 95 * p.num /\ 100 * s.up * p.den <= 105 * p.num

(* The overview's cells do not change when samples are sealed and read as  *)
(* minute buckets, and its sum is there exactly where every instance has   *)
(* data, over which no line is drawn otherwise.                            *)
OverviewHonest ==
  LET sealed == SealedSamples
      here   == {Start(s.at, Minute) : s \in {x \in ToSet(sealed) : "Up" \in x.valid}}
      grid   == [k \in 1..edge \div Minute |-> (k - 1) * Minute]
      raw    == [k \in DOMAIN grid |-> AlignedRaw(sealed, Minute, edge, grid[k])]
  IN /\ \A k \in DOMAIN grid : raw[k] = AlignedSummary(one, Minute, 0, edge, grid[k])
     /\ \A peer \in Peers :
          LET there  == {Start(s.at, Minute) : s \in {x \in ToSet(peer) : "Up" \in x.valid}}
              points == Overview([k \in DOMAIN grid |->
                          [at |-> grid[k], of |-> <<raw[k], AlignedRaw(peer, Minute, edge, grid[k])>>]])
          IN \A t \in ToSet(grid) :
               /\ (\E p \in ToSet(points) : p.at = t /\ ~IsGap(p)) <=> t \in here \cap there
               /\ t \notin here \cap there => ~Drawn(points, t - 1, t + 1)

(* The list's cached upload is the sum of the differences of its span, if  *)
(* windows are sealed as soon as they are over.                            *)
StatsExact ==
  End - edge < Window =>
    RefreshStats(five, samples, End) =
      LET from(span) == Min({edge} \cup {x.start : x \in {y \in ToSet(five) : y.start >= End - span}})
          since(t) == FoldLeftDomain(LAMBDA n, i : IF i = 1 \/ samples[i].at < t THEN n
                        ELSE n + Observed(samples[i], samples[i - 1]), 0, samples)
      IN [hour |-> since(from(Hour)), day |-> since(from(Day))]

(* A block decodes to the rows it was made from, to the last bit, and with *)
(* no other row count.                                                     *)
CodecExact ==
  kind = "table" =>
    /\ DecodeColumns(EncodeColumns(table), Len(table)) = [ok |-> TRUE, table |-> table]
    /\ \A n \in 0..MaxRows \ {Len(table)} : ~DecodeColumns(EncodeColumns(table), n).ok

(* Thinning answers with points of the curve, within the budget, and keeps *)
(* both ends, the lowest and the highest point, and of every stretch it    *)
(* empties at most the inner points.                                       *)
ThinHonest ==
  kind = "curve" =>
    \A budget \in Budgets :
      LET out  == Thin(curve, budget)
          nums == {i \in DOMAIN curve : ~IsGap(curve[i])}
      IN /\ Len(out) <= budget
         /\ \A i \in 1..Len(out) - 1 : out[i].at < out[i + 1].at
         /\ ToSet(out) \subseteq ToSet(curve)
         /\ {curve[1], curve[CurveLength]} \subseteq ToSet(out)
         /\ nums # {} => {curve[Lowest(curve, nums)], curve[Highest(curve, nums)]} \subseteq ToSet(out)
         /\ (\E p \in ToSet(curve) : IsGap(p)) => \E p \in ToSet(out) : IsGap(p)
=============================================================================
