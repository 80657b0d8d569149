------------------------------- MODULE Rollup -------------------------------
(***************************************************************************)
(* rollup/rollup.go: the summary buckets built from raw samples and merged *)
(* into longer ones, and the part of store/history.go's sealOne that feeds *)
(* them.  Buckets are of one series and one epoch, as every call of        *)
(* sealOne is; of the two directions, which the code treats alike, only    *)
(* the upload is kept.  The mean is the fraction sum / weight; additions   *)
(* that pass 2^63 are left out.                                            *)
(***************************************************************************)
EXTENDS Integers, Sequences, SequencesExt

CONSTANTS
  StepMS,    \* the target interval of a sample
  Minute,    \* length of a bucket of the first tier
  Window     \* length of a bucket of the second tier, and of a sealed window

ASSUME RollupAssumption ==
  /\ StepMS \in Nat \ {0} /\ Minute \in Nat \ {0}
  /\ Window \in Nat \ {0} /\ Window % Minute = 0

Start(at, res) == (at \div res) * res

(* The samples of a span of time [a, b): they are kept in the order of     *)
(* their times, so a span is a stretch of them.                            *)
Within(samples, a, b) ==
  LET until(t) == Max({0} \cup {i \in DOMAIN samples : samples[i].at < t})
  IN SubSeq(samples, until(a) + 1, until(b))

(* s directly follows p: no round is missing and no flag is set.           *)
Continuous(s, p) ==
  /\ s.seq = p.seq + 1 /\ s.at > p.at /\ s.at - p.at <= 2 * StepMS
  /\ "GapBefore" \notin s.quality

NoStat ==
  [sum |-> 0, weight |-> 0, first |-> 0, last |-> 0, min |-> 0, max |-> 0,
   firstAt |-> 0, lastAt |-> 0, minAt |-> 0, maxAt |-> 0, zero |-> 0, positive |-> 0]

NoCounter ==
  [first |-> 0, last |-> 0, delta |-> 0, duration |-> 0, firstAt |-> 0, lastAt |-> 0,
   known |-> FALSE, reset |-> FALSE]

NewBucket(start, res) ==
  [start |-> start, end |-> start + res, count |-> 0, validDuration |-> 0, quality |-> {},
   up |-> NoStat, uploaded |-> NoCounter]

Observations(st) == st.zero + st.positive

AddStat(st, v, at, w) ==
  LET new  == st.weight = 0 /\ Observations(st) = 0
      base == IF new THEN [st EXCEPT !.first = v, !.firstAt = at, !.min = v, !.minAt = at,
                                     !.max = v, !.maxAt = at]
                     ELSE st
      low  == v < base.min
      high == v > base.max
  IN [base EXCEPT
        !.last = v, !.lastAt = at,
        !.min = IF low THEN v ELSE @,  !.minAt = IF low THEN at ELSE @,
        !.max = IF high THEN v ELSE @, !.maxAt = IF high THEN at ELSE @,
        !.sum = @ + v * w, !.weight = @ + w,
        !.zero = IF v = 0 THEN @ + 1 ELSE @, !.positive = IF v = 0 THEN @ ELSE @ + 1]

(* Every value within 5 % of the mean, no mix of zero and non-zero, and no *)
(* flag; cross-multiplied, so that the mean needs no division.             *)
Flat(st, quality) ==
  /\ st.weight > 0 /\ quality = {} /\ (st.zero = 0 \/ st.positive = 0)
  /\ IF st.sum = 0 THEN st.min = 0 /\ st.max = 0
                   ELSE /\ 100 * st.min * st.weight >= 95 * st.sum
                        /\ 100 * st.max * st.weight <= 105 * st.sum

(* Mutant: the counter's first value of a bucket has no delta.             *)
RisesInside(c, s, prev) ==
  c.known /\ prev # <<>> /\ "Uploaded" \in prev[1].valid /\ Continuous(s, prev[1])

(* A delta needs a valid and continuous left endpoint (prev is <<>> or     *)
(* holds one sample), wherever that endpoint lies.                         *)
Rises(c, s, prev) ==
  prev # <<>> /\ "Uploaded" \in prev[1].valid /\ Continuous(s, prev[1])

AddCounter(c, s, prev) ==
  LET base == IF c.known THEN c
              ELSE [c EXCEPT !.first = s.uploaded, !.firstAt = s.at, !.known = TRUE]
      last == [base EXCEPT !.last = s.uploaded, !.lastAt = s.at]
  IN IF ~Rises(c, s, prev) THEN last
     ELSE IF s.uploaded >= prev[1].uploaded
          THEN [last EXCEPT !.delta = @ + s.uploaded - prev[1].uploaded,
                            !.duration = @ + s.at - prev[1].at]
          ELSE [last EXCEPT !.reset = TRUE]

(* Support of a sample: one target interval, to the next sample, and to    *)
(* the end of the bucket at most.                                          *)
Weight(samples, i, end) ==
  Min({StepMS, end - samples[i].at} \cup
      {samples[j].at - samples[i].at :
         j \in {k \in {i + 1} : k <= Len(samples) /\ Continuous(samples[k], samples[i])}})

AddSample(b, samples, i, prev) ==
  LET s   == samples[i]
      w   == Weight(samples, i, b.end)
      c   == IF "Uploaded" \in s.valid THEN AddCounter(b.uploaded, s, prev) ELSE b.uploaded
      gap == prev # <<>> /\ ~Continuous(s, prev[1])
  IN [b EXCEPT
        !.count = @ + 1,
        !.quality = @ \cup s.quality \cup (IF gap THEN {"GapBefore"} ELSE {})
                      \cup (IF c.reset THEN {"CounterReset"} ELSE {}),
        !.validDuration = IF "Up" \in s.valid THEN @ + w ELSE @,
        !.up = IF "Up" \in s.valid THEN AddStat(@, s.up, s.at, w) ELSE @,
        !.uploaded = c]

Build(samples, res, previous) ==
  FoldLeftDomain(
    LAMBDA out, i :
      LET start == Start(samples[i].at, res)
          prev  == IF i = 1 THEN previous ELSE <<samples[i - 1]>>
      IN IF out # <<>> /\ Last(out).start = start
         THEN [out EXCEPT ![Len(out)] = AddSample(@, samples, i, prev)]
         ELSE Append(out, AddSample(NewBucket(start, res), samples, i, prev)),
    <<>>, samples)

(* Mutant: the time of an extreme does not move with it.                   *)
MergeStatUntimed(a, b) ==
  IF Observations(a) = 0 THEN b
  ELSE IF Observations(b) = 0 THEN a
       ELSE [a EXCEPT !.sum = @ + b.sum, !.weight = @ + b.weight, !.last = b.last,
                      !.lastAt = b.lastAt, !.min = Min({@, b.min}), !.max = Max({@, b.max}),
                      !.zero = @ + b.zero, !.positive = @ + b.positive]

MergeStat(a, b) ==
  IF Observations(a) = 0 THEN b
  ELSE IF Observations(b) = 0 THEN a
       ELSE
         [a EXCEPT
            !.sum = @ + b.sum, !.weight = @ + b.weight,
            !.first = IF b.firstAt < a.firstAt THEN b.first ELSE @,
            !.firstAt = IF b.firstAt < @ THEN b.firstAt ELSE @,
            !.last = IF b.lastAt > a.lastAt THEN b.last ELSE @,
            !.lastAt = IF b.lastAt > @ THEN b.lastAt ELSE @,
            !.min = IF b.min < @ THEN b.min ELSE @, !.minAt = IF b.min < a.min THEN b.minAt ELSE @,
            !.max = IF b.max > @ THEN b.max ELSE @, !.maxAt = IF b.max > a.max THEN b.maxAt ELSE @,
            !.zero = @ + b.zero, !.positive = @ + b.positive]

MergeCounter(a, b) ==
  IF ~a.known THEN b
  ELSE IF ~b.known THEN a
       ELSE [a EXCEPT !.last = b.last, !.lastAt = b.lastAt, !.delta = @ + b.delta,
                      !.duration = @ + b.duration, !.reset = @ \/ b.reset]

Merge(a, b) ==
  [a EXCEPT !.end = Max({@, b.end}), !.count = @ + b.count,
            !.validDuration = @ + b.validDuration, !.quality = @ \cup b.quality,
            !.up = MergeStat(@, b.up), !.uploaded = MergeCounter(@, b.uploaded)]

ToFive(in) ==
  FoldLeft(
    LAMBDA out, b :
      LET start == Start(b.start, Window)
          five  == [b EXCEPT !.start = start, !.end = start + Window]
      IN IF out # <<>> /\ Last(out).start = start
         THEN [out EXCEPT ![Len(out)] = Merge(@, five)]
         ELSE Append(out, five),
    <<>>, in)

(* Mutant: a window is built without the sample before it.                 *)
PreviousNone(before, first) == <<>>

(* sealOne: the last sample of the block before is the left endpoint if    *)
(* the sequence numbers are adjacent.                                      *)
Previous(before, first) ==
  IF before # <<>> /\ first.seq = Last(before).seq + 1 THEN <<Last(before)>> ELSE <<>>
=============================================================================
