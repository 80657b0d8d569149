---------------------------- MODULE TiersProofs ----------------------------
(***************************************************************************)
(* What holds of the storage tiers for every number of series, every age,  *)
(* hour and limit, and any number of restarts and corrupt frames.  That a  *)
(* window is counted once is not inductive: a window that is sealed must   *)
(* not have been sealed before (Moved), and none may be written again once *)
(* it can be sealed (Dated).                                               *)
(***************************************************************************)
EXTENDS Tiers, TLAPS, FiniteSetTheorems

Packed == UNION {p.data : p \in packed}

(* A window is in one of frames, open buckets and summary blocks, and what *)
(* SealRaw has selected is still in frames.                                *)
Moved == /\ frames \cap (open \cup Packed) = {}
         /\ SummaryOnce
         /\ keys \subseteq frames
         /\ step # "raw" => keys = {}

(* Frames are of a time that has come, a sealed window of one that is over.*)
Dated == /\ \A k \in frames : k.win <= now
         /\ \A k \in keys \cup open \cup Packed : k.win < now

IInv == TypeOK /\ Moved /\ Dated

(* Every part of a step keeps the types.                                   *)
LEMMA TypeKept == TypeOK /\ [Next]_vars => TypeOK'
<1> SUFFICES ASSUME TypeOK, [Next]_vars PROVE TypeOK'
  OBVIOUS
<1> USE TiersAssumption DEF TypeOK, database, writer
<1>1. CASE Tick
  <2>1. now' = now + 1 /\ quiet' = FALSE /\ UNCHANGED <<up, epoch, database, step, keys, hours, busy>>
    BY <1>1 DEF Tick
  <2>2. now' \in Nat
    BY <2>1
  <2> QED
    BY <2>1, <2>2, Zenon
<1>2. ASSUME NEW s \in Series, NEW bad \in BOOLEAN, Append(s, bad) PROVE TypeOK'
  BY <1>2 DEF Append, Key
<1>3. CASE SealRaw
  <2>1. keys' \subseteq frames
    BY <1>3 DEF SealRaw, FirstOf
  <2> QED
    BY <2>1, <1>3 DEF SealRaw
<1>4. ASSUME NEW k \in keys, SealOne(k) \/ SealRefused(k) PROVE TypeOK'
  BY <1>4 DEF SealOne, SealRefused
<1>5. CASE SealSummaries
  <2>1. hours' \subseteq {HourOf(k) : k \in open}
    BY <1>5 DEF SealSummaries, FirstOf
  <2>2. hours' \subseteq HourKey
    BY <2>1 DEF HourOf, HourKey, Key
  <2> QED
    BY <2>2, <1>5 DEF SealSummaries
<1>6. ASSUME NEW h \in hours, PackOne(h) PROVE TypeOK'
  <2>1. \A p \in packed' : p \in packed \/ p = [key |-> h, data |-> OpenOf(h)]
    BY <1>6 DEF PackOne
  <2>2. open' \subseteq open
    BY <1>6 DEF PackOne, StillOpen
  <2> QED
    BY <2>1, <2>2, <1>6 DEF PackOne, OpenOf
<1>7. CASE StepEnd
  BY <1>7 DEF StepEnd
<1>8. CASE Cleanup
  BY <1>8 DEF Cleanup
<1>9. CASE Stop
  BY <1>9 DEF Stop
<1>11. CASE Start
  BY <1>11 DEF Start
<1>10. CASE UNCHANGED vars
  BY <1>10 DEF vars
<1> QED
  BY <1>1, <1>2, <1>3, <1>4, <1>5, <1>6, <1>7, <1>8, <1>9, <1>10, <1>11 DEF Next

(* A window moves from one tier to the next, and only once.                *)
LEMMA MovedKept == IInv /\ [Next]_vars => (Moved /\ Dated)'
<1> SUFFICES ASSUME IInv, [Next]_vars PROVE (Moved /\ Dated)'
  OBVIOUS
<1> USE TiersAssumption DEF Moved, Dated, SummaryOnce, Packed, database, writer
<1>0. TypeOK /\ Moved /\ Dated /\ \A k \in Key : k.win \in Nat
  BY DEF IInv, Key
<1>1. CASE Tick
  BY <1>0, <1>1 DEF Tick, TypeOK
<1>2. ASSUME NEW s \in Series, NEW bad \in BOOLEAN, Append(s, bad) PROVE (Moved /\ Dated)'
  BY <1>0, <1>2 DEF Append, TypeOK
<1>3. CASE SealRaw
  <2>1. keys' \subseteq {k \in frames : Due(k)}
    BY <1>3 DEF SealRaw, FirstOf
  <2>2. \A k \in keys' : k.win < now
    BY <2>1, <1>0 DEF Due, TypeOK
  <2> QED
    BY <2>1, <2>2, <1>0, <1>3 DEF SealRaw
<1>4. ASSUME NEW k \in keys, SealOne(k) PROVE (Moved /\ Dated)'
  BY <1>0, <1>4 DEF SealOne
<1>5. ASSUME NEW k \in keys, SealRefused(k) PROVE (Moved /\ Dated)'
  BY <1>0, <1>5 DEF SealRefused
<1>6. ASSUME NEW h \in hours, PackOne(h) PROVE (Moved /\ Dated)'
  <2>1. /\ open' = open \ OpenOf(h) /\ OpenOf(h) \subseteq open
        /\ packed' = packed \/ packed' = packed \cup {[key |-> h, data |-> OpenOf(h)]}
    BY <1>6 DEF PackOne, StillOpen, OpenOf
  <2>2. Packed' \subseteq Packed \cup OpenOf(h)
    BY <2>1
  <2>3. SummaryOnce'
    BY <2>1, <1>0
  <2>4. frames' = frames /\ keys' = keys /\ step' = step /\ now' = now
    BY <1>6 DEF PackOne
  <2> QED
    BY <2>1, <2>2, <2>3, <2>4, <1>0
<1>7. CASE SealSummaries
  BY <1>0, <1>7 DEF SealSummaries
<1>11. CASE StepEnd
  BY <1>0, <1>11 DEF StepEnd
<1>8. CASE Cleanup
  BY <1>0, <1>8 DEF Cleanup
<1>9. CASE Stop \/ Start
  BY <1>0, <1>9 DEF Stop, Start
<1>10. CASE UNCHANGED vars
  BY <1>0, <1>10 DEF vars
<1> QED
  BY <1>1, <1>2, <1>3, <1>4, <1>5, <1>6, <1>7, <1>8, <1>9, <1>10, <1>11 DEF Next

LEMMA Initially == Init => IInv
<1> SUFFICES ASSUME Init PROVE IInv
  OBVIOUS
<1>1. Packed = {}
  BY DEF Init, Packed
<1>2. TypeOK
  BY DEF Init, TypeOK
<1> QED
  BY <1>1, <1>2 DEF Init, IInv, Moved, Dated, SummaryOnce

(* The invariant of the tiers holds in every reachable state.              *)
THEOREM Invariance == Spec => []IInv
<1>1. IInv /\ [Next]_vars => IInv'
  BY TypeKept, MovedKept DEF IInv
<1> QED
  BY <1>1, Initially, PTL DEF Spec

(* Every variable keeps its type, and a summary block covers windows of    *)
(* its own hour, series and epoch only.                                    *)
THEOREM TypeCorrect == Spec => []TypeOK
  BY Invariance, PTL DEF IInv

(* No window is counted twice where open buckets and summary blocks are    *)
(* read together, over crashes between any two commits, backlogs of any    *)
(* length and frames that do not decode.                                   *)
THEOREM CountedOnce == Spec => []SummaryOnce
<1>1. IInv => SummaryOnce
  BY DEF IInv, Moved
<1> QED
  BY <1>1, Invariance, PTL

-----------------------------------------------------------------------------
(* No loss between the tiers, as long as one SealRaw call can take all     *)
(* that is due and that no corrupt frame holds back.                       *)
Sealable == {k \in frames : Due(k) /\ ~Behind(k)}
KeepsUp  == Cardinality(Sealable) <= Limit

(* Every window of an hour that is packed, or about to be, can be sealed.  *)
Over(h) == \A w \in Nat : w \div Hour = h.hour => w + SealAge <= now

(* What a Step has left unsealed of what was due, a corrupt frame held     *)
(* back; so did it with what comes too late for its hour's block.          *)
Handled == /\ step = "raw" => \A k \in frames : Due(k) => k \in keys \/ Behind(k)
           /\ step = "summaries" \/ (step = "idle" /\ quiet) =>
                \A k \in frames : Due(k) => Behind(k)
           /\ \A h \in hours : Over(h)
           /\ step # "summaries" => hours = {}

InTime == /\ \A p \in packed : Over(p.key)
          /\ \A p \in packed, k \in frames \cup open : p.key = HourOf(k) => Behind(k)

KInv == IInv /\ IsFiniteSet(frames) /\ Handled /\ InTime /\ SummaryKept

(* The windows of an hour are less than an hour apart.                     *)
LEMMA HourSpan ==
  ASSUME NEW v \in Nat, NEW w \in Nat, v \div Hour = w \div Hour
  PROVE  w < v + Hour
  BY TiersAssumption

(* A call takes the earliest windows, and no corrupt frame is earlier than *)
(* one that is not held back: with room for those, it takes them all.      *)
LEMMA AllSelected ==
  ASSUME KInv, KeepsUp, SealRaw
  PROVE  keys' \subseteq frames /\ Sealable \subseteq keys'
<1> DEFINE S == {k \in frames : Due(k)}
<1>1. IsFiniteSet(S) /\ IsFiniteSet(Sealable) /\ Sealable \subseteq S
  <2>1. IsFiniteSet(frames) /\ S \in SUBSET frames /\ Sealable \in SUBSET frames
    BY DEF KInv, Sealable
  <2>2. Sealable \subseteq S
    BY DEF Sealable
  <2> QED
    BY <2>1, <2>2, FS_Subset
<1>2. /\ keys' \in SUBSET S /\ (Cardinality(keys') = Limit \/ keys' = S)
      /\ \A k \in keys', j \in S \ keys' : k.win <= j.win
  BY DEF SealRaw, FirstOf
<1>3. \A k \in S \cup corrupt : k.win \in Nat
  BY DEF KInv, IInv, TypeOK, Key
<1>4. S \subseteq frames
  OBVIOUS
<1>5. \A k \in S : k \notin Sealable => Behind(k)
  BY DEF Sealable
<1> HIDE DEF S
<1>6. ASSUME NEW k \in Sealable, k \notin keys' PROVE FALSE
  <2>1. Cardinality(keys') = Limit
    BY <1>1, <1>2, <1>6
  <2>2. ASSUME NEW j \in keys' PROVE j \in Sealable
    <3>1. j.win <= k.win /\ j \in S /\ ~Behind(k)
      BY <1>1, <1>2, <1>6, <2>2 DEF Sealable
    <3>2. ~Behind(j)
      BY <1>1, <1>3, <1>6, <3>1 DEF Behind
    <3> QED
      BY <1>5, <3>1, <3>2
  <2>3. IsFiniteSet(keys') /\ keys' \cup {k} \in SUBSET Sealable
    BY <1>1, <1>2, <1>6, <2>2, FS_Subset
  <2>4. Cardinality(keys' \cup {k}) = Limit + 1
    BY <1>6, <2>1, <2>3, FS_AddElement
  <2>5. Cardinality(keys' \cup {k}) <= Cardinality(Sealable)
    BY <1>1, <2>3, FS_Subset
  <2>6. Cardinality(Sealable) \in Nat /\ Limit \in Nat
    BY <1>1, FS_CardinalityType, TiersAssumption
  <2> QED
    BY <2>4, <2>5, <2>6 DEF KeepsUp
<1> QED
  BY <1>2, <1>4, <1>6

LEMMA KInvKept == KInv /\ KeepsUp /\ [Next]_vars => KInv'
<1> SUFFICES ASSUME KInv, KeepsUp, [Next]_vars
             PROVE  IsFiniteSet(frames)' /\ Handled' /\ InTime' /\ SummaryKept'
  BY TypeKept, MovedKept DEF KInv, IInv
<1>0. /\ TypeOK /\ Moved /\ Dated /\ IsFiniteSet(frames) /\ Handled /\ InTime /\ SummaryKept
      /\ now \in Nat /\ SealAge \in Nat \ {0} /\ \A k \in frames \cup open \cup keys : k \in Key
  BY TiersAssumption DEF KInv, IInv, TypeOK
<1>a. \A k \in Key : k.win \in Nat
  BY DEF Key
<1>1. CASE Tick
  <2>1. /\ now' = now + 1 /\ step = "idle" /\ ~quiet'
        /\ UNCHANGED <<frames, corrupt, blocks, open, packed, step, keys, hours>>
    <3>1. ~quiet'
      BY <1>1, Zenon DEF Tick
    <3> QED
      BY <3>1, <1>1 DEF Tick, database
  <2>2. \A h : Over(h) => Over(h)'
    BY <1>0, <2>1 DEF Over
  <2>3. Handled'
    BY <2>1, <2>2, <1>0 DEF Handled
  <2>4. InTime' /\ SummaryKept'
    BY <2>1, <2>2, <1>0 DEF InTime, SummaryKept, Summarised, Behind, HourOf
  <2> QED
    BY <2>1, <2>3, <2>4, <1>0
<1>2. ASSUME NEW s \in Series, NEW bad \in BOOLEAN, Append(s, bad)
      PROVE  IsFiniteSet(frames)' /\ Handled' /\ InTime' /\ SummaryKept'
  <2> DEFINE n == [sid |-> s, epoch |-> epoch, win |-> now]
  <2>1. /\ frames' = frames \cup {n} /\ corrupt \subseteq corrupt' /\ n.win = now
        /\ UNCHANGED <<now, blocks, open, packed, step, keys, hours, quiet>>
    BY <1>2 DEF Append, writer
  <2>2. ~Due(n)
    BY <1>0, <2>1 DEF Due
  <2>3. ASSUME NEW p \in packed PROVE p.key # HourOf(n)
    <3>1. Over(p.key) /\ HourOf(n).hour = now \div Hour
      BY <1>0, <2>1 DEF InTime, HourOf
    <3>2. CASE p.key = HourOf(n)
      BY <1>0, <3>1, <3>2 DEF Over
    <3> QED
      BY <3>2
  <2> HIDE DEF n
  <2>4. IsFiniteSet(frames')
    BY <1>0, <2>1, FS_AddElement
  <2>5. Handled'
    BY <1>0, <2>1, <2>2 DEF Handled, Behind, Due, Over
  <2>6. InTime' /\ SummaryKept'
    BY <1>0, <2>1, <2>3 DEF InTime, SummaryKept, Summarised, Behind, Over, HourOf
  <2> QED
    BY <2>4, <2>5, <2>6
<1>3. CASE SealRaw
  <2>1. /\ \A k \in frames : Due(k) => k \in keys' \/ Behind(k)
        /\ step' = "raw" /\ step = "idle"
        /\ UNCHANGED <<now, frames, corrupt, blocks, open, packed, hours>>
    BY <1>3, AllSelected DEF SealRaw, database, Sealable
  <2> QED
    BY <2>1, <1>0 DEF Handled, InTime, SummaryKept, Summarised, Behind, Over, HourOf, Due
<1>4. ASSUME NEW k \in keys, SealOne(k)
      PROVE  IsFiniteSet(frames)' /\ Handled' /\ InTime' /\ SummaryKept'
  <2>1. /\ k \in frames /\ step = "raw" /\ frames' = frames \ {k} /\ keys' = keys \ {k}
        /\ blocks' = blocks \cup {k} /\ open' = open \cup {k}
        /\ UNCHANGED <<now, corrupt, packed, step, hours, quiet>>
    BY <1>0, <1>4 DEF SealOne, Moved
  <2>2. IsFiniteSet(frames')
    BY <1>0, <2>1, FS_Subset
  <2>3. Handled'
    BY <1>0, <2>1 DEF Handled, Behind, Due, Over
  <2>4. InTime' /\ SummaryKept'
    BY <1>0, <2>1 DEF InTime, SummaryKept, Summarised, Behind, Over, HourOf
  <2> QED
    BY <2>2, <2>3, <2>4
<1>5. ASSUME NEW k \in keys, SealRefused(k)
      PROVE  IsFiniteSet(frames)' /\ Handled' /\ InTime' /\ SummaryKept'
  <2>1. /\ k \in corrupt /\ step = "raw" /\ keys' = {} /\ \A j \in keys : Behind(j)
        /\ UNCHANGED <<now, frames, corrupt, blocks, open, packed, step, hours, quiet>>
    BY <1>0, <1>5 DEF SealRefused, Moved, Behind, database
  <2> QED
    BY <1>0, <2>1 DEF Handled, InTime, SummaryKept, Summarised, Behind, Over, HourOf, Due
<1>6. CASE SealSummaries
  <2>1. /\ step = "raw" /\ keys = {} /\ step' = "summaries"
        /\ hours' \subseteq {HourOf(k) : k \in {j \in open : HourDue(j)}}
        /\ UNCHANGED <<now, frames, corrupt, blocks, open, packed, keys, quiet>>
    BY <1>6 DEF SealSummaries, FirstOf, database
  <2>2. ASSUME NEW h \in hours' PROVE Over(h)
    <3>1. PICK j \in open : HourDue(j) /\ h = HourOf(j)
      BY <2>1
    <3>2. j.win \in Nat /\ h.hour = j.win \div Hour /\ j.win + Hour + SealAge <= now
      BY <3>1, <1>0, <1>a DEF HourDue, HourOf
    <3>3. ASSUME NEW w \in Nat, w \div Hour = h.hour PROVE w + SealAge <= now
      <4>1. w < j.win + Hour
        BY <3>2, <3>3, HourSpan
      <4>2. Hour \in Nat
        BY TiersAssumption
      <4> QED
        BY <3>2, <4>1, <4>2, <1>0
    <3> QED
      BY <3>3 DEF Over
  <2>3. Handled'
    BY <1>0, <2>1, <2>2 DEF Handled, Behind, Due, Over
  <2> QED
    BY <1>0, <2>1, <2>3 DEF InTime, SummaryKept, Summarised, Behind, Over, HourOf
<1>7. ASSUME NEW h \in hours, PackOne(h)
      PROVE  IsFiniteSet(frames)' /\ Handled' /\ InTime' /\ SummaryKept'
  <2>1. /\ step = "summaries" /\ hours' = hours \ {h} /\ open' = open \ OpenOf(h)
        /\ packed' = IF \E p \in packed : p.key = h THEN packed
                     ELSE packed \cup {[key |-> h, data |-> OpenOf(h)]}
        /\ UNCHANGED <<now, frames, corrupt, blocks, step, keys, quiet>>
    BY <1>7 DEF PackOne, StillOpen
  <2>2. Over(h) /\ \A k \in frames : Due(k) => Behind(k)
    BY <1>0, <2>1 DEF Handled
  <2>3. \A k \in frames : HourOf(k) = h => Behind(k)
    BY <1>0, <1>a, <2>2 DEF Over, HourOf, Due
  <2>4. \A p \in packed' : p \in packed \/ p = [key |-> h, data |-> OpenOf(h)]
    BY <2>1
  <2>5. \A k \in open' : k \in open /\ HourOf(k) # h
    BY <2>1 DEF OpenOf
  <2>6. Handled'
    BY <1>0, <2>1 DEF Handled, Behind, Due, Over
  <2>7. InTime'
    <3>1. \A p \in packed' : Over(p.key)
      BY <1>0, <2>2, <2>4 DEF InTime
    <3>2. \A p \in packed', k \in frames \cup open' : p.key = HourOf(k) => Behind(k)
      BY <1>0, <2>3, <2>4, <2>5 DEF InTime
    <3> QED
      BY <3>1, <3>2, <2>1 DEF InTime, Over, Behind, HourOf
  <2>8. SummaryKept'
    <3>1. ASSUME NEW k \in blocks PROVE Summarised(k)' \/ Behind(k)
      <4>1. CASE k \in OpenOf(h) /\ \E p \in packed : p.key = h
        BY <1>0, <4>1 DEF InTime, OpenOf
      <4>2. CASE k \in OpenOf(h) /\ ~\E p \in packed : p.key = h
        <5>1. [key |-> h, data |-> OpenOf(h)] \in packed'
          BY <2>1, <4>2
        <5>2. k \in [key |-> h, data |-> OpenOf(h)].data
          BY <4>2
        <5> QED
          BY <5>1, <5>2, Zenon DEF Summarised
      <4>3. CASE k \notin OpenOf(h)
        BY <1>0, <2>1, <4>3 DEF SummaryKept, Summarised
      <4> QED
        BY <4>1, <4>2, <4>3
    <3> QED
      BY <3>1, <2>1 DEF SummaryKept, Behind
  <2> QED
    BY <1>0, <2>1, <2>6, <2>7, <2>8
<1>8. CASE StepEnd
  <2>1. /\ step = "summaries" /\ step' = "idle"
        /\ UNCHANGED <<now, frames, corrupt, blocks, open, packed, keys, hours>> /\ hours = {}
    BY <1>8 DEF StepEnd, database
  <2> QED
    BY <1>0, <2>1 DEF Handled, InTime, SummaryKept, Summarised, Behind, Over, HourOf, Due
<1>9. CASE Cleanup
  <2>1. /\ frames' \subseteq frames /\ open' = {k \in open : ~Old(k, SummaryAge)}
        /\ blocks' = {k \in blocks : ~Old(k, RawAge)}
        /\ packed' = {p \in packed : \E k \in p.data : ~Old(k, SummaryAge)}
        /\ UNCHANGED <<now, corrupt, step, keys, hours, quiet>>
    BY <1>9 DEF Cleanup, writer
  <2>2. IsFiniteSet(frames')
    BY <1>0, <2>1, FS_Subset
  <2>3. Handled' /\ InTime'
    BY <1>0, <2>1 DEF Handled, InTime, Behind, Over, HourOf, Due
  <2>4. ASSUME NEW k \in blocks' PROVE Summarised(k)' \/ Behind(k)
    <3>1. Summarised(k) \/ Behind(k)
      BY <1>0, <2>1, <2>4 DEF SummaryKept
    <3>2. ASSUME k \in open \cup Packed PROVE ~Old(k, SummaryAge)
      <4>1. k.win \in Nat
        BY <1>0, <1>a, <3>2 DEF TypeOK, Packed
      <4>2. RawAge \in Nat /\ SummaryAge \in Nat /\ RawAge <= SummaryAge
        BY TiersAssumption
      <4> QED
        BY <1>0, <2>1, <2>4, <4>1, <4>2 DEF Old
    <3> QED
      BY <2>1, <3>1, <3>2 DEF Summarised, Packed
  <2> QED
    BY <2>1, <2>2, <2>3, <2>4 DEF SummaryKept, Behind
<1>10. CASE Stop \/ Start
  <2>1. /\ UNCHANGED <<now, frames, corrupt, blocks, open, packed>>
        /\ \/ step' = "idle" /\ hours' = {} /\ ~quiet'
           \/ UNCHANGED <<step, keys, hours, quiet>>
    BY <1>10 DEF Stop, Start, database, writer
  <2> QED
    BY <1>0, <2>1 DEF Handled, InTime, SummaryKept, Summarised, Behind, Over, HourOf, Due
<1>11. CASE UNCHANGED vars
  BY <1>0, <1>11 DEF vars, database, writer, Handled, InTime, SummaryKept, Summarised, Behind, Over,
     HourOf, Due
<1> QED
  BY <1>1, <1>2, <1>3, <1>4, <1>5, <1>6, <1>7, <1>8, <1>9, <1>10, <1>11 DEF Next

LEMMA KeepingUp == Spec /\ []KeepsUp => []KInv
<1>1. Init => KInv
  <2> SUFFICES ASSUME Init PROVE KInv
    OBVIOUS
  <2>1. IInv
    BY Initially
  <2>2. IsFiniteSet(frames) /\ Handled /\ InTime /\ SummaryKept
    BY FS_EmptySet DEF Init, Handled, InTime, SummaryKept
  <2> QED
    BY <2>1, <2>2 DEF KInv
<1> QED
  BY <1>1, KInvKept, PTL DEF Spec

(* A sealed window has its summary as long as it has its block, over       *)
(* crashes between any two commits and a downtime of any length.           *)
THEOREM SummariesKept == Spec /\ []KeepsUp => []SummaryKept
<1>1. KInv => SummaryKept
  BY DEF KInv
<1> QED
  BY <1>1, KeepingUp, PTL

(* Nothing expires unsealed that a corrupt frame did not hold back.        *)
THEOREM SealedFirst == Spec /\ []KeepsUp => SealedBeforeExpiry
<1> DEFINE Rule == \A k \in frames \ frames' : k \in blocks' \/ Behind(k)
<1>1. KInv /\ [Next]_vars => [Rule]_vars
  <2> SUFFICES ASSUME KInv, [Next]_vars, NEW k \in frames \ frames' PROVE k \in blocks' \/ Behind(k)
    OBVIOUS
  <2>1. CASE Cleanup
    <3>1. step = "idle" /\ quiet /\ Old(k, RawAge)
      BY <2>1 DEF Cleanup
    <3>2. {k.win, now, SealAge, RawAge} \subseteq Nat /\ SealAge <= RawAge
      BY TiersAssumption DEF KInv, IInv, TypeOK, Key
    <3>3. Due(k)
      BY <3>1, <3>2 DEF Old, Due
    <3> QED
      BY <3>1, <3>3 DEF KInv, Handled
  <2>2. CASE \E j \in keys : SealOne(j)
    BY <2>2 DEF SealOne
  <2>3. CASE frames \subseteq frames'
    BY <2>3
  <2> QED
    BY <2>1, <2>2, <2>3 DEF Next, Tick, Stop, Start, Append, SealRaw, SealSummaries, StepEnd,
       SealRefused, PackOne, vars, database
<1> QED
  BY <1>1, KeepingUp, PTL DEF Spec, SealedBeforeExpiry
=============================================================================
