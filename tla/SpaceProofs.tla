---------------------------- MODULE SpaceProofs ----------------------------
(***************************************************************************)
(* The space guard, for any budgets, thresholds, limits and schedule.      *)
(* That it does not flap needs to be known between a resume and the next   *)
(* pause: the database then is smaller than the lower line and what was    *)
(* written since (Below), in whatever order the writer, the deletions and  *)
(* the readers step.                                                       *)
(***************************************************************************)
EXTENDS Space, TLAPS

(* What has been written since the guard resumed is all that can have      *)
(* brought the database nearer to the line it stops at.                    *)
Below == trusted => /\ ~paused
                    /\ grown = Enough \/ used < Pct(68) + grown

IInv == TypeOK /\ Below

-----------------------------------------------------------------------------
(* Sizes.                                                                  *)

LEMMA Sizes ==
  ASSUME TypeOK
  PROVE  /\ {used, free, limit, wal, tail, queued, grown, budget, Small, Large, MaxWal, Enough} \subseteq Nat
         /\ Small < Large /\ MaxWal >= 1 /\ budget <= Large
         /\ used + free <= limit /\ limit <= (Large * 75) \div 100 /\ tail <= wal /\ wal <= MaxWal
<1>1. {Small, Large, MaxWal, MaxQueued, SmallStop, LargeStop} \subseteq Nat /\ SmallStop >= 1
  BY SpaceAssumption
<1>2. Small < Large /\ SmallStop <= LargeStop /\ LargeStop <= MaxWal
  BY SpaceAssumption
<1>3. Enough \in Nat
  BY <1>1 DEF Enough
<1> QED
  BY <1>1, <1>2, <1>3 DEF TypeOK

(* The two lines are less than Enough pages apart, whatever the budget.    *)
LEMMA LinesApart ==
  ASSUME TypeOK
  PROVE  /\ Pct(68) \in Nat /\ Pct(74) \in Nat
         /\ Pct(74) - Pct(68) < Enough
<1>1. budget \in Nat /\ Large \in Nat /\ budget <= Large
  BY Sizes
<1> QED
  BY <1>1 DEF Pct, Enough

(* The page limit is never beyond 75 % of the larger budget.               *)
LEMMA LimitTyped ==
  ASSUME TypeOK, NEW b \in {Small, Large}
  PROVE  /\ PageLimit(b) \in Nat /\ used + free <= PageLimit(b)
         /\ PageLimit(b) <= (Large * 75) \div 100
<1>1. b \in Nat /\ Large \in Nat /\ b <= Large /\ {used, free, limit} \subseteq Nat
  BY Sizes
<1>2. used + free <= (Large * 75) \div 100
  BY <1>1, Sizes
<1>3. (b * 75) \div 100 \in Nat /\ (b * 75) \div 100 <= (Large * 75) \div 100
  BY <1>1
<1> QED
  BY <1>1, <1>2, <1>3 DEF PageLimit, Larger

LEMMA LogTyped ==
  ASSUME TypeOK, LogWrite
  PROVE  wal' \in Nat /\ tail' \in Nat /\ tail' <= wal' /\ wal' <= MaxWal /\ copied' \in BOOLEAN
<1>1. {wal, tail, MaxWal} \subseteq Nat /\ MaxWal >= 1 /\ tail <= wal /\ wal <= MaxWal
  BY Sizes
<1>2. tail' \in Nat /\ tail' <= MaxWal
  BY <1>1 DEF LogWrite, Smaller
<1>3. wal' = Larger(wal, tail') /\ copied' = FALSE
  BY DEF LogWrite
<1>4. Larger(wal, tail') \in Nat /\ tail' <= Larger(wal, tail') /\ Larger(wal, tail') <= MaxWal
  BY <1>1, <1>2 DEF Larger
<1> QED
  BY <1>2, <1>3, <1>4

LEMMA PartTyped ==
  ASSUME TypeOK, Part
  PROVE  n' \in 1..CleanEvery /\ step' \in 1..5
<1>1. CleanEvery \in Nat \ {0} /\ n \in 1..CleanEvery /\ step \in 1..5
  BY SpaceAssumption DEF TypeOK
<1>2. n % CleanEvery \in 0..(CleanEvery - 1)
  BY <1>1
<1> QED
  BY <1>1, <1>2 DEF Part

-----------------------------------------------------------------------------
LEMMA TypeKept == TypeOK /\ [Next]_vars => TypeOK'
<1> SUFFICES ASSUME TypeOK, [Next]_vars PROVE TypeOK'
  OBVIOUS
<1>0. /\ {used, free, limit, wal, tail, queued, grown, Enough, MaxQueued, MaxChange} \subseteq Nat
      /\ used + free <= limit /\ queued <= MaxQueued
  BY Sizes, SpaceAssumption DEF TypeOK
<1>1. CASE Sample
  <2>1. queued' \in 0..MaxQueued
    BY <1>0, <1>1 DEF Sample
  <2> QED
    BY <2>1, <1>1 DEF Sample, TypeOK, setting, log, ghost
<1>2. CASE Flush
  <2>1. n' \in 1..CleanEvery /\ step' \in 1..5
    BY <1>2, PartTyped DEF Flush
  <2>2. UNCHANGED <<hold, budget, limit, changes, reader, short>>
    BY <1>2 DEF Flush, setting
  <2>3. CASE UNCHANGED <<paused, used, free, wal, tail, copied, queued, trusted, grown>>
    BY <2>1, <2>2, <2>3 DEF TypeOK
  <2>4. CASE /\ queued' = 0 /\ paused' = TRUE /\ trusted' = FALSE /\ grown' = 0
             /\ UNCHANGED <<used, free, wal, tail, copied>>
    <3>1. queued' \in 0..MaxQueued /\ grown' \in 0..Enough
      BY <2>4, <1>0
    <3>2. paused' \in BOOLEAN /\ trusted' \in BOOLEAN
      BY <2>4
    <3> QED
      BY <2>1, <2>2, <2>4, <3>1, <3>2 DEF TypeOK
  <2>5. CASE /\ queued' = 0 /\ used + Larger(queued, free) <= limit
             /\ used' = used + queued /\ free' = free - Smaller(queued, free)
             /\ grown' = IF trusted THEN Smaller(grown + queued, Enough) ELSE 0
             /\ LogWrite /\ UNCHANGED <<paused, trusted>>
    <3>1. used' \in Nat /\ free' \in Nat /\ used' + free' <= limit
      BY <2>5, <1>0 DEF Larger, Smaller
    <3>2. grown' \in 0..Enough
      BY <2>5, <1>0 DEF Smaller
    <3>3. wal' \in Nat /\ tail' \in Nat /\ tail' <= wal' /\ wal' <= MaxWal /\ copied' \in BOOLEAN
      BY <2>5, LogTyped
    <3>4. queued' \in 0..MaxQueued
      BY <2>5, <1>0
    <3> QED
      BY <2>1, <2>2, <2>5, <3>1, <3>2, <3>3, <3>4 DEF TypeOK
  <2> QED
    BY <2>3, <2>4, <2>5, <1>2 DEF Flush, log, ghost
<1>3. CASE CheckSpace
  <2>1. n' \in 1..CleanEvery /\ step' \in 1..5
    BY <1>3, PartTyped DEF CheckSpace
  <2>2. grown' \in 0..Enough
    <3>1. grown' = 0 \/ grown' = grown
      BY <1>3 DEF CheckSpace
    <3>2. grown \in 0..Enough /\ 0 \in 0..Enough
      BY <1>0 DEF TypeOK
    <3> QED
      BY <3>1, <3>2
  <2>3. paused' \in BOOLEAN /\ short' \in BOOLEAN
    BY <1>3 DEF CheckSpace
  <2>4. trusted' \in BOOLEAN
    BY <1>3 DEF CheckSpace, TypeOK
  <2> QED
    BY <2>1, <2>2, <2>3, <2>4, <1>3 DEF CheckSpace, TypeOK, setting, log
<1>4. CASE Cleanup
  <2>1. n' \in 1..CleanEvery /\ step' \in 1..5
    BY <1>4, PartTyped DEF Cleanup
  <2>2. UNCHANGED <<paused, hold, budget, limit, changes, queued, reader, short, trusted, grown>>
    BY <1>4 DEF Cleanup, setting, ghost
  <2>3. CASE UNCHANGED <<used, free, wal, tail, copied>>
    BY <2>1, <2>2, <2>3 DEF TypeOK
  <2>4. ASSUME NEW d \in 0..(IF hold THEN 0 ELSE Smaller(CleanupLimit, used)),
               used' = used - d, free' = StillFree(d), LogWrite
        PROVE  TypeOK'
    <3>1. CleanupLimit \in Nat \ {0} /\ Vacuum \in Nat \ {0}
      BY SpaceAssumption
    <3>2. d \in Nat /\ d <= used
      BY <2>4, <3>1, <1>0 DEF Smaller
    <3>3. used' \in Nat /\ free' \in Nat /\ used' + free' <= limit
      BY <2>4, <3>1, <3>2, <1>0 DEF StillFree, Smaller
    <3>4. wal' \in Nat /\ tail' \in Nat /\ tail' <= wal' /\ wal' <= MaxWal /\ copied' \in BOOLEAN
      BY <2>4, LogTyped
    <3> QED
      BY <2>1, <2>2, <3>3, <3>4 DEF TypeOK
  <2> QED
    BY <2>3, <2>4, <1>4 DEF Cleanup, log
<1>5. CASE Seal \/ Checkpoint
  <2>1. n' \in 1..CleanEvery /\ step' \in 1..5
    BY <1>5, PartTyped DEF Seal, Checkpoint
  <2>2. UNCHANGED <<paused, hold, budget, limit, changes, used, free, queued, reader, short, trusted, grown>>
    BY <1>5 DEF Seal, Checkpoint, setting, ghost
  <2>3. LogWrite \/ Passive \/ UNCHANGED log
    BY <1>5 DEF Seal, Checkpoint
  <2>4. wal' \in Nat /\ tail' \in Nat /\ tail' <= wal' /\ wal' <= MaxWal /\ copied' \in BOOLEAN
    BY <2>3, LogTyped, Sizes DEF Passive, log, TypeOK
  <2> QED
    BY <2>1, <2>2, <2>4 DEF TypeOK
<1>6. CASE SetBudget
  <2>1. budget' \in {Small, Large} /\ limit' = PageLimit(budget')
    BY <1>6 DEF SetBudget, TypeOK
  <2>2. limit' \in Nat /\ used + free <= limit' /\ limit' <= (Large * 75) \div 100
    BY <2>1, LimitTyped
  <2>3. changes' \in 0..MaxChange
    BY <1>0, <1>6 DEF SetBudget, TypeOK
  <2>4. trusted' \in BOOLEAN /\ grown' \in 0..Enough
    <3>1. grown' = 0
      BY <1>6 DEF SetBudget
    <3>2. grown' \in 0..Enough
      BY <3>1, <1>0
    <3>3. trusted' \in BOOLEAN
      BY <1>6 DEF SetBudget
    <3> QED
      BY <3>2, <3>3
  <2>5. UNCHANGED <<n, step, paused, hold, used, free, wal, tail, copied, queued, reader, short>>
    BY <1>6 DEF SetBudget, log
  <2> QED
    BY <2>1, <2>2, <2>3, <2>4, <2>5 DEF TypeOK
<1>7. CASE HoldClock \/ Reader
  BY <1>7 DEF HoldClock, Reader, TypeOK, setting, log, ghost
<1>8. ASSUME NEW clean \in BOOLEAN, Restart(clean) PROVE TypeOK'
  <2>1. limit' \in Nat /\ used + free <= limit' /\ limit' <= (Large * 75) \div 100
    BY <1>8, LimitTyped DEF Restart, TypeOK
  <2>2. wal' \in Nat /\ tail' \in Nat /\ tail' <= wal' /\ wal' <= MaxWal
    BY <1>8, Sizes DEF Restart
  <2>3. copied' \in BOOLEAN
    BY <1>8 DEF Restart
  <2>4. 1 \in 1..CleanEvery /\ 0 \in 0..MaxQueued /\ 0 \in 0..Enough
    BY <1>0, SpaceAssumption
  <2>5. /\ n' = 1 /\ step' = 1 /\ queued' = 0 /\ grown' = 0
        /\ UNCHANGED <<budget, changes, used, free, short>>
    BY <1>8 DEF Restart
  <2>6. paused' \in BOOLEAN /\ hold' \in BOOLEAN /\ reader' \in BOOLEAN /\ trusted' \in BOOLEAN
    BY <1>8 DEF Restart
  <2> QED
    BY <2>1, <2>2, <2>3, <2>4, <2>5, <2>6 DEF TypeOK
<1>9. CASE UNCHANGED vars
  BY <1>9 DEF vars, setting, log, ghost, TypeOK
<1> QED
  BY <1>1, <1>2, <1>3, <1>4, <1>5, <1>6, <1>7, <1>8, <1>9 DEF Next, Writer

(* Nothing but what is counted brings a resumed database nearer to the     *)
(* line it stops at.                                                       *)
LEMMA BelowKept == IInv /\ [Next]_vars => Below'
<1> SUFFICES ASSUME IInv, [Next]_vars, trusted'
             PROVE  ~paused' /\ (grown' = Enough \/ used' < (Pct(68) + grown)')
  BY DEF Below
<1>0. /\ TypeOK /\ Below /\ {used, queued, grown, Enough, CleanupLimit, Pct(68)} \subseteq Nat
      /\ grown <= Enough
  BY Sizes, LinesApart, SpaceAssumption DEF IInv, TypeOK
<1> DEFINE Line == Pct(68)
<1>1. CASE Flush
  <2>1. Line' = Line
    BY <1>1 DEF Flush, setting, Pct
  <2>2. CASE UNCHANGED <<paused, used, trusted, grown>>
    BY <2>1, <2>2, <1>0 DEF Below
  <2>3. CASE /\ used' = used + queued /\ UNCHANGED <<paused, trusted>>
             /\ grown' = IF trusted THEN Smaller(grown + queued, Enough) ELSE 0
    <3>1. ~paused /\ (grown = Enough \/ used < Line + grown)
      BY <2>3, <1>0 DEF Below
    <3>2. grown' = Smaller(grown + queued, Enough)
      BY <2>3
    <3>3. grown' = Enough \/ used' < Line + grown'
      <4> HIDE DEF Line
      <4> QED
        BY <3>1, <3>2, <2>3, <1>0 DEF Smaller, Line
    <3> QED
      BY <3>1, <3>3, <2>1, <2>3
  <2> QED
    BY <2>2, <2>3, <1>1 DEF Flush, ghost
<1>2. CASE CheckSpace
  <2>1. Line' = Line /\ used' = used
    BY <1>2 DEF CheckSpace, setting, Pct
  <2>2. CASE paused' = paused
    BY <2>1, <2>2, <1>0, <1>2 DEF CheckSpace, Below
  <2>3. CASE paused' # paused
    <3>1. grown' = 0 /\ trusted' = ~paused'
      BY <2>3, <1>2 DEF CheckSpace
    <3>2. ~paused'
      BY <3>1
    <3>3. used < Line
      BY <2>3, <3>2, <1>2, <1>0 DEF CheckSpace, MayResume, TypeOK
    <3> QED
      BY <3>1, <3>2, <3>3, <2>1, <1>0
  <2> QED
    BY <2>2, <2>3
<1>3. CASE Cleanup
  <2>1. Line' = Line /\ UNCHANGED <<paused, trusted, grown>>
    BY <1>3 DEF Cleanup, setting, Pct, ghost
  <2>2. used' <= used /\ used' \in Nat
    <3>1. TypeOK'
      BY <1>0, TypeKept
    <3>2. used' \in Nat
      BY <3>1 DEF TypeOK
    <3>3. used' = used \/ \E d \in 0..(IF hold THEN 0 ELSE Smaller(CleanupLimit, used)) : used' = used - d
      BY <1>3 DEF Cleanup
    <3> QED
      BY <3>2, <3>3, <1>0 DEF Smaller
  <2> QED
    BY <2>1, <2>2, <1>0 DEF Below
<1>4. CASE UNCHANGED <<paused, used, budget, trusted, grown>>
  BY <1>4, <1>0 DEF Below, Pct
<1>5. CASE trusted' = FALSE
  BY <1>5
<1> QED
  BY <1>1, <1>2, <1>3, <1>4, <1>5 DEF Next, Writer, Sample, Seal, Checkpoint, SetBudget, HoldClock,
     Reader, Restart, vars, setting, ghost

LEMMA Initially == Init => IInv
<1> SUFFICES ASSUME Init PROVE IInv
  OBVIOUS
<1>1. {Small, Large, MaxWal, MaxQueued, MaxChange, Enough} \subseteq Nat /\ Small < Large
  BY SpaceAssumption DEF Enough
<1>2. budget \in {Small, Large} /\ limit = PageLimit(budget) /\ used = 0 /\ free = 0
  BY DEF Init
<1>3. limit \in Nat /\ used + free <= limit /\ limit <= (Large * 75) \div 100
  BY <1>1, <1>2 DEF PageLimit, Larger
<1>4. 1 \in 1..CleanEvery /\ 0 \in 0..MaxQueued /\ 0 \in 0..Enough /\ 0 \in 0..MaxChange
  BY <1>1, SpaceAssumption
<1>5. /\ n = 1 /\ step = 1 /\ changes = 0 /\ queued = 0 /\ grown = 0 /\ wal = 0 /\ tail = 0
  BY DEF Init
<1>6. {paused, hold, copied, reader, trusted} \subseteq BOOLEAN /\ short \in BOOLEAN /\ ~trusted
  BY DEF Init
<1> QED
  BY <1>1, <1>2, <1>3, <1>4, <1>5, <1>6 DEF TypeOK, IInv, Below

THEOREM Invariance == Spec => []IInv
<1>1. IInv /\ [Next]_vars => IInv'
  BY TypeKept, BelowKept DEF IInv
<1> QED
  BY <1>1, Initially, PTL DEF Spec

(* The pages stay within the limit and the limit within 75 % of a budget.  *)
THEOREM TypeCorrect == Spec => []TypeOK
  BY Invariance, PTL DEF IInv

(* A pause for nothing but the size of the database.                       *)
LEMMA StoppedForSize ==
  ASSUME TypeOK, MustStop("over128"), wal < WalStop, Directory < Pct(95)
  PROVE  used >= Pct(74)
<1>1. used \in Nat /\ free \in Nat /\ wal \in Nat /\ budget \in Nat /\ WalStop \in Nat
  BY Sizes, SpaceAssumption DEF WalStop
<1>2. wal >= WalStop \/ Directory >= Pct(95) \/ used >= Pct(74)
  BY DEF MustStop
<1>3. Directory \in Nat /\ Pct(95) \in Nat
  BY <1>1 DEF Directory, Pct
<1>4. \A x, y \in Nat : x < y => ~(x >= y)
  OBVIOUS
<1> QED
  BY <1>1, <1>2, <1>3, <1>4

LEMMA LinesCrossed ==
  ASSUME TypeOK, used >= Pct(74), grown = Enough \/ used < Pct(68) + grown
  PROVE  grown > Pct(74) - Pct(68)
<1>1. grown \in Nat /\ Enough \in Nat /\ used \in Nat
  BY Sizes
<1>2. Pct(68) \in Nat /\ Pct(74) \in Nat /\ Pct(74) - Pct(68) < Enough
  BY LinesApart
<1> QED
  BY <1>1, <1>2

(* Between a resume and the next pause for the size of the database lie    *)
(* more pages than the two lines are apart.                                *)
THEOREM NeverFlaps == Spec => NoFlapping
<1> DEFINE Rule == CheckSpace /\ trusted /\ ~trusted' /\ ~short' /\ wal < WalStop /\ Directory < Pct(95)
                     => grown > Pct(74) - Pct(68)
<1>1. IInv => Rule
  <2> SUFFICES ASSUME IInv, CheckSpace, trusted, ~trusted', ~short', wal < WalStop, Directory < Pct(95)
               PROVE  grown > Pct(74) - Pct(68)
    OBVIOUS
  <2>0. TypeOK /\ ~paused /\ (grown = Enough \/ used < Pct(68) + grown)
    BY DEF IInv, Below
  <2>1. paused' /\ paused' # paused
    BY <2>0 DEF CheckSpace
  <2>2. PICK host \in {"under64", "under128", "over128"} :
          /\ paused' = (MustStop(host) \/ (paused /\ ~MayResume(host)))
          /\ short' = (host # "over128")
    BY DEF CheckSpace
  <2>3. MustStop(host) /\ host = "over128"
    BY <2>0, <2>1, <2>2
  <2>4. used >= Pct(74)
    BY <2>0, <2>3, StoppedForSize
  <2> QED
    BY <2>0, <2>4, LinesCrossed
<1>2. Rule => [Rule]_vars
  OBVIOUS
<1> QED
  BY <1>1, <1>2, Invariance, PTL DEF Spec, NoFlapping
=============================================================================
