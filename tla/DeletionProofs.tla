--------------------------- MODULE DeletionProofs ---------------------------
(***************************************************************************)
(* When a history is deleted, for any set of torrents, any delays and any  *)
(* number of failures, approvals and restarts.  The properties are about   *)
(* what was really observed; the invariant says what the lifecycle record  *)
(* knows of it (Witnessed, Remembered) and that the protection it carries  *)
(* covers the last trouble (Guarded).  What a crash has lost no rule can   *)
(* use, so the theorems about evidence and bulk losses are about crashes   *)
(* that come after a Flush.                                                *)
(***************************************************************************)
EXTENDS Deletion, TLAPS, FiniteSetTheorems

(* Once a round has begun, the protection covers the last trouble.         *)
Guarded ==
  /\ request # "none" => ~protectOnStart
  /\ ~protectOnStart => trouble + Protection <= life.protected

(* What evidence is worth, for a torrent whose removal was reported at rep *)
(* and that the full reads at the times of mis did not list.               *)
Proves(rep, mis, t, c) ==
  IF c.explicit
  THEN rep = c.first /\ c.first # 0
  ELSE /\ c.first \in mis /\ c.last \in mis
       /\ c.first <= c.last /\ c.last <= t /\ c.count >= 1
       /\ c.count >= 2 => c.first + Spacing <= c.last
       /\ c.count >= 3 => \E b \in mis : c.first + Spacing <= b /\ b + Spacing <= c.last

(* Candidates are known torrents that the last answer did not list; those  *)
(* it listed have no evidence against them.                                *)
Witnessed ==
  /\ now >= 1
  /\ Waiting(life) \subseteq known /\ cache \cap Waiting(life) = {}
  /\ \A k \in cache : reported[k] = 0 /\ missed[k] = {}
  /\ \A k \in Waiting(life) : Proves(reported[k], missed[k], now, life.cand[k])

(* A bulk loss is remembered as long as one of its torrents is missing.    *)
Remembered == \A k \in vanished : k \in Waiting(life) /\ life.bulk

(* A crash loses no candidate that was not flushed.                        *)
CrashFlushed == Crash => saved = {life}

IInv == TypeOK /\ KnownIsLive /\ Guarded
EInv == IInv /\ Witnessed /\ Remembered

-----------------------------------------------------------------------------
(* Lifecycles.                                                             *)

LEMMA LifeIs ==
  ASSUME NEW l, IsLife(l)
  PROVE  /\ Waiting(l) \subseteq Keys /\ \A k \in Waiting(l) : l.cand[k] \in Candidate
         /\ l = [cand |-> l.cand, protected |-> l.protected, bulk |-> l.bulk, approved |-> l.approved]
         /\ l.cand \in [Waiting(l) -> Candidate]
         /\ l.protected \in Nat /\ l.bulk \in BOOLEAN /\ l.approved \in BOOLEAN
BY DEF IsLife, Waiting

LEMMA LifeFrom ==
  ASSUME NEW K \in SUBSET Keys, NEW c \in [K -> Candidate], NEW p \in Nat,
         NEW b \in BOOLEAN, NEW a \in BOOLEAN
  PROVE  IsLife([cand |-> c, protected |-> p, bulk |-> b, approved |-> a])
BY DEF IsLife

(* New evidence, and more of it, is evidence.                              *)
LEMMA EvidenceTyped ==
  ASSUME NEW explicit \in BOOLEAN, NEW t \in Nat
  PROVE  /\ NewEvidence(explicit, t) \in Candidate
         /\ \A c \in Candidate :
              /\ MoreEvidence(c, explicit, t) \in Candidate
              /\ MoreEvidence(c, explicit, t).first = c.first
              /\ MoreEvidence(c, explicit, t).explicit <=> (c.explicit \/ explicit)
              /\ \/ /\ MoreEvidence(c, explicit, t).last = c.last
                    /\ MoreEvidence(c, explicit, t).count = c.count
                 \/ /\ t - c.last >= Spacing
                    /\ MoreEvidence(c, explicit, t).last = t
                    /\ MoreEvidence(c, explicit, t).count = c.count + 1
<1>1. NewEvidence(explicit, t) \in Candidate
  BY DEF NewEvidence, Candidate
<1>2. ASSUME NEW c \in Candidate
      PROVE  /\ MoreEvidence(c, explicit, t) \in Candidate
             /\ MoreEvidence(c, explicit, t).first = c.first
             /\ MoreEvidence(c, explicit, t).explicit <=> (c.explicit \/ explicit)
             /\ \/ /\ MoreEvidence(c, explicit, t).last = c.last
                   /\ MoreEvidence(c, explicit, t).count = c.count
                \/ /\ t - c.last >= Spacing
                   /\ MoreEvidence(c, explicit, t).last = t
                   /\ MoreEvidence(c, explicit, t).count = c.count + 1
  <2> DEFINE m == MoreEvidence(c, explicit, t)
  <2>0. /\ c = [first |-> c.first, last |-> c.last, count |-> c.count, explicit |-> c.explicit]
        /\ c.first \in Nat /\ c.last \in Nat /\ c.count \in Nat /\ c.explicit \in BOOLEAN
    BY <1>2 DEF Candidate
  <2> DEFINE e == c.explicit \/ explicit
  <2>1. e \in BOOLEAN
    OBVIOUS
  <2>2. CASE t - c.last >= Spacing
    <3>1. m = [first |-> c.first, last |-> t, count |-> c.count + 1, explicit |-> e]
      BY <2>0, <2>2 DEF MoreEvidence
    <3>2. m \in Candidate
      BY <3>1, <2>0, <2>1 DEF Candidate
    <3>3. m.explicit <=> e
      <4> HIDE DEF e, m
      <4> QED
        BY <3>1, <2>1
    <3> QED
      BY <3>1, <3>2, <3>3, <2>2
  <2>3. CASE ~(t - c.last >= Spacing)
    <3>1. m = [first |-> c.first, last |-> c.last, count |-> c.count, explicit |-> e]
      BY <2>0, <2>3 DEF MoreEvidence
    <3>2. m \in Candidate
      BY <3>1, <2>0, <2>1 DEF Candidate
    <3>3. m.explicit <=> e
      <4> HIDE DEF e, m
      <4> QED
        BY <3>1, <2>1
    <3> QED
      BY <3>1, <3>2, <3>3
  <2> QED
    BY <2>2, <2>3
<1> QED
  BY <1>1, <1>2

(* What becomes of the candidates when the keys of K are found missing.    *)
Judged(l, K, explicit, t) ==
  [k \in Waiting(l) \cup K |->
     IF k \notin K THEN l.cand[k]
     ELSE IF k \in Waiting(l) THEN MoreEvidence(l.cand[k], explicit, t)
     ELSE NewEvidence(explicit, t)]

LEMMA MissingIs ==
  ASSUME NEW l, IsLife(l), NEW K \in SUBSET Keys, NEW explicit \in BOOLEAN, NEW t \in Nat
  PROVE  LET m == Missing(l, K, explicit, t)
         IN  /\ IsLife(m) /\ m.cand = Judged(l, K, explicit, t)
             /\ m.protected = l.protected /\ m.bulk = l.bulk /\ m.approved = l.approved
<1> DEFINE m == Missing(l, K, explicit, t)
           j == Judged(l, K, explicit, t)
<1>1. m = [cand |-> j, protected |-> l.protected, bulk |-> l.bulk, approved |-> l.approved]
  BY LifeIs DEF Missing, Judged, Waiting
<1>2. \A k \in Waiting(l) \cup K : j[k] \in Candidate
  BY LifeIs, EvidenceTyped DEF Judged
<1>3. j \in [Waiting(l) \cup K -> Candidate] /\ Waiting(l) \cup K \in SUBSET Keys
  BY <1>2, LifeIs DEF Judged
<1> HIDE DEF j
<1>4. IsLife(m)
  BY <1>1, <1>3, LifeIs, LifeFrom
<1> QED
  BY <1>1, <1>4 DEF j

LEMMA DiscardIs ==
  ASSUME NEW l, IsLife(l), NEW K
  PROVE  LET d == Discard(l, K)
         IN  /\ IsLife(d) /\ d.cand = [k \in Waiting(l) \ K |-> l.cand[k]]
             /\ d.protected = l.protected /\ d.bulk = l.bulk /\ d.approved = l.approved
<1> DEFINE d == Discard(l, K)
           j == [k \in Waiting(l) \ K |-> l.cand[k]]
<1>1. d = [cand |-> j, protected |-> l.protected, bulk |-> l.bulk, approved |-> l.approved]
  BY LifeIs DEF Discard, Waiting
<1>2. j \in [Waiting(l) \ K -> Candidate] /\ Waiting(l) \ K \in SUBSET Keys
  BY LifeIs
<1> HIDE DEF j
<1>3. IsLife(d)
  BY <1>1, <1>2, LifeIs, LifeFrom
<1> QED
  BY <1>1, <1>3 DEF j

LEMMA SettleIs ==
  ASSUME NEW l, IsLife(l)
  PROVE  LET s == Settle(l)
         IN  /\ IsLife(s) /\ s.cand = l.cand /\ s.protected = l.protected
             /\ s.approved => l.approved
             /\ Waiting(l) # {} => s = l
<1> DEFINE s == Settle(l)
<1>1. CASE Waiting(l) # {}
  BY <1>1 DEF Settle
<1>2. CASE Waiting(l) = {}
  <2>1. s = [cand |-> l.cand, protected |-> l.protected, bulk |-> FALSE, approved |-> FALSE]
    <3>1. l = [cand |-> l.cand, protected |-> l.protected, bulk |-> l.bulk, approved |-> l.approved]
      BY LifeIs
    <3> QED
      BY <3>1, <1>2 DEF Settle
  <2>2. IsLife(s)
    <3>1. Waiting(l) \in SUBSET Keys /\ l.cand \in [Waiting(l) -> Candidate] /\ l.protected \in Nat
      BY LifeIs
    <3> QED
      BY <3>1, <2>1, LifeFrom
  <2> QED
    BY <2>1, <2>2, <1>2
<1> QED
  BY <1>1, <1>2

(* The rules keep the type; which candidates they leave, with which        *)
(* evidence, and when they hold them all.                                  *)
Lost(isFull) == IF isFull THEN known \ qb ELSE (cache \ qb) \cap known

LEMMA ObserveIs ==
  ASSUME TypeOK, NEW isFull \in BOOLEAN
  PROVE  LET s == Observe(isFull)
         IN  /\ IsLife(s)
             /\ Waiting(s) = (Waiting(life) \cup Lost(isFull)) \ qb
             /\ \A k \in Waiting(s) : s.cand[k] = Judged(life, Lost(isFull), ~isFull, now)[k]
             /\ s.protected = life.protected /\ (s.approved => life.approved)
             /\ Waiting(s) # {} => /\ s.approved = life.approved
                                   /\ s.bulk <=> life.bulk \/ (isFull /\ BulkLoss(known, qb))
<1> DEFINE s == Observe(isFull)
<1>0. IsLife(life) /\ now \in Nat /\ qb \subseteq Keys /\ known \subseteq Keys
  BY DEF TypeOK
<1>1. CASE ~isFull
  <2> DEFINE K == (cache \ qb) \cap known
             m == Missing(life, K, TRUE, now)
  <2>1. K \in SUBSET Keys /\ K = Lost(isFull)
    BY <1>0, <1>1 DEF Lost
  <2> HIDE DEF K
  <2>2. /\ IsLife(m) /\ m.cand = Judged(life, K, TRUE, now)
        /\ m.protected = life.protected /\ m.bulk = life.bulk /\ m.approved = life.approved
    BY <1>0, <2>1, MissingIs, ZenonT(60)
  <2>3. s = Discard(m, qb)
    BY <1>1 DEF Observe, K
  <2> HIDE DEF m, s
  <2>4. /\ IsLife(s) /\ s.cand = [k \in Waiting(m) \ qb |-> m.cand[k]]
        /\ s.protected = m.protected /\ s.bulk = m.bulk /\ s.approved = m.approved
    BY <2>2, <2>3, DiscardIs, ZenonT(60)
  <2>5. Waiting(m) = Waiting(life) \cup K
    BY <2>2 DEF Waiting, Judged
  <2>6. Waiting(s) = (Waiting(life) \cup K) \ qb
    BY <2>4, <2>5 DEF Waiting
  <2>7. \A k \in Waiting(s) : s.cand[k] = Judged(life, K, TRUE, now)[k]
    BY <2>2, <2>4, <2>5, <2>6
  <2> QED
    BY <2>1, <2>2, <2>4, <2>6, <2>7, <1>1 DEF s
<1>2. CASE isFull
  <2> DEFINE K == known \ qb
             d == Discard(life, known \cap qb)
             m == Missing(d, K, FALSE, now)
             h == [m EXCEPT !.bulk = @ \/ BulkLoss(known, qb)]
             o == Settle(h)
  <2>1. K \in SUBSET Keys /\ K = Lost(isFull)
    BY <1>0, <1>2 DEF Lost
  <2>2. s = Discard(o, qb)
    BY <1>2 DEF Observe, ObserveFull
  <2> HIDE DEF K, s
  <2>3. /\ IsLife(d) /\ d.cand = [k \in Waiting(life) \ (known \cap qb) |-> life.cand[k]]
        /\ d.protected = life.protected /\ d.bulk = life.bulk /\ d.approved = life.approved
    BY <1>0, DiscardIs
  <2> HIDE DEF d
  <2>4. /\ IsLife(m) /\ m.cand = Judged(d, K, FALSE, now)
        /\ m.protected = d.protected /\ m.bulk = d.bulk /\ m.approved = d.approved
    <3>1. IsLife(d) /\ K \in SUBSET Keys /\ FALSE \in BOOLEAN /\ now \in Nat
      BY <1>0, <2>1, <2>3
    <3> QED
      BY <3>1, MissingIs
  <2> HIDE DEF m
  <2>5. /\ IsLife(h) /\ h.cand = m.cand /\ h.protected = m.protected /\ h.approved = m.approved
        /\ h.bulk <=> m.bulk \/ BulkLoss(known, qb)
    <3> DEFINE b == m.bulk \/ BulkLoss(known, qb)
    <3>0. m = [cand |-> m.cand, protected |-> m.protected, bulk |-> m.bulk, approved |-> m.approved]
      BY <2>4, LifeIs
    <3>1. h = [cand |-> m.cand, protected |-> m.protected, bulk |-> b, approved |-> m.approved]
      BY <3>0 DEF h
    <3>2. b \in BOOLEAN
      OBVIOUS
    <3> HIDE DEF b
    <3>4. /\ Waiting(m) \in SUBSET Keys /\ m.cand \in [Waiting(m) -> Candidate]
          /\ m.protected \in Nat /\ m.approved \in BOOLEAN
      BY <2>4, LifeIs
    <3>3. IsLife(h)
      BY <3>1, <3>2, <3>4, LifeFrom
    <3> USE DEF b
    <3> QED
      BY <3>1, <3>3
  <2> HIDE DEF h
  <2>6. /\ IsLife(o) /\ o.cand = h.cand /\ o.protected = h.protected /\ (o.approved => h.approved)
        /\ Waiting(h) # {} => o = h
    BY <2>5, SettleIs
  <2> HIDE DEF o
  <2>7. /\ IsLife(s) /\ s.cand = [k \in Waiting(o) \ qb |-> o.cand[k]]
        /\ s.protected = o.protected /\ s.bulk = o.bulk /\ s.approved = o.approved
    BY <2>2, <2>6, DiscardIs
  <2>8. Waiting(d) = Waiting(life) \ (known \cap qb) /\ \A k \in Waiting(d) : d.cand[k] = life.cand[k]
    BY <2>3 DEF Waiting
  <2>9. Waiting(o) = Waiting(d) \cup K /\ Waiting(h) = Waiting(o) /\ o.cand = Judged(d, K, FALSE, now)
    BY <2>4, <2>5, <2>6 DEF Waiting, Judged
  <2>10. Waiting(s) = (Waiting(life) \cup K) \ qb
    BY <2>7, <2>8, <2>9 DEF Waiting
  <2>11. \A k \in Waiting(s) : s.cand[k] = Judged(d, K, FALSE, now)[k]
    <3>1. Waiting(s) \subseteq Waiting(o) \ qb
      BY <2>8, <2>9, <2>10
    <3>2. \A k \in Waiting(s) : s.cand[k] = o.cand[k]
      BY <3>1, <2>7
    <3> QED
      BY <3>2, <2>9
  <2>12. \A k \in Waiting(s) : Judged(d, K, FALSE, now)[k] = Judged(life, K, FALSE, now)[k]
    BY <2>8, <2>10 DEF Judged
  <2>13. Waiting(s) # {} => o = h
    BY <2>6, <2>7, <2>9 DEF Waiting
  <2> QED
    <3>1. s.protected = life.protected /\ (s.approved => life.approved)
      BY <2>3, <2>4, <2>5, <2>6, <2>7
    <3>2. Waiting(s) # {} => /\ s.approved = life.approved
                             /\ s.bulk <=> life.bulk \/ BulkLoss(known, qb)
      BY <2>3, <2>4, <2>5, <2>7, <2>13
    <3>3. Lost(isFull) = K /\ isFull = TRUE /\ (~isFull) = FALSE
      BY <2>1, <1>2
    <3>4. \A k \in Waiting(s) : s.cand[k] = Judged(life, Lost(isFull), ~isFull, now)[k]
      BY <3>3, <2>11, <2>12
    <3> QED
      BY <3>1, <3>2, <3>3, <3>4, <2>7, <2>10, <1>2 DEF s
<1> QED
  BY <1>1, <1>2

(* What an answer makes of the candidates and what it deletes.             *)
LEMMA AnswerIs ==
  ASSUME TypeOK, NEW isFull \in BOOLEAN, NEW D \in SUBSET Keys, Answer(isFull, D)
  PROVE  LET s == Observe(isFull)
         IN  /\ IsLife(life') /\ Waiting(life') = Waiting(s) \ D
             /\ \A k \in Waiting(life') : life'.cand[k] = s.cand[k]
             /\ life'.protected = s.protected /\ (life'.approved => s.approved)
             /\ Waiting(life') # {} => (life'.bulk <=> s.bulk)
             /\ D \subseteq Waiting(s) \cap known
             /\ D # {} => isFull /\ ~Held(s, now)
             /\ \A k \in D : s.approved \/ Evident(s.cand[k], now)
<1> DEFINE s == Observe(isFull)
           d == Discard(s, D)
<1>1. IsLife(s)
  BY ObserveIs
<1>2. life' = Settle(d) /\ D \subseteq Ready(s, now, isFull) \cap known
  BY DEF Answer
<1> HIDE DEF s
<1>3. /\ IsLife(d) /\ d.cand = [k \in Waiting(s) \ D |-> s.cand[k]]
      /\ d.protected = s.protected /\ d.bulk = s.bulk /\ d.approved = s.approved
  BY <1>1, DiscardIs
<1> HIDE DEF d
<1>4. /\ IsLife(life') /\ life'.cand = d.cand /\ life'.protected = d.protected
      /\ life'.approved => d.approved
      /\ Waiting(d) # {} => life' = d
  BY <1>2, <1>3, SettleIs
<1>5. Waiting(life') = Waiting(d) /\ Waiting(d) = Waiting(s) \ D
  BY <1>3, <1>4 DEF Waiting
<1>6. \A k \in Waiting(life') : life'.cand[k] = s.cand[k]
  BY <1>3, <1>4, <1>5
<1>7. /\ D \subseteq Waiting(s) \cap known
      /\ D # {} => isFull /\ ~Held(s, now)
      /\ \A k \in D : s.approved \/ Evident(s.cand[k], now)
  BY <1>2 DEF Ready
<1> QED
  BY <1>3, <1>4, <1>5, <1>6, <1>7 DEF s

LEMMA ProtectIs ==
  ASSUME NEW l, IsLife(l), NEW t \in Nat
  PROVE  LET p == Protect(l, t)
         IN  /\ IsLife(p) /\ p.cand = l.cand /\ p.protected = t + Protection
             /\ p.bulk = l.bulk /\ p.approved = l.approved
<1> DEFINE p == Protect(l, t)
<1>1. l = [cand |-> l.cand, protected |-> l.protected, bulk |-> l.bulk, approved |-> l.approved]
  BY LifeIs
<1>2. p = [cand |-> l.cand, protected |-> t + Protection, bulk |-> l.bulk, approved |-> l.approved]
  BY <1>1 DEF Protect
<1>3. t + Protection \in Nat
  BY LifecycleAssumption
<1>4. IsLife(p)
  <2>1. /\ Waiting(l) \in SUBSET Keys /\ l.cand \in [Waiting(l) -> Candidate]
        /\ l.bulk \in BOOLEAN /\ l.approved \in BOOLEAN
    BY LifeIs
  <2> QED
    BY <2>1, <1>2, <1>3, LifeFrom
<1> QED
  BY <1>2, <1>4

LEMMA ApprovalIs ==
  ASSUME NEW l, IsLife(l), NEW a \in BOOLEAN
  PROVE  LET p == [l EXCEPT !.approved = a]
         IN  IsLife(p) /\ p.cand = l.cand /\ p.protected = l.protected /\ p.bulk = l.bulk
<1> DEFINE p == [l EXCEPT !.approved = a]
<1>1. l = [cand |-> l.cand, protected |-> l.protected, bulk |-> l.bulk, approved |-> l.approved]
  BY LifeIs
<1>2. p = [cand |-> l.cand, protected |-> l.protected, bulk |-> l.bulk, approved |-> a]
  BY <1>1
<1>4. IsLife(p)
  <2>1. /\ Waiting(l) \in SUBSET Keys /\ l.cand \in [Waiting(l) -> Candidate]
        /\ l.bulk \in BOOLEAN /\ l.protected \in Nat
    BY LifeIs
  <2> QED
    BY <2>1, <1>2, LifeFrom
<1> QED
  BY <1>2, <1>4

LEMMA NewIs ==
  ASSUME NEW t \in Nat
  PROVE  IsLife(NewLifecycle(t)) /\ Waiting(NewLifecycle(t)) = {}
<1>1. t + Protection \in Nat /\ {} \in SUBSET Keys /\ [k \in {} |-> 0] \in [{} -> Candidate]
  BY LifecycleAssumption
<1>2. FALSE \in BOOLEAN
  OBVIOUS
<1> QED
  BY <1>1, <1>2, LifeFrom DEF NewLifecycle, Waiting

-----------------------------------------------------------------------------
(* Types and the protection.                                               *)

LEMMA Spent ==
  ASSUME TypeOK, NEW what \in {"crash", "reload", "fail", "approve"}, Spend(what)
  PROVE  left' \in [crash : 0..MaxCrash, reload : 0..MaxReload,
                    fail : 0..MaxFail, approve : 0..MaxApprove]
<1>1. {MaxCrash, MaxReload, MaxFail, MaxApprove} \subseteq Nat
  BY DeletionAssumption
<1>2. CASE what = "crash"
  BY <1>1, <1>2 DEF Spend, TypeOK
<1>3. CASE what = "reload"
  BY <1>1, <1>3 DEF Spend, TypeOK
<1>4. CASE what = "fail"
  BY <1>1, <1>4 DEF Spend, TypeOK
<1>5. CASE what = "approve"
  BY <1>1, <1>5 DEF Spend, TypeOK
<1> QED
  BY <1>2, <1>3, <1>4, <1>5

(* A collector starts with a lifecycle that was saved, or a first one.     *)
LEMMA StartIs ==
  ASSUME TypeOK, NEW found, \A l \in found : IsLife(l), Start(found)
  PROVE  /\ IsLife(life')
         /\ \A l : found = {l} => life'.cand = l.cand /\ life'.bulk = l.bulk
<1>0. now \in Nat
  BY DEF TypeOK
<1>1. CASE found = {}
  BY <1>0, <1>1, NewIs DEF Start
<1>2. CASE found # {}
  <2> DEFINE l == CHOOSE m \in found : TRUE
  <2>1. l \in found /\ life' = [l EXCEPT !.approved = FALSE]
    BY <1>2 DEF Start
  <2>2. IsLife(l) /\ FALSE \in BOOLEAN
    BY <2>1
  <2> HIDE DEF l
  <2>3. IsLife(life') /\ life'.cand = l.cand /\ life'.bulk = l.bulk
    BY <2>1, <2>2, ApprovalIs
  <2> QED
    BY <2>1, <2>3
<1> QED
  BY <1>1, <1>2

LEMMA StartTyped ==
  ASSUME TypeOK, NEW found, \A l \in found : IsLife(l), Start(found),
         \A l \in saved' : IsLife(l), Cardinality(saved') <= 1,
         NEW what \in {"crash", "reload"}, Spend(what)
  PROVE  TypeOK' /\ KnownIsLive' /\ Guarded'
<1>1. IsLife(life')
  BY StartIs
<1>2. /\ left' \in [crash : 0..MaxCrash, reload : 0..MaxReload,
                    fail : 0..MaxFail, approve : 0..MaxApprove]
  BY Spent
<1>3. protectOnStart' = TRUE /\ request' = "none" /\ known' = live' /\ full' = TRUE
  BY DEF Start, ArmsOnStart
<1>4. TypeOK'
  BY <1>1, <1>2, <1>3 DEF Start, TypeOK
<1> QED
  BY <1>3, <1>4 DEF KnownIsLive, Guarded

LEMMA AnswerKeeps ==
  ASSUME IInv, NEW isFull \in BOOLEAN, NEW D \in SUBSET Keys, Answer(isFull, D)
  PROVE  TypeOK' /\ KnownIsLive' /\ Guarded'
<1>0. TypeOK /\ known = live /\ Guarded
  BY DEF IInv, KnownIsLive
<1>1. IsLife(life') /\ life'.protected = life.protected
  BY <1>0, AnswerIs, ObserveIs
<1>2. missed' \in [Keys -> SUBSET Nat]
  <2>1. \A k \in Keys : missed[k] \subseteq Nat /\ now \in Nat
    BY <1>0 DEF TypeOK
  <2> QED
    BY <2>1 DEF Answer, Observed
<1>3. reported' \in [Keys -> Nat]
  BY <1>0 DEF Answer, Observed, TypeOK
<1>4. vanished' \subseteq Keys /\ restored' \in Nat
  BY <1>0 DEF Answer, Observed, TypeOK
<1>5. TypeOK'
  BY <1>0, <1>1, <1>2, <1>3, <1>4 DEF Answer, Forgotten, TypeOK
<1>6. known' = live'
  BY <1>0 DEF Answer, Forgotten
<1>7. Guarded'
  BY <1>0, <1>1 DEF Answer, Guarded
<1> QED
  BY <1>5, <1>6, <1>7 DEF KnownIsLive

LEMMA Inductive == IInv /\ [Next]_vars => IInv'
<1> SUFFICES ASSUME IInv, [Next]_vars PROVE TypeOK' /\ KnownIsLive' /\ Guarded'
  BY DEF IInv
<1>0. TypeOK /\ known = live /\ Guarded
  BY DEF IInv, KnownIsLive
<1>a. IsLife(life) /\ now \in Nat /\ begun \in Nat /\ \A l \in saved : IsLife(l)
  BY <1>0 DEF TypeOK
<1>b. Cardinality({life}) <= 1
  BY FS_Singleton
<1> USE <1>0 DEF KnownIsLive
<1>1. CASE Tick \/ Change
  <2>1. now' \in Nat /\ qb' \subseteq Keys
    BY <1>1 DEF Tick, Change, TypeOK
  <2>2. UNCHANGED <<live, saved, known, cache, life, full, lastCal, cooldown, failures, protectOnStart,
                    request, begun, left, missed, reported, vanished, trouble, restored, agreed>>
    BY <1>1 DEF Tick, Change, database, collector, round, observed
  <2> QED
    BY <2>1, <2>2 DEF TypeOK, Guarded
<1>2. CASE Begin
  <2> DEFINE armed == IF protectOnStart THEN Protect(life, now) ELSE life
  <2>1. /\ IsLife(armed) /\ (protectOnStart => armed.protected = now + Protection)
        /\ ~protectOnStart => armed = life
    BY <1>a, ProtectIs
  <2>2. life' = armed /\ protectOnStart' = FALSE /\ trouble' = IF protectOnStart THEN now ELSE trouble
    BY <1>2 DEF Begin
  <2> HIDE DEF armed
  <2>3. Guarded'
    BY <2>1, <2>2, <1>a, LifecycleAssumption DEF Guarded
  <2>4. request' \in {"none", "full", "delta"} /\ trouble' \in Nat /\ protectOnStart' \in BOOLEAN
    BY <2>2, <1>2 DEF Begin, TypeOK
  <2>5. TypeOK'
    BY <2>1, <2>2, <2>4, <1>2 DEF Begin, TypeOK, database
  <2> QED
    BY <2>3, <2>5, <1>2 DEF Begin, database
<1>3. ASSUME NEW auth \in BOOLEAN, Fail(auth) PROVE TypeOK' /\ KnownIsLive' /\ Guarded'
  <2>1. IsLife(life') /\ life'.protected = begun + Protection
    BY <1>a, <1>3, ProtectIs DEF Fail
  <2>2. Backoff \in Nat /\ AuthCooldown \in Nat
    <3>1. BackoffBase \in Nat /\ AuthCooldown \in Nat
      BY DeletionAssumption
    <3>2. failures \in Nat
      BY DEF TypeOK
    <3>3. <<1, 2, 4, 8, 16, 32>>[IF failures < 5 THEN failures + 1 ELSE 6] \in Nat
      BY <3>2
    <3> QED
      BY <3>1, <3>3 DEF Backoff
  <2>3. cooldown' \in Nat /\ failures' \in Nat
    BY <2>2, <1>a, <1>3 DEF Fail, TypeOK
  <2>4. left' \in [crash : 0..MaxCrash, reload : 0..MaxReload, fail : 0..MaxFail, approve : 0..MaxApprove]
    BY <1>3, Spent DEF Fail
  <2>5. full' = TRUE /\ request' = "none" /\ trouble' = begun /\ restored' = 0
    BY <1>3 DEF Fail
  <2>6. TypeOK'
    BY <2>1, <2>3, <2>4, <2>5, <1>3 DEF Fail, TypeOK, database
  <2>7. Guarded'
    BY <2>1, <2>5, <1>3, <1>a, LifecycleAssumption DEF Guarded
  <2> QED
    BY <2>6, <2>7, <1>3 DEF Fail, database
<1>4. ASSUME NEW isFull \in BOOLEAN, NEW D \in SUBSET Keys, Answer(isFull, D)
      PROVE  TypeOK' /\ KnownIsLive' /\ Guarded'
  BY <1>4, AnswerKeeps
<1>5. CASE Approve
  <2>1. IsLife(life') /\ life'.protected = life.protected
    BY <1>a, <1>5, ApprovalIs DEF Approve
  <2>2. left' \in [crash : 0..MaxCrash, reload : 0..MaxReload, fail : 0..MaxFail, approve : 0..MaxApprove]
    BY <1>5, Spent DEF Approve
  <2>3. agreed' \subseteq Keys /\ full' = TRUE
    BY <1>a, <1>5, LifeIs DEF Approve
  <2>4. TypeOK'
    BY <2>1, <2>2, <2>3, <1>5 DEF Approve, TypeOK, database, round
  <2> QED
    BY <2>1, <2>4, <1>5 DEF Approve, Guarded, database, round
<1>6. CASE Persist
  BY <1>6, <1>a, <1>b DEF Persist, TypeOK, Guarded, collector, round, observed
<1>7. CASE Reload
  BY <1>7, <1>a, <1>b, StartTyped DEF Reload
<1>8. CASE Crash
  BY <1>8, <1>a, StartTyped DEF Crash, TypeOK
<1>9. CASE UNCHANGED vars
  BY <1>9 DEF vars, database, collector, round, observed, TypeOK, Guarded
<1> QED
  BY <1>1, <1>2, <1>3, <1>4, <1>5, <1>6, <1>7, <1>8, <1>9 DEF Next

LEMMA Initially == Init => EInv
<1> SUFFICES ASSUME Init PROVE EInv
  OBVIOUS
<1>1. IsLife(life) /\ Waiting(life) = {}
  BY NewIs DEF Init
<1>2. left \in [crash : 0..MaxCrash, reload : 0..MaxReload, fail : 0..MaxFail, approve : 0..MaxApprove]
  BY DeletionAssumption DEF Init
<1>3. TypeOK
  BY <1>1, <1>2, FS_EmptySet DEF Init, TypeOK
<1>4. KnownIsLive /\ Guarded
  BY DEF Init, KnownIsLive, Guarded
<1>5. Witnessed /\ Remembered
  BY <1>1 DEF Init, Witnessed, Remembered
<1> QED
  BY <1>3, <1>4, <1>5 DEF EInv, IInv

THEOREM Invariance == Spec => []IInv
<1>1. Init => IInv
  BY Initially DEF EInv
<1> QED
  BY <1>1, Inductive, PTL DEF Spec

(* No failure, restart or answer leaves the types the rules work on.       *)
THEOREM TypeCorrect == Spec => []TypeOK
  BY Invariance, PTL DEF IInv

(* However rounds end, the collector's torrents are the database's.        *)
THEOREM KnownStaysLive == Spec => []KnownIsLive
  BY Invariance, PTL DEF IInv

-----------------------------------------------------------------------------
(* Deletions.                                                              *)

(* Only an answer deletes, and only what it does not list.                 *)
LEMMA OnlyAnswersDelete ==
  ASSUME [Next]_vars, Deleted # {}
  PROVE  \E isFull \in BOOLEAN, D \in SUBSET Keys : Answer(isFull, D) /\ Deleted \subseteq D \ qb
<1>1. live' # live
  BY DEF Deleted
<1>2. PICK isFull \in BOOLEAN, D \in SUBSET Keys : Answer(isFull, D)
  <2>1. ~(Tick \/ Change \/ Begin \/ Approve \/ Persist \/ UNCHANGED vars)
    BY <1>1 DEF Tick, Change, Begin, Approve, Persist, vars, database
  <2>2. ~(Reload \/ Crash)
    BY <1>1 DEF Reload, Crash, Start
  <2>3. ~\E auth \in BOOLEAN : Fail(auth)
    BY <1>1 DEF Fail, database
  <2> QED
    BY <2>1, <2>2, <2>3 DEF Next
<1> QED
  BY <1>2 DEF Answer, Deleted

(* A deletion is never within Protection of a start or a failed round.     *)
THEOREM QuietProved == Spec => QuietAfterTrouble
<1> DEFINE Rule == Deleted # {} => life.approved \/ trouble + Protection <= now
<1>1. IInv /\ [Next]_vars => [Rule]_vars
  <2> SUFFICES ASSUME IInv, [Next]_vars, Deleted # {}, ~life.approved
               PROVE  trouble + Protection <= now
    OBVIOUS
  <2>1. PICK isFull \in BOOLEAN, D \in SUBSET Keys : Answer(isFull, D) /\ D # {}
    BY OnlyAnswersDelete
  <2> DEFINE s == Observe(isFull)
  <2>2. ~Held(s, now) /\ s.protected = life.protected /\ (s.approved => life.approved)
    BY <2>1, AnswerIs, ObserveIs DEF IInv
  <2> HIDE DEF s
  <2>3. ~(now < life.protected)
    BY <2>2 DEF Held
  <2>4. trouble + Protection <= life.protected
    BY <2>1 DEF IInv, Guarded, Answer
  <2>5. now \in Nat /\ trouble + Protection \in Nat /\ life.protected \in Nat
    BY LifeIs, LifecycleAssumption DEF IInv, TypeOK
  <2> QED
    BY <2>3, <2>4, <2>5
<1> QED
  BY <1>1, Invariance, PTL DEF Spec, QuietAfterTrouble

-----------------------------------------------------------------------------
(* Bulk losses and evidence, when no crash loses a candidate.              *)

(* Starting again keeps the candidates, and forgets what was listed.       *)
LEMMA StartKeeps ==
  ASSUME EInv, Start({life})
  PROVE  Witnessed' /\ Remembered'
<1>1. life'.cand = life.cand /\ life'.bulk = life.bulk
  BY StartIs DEF EInv, IInv, TypeOK
<1>2. /\ known' = live /\ known = live /\ cache' = {} /\ now' = now
      /\ missed' = missed /\ reported' = reported /\ vanished' = vanished
  BY DEF Start, EInv, IInv, KnownIsLive
<1> QED
  BY <1>1, <1>2 DEF EInv, Witnessed, Remembered, Waiting

(* Bulk losses: the hold is set while a vanished torrent is missing.       *)
LEMMA AnswerRemembers ==
  ASSUME EInv, NEW isFull \in BOOLEAN, NEW D \in SUBSET Keys, Answer(isFull, D)
  PROVE  /\ Remembered'
         /\ \A k \in D \ qb : k \in vanished \/ BulkLoss(known, qb) => life.approved
<1> DEFINE s == Observe(isFull)
<1>0. TypeOK /\ Remembered
  BY DEF EInv, IInv
<1>1. /\ Waiting(s) = (Waiting(life) \cup Lost(isFull)) \ qb
      /\ s.approved => life.approved
      /\ Waiting(s) # {} => (s.bulk <=> life.bulk \/ (isFull /\ BulkLoss(known, qb)))
  BY <1>0, ObserveIs
<1>2. /\ Waiting(life') = Waiting(s) \ D
      /\ Waiting(life') # {} => (life'.bulk <=> s.bulk)
      /\ D \subseteq Waiting(s) \cap known /\ (D # {} => isFull /\ ~Held(s, now))
  BY <1>0, AnswerIs
<1> HIDE DEF s
<1>3. vanished' = (vanished \cup IF isFull /\ BulkLoss(known, qb) THEN known ELSE {}) \ (qb \cup D)
  BY DEF Answer, Observed
<1>4. ASSUME NEW k \in vanished' PROVE k \in Waiting(life') /\ life'.bulk
  <2>1. k \notin qb /\ k \notin D
    BY <1>3
  <2>2. CASE k \in vanished
    <3>1. k \in Waiting(life) /\ life.bulk
      BY <1>0, <2>2 DEF Remembered
    <3>2. k \in Waiting(s) /\ k \in Waiting(life')
      BY <3>1, <2>1, <1>1, <1>2
    <3> QED
      BY <3>1, <3>2, <1>1, <1>2
  <2>3. CASE isFull /\ BulkLoss(known, qb) /\ k \in known
    <3>1. k \in Waiting(s) /\ k \in Waiting(life')
      BY <2>1, <2>3, <1>1, <1>2 DEF Lost
    <3> QED
      BY <3>1, <2>3, <1>1, <1>2
  <2> QED
    BY <2>2, <2>3, <1>3
<1>5. ASSUME NEW k \in D \ qb, k \in vanished \/ BulkLoss(known, qb) PROVE life.approved
  <2>1. k \in Waiting(s) /\ isFull /\ ~Held(s, now)
    BY <1>2
  <2>2. life.bulk \/ BulkLoss(known, qb)
    BY <1>0, <1>5 DEF Remembered
  <2>3. s.bulk
    BY <2>1, <2>2, <1>1
  <2> QED
    BY <2>1, <2>3, <1>1 DEF Held
<1> QED
  BY <1>4, <1>5 DEF Remembered

(* Evidence: what the record says was observed.                            *)
LEMMA MoreProves ==
  ASSUME NEW c \in Candidate, NEW rep, NEW mis \in SUBSET Nat, NEW t \in Nat, Proves(rep, mis, t, c)
  PROVE  Proves(rep, mis \cup {t}, t, MoreEvidence(c, FALSE, t))
<1> DEFINE m == MoreEvidence(c, FALSE, t)
<1>1. FALSE \in BOOLEAN /\ Spacing \in Nat \ {0}
  BY LifecycleAssumption
<1>2. /\ m.first = c.first /\ (m.explicit <=> (c.explicit \/ FALSE))
      /\ \/ m.last = c.last /\ m.count = c.count
         \/ t - c.last >= Spacing /\ m.last = t /\ m.count = c.count + 1
  <2>1. m.first = c.first
    BY <1>1, EvidenceTyped, ZenonT(60)
  <2>2. m.explicit <=> (c.explicit \/ FALSE)
    BY <1>1, EvidenceTyped, ZenonT(60)
  <2>3. \/ m.last = c.last /\ m.count = c.count
        \/ t - c.last >= Spacing /\ m.last = t /\ m.count = c.count + 1
    BY <1>1, EvidenceTyped, ZenonT(60)
  <2> QED
    BY <2>1, <2>2, <2>3
<1>3. c.first \in Nat /\ c.last \in Nat /\ c.count \in Nat
  BY DEF Candidate
<1> HIDE DEF m
<1>4. CASE c.explicit
  <2>1. m.explicit
    BY <1>2, <1>4
  <2>2. rep = m.first /\ m.first # 0
    BY <1>2, <1>4 DEF Proves
  <2> QED
    BY <2>1, <2>2 DEF Proves, m
<1>5. CASE ~c.explicit
  <2>1. ~m.explicit
    BY <1>2, <1>5
  <2>2. /\ c.first \in mis /\ c.last \in mis /\ c.first <= c.last /\ c.last <= t /\ c.count >= 1
        /\ c.count >= 2 => c.first + Spacing <= c.last
        /\ c.count >= 3 => \E b \in mis : c.first + Spacing <= b /\ b + Spacing <= c.last
    BY <1>5 DEF Proves
  <2>3. /\ m.first \in mis \cup {t} /\ m.last \in mis \cup {t}
        /\ m.first <= m.last /\ m.last <= t /\ m.count >= 1
        /\ m.count >= 2 => m.first + Spacing <= m.last
    BY <1>1, <1>2, <1>3, <2>2
  <2>4. ASSUME m.count >= 3
        PROVE  \E b \in mis \cup {t} : m.first + Spacing <= b /\ b + Spacing <= m.last
    <3>1. CASE m.last = c.last /\ m.count = c.count
      BY <3>1, <2>2, <2>4, <1>2
    <3>2. CASE t - c.last >= Spacing /\ m.last = t /\ m.count = c.count + 1
      <4>1. c.count >= 2 /\ c.last + Spacing <= t
        BY <3>2, <2>4, <1>1, <1>3
      <4>2. m.first + Spacing <= c.last /\ c.last + Spacing <= m.last /\ c.last \in mis
        BY <4>1, <3>2, <2>2, <1>2
      <4> QED
        BY <4>2
    <3> QED
      BY <3>1, <3>2, <1>2
  <2> QED
    BY <2>1, <2>3, <2>4 DEF Proves, m
<1> QED
  BY <1>4, <1>5

LEMMA NewProves ==
  ASSUME NEW t \in Nat \ {0}, NEW rep, NEW mis
  PROVE  /\ Proves(t, mis, t, NewEvidence(TRUE, t))
         /\ Proves(rep, mis \cup {t}, t, NewEvidence(FALSE, t))
BY DEF Proves, NewEvidence

LEMMA AnswerWitnessed ==
  ASSUME EInv, NEW isFull \in BOOLEAN, NEW D \in SUBSET Keys, Answer(isFull, D)
  PROVE  Witnessed'
<1> DEFINE s == Observe(isFull)
           gone == Lost(isFull)
<1>0. /\ TypeOK /\ known = live /\ Witnessed /\ IsLife(life) /\ now \in Nat /\ Spacing \in Nat \ {0}
      /\ now >= 1
  BY LifecycleAssumption DEF EInv, IInv, TypeOK, KnownIsLive, Witnessed
<1>1. /\ Waiting(s) = (Waiting(life) \cup gone) \ qb
      /\ \A k \in Waiting(s) : s.cand[k] = Judged(life, gone, ~isFull, now)[k]
  BY <1>0, ObserveIs
<1>2. /\ Waiting(life') = Waiting(s) \ D /\ D \subseteq Waiting(s) \cap known
      /\ \A k \in Waiting(life') : life'.cand[k] = s.cand[k]
      /\ D # {} => isFull
  BY <1>0, AnswerIs
<1> HIDE DEF s
<1>3. gone \subseteq known
  BY DEF Lost
<1>4. known' = (known \ D) \cup qb /\ cache' = qb /\ now' = now
  BY DEF Answer, Forgotten
<1>5. /\ \A k \in Keys : missed'[k] = IF k \in qb \cup D THEN {}
                            ELSE missed[k] \cup IF isFull /\ k \in known THEN {now} ELSE {}
      /\ \A k \in Keys : reported'[k] = IF k \in qb \cup D THEN 0
                            ELSE IF reported[k] = 0 /\ ~isFull /\ k \in known \cap cache THEN now
                            ELSE reported[k]
  BY DEF Answer, Observed
<1>6. qb \subseteq Keys /\ Waiting(life) \subseteq Keys /\ known \subseteq Keys
  BY <1>0, LifeIs DEF TypeOK
<1>7. Waiting(life') \subseteq known' /\ cache' \cap Waiting(life') = {}
  BY <1>0, <1>1, <1>2, <1>3, <1>4 DEF Witnessed
<1>8. \A k \in cache' : reported'[k] = 0 /\ missed'[k] = {}
  BY <1>4, <1>5, <1>6
<1>9. ASSUME NEW k \in Waiting(life')
      PROVE  Proves(reported'[k], missed'[k], now, life'.cand[k])
  <2>1. /\ k \in Keys /\ k \notin qb /\ k \notin D /\ k \in Waiting(life) \cup gone
        /\ life'.cand[k] = Judged(life, gone, ~isFull, now)[k]
    BY <1>1, <1>2, <1>3, <1>6
  <2>2. /\ missed'[k] = missed[k] \cup IF isFull /\ k \in known THEN {now} ELSE {}
        /\ reported'[k] = IF reported[k] = 0 /\ ~isFull /\ k \in known \cap cache THEN now ELSE reported[k]
    BY <1>5, <2>1
  <2>3. missed[k] \subseteq Nat /\ reported[k] \in Nat
    BY <1>0, <2>1 DEF TypeOK
  <2>4. CASE k \in Waiting(life)
    <3>1. /\ Proves(reported[k], missed[k], now, life.cand[k])
          /\ k \notin cache /\ k \in known /\ life.cand[k] \in Candidate
      BY <1>0, <2>4, LifeIs DEF Witnessed
    <3>2. reported'[k] = reported[k] /\ missed'[k] = missed[k] \cup IF isFull THEN {now} ELSE {}
      BY <2>2, <3>1
    <3>3. CASE isFull
      <4>1. k \in gone /\ (~isFull) = FALSE
        BY <3>1, <3>3, <2>1 DEF Lost
      <4>2. life'.cand[k] = MoreEvidence(life.cand[k], FALSE, now)
        BY <2>1, <2>4, <4>1 DEF Judged
      <4>3. missed'[k] = missed[k] \cup {now}
        BY <3>2, <3>3
      <4>4. Proves(reported[k], missed[k] \cup {now}, now, MoreEvidence(life.cand[k], FALSE, now))
        <5>1. missed[k] \in SUBSET Nat /\ now \in Nat
          BY <2>3, <1>0
        <5> QED
          BY <3>1, <5>1, MoreProves
      <4> QED
        BY <3>2, <4>2, <4>3, <4>4
    <3>4. CASE ~isFull
      <4>1. k \notin gone
        BY <3>1, <3>4 DEF Lost
      <4>2. life'.cand[k] = life.cand[k]
        BY <2>1, <2>4, <4>1 DEF Judged
      <4>3. missed'[k] = missed[k]
        BY <3>2, <3>4
      <4> QED
        BY <3>1, <3>2, <4>2, <4>3
    <3> QED
      BY <3>3, <3>4
  <2>5. CASE k \notin Waiting(life)
    <3>1. life'.cand[k] = NewEvidence(~isFull, now) /\ k \in gone /\ k \in known
      BY <2>1, <2>5, <1>3 DEF Judged
    <3>2. now \in Nat \ {0}
      BY <1>0
    <3>3. CASE isFull
      <4>1. missed'[k] = missed[k] \cup {now} /\ (~isFull) = FALSE
        BY <3>1, <3>3, <2>2
      <4>2. life'.cand[k] = NewEvidence(FALSE, now)
        BY <4>1, <3>1
      <4>3. Proves(reported'[k], missed[k] \cup {now}, now, NewEvidence(FALSE, now))
        BY <3>2, NewProves
      <4> QED
        BY <4>1, <4>2, <4>3
    <3>4. CASE ~isFull
      <4>1. k \in cache /\ reported[k] = 0
        BY <3>1, <3>4, <1>0 DEF Lost, Witnessed
      <4>2. reported'[k] = now /\ (~isFull) = TRUE
        BY <4>1, <3>1, <3>4, <2>2
      <4> QED
        BY <4>2, <3>1, <3>2, NewProves
    <3> QED
      BY <3>3, <3>4
  <2> QED
    BY <2>4, <2>5
<1>10. \A k \in Waiting(life') : Proves(reported'[k], missed'[k], now', life'.cand[k])
  BY <1>4, <1>9
<1>11. now' >= 1
  BY <1>0, <1>4
<1> QED
  BY <1>7, <1>8, <1>10, <1>11 DEF Witnessed

LEMMA ObservationsKeep ==
  ASSUME EInv, [Next]_vars, CrashFlushed
  PROVE  Witnessed' /\ Remembered'
<1>0. /\ TypeOK /\ known = live /\ Witnessed /\ Remembered
      /\ IsLife(life) /\ now \in Nat /\ begun \in Nat
  BY DEF EInv, IInv, TypeOK, KnownIsLive
<1>1. CASE Tick
  <2>1. /\ now' = now + 1
        /\ UNCHANGED <<known, cache, life, missed, reported, vanished>>
    BY <1>1 DEF Tick, collector, observed
  <2>2. ASSUME NEW k \in Waiting(life)
        PROVE  Proves(reported[k], missed[k], now + 1, life.cand[k])
    <3> DEFINE c == life.cand[k]
    <3>1. Proves(reported[k], missed[k], now, c) /\ c \in Candidate
      BY <1>0, LifeIs DEF Witnessed
    <3> HIDE DEF c
    <3>2. c.last \in Nat
      BY <3>1 DEF Candidate
    <3>3. CASE c.explicit
      BY <3>1, <3>3 DEF Proves, c
    <3>4. CASE ~c.explicit
      <4>1. c.last <= now => c.last <= now + 1
        BY <3>2, <1>0
      <4> QED
        BY <3>1, <3>4, <4>1 DEF Proves, c
    <3> QED
      BY <3>3, <3>4
  <2>3. \A k \in Waiting(life') : Proves(reported'[k], missed'[k], now', life'.cand[k])
    BY <2>1, <2>2
  <2>4. now' >= 1
    BY <2>1, <1>0
  <2> QED
    BY <2>1, <2>3, <2>4, <1>0 DEF Witnessed, Remembered, Waiting
<1>2. ASSUME life'.cand = life.cand, life'.bulk = life.bulk,
             UNCHANGED <<now, known, cache, missed, reported, vanished>>
      PROVE  Witnessed' /\ Remembered'
  BY <1>0, <1>2 DEF Witnessed, Remembered, Waiting
<1>3. CASE Change \/ Persist \/ UNCHANGED vars
  BY <1>2, <1>3 DEF Change, Persist, vars, collector, observed
<1>4. CASE Begin
  <2> DEFINE armed == IF protectOnStart THEN Protect(life, now) ELSE life
  <2>1. armed.cand = life.cand /\ armed.bulk = life.bulk
    BY <1>0, ProtectIs
  <2>2. life' = armed
    BY <1>4 DEF Begin
  <2> HIDE DEF armed
  <2> QED
    BY <2>1, <2>2, <1>2, <1>4 DEF Begin
<1>5. ASSUME NEW auth \in BOOLEAN, Fail(auth) PROVE Witnessed' /\ Remembered'
  <2>1. life' = Protect(life, begun)
    BY <1>5 DEF Fail
  <2>2. life'.cand = life.cand /\ life'.bulk = life.bulk
    BY <2>1, <1>0, ProtectIs
  <2> QED
    BY <2>2, <1>2, <1>5 DEF Fail
<1>6. CASE Approve
  <2>1. life'.cand = life.cand /\ life'.bulk = life.bulk
    BY <1>6, <1>0, ApprovalIs DEF Approve
  <2> QED
    BY <2>1, <1>2, <1>6 DEF Approve
<1>7. CASE \E isFull \in BOOLEAN, D \in SUBSET Keys : Answer(isFull, D)
  BY <1>7, AnswerWitnessed, AnswerRemembers
<1>8. CASE Reload
  BY <1>8, StartKeeps DEF Reload
<1>9. CASE Crash
  BY <1>9, StartKeeps DEF Crash, CrashFlushed
<1> QED
  BY <1>1, <1>3, <1>4, <1>5, <1>6, <1>7, <1>8, <1>9 DEF Next

LEMMA ObservedInvariance == Spec /\ [][CrashFlushed]_vars => []EInv
<1>1. EInv /\ [Next]_vars /\ [CrashFlushed]_vars => EInv'
  <2> SUFFICES ASSUME EInv, [Next]_vars, [CrashFlushed]_vars PROVE EInv'
    OBVIOUS
  <2>1. IInv'
    BY Inductive DEF EInv
  <2>2. CASE CrashFlushed
    BY <2>1, <2>2, ObservationsKeep DEF EInv
  <2>3. CASE UNCHANGED vars
    <3>1. UNCHANGED <<known, live, cache, life, now, missed, reported, vanished>>
      BY <2>3 DEF vars, database, collector, observed
    <3> QED
      BY <2>1, <3>1 DEF EInv, Witnessed, Remembered
  <2> QED
    BY <2>2, <2>3
<1> QED
  BY <1>1, Initially, PTL DEF Spec

(* What vanished in a bulk loss is deleted with the user's approval only.  *)
THEOREM BulkApproved == Spec /\ [][CrashFlushed]_vars => BulkNeedsApproval
<1> DEFINE Rule == \A k \in Deleted : k \in vanished \/ BulkLoss(known, qb) => life.approved
<1>1. EInv /\ [Next]_vars => [Rule]_vars
  <2> SUFFICES ASSUME EInv, [Next]_vars, NEW k \in Deleted, k \in vanished \/ BulkLoss(known, qb)
               PROVE  life.approved
    OBVIOUS
  <2>1. PICK isFull \in BOOLEAN, D \in SUBSET Keys : Answer(isFull, D) /\ k \in D \ qb
    BY OnlyAnswersDelete
  <2> QED
    BY <2>1, AnswerRemembers
<1> QED
  BY <1>1, ObservedInvariance, PTL DEF Spec, BulkNeedsApproval

(* What makes a candidate ready was really observed.                       *)
LEMMA EvidentMeans ==
  ASSUME TypeOK, NEW k \in Keys, NEW c \in Candidate,
         Proves(reported[k], missed[k] \cup {now}, now, c), Evident(c, now)
  PROVE  Evidence(k)
<1>0. /\ missed[k] \subseteq Nat /\ now \in Nat /\ reported[k] \in Nat
      /\ {Spacing, Span, ExplicitDelay} \subseteq Nat \ {0}
  BY LifecycleAssumption DEF TypeOK
<1>1. c.first \in Nat /\ c.last \in Nat /\ c.count \in Nat
  BY DEF Candidate
<1>2. CASE c.explicit
  <2>1. reported[k] = c.first /\ c.first # 0
    BY <1>2 DEF Proves
  <2>2. now - c.first >= ExplicitDelay
    BY <1>2 DEF Evident
  <2> QED
    BY <2>1, <2>2, <1>0, <1>1 DEF Evidence
<1>3. CASE ~c.explicit
  <2>1. c.count >= 3 /\ c.last - c.first >= Span
    BY <1>3 DEF Evident
  <2>2. /\ c.first \in missed[k] \cup {now} /\ c.last <= now
        /\ c.count >= 3 => \E b \in missed[k] \cup {now} : c.first + Spacing <= b /\ b + Spacing <= c.last
    BY <1>3 DEF Proves
  <2>3. PICK b \in missed[k] \cup {now} : c.first + Spacing <= b /\ b + Spacing <= c.last
    BY <2>1, <2>2
  <2>4. b \in Nat /\ b # now /\ c.first # now /\ b + Spacing <= now /\ c.first + Span <= now
    BY <2>1, <2>2, <2>3, <1>0, <1>1
  <2>5. c.first \in missed[k] /\ b \in missed[k]
    BY <2>2, <2>3, <2>4
  <2> QED
    BY <2>3, <2>4, <2>5 DEF Evidence
<1> QED
  BY <1>2, <1>3

(* Without approval nothing is deleted on less evidence than was observed. *)
THEOREM EvidenceProved == Spec /\ [][CrashFlushed]_vars => EvidenceBeforeDeletion
<1> DEFINE Rule == \A k \in Deleted : life.approved \/ Evidence(k)
<1>1. EInv /\ [Next]_vars => [Rule]_vars
  <2> SUFFICES ASSUME EInv, [Next]_vars, NEW k \in Deleted, ~life.approved
               PROVE  Evidence(k)
    OBVIOUS
  <2>0. TypeOK /\ Witnessed /\ IsLife(life) /\ now \in Nat /\ now >= 1
    BY DEF EInv, IInv, TypeOK, Witnessed
  <2>1. PICK isFull \in BOOLEAN, D \in SUBSET Keys : Answer(isFull, D) /\ k \in D \ qb
    BY OnlyAnswersDelete
  <2> DEFINE s == Observe(isFull)
  <2>2. /\ k \in Waiting(s) \cap known /\ isFull
        /\ s.approved \/ Evident(s.cand[k], now)
    BY <2>0, <2>1, AnswerIs
  <2>3. /\ s.approved => life.approved
        /\ s.cand[k] = Judged(life, Lost(isFull), ~isFull, now)[k]
    BY <2>0, <2>2, ObserveIs
  <2> HIDE DEF s
  <2>4. Evident(s.cand[k], now) /\ k \in known \ qb /\ k \in Keys
    BY <2>0, <2>1, <2>2, <2>3
  <2>5. Lost(isFull) = known \ qb /\ (~isFull) = FALSE
    BY <2>2 DEF Lost
  <2>6. CASE k \in Waiting(life)
    <3> DEFINE c == MoreEvidence(life.cand[k], FALSE, now)
    <3>1. s.cand[k] = c
      BY <2>3, <2>4, <2>5, <2>6 DEF Judged
    <3>2. /\ life.cand[k] \in Candidate /\ missed[k] \in SUBSET Nat /\ FALSE \in BOOLEAN
          /\ Proves(reported[k], missed[k], now, life.cand[k])
      BY <2>0, <2>4, <2>6, LifeIs DEF TypeOK, Witnessed
    <3>3. Proves(reported[k], missed[k] \cup {now}, now, c)
      BY <2>0, <3>2, MoreProves
    <3>4. c \in Candidate
      BY <2>0, <3>2, EvidenceTyped
    <3> HIDE DEF c
    <3> QED
      BY <3>1, <3>3, <3>4, <2>0, <2>4, EvidentMeans
  <2>7. CASE k \notin Waiting(life)
    <3>1. s.cand[k] = NewEvidence(FALSE, now)
      BY <2>3, <2>4, <2>5, <2>7 DEF Judged
    <3>2. ~Evident(NewEvidence(FALSE, now), now)
      BY DEF Evident, NewEvidence
    <3> QED
      BY <2>4, <3>1, <3>2
  <2> QED
    BY <2>6, <2>7
<1> QED
  BY <1>1, ObservedInvariance, PTL DEF Spec, EvidenceBeforeDeletion
=============================================================================
