----------------------------- MODULE Lifecycle -----------------------------
(***************************************************************************)
(* The deletion rules of collector/lifecycle.go, as operators on a         *)
(* lifecycle record.  A torrent that is not observed any more becomes a    *)
(* candidate; Ready says which candidates may lose their history now.      *)
(*                                                                         *)
(*   cand       a function from the candidate keys to their evidence       *)
(*   protected  nothing is ready before this time                          *)
(*   bulk       many torrents vanished at once: the user must approve      *)
(*   approved   the user has approved                                      *)
(***************************************************************************)
EXTENDS Integers, FiniteSets

CONSTANTS Keys,           \* qBittorrent's torrent keys
          Protection,     \* 120 s after a start or a failed round
          Spacing,        \* 30 s between two counted confirmations
          Span,           \* 60 s from the first to the last of them
          ExplicitDelay,  \* 8 s from a reported removal to its confirmation
          MinBulk,        \* 10: what always counts as many
          BulkPercent     \* 20: the share of the known torrents that does

ASSUME LifecycleAssumption ==
  {Protection, Spacing, Span, ExplicitDelay, MinBulk, BulkPercent} \subseteq Nat \ {0}

Candidate == [first : Nat, last : Nat, count : Nat, explicit : BOOLEAN]
IsLife(l) == \E K \in SUBSET Keys :
  l \in [cand : [K -> Candidate], protected : Nat, bulk : BOOLEAN, approved : BOOLEAN]

Waiting(l) == DOMAIN l.cand

NewLifecycle(t) == [cand |-> [k \in {} |-> 0], protected |-> t + Protection,
                    bulk |-> FALSE, approved |-> FALSE]

(* Mutant: the wrong sign.                                                 *)
ProtectBefore(l, t) == [l EXCEPT !.protected = t - Protection]

Protect(l, t) == [l EXCEPT !.protected = t + Protection]

(* Evidence against a key after one more observation without it.           *)
NewEvidence(explicit, t) == [first |-> t, last |-> t, count |-> 1, explicit |-> explicit]
MoreEvidence(c, explicit, t) ==
  IF t - c.last >= Spacing
  THEN [c EXCEPT !.last = t, !.count = @ + 1, !.explicit = @ \/ explicit]
  ELSE [c EXCEPT !.explicit = @ \/ explicit]

(* Missing, for every key of a set.                                        *)
Missing(l, K, explicit, t) ==
  [l EXCEPT !.cand = [k \in DOMAIN @ \cup K |->
     IF k \notin K THEN @[k]
     ELSE IF k \in DOMAIN @ THEN MoreEvidence(@[k], explicit, t)
     ELSE NewEvidence(explicit, t)]]

(* Keys that are candidates no more.                                       *)
Discard(l, K) == [l EXCEPT !.cand = [k \in DOMAIN @ \ K |-> @[k]]]

(* With no candidate left there is nothing to hold or to approve.          *)
Settle(l) == IF Waiting(l) = {} THEN [l EXCEPT !.bulk = FALSE, !.approved = FALSE] ELSE l

(* max(10, ceil(20 % of known)) missing, or an empty list.                 *)
Threshold(known) == LET share == (Cardinality(known) * BulkPercent + 99) \div 100
                    IN  IF share > MinBulk THEN share ELSE MinBulk
BulkLoss(known, present) == \/ Cardinality(known \ present) >= Threshold(known)
                            \/ known # {} /\ present = {}

ObserveFull(l, known, present, t) ==
  LET seen == Missing(Discard(l, known \cap present), known \ present, FALSE, t)
  IN  Settle([seen EXCEPT !.bulk = @ \/ BulkLoss(known, present)])

(* Mutant: two confirmations will do.                                      *)
EvidentAtTwo(c, t) == IF c.explicit THEN t - c.first >= ExplicitDelay
                      ELSE c.count >= 2 /\ c.last - c.first >= Spacing

Evident(c, t) == IF c.explicit THEN t - c.first >= ExplicitDelay
                 ELSE c.count >= 3 /\ c.last - c.first >= Span

(* Mutant: bulk protection ends with the start-up protection.              *)
HeldForAWhile(l, t) == ~l.approved /\ t < l.protected

Held(l, t) == ~l.approved /\ (l.bulk \/ t < l.protected)

Ready(l, t, fresh) ==
  IF ~fresh \/ Held(l, t) THEN {}
  ELSE {k \in Waiting(l) : l.approved \/ Evident(l.cand[k], t)}

(* A full read is due to confirm a candidate.                              *)
ConfirmationDue(l, t) ==
  \/ l.approved
  \/ \E k \in Waiting(l) : LET c == l.cand[k] IN
       \/ c.explicit /\ t - c.first >= ExplicitDelay /\ t - c.last >= ExplicitDelay
       \/ ~c.explicit /\ t - c.last >= Spacing
=============================================================================
