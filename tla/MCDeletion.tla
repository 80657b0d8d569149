----------------------------- MODULE MCDeletion -----------------------------
(* Deletion for TLC.  One unit of time is 30 s.                            *)
EXTENDS Deletion, TLC

Symmetry == Permutations(Keys)

(* The runs have Recalibrate > MaxNow, so lastCal decides nothing; begun   *)
(* decides nothing between rounds.  Each view keeps, beside the rest of    *)
(* the state, the observers its run's properties read: RulesView is for    *)
(* runs without failures and crashes, where failures, begun and saved are  *)
(* not read either.                                                        *)
RulesView == <<now, qb, live, known, cache, life, full, cooldown, protectOnStart, request,
               left, missed, reported, vanished>>
RestartView == <<now, qb, database, known, cache, life, full, cooldown, failures,
                 protectOnStart, request, IF request = "none" THEN 0 ELSE begun,
                 left, trouble>>
=============================================================================
