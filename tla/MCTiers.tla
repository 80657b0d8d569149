------------------------------ MODULE MCTiers ------------------------------
(* Tiers for TLC: an hour of two windows.                                  *)
EXTENDS Tiers, TLC

Symmetry == Permutations(Series)
=============================================================================
