----------------------------- MODULE MCPipeline -----------------------------
(* Pipeline for TLC: the cfg files give the constants small values; series *)
(* ids of torrents are interchangeable; the liveness run uses no symmetry. *)
EXTENDS Pipeline, TLC

Symmetry == Permutations(Series \ {Global})
=============================================================================
