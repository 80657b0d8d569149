--------------------------- MODULE MCConnections ---------------------------
(* Connections for TLC.                                                    *)
EXTENDS Connections, TLC

Symmetry == Permutations(Request) \cup Permutations(Conn) \cup Permutations(Address)
=============================================================================
