--------------------------- MODULE MCConnections ---------------------------
(* Instances of Connections for TLC.                                        *)
EXTENDS Connections, TLC
CONSTANTS c1, c2, c3
Symmetry == Permutations(Conns)
=============================================================================
