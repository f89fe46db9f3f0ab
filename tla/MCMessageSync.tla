--------------------------- MODULE MCMessageSync ---------------------------
(* Instances of MessageSync for TLC.                                        *)
EXTENDS MessageSync
CONSTANTS p, g, h, a, b
=============================================================================
