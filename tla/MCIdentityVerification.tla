------------------------ MODULE MCIdentityVerification ----------------------
(* Two contacts, two passwords they may have. *)
EXTENDS IdentityVerification, TLC
MCSymmetry == Permutations({alice, bob})
=============================================================================
