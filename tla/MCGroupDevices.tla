--------------------------- MODULE MCGroupDevices ---------------------------
(* A small instance of GroupDevices for TLC. *)
EXTENDS GroupDevices, TLC

CONSTANTS a, b, a1, a2, b1

Account(d) == IF d = b1 THEN b ELSE a

\* The account without a device owns the group, and nothing is explored after
\* the group is disbanded.
Owned == status # "disbanded" /\ (status = "live" => role[b] = "owner")

Symmetry == Permutations(Keys) \cup Permutations({a1, a2})
=============================================================================
