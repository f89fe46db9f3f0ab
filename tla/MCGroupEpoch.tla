---------------------------- MODULE MCGroupEpoch ----------------------------
(* Small instances of GroupEpoch for TLC. *)
EXTENDS GroupEpoch, TLC

CONSTANT MaxAttempts  \* messages the clients encrypt in one behaviour

\* At most one handler is between its commit and its fan-out, and clients have
\* encrypted at most MaxAttempts messages.
Bounded == Cardinality(outgoing) <= 1 /\ Cardinality(attempts) <= MaxAttempts

Symmetry == Permutations(Users) \cup Permutations(Keys)
=============================================================================
