---------------------------- MODULE ReliableSend ----------------------------
(***************************************************************************)
(* What sending promises (README_EN.md, "Session Recovery and Message       *)
(* Reliability"): a message is accepted at most once, whatever is retried,  *)
(* and what its sender is told about it is true and stays true.              *)
(***************************************************************************)
EXTENDS Sequences, SequencesExt

CONSTANT Messages

VARIABLES
  accepted,   \* the accepted messages, in the order of acceptance
  closed,     \* messages that may no longer be accepted
  told        \* what the sender is shown: "nothing", "sent" or "failed"

vars == <<accepted, closed, told>>

Init ==
  /\ accepted = <<>>
  /\ closed = {}
  /\ told = [m \in Messages |-> "nothing"]

Accept(m) ==
  /\ m \notin ToSet(accepted) \cup closed
  /\ accepted' = Append(accepted, m)
  /\ UNCHANGED <<closed, told>>

\* The context of some messages has passed: they are accepted by now or never.
Close(ms) ==
  /\ closed' = closed \cup ms
  /\ UNCHANGED <<accepted, told>>

Tell(m, answer) ==
  /\ IF answer = "sent" THEN m \in ToSet(accepted) ELSE m \in closed \ ToSet(accepted)
  /\ told' = [told EXCEPT ![m] = answer]
  /\ UNCHANGED <<accepted, closed>>

\* The sender's device loses sight of some messages.
Forget(ms) ==
  /\ told' = [m \in Messages |-> IF m \in ms THEN "nothing" ELSE told[m]]
  /\ UNCHANGED <<accepted, closed>>

Next ==
  \/ \E m \in Messages : Accept(m)
  \/ \E ms \in SUBSET Messages : Close(ms) \/ Forget(ms)
  \/ \E m \in Messages, answer \in {"sent", "failed"} : Tell(m, answer)

Spec == Init /\ [][Next]_vars
=============================================================================
