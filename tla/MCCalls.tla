------------------------------ MODULE MCCalls ------------------------------
(* What the sockets of the server carry besides messages: the registry of  *)
(* the sockets of an account, direct calls, and meetings.  They share no   *)
(* state, and TLC explores them in turn: a meeting with three members, and *)
(* two meetings with two members.                                          *)
EXTENDS DirectCalls, GroupCalls, Connections

CONSTANTS alice, bob, owner, member, guest, c1, c2, c3
MCAccount == {alice, bob}
\* One call each way, which may cross.
MCCall == {[id |-> 1, from |-> alice, to |-> bob], [id |-> 2, from |-> bob, to |-> alice]}
MCMember == {owner, member, guest}
MCMeeting == {[id |-> 1, by |-> owner], [id |-> 2, by |-> member]}

VARIABLES part,   \* what is explored
          only    \* the only meeting, if there is one

MCInit == /\ part \in {"sockets", "calls", "meetings"}
          /\ only \in IF part = "meetings" THEN {None} \cup Meeting ELSE {None}
          /\ ConnInit /\ Init /\ MeetingInit

MCNext ==
  \/ part = "sockets" /\ ConnNext /\ UNCHANGED <<vars, meetingVars, part, only>>
  \/ part = "calls" /\ Next /\ UNCHANGED <<connVars, meetingVars, part, only>>
  \/ part = "meetings" /\ MeetingNext /\ UNCHANGED <<connVars, vars, part, only>>

MCSpec == MCInit /\ [][MCNext]_<<connVars, vars, meetingVars, part, only>>

\* The host of two members presses once after a trouble, twice without one; that of three once.
Explored == /\ budget.presses < 2 \/ (only = None /\ budget.troubles = 0)
            /\ IF only = None THEN invites[guest] = {} /\ gc[guest] = Away
                              ELSE \A m \in Member, c \in Meeting : c # only => seat[m][c] = "none"
=============================================================================
