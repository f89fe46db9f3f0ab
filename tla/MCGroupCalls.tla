---------------------------- MODULE MCGroupCalls ----------------------------
(* A member that starts two meetings, one after it left the other.          *)
EXTENDS GroupCalls
CONSTANTS owner, member
MCMeeting == {[id |-> 1, by |-> member], [id |-> 2, by |-> member]}
=============================================================================
