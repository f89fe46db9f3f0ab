----------------------------- MODULE MCChatPage -----------------------------
(* A private chat with auto-delete, a group, one message of another, and a *)
(* text and a picture of the user.                                         *)
EXTENDS ChatPage
CONSTANTS bob, team, i1, o1, o2
MCPrivate == {bob}
MCGroup == {team}
MCIncoming == {i1}
MCText == {o1}
MCPicture == {o2}
MCHome == i1 :> bob

\* Two loads, two messages of the user and a fault: at most two of the three in one behaviour.
Explored == budget.loads < 2 \/ Unwritten # {} \/ budget.events = 0
=============================================================================
