----------------------------- MODULE GroupCalls -----------------------------
(***************************************************************************)
(* Meetings of a group: the hook useGroupCall of each member, the overlay  *)
(* with its buttons, the invitations the WebSocket server relays, and the  *)
(* LiveKit rooms with the commands the host publishes in them.             *)
(*                                                                         *)
(* connectMeeting is an async function that goes on whatever the user does *)
(* meanwhile; roomRef names the room object of the last one.  Commands     *)
(* reach the members in the order they were published.  group_call_join    *)
(* and group_call_leave are relayed, but no client handles them.           *)
(*                                                                         *)
(* Cameras, speakers, tiles and durations are left out.  Leaving a room is *)
(* over before the user's next press.                                      *)
(***************************************************************************)
EXTENDS Naturals, Sequences, FiniteSets

CONSTANTS Member,       \* members of the group, each with one open tab
          Owner,        \* the owner of the group, who gets the rights of the host
          Meeting,      \* records [id, by]: the meetings that may be started
          NoMeeting,    \* no meeting
          MaxConnecting, \* bound on the connections of one member that are under way at once
          MaxTroubles,  \* bound on failed requests, failed or lost connections, and microphones
                        \* that are denied or opened late
          MaxPresses    \* bound on the presses of mute, mute-all and mode

ASSUME MeetingAssumption == /\ Owner \in Member /\ \A c \in Meeting : c.by \in Member
                            /\ NoMeeting \notin Meeting /\ MaxConnecting \in Nat \ {0}
                            /\ {MaxTroubles, MaxPresses} \subseteq Nat

VARIABLES
  gc,        \* per member: what useGroupCall shows, and roomRef
  seat,      \* per member and meeting: how far connectMeeting and its room object have come
  open,      \* per member: the rooms that carry its microphone
  muting,    \* per member: the rooms in which a mute waits for the microphone
  unheeded,  \* history: the members and rooms in which LiveKit gave a mute up
  press,     \* what the last press of the host still has to do
  news,      \* members whose arrival the room object of the host has not reported yet
  commands,  \* per member: the commands on their way to it
  invites,   \* per member: the group_call_invite frames on their way to it
  budget     \* troubles and presses so far

rooms == <<seat, open, muting, unheeded>>
meetingVars == <<gc, rooms, press, news, commands, invites, budget>>

Away == [status |-> "idle", call |-> NoMeeting, ref |-> NoMeeting, host |-> FALSE, muted |-> FALSE, mode |-> "discussion"]

\* A connection waits for its token, for room.connect, for the microphone, or, its room object
\* disconnected meanwhile ("dead"), for any of these to return; "in" and "out" are after it.
Connecting == {"token", "joining", "mic", "dead"}
In(c) == {m \in Member : seat[m][c] \in {"mic", "in"}}
Busy(m) == \E c \in Meeting : seat[m][c] \in Connecting

MeetingInit ==
  /\ gc = [m \in Member |-> Away]
  /\ seat = [m \in Member |-> [c \in Meeting |-> "none"]]
  /\ open = [m \in Member |-> {}] /\ muting = [m \in Member |-> {}] /\ unheeded = {}
  /\ press = << >> /\ news = {}
  /\ commands = [m \in Member |-> << >>]
  /\ invites = [m \in Member |-> {}]
  /\ budget = [troubles |-> 0, presses |-> 0]

------------------------------------------------------------------------------
(* The parts the handlers are made of. *)

Trouble == budget.troubles < MaxTroubles /\ budget' = [budget EXCEPT !.troubles = @ + 1]
Press == budget.presses < MaxPresses /\ budget' = [budget EXCEPT !.presses = @ + 1]

Sit(m, c, step) == seat' = [seat EXCEPT ![m][c] = step]

\* room.disconnect on what roomRef names: what its connection awaits will be rejected.
Released(step) == IF step \in {"joining", "mic", "dead"} THEN "dead" ELSE "out"

\* Mutant: the screen is cleared, the room is kept.
CleanupMeeting_KeepsRoom(m, steps) ==
  /\ gc' = [gc EXCEPT ![m] = Away]
  /\ seat' = [seat EXCEPT ![m] = steps]
  /\ UNCHANGED <<open, muting, unheeded>>
\* cleanup, with the connections of m at steps.
CleanupMeeting(m, steps) ==
  LET c == gc[m].ref IN
  /\ gc' = [gc EXCEPT ![m] = Away]
  /\ seat' = [seat EXCEPT ![m] = IF c = NoMeeting THEN steps ELSE [steps EXCEPT ![c] = Released(@)]]
  /\ open' = [open EXCEPT ![m] = @ \ {c}]
  /\ muting' = [muting EXCEPT ![m] = @ \ {c}]
  /\ UNCHANGED unheeded

\* publishData: to whoever is in the room with the host.
Published(c, command) ==
  [m \in Member |-> IF m \in In(c) \ {Owner} THEN Append(commands[m], [c |-> c, command |-> command]) ELSE commands[m]]

\* sendCommand: to the room of roomRef.
SendCommand(command) ==
  IF gc[Owner].host /\ gc[Owner].ref # NoMeeting
    THEN commands' = Published(gc[Owner].ref, command) ELSE UNCHANGED commands

\* applyMute, when m is g on the screen: at once on an open microphone; LiveKit lets it wait for
\* one that is being opened.
ApplyMute(m, g) ==
  LET c == g.ref IN
  IF c = NoMeeting THEN gc' = [gc EXCEPT ![m] = g] /\ UNCHANGED <<open, muting>>
  ELSE IF seat[m][c] = "in"
    THEN /\ gc' = [gc EXCEPT ![m] = [g EXCEPT !.muted = TRUE]]
         /\ open' = [open EXCEPT ![m] = @ \ {c}] /\ UNCHANGED muting
    ELSE /\ gc' = [gc EXCEPT ![m] = g]
         /\ muting' = [muting EXCEPT ![m] = @ \cup {c}] /\ UNCHANGED open

------------------------------------------------------------------------------
(* Entering and leaving a meeting.  The host presses nothing while its last *)
(* press of a meeting control is carried out.                               *)

Free(m) == m = Owner => press = << >>

\* connectMeeting begins with the request for a token.
BeginConnecting(m, c) ==
  /\ seat[m][c] \notin Connecting
  /\ Cardinality({e \in Meeting : seat[m][e] \in Connecting}) < MaxConnecting
  /\ Sit(m, c, "token")

StartGroupCall(m, c) ==
  /\ Free(m) /\ c.by = m /\ seat[m][c] = "none" /\ gc[m].status = "idle"
  /\ gc' = [gc EXCEPT ![m].status = "connecting", ![m].call = c]
  /\ BeginConnecting(m, c)
  /\ UNCHANGED <<open, muting, unheeded, press, news, commands, invites, budget>>

\* A member who is in a call does not notice the invitation.
ReceiveInvite(m, c) ==
  /\ c \in invites[m]
  /\ invites' = [invites EXCEPT ![m] = @ \ {c}]
  /\ gc' = IF gc[m].status = "idle" THEN [gc EXCEPT ![m].status = "ringing", ![m].call = c] ELSE gc
  /\ UNCHANGED <<rooms, press, news, commands, budget>>

AcceptGroupCall(m) ==
  /\ Free(m) /\ gc[m].status = "ringing"
  /\ gc' = [gc EXCEPT ![m].status = "connecting"]
  /\ BeginConnecting(m, gc[m].call)
  /\ UNCHANGED <<open, muting, unheeded, press, news, commands, invites, budget>>

RejectGroupCall(m) ==
  /\ gc[m].status = "ringing" /\ CleanupMeeting(m, seat[m])
  /\ UNCHANGED <<press, news, commands, invites, budget>>

LeaveGroupCall(m) ==
  /\ gc[m].status \in {"connecting", "connected"}
  /\ CleanupMeeting(m, seat[m])
  /\ UNCHANGED <<press, news, commands, invites, budget>>

------------------------------------------------------------------------------
(* connectMeeting. *)

\* The token: the room object becomes the one of roomRef, whatever it named before.
Token(m, c) ==
  /\ seat[m][c] = "token" /\ Sit(m, c, "joining")
  /\ gc' = [gc EXCEPT ![m].ref = c, ![m].host = (m = Owner)]
  /\ UNCHANGED <<open, muting, unheeded, press, news, commands, invites, budget>>

\* In the room: the room object of the host will report it.
Joined(m, c) ==
  /\ seat[m][c] = "joining" /\ Sit(m, c, "mic")
  /\ news' = IF m # Owner /\ Owner \in In(c) THEN news \cup {[c |-> c, m |-> m]} ELSE news
  /\ UNCHANGED <<gc, open, muting, unheeded, press, commands, invites, budget>>

\* The server sends an invitation to all members but its sender, of whom there have a socket.
Broadcast(c, there) == [x \in Member |-> IF x \in there THEN invites[x] \cup {c} ELSE invites[x]]

\* The microphone is open, and a mute that waited for it is carried out; who started the meeting
\* invites the others.
MicrophoneOpen(m, c) ==
  /\ seat[m][c] = "mic" /\ Sit(m, c, "in")
  /\ open' = [open EXCEPT ![m] = IF c \in muting[m] THEN @ ELSE @ \cup {c}]
  /\ muting' = [muting EXCEPT ![m] = @ \ {c}]
  /\ gc' = [gc EXCEPT ![m].status = "connected", ![m].muted = @ \/ c \in muting[m]]
  /\ \E there \in IF c.by = m THEN SUBSET (Member \ {m}) ELSE {{}} : invites' = Broadcast(c, there)
  /\ UNCHANGED <<unheeded, press, news, commands, budget>>

\* An awaited call rejects: no token, no connection, no microphone.  What cleanup disconnects is
\* the room of roomRef; one that was joined and is not named there any more stays.
MeetingFails(m, c) ==
  /\ seat[m][c] \in Connecting
  /\ IF seat[m][c] = "dead" THEN UNCHANGED budget ELSE Trouble
  /\ LET left == IF seat[m][c] = "mic" THEN "in" ELSE "out"
     IN CleanupMeeting(m, [seat[m] EXCEPT ![c] = left])
  /\ UNCHANGED <<press, news, commands, invites>>

\* LiveKit gives a connection up: any room object that disconnects cleans the screen.
MeetingLost(m, c) ==
  /\ m \in In(c) /\ Trouble
  /\ CleanupMeeting(m, [seat[m] EXCEPT ![c] = Released(@)])
  /\ gc[m].ref = c \/ gc[m].status # "idle"
  /\ UNCHANGED <<press, news, commands, invites>>

------------------------------------------------------------------------------
(* The controls of a meeting, which a host presses when it is connected.    *)

ToggleMute(m) ==
  /\ gc[m].ref # NoMeeting /\ seat[m][gc[m].ref] = "in" /\ Press
  /\ gc[m].mode = "lecture" => gc[m].host
  /\ gc' = [gc EXCEPT ![m].muted = ~@]
  /\ open' = [open EXCEPT ![m] = IF gc[m].muted THEN @ \cup {gc[m].ref} ELSE @ \ {gc[m].ref}]
  /\ UNCHANGED <<seat, muting, unheeded, press, news, commands, invites>>

Presides == /\ gc[Owner].host /\ gc[Owner].ref # NoMeeting /\ seat[Owner][gc[Owner].ref] = "in"
            /\ Free(Owner) /\ Press
            /\ UNCHANGED <<rooms, news, commands, invites>>
MuteAll == /\ Presides /\ press' = <<"own", "mute-all">> /\ UNCHANGED gc
SetLecture == /\ Presides /\ press' = <<"own", "mute-all", "lecture">>
              /\ gc' = [gc EXCEPT ![Owner].mode = "lecture"]
SetDiscussion == /\ Presides /\ press' = <<"discussion">>
                 /\ gc' = [gc EXCEPT ![Owner].mode = "discussion"]

\* The next await of the press: the host's own microphone, or a command for the others.
CarryOn ==
  /\ press # << >> /\ press' = Tail(press)
  /\ IF Head(press) = "own" THEN ApplyMute(Owner, gc[Owner]) /\ UNCHANGED commands
                            ELSE SendCommand(Head(press)) /\ UNCHANGED <<gc, open, muting>>
  /\ UNCHANGED <<seat, unheeded, news, invites, budget>>

\* Mutant: a member who comes later is not told the mode.
Arrival_Silent(n) ==
  /\ n \in news /\ news' = news \ {n}
  /\ UNCHANGED <<gc, rooms, press, commands, invites, budget>>
\* The host's room object reports an arrival: the host tells the mode.
Arrival(n) ==
  /\ n \in news /\ news' = news \ {n}
  /\ IF Owner \in In(n.c) THEN SendCommand(gc[Owner].mode) ELSE UNCHANGED commands
  /\ UNCHANGED <<gc, rooms, press, invites, budget>>

\* A command of the host arrives: whichever room it came from, it acts on the room of roomRef.
DataReceived(m) ==
  /\ commands[m] # << >>
  /\ commands' = [commands EXCEPT ![m] = Tail(@)]
  /\ LET k == Head(commands[m]) IN
     IF m \notin In(k.c) THEN UNCHANGED <<gc, open, muting>>
     ELSE CASE k.command = "mute-all" -> ApplyMute(m, gc[m])
            [] k.command = "lecture" -> ApplyMute(m, [gc[m] EXCEPT !.mode = "lecture"])
            [] k.command = "discussion" -> /\ gc' = [gc EXCEPT ![m].mode = "discussion"]
                                           /\ UNCHANGED <<open, muting>>
  /\ UNCHANGED <<seat, unheeded, press, news, invites, budget>>

\* The microphone is so late that LiveKit stops waiting: the mute counts as done.
MuteGivesUp(m, c) ==
  /\ c \in muting[m] /\ Trouble
  /\ muting' = [muting EXCEPT ![m] = @ \ {c}]
  /\ gc' = [gc EXCEPT ![m].muted = TRUE]
  /\ unheeded' = unheeded \cup {<<m, c>>}
  /\ UNCHANGED <<seat, open, press, news, commands, invites>>

MeetingNext ==
  \/ \E m \in Member :
       \/ AcceptGroupCall(m) \/ RejectGroupCall(m) \/ LeaveGroupCall(m) \/ ToggleMute(m) \/ DataReceived(m)
       \/ \E c \in Meeting :
            \/ StartGroupCall(m, c) \/ ReceiveInvite(m, c)
            \/ Token(m, c) \/ Joined(m, c) \/ MicrophoneOpen(m, c) \/ MeetingFails(m, c) \/ MeetingLost(m, c)
            \/ MuteGivesUp(m, c)
  \/ MuteAll \/ SetLecture \/ SetDiscussion \/ CarryOn
  \/ \E n \in news : Arrival(n)

MeetingSpec == MeetingInit /\ [][MeetingNext]_meetingVars

------------------------------------------------------------------------------
(* Properties. *)

\* Nothing is on its way in the meeting c, and whoever is in it is through with connecting.
Settled(c) == /\ press = << >> /\ \A n \in news : n.c # c
              /\ \A m \in In(c) : /\ seat[m][c] = "in" /\ c \notin muting[m]
                                  /\ \A i \in DOMAIN commands[m] : commands[m][i].c # c

\* A meeting follows its host: once what was sent has arrived, every member that is in the room
\* with the host shows the host's mode, however it came in, and in a lecture only the host can be
\* heard, save a member whose microphone opened after LiveKit gave the mute up (useGroupCall.ts: sendCommand, ParticipantConnected, DataReceived, toggleMute).
FollowsHost ==
  \A c \in Meeting : Settled(c) /\ gc[Owner].ref = c /\ Owner \in In(c) =>
    \A m \in In(c) \ {Owner} : /\ gc[m].mode = gc[Owner].mode
                               /\ gc[m].mode = "lecture" => c \notin open[m] \/ <<m, c>> \in unheeded

\* A member whose screen shows no meeting, and who is not about to enter one, is in none: nobody
\* listens or speaks behind a closed overlay (useGroupCall.ts: cleanup after every way out).
ClosedMeansOut == \A m \in Member : gc[m].status = "idle" /\ ~Busy(m) => \A c \in Meeting : m \notin In(c)

\* "one connection per client", the first line of useGroupCall.ts.
OneConnection == \A m \in Member : Cardinality({c \in Meeting : m \in In(c)}) <= 1
=============================================================================
