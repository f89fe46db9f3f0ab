----------------------------- MODULE DirectCalls -----------------------------
(***************************************************************************)
(* One-to-one calls: the hook useCall of each account, the call signalling *)
(* of the WebSocket server with its stored offers, and the media rooms of  *)
(* LiveKit.  A call lives in three places at once: the state the overlay   *)
(* shows, the frames that ring and end it, and the room that carries the   *)
(* microphone.  Each connection attempt is an async function that goes on  *)
(* while the user cancels, calls again, or is called.                      *)
(*                                                                         *)
(* Voice effects and the video elements are left out.  A room object is    *)
(* named by its call: a device has one connection attempt per call.        *)
(***************************************************************************)
EXTENDS Naturals, Sequences, FiniteSets

CONSTANTS Account,      \* accounts, each with one open tab
          Call,         \* records [id, from, to]: the calls that may be started
          None,         \* no call
          MaxFaults,    \* bound on lost sockets, lost rooms and reconnecting rooms
          MaxAttempts,  \* bound on the attempts of one account that are under way at once
          MaxTimers     \* bound on the clean-up timers that are pending at once

ASSUME CallAssumption == /\ \A c \in Call : {c.from, c.to} \subseteq Account /\ c.from # c.to
                         /\ None \notin Call
ASSUME BoundAssumption == MaxFaults \in Nat /\ {MaxAttempts, MaxTimers} \subseteq Nat \ {0}

VARIABLES
  ui,         \* per account: state, call and roomRef of useCall, and its pending timers
  at,         \* per account and call: how far connectToCall and its room object have come
  sees,       \* per account: the rooms in which its client knows of the other one
  retrying,   \* per account: its room objects that lost the connection and try again
  link,       \* per account: is its socket open and authenticated
  down,       \* per account: frames on their way to its client
  todo,       \* per account: what its socket handlers still have to do
  pending,    \* Redis: the stored offer of each account
  faults      \* faults so far

calls == <<ui, at, sees, retrying>>
wire == <<down, todo, pending>>
vars == <<calls, link, wire, faults>>

Peer(d, c) == IF c.from = d THEN c.to ELSE c.from
Frame == [t : {"offer", "answer", "reject", "cancel", "end"}, c : Call]
Idle == [state |-> "idle", call |-> None, ref |-> None, timers |-> 0]
\* What a socket handler still has to do in Redis: store an offer it pushed, look up the stored
\* offer, replay it; after the loss of the socket, only store ("late") or delete it ("drop").
Task == [t : {"store", "replay", "late"}, c : Call] \cup [t : {"lookup", "drop"}, c : {None}]

\* An attempt waits for its token, for room.connect, for the microphone, or, its room object
\* disconnected meanwhile ("dead"), for any of these to return; "in" and "out" are after it.
UnderWay == {"token", "joining", "media", "dead"}
Room(c) == {d \in Account : at[d][c] \in {"media", "in"}}

Init == /\ ui = [d \in Account |-> Idle]
        /\ at = [d \in Account |-> [c \in Call |-> "none"]]
        /\ sees = [d \in Account |-> {}]
        /\ retrying = [d \in Account |-> {}]
        /\ link = [d \in Account |-> TRUE]
        /\ down = [d \in Account |-> <<>>]
        /\ todo = [d \in Account |-> {}]
        /\ pending = [d \in Account |-> None]
        /\ faults = 0

------------------------------------------------------------------------------
(* The parts the handlers of useCall are made of. *)

\* sendWs and the server: the frame is pushed if both sockets are there, and an offer is stored
\* later.  Any other frame waits for the handler to store the offer before it, and then deletes
\* the stored offers: an answer one's own, the rest both.
Send(d, t, c, queues) ==
  IF ~link[d] THEN down' = queues /\ UNCHANGED <<todo, pending>> ELSE
  /\ down' = IF link[Peer(d, c)] THEN [queues EXCEPT ![Peer(d, c)] = Append(@, [t |-> t, c |-> c])] ELSE queues
  /\ IF t = "offer"
       THEN todo' = [todo EXCEPT ![d] = @ \cup {[t |-> "store", c |-> c]}] /\ UNCHANGED pending
       ELSE /\ todo' = [todo EXCEPT ![d] = {k \in @ : k.t # "store"}]
            /\ pending' = [a \in Account |->
                 IF a = d \/ (t # "answer" /\ a = Peer(d, c)) THEN None
                 ELSE IF \E k \in todo[d] : k.t = "store" /\ a = Peer(d, k.c)
                   THEN (CHOOSE k \in todo[d] : k.t = "store" /\ a = Peer(d, k.c)).c ELSE pending[a]]

\* roomRef as the set of the rooms it names.
Held(d) == {ui[d].ref} \ {None}

Leave(d, rooms) ==
  /\ at' = [at EXCEPT ![d] = [c \in Call |-> IF c \notin rooms THEN @[c] ELSE
                                IF @[c] \in UnderWay THEN "dead" ELSE "out"]]
  /\ retrying' = [retrying EXCEPT ![d] = @ \ rooms]

Disconnect(d, rooms) == Leave(d, rooms) /\ sees' = [sees EXCEPT ![d] = @ \ rooms]

Cleared(d) == [Idle EXCEPT !.timers = ui[d].timers]

Cleanup(d) == /\ ui' = [ui EXCEPT ![d] = Cleared(d)]
              /\ Disconnect(d, Held(d))

BeginConnect(d, c) ==
  /\ at[d][c] \notin UnderWay
  /\ Cardinality({e \in Call : at[d][e] \in UnderWay}) < MaxAttempts
  /\ at' = [at EXCEPT ![d][c] = "token"]
  /\ UNCHANGED <<sees, retrying, link, wire, faults>>

------------------------------------------------------------------------------
(* The user, through the buttons of the chat page and the overlay. *)

StartCall(d, c) ==
  /\ c.from = d /\ at[d][c] = "none" /\ ui[d].state = "idle"
  /\ ui' = [ui EXCEPT ![d].state = "outgoing", ![d].call = c]
  /\ BeginConnect(d, c)

AcceptCall(d) ==
  /\ ui[d].state = "incoming"
  /\ ui' = [ui EXCEPT ![d].state = "connecting"]
  /\ BeginConnect(d, ui[d].call)

\* rejectCall, cancelCall and hangUp tell the other one, if a call is known; then all clean up.
Finish(d, t) ==
  /\ IF t = "" \/ ui[d].call = None THEN UNCHANGED wire ELSE Send(d, t, ui[d].call, down)
  /\ Cleanup(d)
  /\ UNCHANGED <<link, faults>>

RejectCall(d) == ui[d].state = "incoming" /\ Finish(d, "reject")
CancelCall(d) == ui[d].state = "outgoing" /\ Finish(d, "cancel")
HangUp(d) == ui[d].state \in {"connecting", "connected"} /\ Finish(d, "end")
Dismiss(d) == ui[d].state = "error" /\ Finish(d, "")

------------------------------------------------------------------------------
(* connectToCall and what follows it. *)

TokenGranted(d, c) ==
  /\ at[d][c] = "token"
  /\ at' = [at EXCEPT ![d][c] = "joining"]
  /\ ui' = [ui EXCEPT ![d].ref = c]
  /\ UNCHANGED <<sees, retrying, link, wire, faults>>

\* room.connect resolves; with the other one in the room the call is connected.
JoinRoom(d, c) ==
  /\ at[d][c] = "joining"
  /\ at' = [at EXCEPT ![d][c] = "media"]
  /\ IF Peer(d, c) \in Room(c)
       THEN /\ sees' = [sees EXCEPT ![d] = @ \cup {c}]
            /\ ui' = [ui EXCEPT ![d].state = "connected"]
       ELSE UNCHANGED <<sees, ui>>
  /\ UNCHANGED <<retrying, link, wire, faults>>

\* The token is refused, the connection fails, the microphone is denied, or the room object was
\* disconnected meanwhile.  A room whose connection fails tells its own page so, which cleans up the
\* call of the moment before failCall shows the error.  A call that could not be accepted is rejected.
Unconnected(d, c) == at[d][c] = "joining" /\ ui[d].ref = c /\ ui[d].state # "idle"
ConnectFails(d, c) ==
  /\ at[d][c] \in UnderWay
  /\ IF at[d][c] = "dead" THEN UNCHANGED faults ELSE faults < MaxFaults /\ faults' = faults + 1
  /\ at' = [at EXCEPT ![d][c] = IF @ = "media" THEN "in" ELSE "out"]
  /\ IF d = c.to THEN Send(d, "reject", c, down) ELSE UNCHANGED wire
  /\ ui[d].timers < MaxTimers
  /\ LET shown == IF Unconnected(d, c) THEN Cleared(d) ELSE ui[d] IN
     ui' = [ui EXCEPT ![d] = [shown EXCEPT !.state = "error", !.timers = @ + 1]]
  /\ UNCHANGED <<sees, retrying, link>>

\* The attempt is over; the call may not be the current one any more.
Outdated(d, c) == ui[d].call # c \/ ui[d].state = "idle"
Over(d, c) == [at EXCEPT ![d][c] = IF @ = "media" THEN "in" ELSE "out"]

\* Mutant: startCall and acceptCall return without disconnecting the room of an outdated call.
ConnectedLate_Returns(d, c) ==
  /\ at[d][c] \in {"media", "dead"} /\ Outdated(d, c)
  /\ at' = Over(d, c)
  /\ ui' = [ui EXCEPT ![d].ref = None]
  /\ UNCHANGED <<sees, retrying, link, wire, faults>>

ConnectedLate(d, c) ==
  /\ at[d][c] \in {"media", "dead"} /\ Outdated(d, c)
  /\ ui' = [ui EXCEPT ![d].ref = None]
  /\ at' = [Over(d, c) EXCEPT ![d] = [e \in Call |-> IF e \notin Held(d) THEN @[e] ELSE
                                        IF e # c /\ @[e] \in UnderWay THEN "dead" ELSE "out"]]
  /\ sees' = [sees EXCEPT ![d] = @ \ Held(d)]
  /\ retrying' = [retrying EXCEPT ![d] = @ \ Held(d)]
  /\ UNCHANGED <<link, wire, faults>>

Connected(d, c) ==
  /\ at[d][c] \in {"media", "dead"} /\ ~Outdated(d, c)
  /\ at' = Over(d, c)
  /\ Send(d, IF d = c.from THEN "offer" ELSE "answer", c, down)
  /\ ui' = IF d = c.to /\ Held(d) \cap sees[d] # {} THEN [ui EXCEPT ![d].state = "connected"] ELSE ui
  /\ UNCHANGED <<sees, retrying, link, faults>>

\* The timer of failCall; nothing cancels it.
TimerFires(d) ==
  /\ ui[d].timers > 0
  /\ ui' = [ui EXCEPT ![d] = [Idle EXCEPT !.timers = ui[d].timers - 1]]
  /\ Disconnect(d, Held(d))
  /\ UNCHANGED <<link, wire, faults>>

------------------------------------------------------------------------------
(* LiveKit. *)

ParticipantConnected(d, c) ==
  /\ {d, Peer(d, c)} \subseteq Room(c) /\ c \notin sees[d]
  /\ sees' = [sees EXCEPT ![d] = @ \cup {c}]
  /\ ui' = [ui EXCEPT ![d].state = "connected"]
  /\ UNCHANGED <<at, retrying, link, wire, faults>>

ParticipantDisconnected(d, c) ==
  /\ c \in sees[d] /\ Peer(d, c) \notin Room(c)
  /\ IF ui[d].state = "connected"
       THEN ui' = [ui EXCEPT ![d] = Cleared(d)] /\ Leave(d, Held(d))
       ELSE UNCHANGED <<ui, at, retrying>>
  /\ sees' = [sees EXCEPT ![d] = @ \ (IF ui[d].state = "connected" THEN Held(d) \cup {c} ELSE {c})]
  /\ UNCHANGED <<link, wire, faults>>

\* The connection of a room object is lost for good.
RoomLost(d, c) ==
  /\ d \in Room(c) /\ faults < MaxFaults
  /\ faults' = faults + 1
  /\ Disconnect(d, {c})
  /\ ui' = IF ui[d].ref = c /\ ui[d].state # "idle" THEN [ui EXCEPT ![d] = Cleared(d)] ELSE ui
  /\ UNCHANGED <<link, wire>>

\* A room object loses its connection and tries again ...
Reconnecting(d, c) ==
  /\ d \in Room(c) /\ faults < MaxFaults
  /\ faults' = faults + 1
  /\ retrying' = [retrying EXCEPT ![d] = @ \cup {c}]
  /\ ui' = [ui EXCEPT ![d].state = "connecting"]
  /\ UNCHANGED <<at, sees, link, wire>>

\* Mutant: a room object that comes back is connected, whoever is still there.
Reconnected_Alone(d, c) ==
  /\ c \in retrying[d] /\ d \in Room(c)
  /\ retrying' = [retrying EXCEPT ![d] = @ \ {c}]
  /\ ui' = [ui EXCEPT ![d].state = "connected"]
  /\ UNCHANGED <<at, sees, link, wire, faults>>

\* ... and succeeds; with the other one still there the call is connected.
Reconnected(d, c) ==
  /\ c \in retrying[d] /\ d \in Room(c)
  /\ retrying' = [retrying EXCEPT ![d] = @ \ {c}]
  /\ ui' = IF c \in sees[d] THEN [ui EXCEPT ![d].state = "connected"] ELSE ui
  /\ UNCHANGED <<at, sees, link, wire, faults>>

------------------------------------------------------------------------------
(* The handlers of the frames on the client. *)

Arrives(d, t) == down[d] # <<>> /\ Head(down[d]).t \in t
Rest(d) == [down EXCEPT ![d] = Tail(@)]

\* Mutant: a busy client drops an offer instead of rejecting it.
ReceiveOffer_DropsBusy(d) ==
  /\ Arrives(d, {"offer"})
  /\ down' = Rest(d)
  /\ ui' = IF ui[d].state # "idle" THEN ui
           ELSE [ui EXCEPT ![d].state = "incoming", ![d].call = Head(down[d]).c]
  /\ UNCHANGED <<at, sees, retrying, todo, pending, link, faults>>

ReceiveOffer(d) ==
  /\ Arrives(d, {"offer"})
  /\ LET c == Head(down[d]).c IN
     \/ /\ ui[d].state # "idle"
        /\ Send(d, "reject", c, Rest(d))
        /\ UNCHANGED ui
     \/ /\ ui[d].state = "idle"
        /\ ui' = [ui EXCEPT ![d].state = "incoming", ![d].call = c]
        /\ down' = Rest(d)
        /\ UNCHANGED <<todo, pending>>
  /\ UNCHANGED <<at, sees, retrying, link, faults>>

ReceiveAnswer(d) ==
  /\ Arrives(d, {"answer"})
  /\ ui' = IF Head(down[d]).c # ui[d].call THEN ui ELSE
             [ui EXCEPT ![d].state = IF Held(d) \cap sees[d] # {} THEN "connected" ELSE "connecting"]
  /\ down' = Rest(d)
  /\ UNCHANGED <<at, sees, retrying, link, todo, pending, faults>>

\* A rejected, cancelled or ended call cleans up if it is the current one.
FinishMatchingCall(d) ==
  /\ Arrives(d, {"reject", "cancel", "end"})
  /\ IF Head(down[d]).c = ui[d].call THEN Cleanup(d) ELSE UNCHANGED calls
  /\ down' = Rest(d)
  /\ UNCHANGED <<link, todo, pending, faults>>

------------------------------------------------------------------------------
(* The server, after the push. *)

\* SET pending_call, for 60 seconds.
StoreOffer(d, k) ==
  /\ k \in todo[d] /\ k.t \in {"store", "late"}
  /\ pending' = [pending EXCEPT ![Peer(d, k.c)] = k.c]
  /\ todo' = [todo EXCEPT ![d] = @ \ {k}]
  /\ UNCHANGED <<calls, link, down, faults>>

\* Only a socket that connects would tell that the stored offer has expired.
OfferExpires(d) ==
  /\ pending[d] # None /\ ~link[d]
  /\ pending' = [pending EXCEPT ![d] = None]
  /\ UNCHANGED <<calls, link, down, todo, faults>>

\* The socket is registered and auth_ok is on its way.
Connect(d) ==
  /\ ~link[d]
  /\ link' = [link EXCEPT ![d] = TRUE]
  /\ todo' = [todo EXCEPT ![d] = @ \cup {[t |-> "lookup", c |-> None]}]
  /\ UNCHANGED <<calls, pending, down, faults>>

\* flush_pending_call: GET ...
FlushGet(d, k) ==
  /\ k \in todo[d] /\ k.t = "lookup"
  /\ todo' = [todo EXCEPT ![d] = (@ \ {k}) \cup [t : {"replay"}, c : {pending[d]} \ {None}]]
  /\ UNCHANGED <<calls, link, pending, down, faults>>

\* ... then send and DEL, which also deletes an offer stored in between.
FlushSend(d, k) ==
  /\ k \in todo[d] /\ k.t \in {"replay", "drop"}
  /\ down' = IF k.t = "drop" THEN down ELSE [down EXCEPT ![d] = Append(@, [t |-> "offer", c |-> k.c])]
  /\ pending' = [pending EXCEPT ![d] = None]
  /\ todo' = [todo EXCEPT ![d] = @ \ {k}]
  /\ UNCHANGED <<calls, link, faults>>

\* The socket is lost with the frames on it; its handler goes on with what it has begun, and a
\* replay is lost together with the stored offer.
SocketLost(d) ==
  /\ link[d] /\ faults < MaxFaults
  /\ faults' = faults + 1
  /\ link' = [link EXCEPT ![d] = FALSE]
  /\ down' = [down EXCEPT ![d] = <<>>]
  /\ todo' = [todo EXCEPT ![d] = {IF k.t \in {"store", "late"} THEN [k EXCEPT !.t = "late"]
                                  ELSE [t |-> "drop", c |-> None] : k \in @}]
  /\ UNCHANGED <<calls, pending>>

------------------------------------------------------------------------------

User(d) == \/ \E c \in Call : StartCall(d, c)
           \/ AcceptCall(d) \/ RejectCall(d) \/ CancelCall(d) \/ HangUp(d) \/ Dismiss(d)
Attempt(d) == \E c \in Call : TokenGranted(d, c) \/ JoinRoom(d, c) \/ ConnectFails(d, c)
                                  \/ ConnectedLate(d, c) \/ Connected(d, c)
Media(d) == \E c \in Call : \/ ParticipantConnected(d, c) \/ ParticipantDisconnected(d, c)
                            \/ RoomLost(d, c) \/ Reconnecting(d, c) \/ Reconnected(d, c)
Receive(d) == ReceiveOffer(d) \/ ReceiveAnswer(d) \/ FinishMatchingCall(d)
Server(d) == \/ \E k \in todo[d] : StoreOffer(d, k) \/ FlushGet(d, k) \/ FlushSend(d, k)
             \/ OfferExpires(d) \/ Connect(d) \/ SocketLost(d)

Next == \E d \in Account : User(d) \/ Attempt(d) \/ Media(d) \/ Receive(d) \/ TimerFires(d) \/ Server(d)

Spec == Init /\ [][Next]_vars

------------------------------------------------------------------------------

\* Type invariant.
TypeOK ==
  /\ ui \in [Account -> [state : {"idle", "outgoing", "incoming", "connecting", "connected", "error"},
                         call : Call \cup {None}, ref : Call \cup {None}, timers : 0..MaxTimers]]
  /\ at \in [Account -> [Call -> UnderWay \cup {"none", "in", "out"}]]
  /\ sees \in [Account -> SUBSET Call]
  /\ retrying \in [Account -> SUBSET Call]
  /\ link \in [Account -> BOOLEAN]
  /\ down \in [Account -> Seq(Frame)]
  /\ todo \in [Account -> SUBSET Task]
  /\ pending \in [Account -> Call \cup {None}]
  /\ faults \in 0..MaxFaults

\* Every room the client is in is the one roomRef names, so the next clean-up leaves it, and no
\* room outlives the call on the screen but for an attempt about to notice that it is outdated:
\* a call that was cancelled, refused or lost leaves no microphone open (useCall.ts:113-147, 236-240).
NoStrayRoom ==
  \A d \in Account, c \in Call : d \in Room(c) =>
     ui[d].ref = c /\ (ui[d].state # "idle" \/ at[d][c] = "media")

\* A call that is shown as connected is one whose other side the client saw in the same room, and
\* whose departure it has still to hear of: both have joined, and the end of the one ends the call
\* of the other even if every frame is lost (useCall.ts:180-203, 393-401).
TalksToPeer ==
  \A d \in Account : ui[d].state = "connected" /\ ui[d].call # None =>
     ui[d].ref = ui[d].call /\ ui[d].call \in sees[d] /\ d \in Room(ui[d].call)

\* Two accounts that call each other at once do not ring for ever: without a fault, a frame that
\* ends one of the calls or makes the other side reject it is on its way (useCall.ts:370-373, 402-407).
Glare(c, e) == /\ c.from = e.to /\ c.to = e.from
               /\ \A x \in {c, e} : /\ ui[x.from].state = "outgoing" /\ ui[x.from].call = x
                                    /\ at[x.from][x] \notin UnderWay
Carries(q, t, c) == \E i \in DOMAIN q : q[i] = [t |-> t, c |-> c]
GlareEnds ==
  \A c, e \in Call : Glare(c, e) /\ faults = 0 =>
     \E x \in {c, e} : Carries(down[x.to], "offer", x) \/ Carries(down[x.from], "reject", x)
=============================================================================
