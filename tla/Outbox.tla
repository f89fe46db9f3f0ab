------------------------------- MODULE Outbox -------------------------------
(***************************************************************************)
(* Sending messages: the outbox a client keeps in localStorage, its sockets *)
(* (client/src/api/socket.ts), the optimistic entries of the store, and the *)
(* server handlers that store a frame once per (from_id, client_msg_id) and *)
(* answer it (server/src/ws/server.rs).  The handler of a socket the client *)
(* has given up may still work through frames it had read from it.           *)
(***************************************************************************)
EXTENDS Integers, Sequences, FiniteSets, SequencesExt

CONSTANTS
  Messages,      \* client_msg_ids
  GroupMessages, \* those sent to a group, which a new epoch makes unacceptable
  OutboxLimit,   \* frames the outbox keeps (500)
  MaxSockets,    \* bound: sockets the client opens, one after the other
  MaxEvents      \* bound: inserts and lookups that fail, reloads of the tab and
                 \* restarts of the server, and logouts, together

ASSUME OutboxAssumption ==
  /\ IsFiniteSet(Messages) /\ GroupMessages \subseteq Messages
  /\ OutboxLimit \in Nat \ {0}
  /\ MaxSockets \in Nat \ {0} /\ MaxEvents \in Nat

VARIABLES
  outbox,     \* localStorage pp_outbox
  status,     \* delivery_status of the entry in the store, "none" without one
  composed,   \* history: the messages handed to sendWs, in that order
  ws,         \* the client's socket, 0 for none
  ready,      \* auth_ok has arrived on it
  up,         \* what the handler of a socket has still to read
  down,       \* what is on its way to the client on a socket
  reply,      \* the answer a handler has still to give after its commit
  stored,     \* the rows of the sender, in server_seq order
  pushed,     \* how often the message was pushed to its recipients
  expired,    \* group messages whose epoch has passed
  sockets,    \* how many sockets the client has opened
  spent       \* how many of the bounded events there were, by kind

client == <<outbox, status, composed, ws, ready>>
server == <<stored, pushed, expired>>
vars   == <<client, up, down, reply, server, sockets, spent>>

Sockets == 1..MaxSockets
NoReply == [msg |-> "none", kind |-> "none"]
AuthOk  == [msg |-> "none", kind |-> "auth_ok"]
Kinds   == {"new", "duplicate", "failed"}

-----------------------------------------------------------------------------
Init ==
  /\ outbox = <<>>
  /\ status = [m \in Messages |-> "none"]
  /\ composed = <<>>
  /\ ws = 0 /\ ready = FALSE
  /\ up = [n \in Sockets |-> <<>>]
  /\ down = [n \in Sockets |-> <<>>]
  /\ reply = [n \in Sockets |-> NoReply]
  /\ stored = <<>>
  /\ pushed = [m \in Messages |-> 0]
  /\ expired = {}
  /\ sockets = 0
  /\ spent = [failures |-> 0, misreads |-> 0, resets |-> 0, logouts |-> 0]

Happens(kind) ==
  /\ spent.failures + spent.misreads + spent.resets + spent.logouts < MaxEvents
  /\ spent' = [spent EXCEPT ![kind] = @ + 1]
  /\ UNCHANGED sockets

\* The last socket of a bounded run stays open.
Spare == sockets < MaxSockets

Newest(frames, n) ==
  SubSeq(frames, IF Len(frames) > n THEN Len(frames) - n + 1 ELSE 1, Len(frames))

\* What is left of a sequence without m, which occurs in it at most once.
IndexIn(s, m) == CHOOSE i \in DOMAIN s : s[i] = m
Without(s, m) == IF m \in ToSet(s) THEN RemoveAt(s, IndexIn(s, m)) ELSE s

-----------------------------------------------------------------------------
(* The client.                                                               *)

\* sendWs, and the optimistic entry Chat adds to the store in the same task.
SendWs(m) ==
  /\ m \notin ToSet(composed)
  /\ composed' = Append(composed, m)
  /\ status' = [status EXCEPT ![m] = "queued"]
  /\ outbox' = Newest(Append(outbox, m), OutboxLimit)
  /\ up' = IF ready THEN [up EXCEPT ![ws] = Append(@, m)] ELSE up
  /\ UNCHANGED <<ws, ready, down, reply, server, sockets, spent>>

\* connectWs, and the auth frame it sends once the socket is open.
ConnectWs ==
  /\ ws = 0
  /\ sockets < MaxSockets
  /\ sockets' = sockets + 1
  /\ ws' = sockets'
  /\ down' = [down EXCEPT ![ws'] = <<AuthOk>>]
  /\ UNCHANGED <<outbox, status, composed, ready, up, reply, server, spent>>

\* Mutant: the newest frame is sent first.
ReceiveAuthOk_NewestFirst ==
  /\ ws # 0 /\ down[ws] # <<>> /\ Head(down[ws]) = AuthOk
  /\ down' = [down EXCEPT ![ws] = Tail(@)]
  /\ ready' = TRUE
  /\ up' = [up EXCEPT ![ws] = @ \o Reverse(outbox)]
  /\ UNCHANGED <<outbox, status, composed, ws, reply, server, sockets, spent>>

\* Mutant: the flush ends after the first frame.
ReceiveAuthOk_First ==
  /\ ws # 0 /\ down[ws] # <<>> /\ Head(down[ws]) = AuthOk
  /\ down' = [down EXCEPT ![ws] = Tail(@)]
  /\ ready' = TRUE
  /\ up' = [up EXCEPT ![ws] = @ \o SelectSeq(outbox, LAMBDA m : m = Head(outbox))]
  /\ UNCHANGED <<outbox, status, composed, ws, reply, server, sockets, spent>>

\* auth_ok: flushOutbox sends all that has not been answered.
ReceiveAuthOk ==
  /\ ws # 0 /\ down[ws] # <<>> /\ Head(down[ws]) = AuthOk
  /\ down' = [down EXCEPT ![ws] = Tail(@)]
  /\ ready' = TRUE
  /\ up' = [up EXCEPT ![ws] = @ \o outbox]
  /\ UNCHANGED <<outbox, status, composed, ws, reply, server, sockets, spent>>

\* ack and message_failed: acknowledgeOutbound, then the handler of useSocket.
ReceiveAnswer ==
  /\ ws # 0 /\ down[ws] # <<>> /\ Head(down[ws]) # AuthOk
  /\ down' = [down EXCEPT ![ws] = Tail(@)]
  /\ LET m == Head(down[ws]).msg
         answer == IF Head(down[ws]).kind = "failed" THEN "failed" ELSE "sent"
     IN /\ outbox' = Without(outbox, m)
        /\ status' = [status EXCEPT ![m] = IF @ = "none" THEN @ ELSE answer]
  /\ UNCHANGED <<composed, ws, ready, up, reply, server, sockets, spent>>

\* A catch-up returns the sender's own row: addMessage completes the optimistic
\* entry, or adds one that shows as sent.  The outbox keeps its frame.
SyncOwn(m) ==
  /\ m \in ToSet(stored) /\ status[m] # "sent"
  /\ status' = [status EXCEPT ![m] = "sent"]
  /\ UNCHANGED <<outbox, composed, ws, ready, up, down, reply, server, sockets, spent>>

\* onclose, disconnectWs and forceReconnect: the socket is given up.
Disconnect ==
  /\ ws # 0 /\ Spare
  /\ ws' = 0 /\ ready' = FALSE
  /\ down' = [down EXCEPT ![ws] = <<>>]
  /\ UNCHANGED <<outbox, status, composed, up, reply, server, sockets, spent>>

\* The tab is reloaded; entries the debounced save had not written are gone.
Reload ==
  /\ Spare /\ Happens("resets")
  /\ \E lost \in SUBSET Messages :
       status' = [m \in Messages |-> IF m \in lost THEN "none" ELSE status[m]]
  /\ ws' = 0 /\ ready' = FALSE
  /\ down' = IF ws = 0 THEN down ELSE [down EXCEPT ![ws] = <<>>]
  /\ UNCHANGED <<outbox, composed, up, reply, server>>

\* logout clears the outbox of the account and the store.
Logout ==
  /\ Spare /\ Happens("logouts")
  /\ outbox' = <<>>
  /\ status' = [m \in Messages |-> "none"]
  /\ ws' = 0 /\ ready' = FALSE
  /\ down' = IF ws = 0 THEN down ELSE [down EXCEPT ![ws] = <<>>]
  /\ UNCHANGED <<composed, up, reply, server>>

-----------------------------------------------------------------------------
(* The handler of a socket.  One frame is worked on at a time.               *)

Begin(n, m) ==
  /\ reply[n] = NoReply /\ up[n] # <<>> /\ m = Head(up[n])
  /\ up' = [up EXCEPT ![n] = Tail(@)]

\* The frame is inserted and committed.
StoreFrame(n, m) ==
  /\ Begin(n, m)
  /\ m \notin ToSet(stored) \cup expired
  /\ stored' = Append(stored, m)
  /\ reply' = [reply EXCEPT ![n] = [msg |-> m, kind |-> "new"]]
  /\ UNCHANGED <<client, down, pushed, expired, sockets, spent>>

\* A row with this client_msg_id exists: it is acknowledged again.
FindDuplicate(n, m) ==
  /\ Begin(n, m)
  /\ m \in ToSet(stored)
  /\ reply' = [reply EXCEPT ![n] = [msg |-> m, kind |-> "duplicate"]]
  /\ UNCHANGED <<client, down, server, sockets, spent>>

\* Mutant: the epoch is compared before the duplicate is looked up.
RefuseFrame_EpochFirst(n, m) ==
  /\ Begin(n, m)
  /\ m \in expired
  /\ reply' = [reply EXCEPT ![n] = [msg |-> m, kind |-> "failed"]]
  /\ UNCHANGED <<client, down, server, sockets, spent>>

\* message_failed: the group no longer takes it.
RefuseFrame(n, m) ==
  /\ Begin(n, m)
  /\ m \in expired \ ToSet(stored)
  /\ reply' = [reply EXCEPT ![n] = [msg |-> m, kind |-> "failed"]]
  /\ UNCHANGED <<client, down, server, sockets, spent>>

\* A query or the commit fails: the handler goes on to the next frame.
DropFrame(n, m) ==
  /\ Begin(n, m)
  /\ Happens("failures")
  /\ UNCHANGED <<client, down, reply, server>>

\* A lookup of the group branch fails and is read as no row: a message that could
\* be stored is refused for membership or epoch; of one that is stored the
\* duplicate is not found, and the epoch check refuses it if that has moved on.
MisreadFrame(n, m) ==
  /\ Begin(n, m)
  /\ m \in GroupMessages
  /\ m \in ToSet(stored) => m \in expired
  /\ Happens("misreads")
  /\ reply' = [reply EXCEPT ![n] = [msg |-> m, kind |-> "failed"]]
  /\ UNCHANGED <<client, down, server>>

\* Mutant: a duplicate is pushed to the recipients as well.
Answer_PushesDuplicate(n) ==
  LET m == reply[n].msg IN
  /\ reply[n] # NoReply
  /\ reply' = [reply EXCEPT ![n] = NoReply]
  /\ pushed' = IF reply[n].kind # "failed" THEN [pushed EXCEPT ![m] = @ + 1] ELSE pushed
  /\ down' = IF n = ws THEN [down EXCEPT ![n] = Append(@, reply[n])] ELSE down
  /\ UNCHANGED <<client, up, stored, expired, sockets, spent>>

\* A new row is pushed to its recipients, then the sender's socket is answered.
Answer(n) ==
  LET m == reply[n].msg IN
  /\ reply[n] # NoReply
  /\ reply' = [reply EXCEPT ![n] = NoReply]
  /\ pushed' = IF reply[n].kind = "new" THEN [pushed EXCEPT ![m] = @ + 1] ELSE pushed
  /\ down' = IF n = ws THEN [down EXCEPT ![n] = Append(@, reply[n])] ELSE down
  /\ UNCHANGED <<client, up, stored, expired, sockets, spent>>

\* The server notices that a socket was given up: what it had not read is lost.
CloseSocket(n) ==
  /\ n # ws /\ up[n] # <<>> /\ reply[n] = NoReply
  /\ up' = [up EXCEPT ![n] = <<>>]
  /\ UNCHANGED <<client, down, reply, server, sockets, spent>>

\* A restart of the server ends every handler; the client sees onclose.
Restart ==
  /\ Spare /\ Happens("resets")
  /\ up' = [n \in Sockets |-> <<>>]
  /\ down' = [n \in Sockets |-> <<>>]
  /\ reply' = [n \in Sockets |-> NoReply]
  /\ ws' = 0 /\ ready' = FALSE
  /\ UNCHANGED <<outbox, status, composed, server>>

\* advance_epoch: what was encrypted for the old epoch is never accepted again.
EpochPasses ==
  /\ expired' = expired \cup (GroupMessages \cap ToSet(composed))
  /\ expired' # expired
  /\ UNCHANGED <<client, up, down, reply, stored, pushed, sockets, spent>>

Handle(n) ==
  \/ \E m \in Messages : \/ StoreFrame(n, m) \/ FindDuplicate(n, m)
                         \/ RefuseFrame(n, m) \/ DropFrame(n, m) \/ MisreadFrame(n, m)
  \/ Answer(n)

Receive == ReceiveAuthOk \/ ReceiveAnswer

Next ==
  \/ \E m \in Messages : SendWs(m) \/ SyncOwn(m)
  \/ ConnectWs \/ Receive \/ Disconnect \/ Reload \/ Logout
  \/ \E n \in Sockets : Handle(n) \/ CloseSocket(n)
  \/ Restart \/ EpochPasses

Spec == Init /\ [][Next]_vars

\* The reconnect timer fires, handlers run, and frames arrive.
Fairness ==
  /\ WF_vars(ConnectWs) /\ WF_vars(Receive)
  /\ \A n \in Sockets : WF_vars(Handle(n))

FairSpec == Spec /\ Fairness

-----------------------------------------------------------------------------
Frames == [msg : Messages, kind : Kinds]

TypeOK ==
  /\ outbox \in Seq(Messages)
  /\ status \in [Messages -> {"none", "queued", "sent", "failed"}]
  /\ composed \in Seq(Messages)
  /\ ws \in {0} \cup Sockets /\ ready \in BOOLEAN
  /\ up \in [Sockets -> Seq(Messages)]
  /\ down \in [Sockets -> Seq(Frames \cup {AuthOk})]
  /\ reply \in [Sockets -> Frames \cup {NoReply}]
  /\ stored \in Seq(Messages)
  /\ pushed \in [Messages -> Nat]
  /\ expired \subseteq GroupMessages

\* However often a frame is sent, on however many sockets, the recipients are
\* pushed one copy of it, and only of what is stored.
PushedOnce ==
  \A m \in Messages : /\ pushed[m] <= 1
                      /\ pushed[m] = 1 => m \in ToSet(stored)

\* The server numbers the messages of a sender in the order in which they were
\* sent, through all retries, as long as no insert fails, no logout empties the
\* outbox and the outbox has had room for all of them.
Orderly == /\ spent.failures + spent.misreads + spent.logouts = 0
           /\ Len(composed) <= OutboxLimit
SendOrder ==
  Orderly => \A i, j \in DOMAIN stored :
    i < j => IndexIn(composed, stored[i]) < IndexIn(composed, stored[j])

\* The sender is told the truth, and each message is stored at most once.  A
\* failed lookup makes the server answer what is not true: from then on only what
\* is stored is held to the promise.
Promise == INSTANCE ReliableSend WITH
  accepted <- stored,
  closed <- expired,
  told <- [m \in Messages |->
             IF spent.misreads = 0 /\ status[m] \in {"sent", "failed"} THEN status[m]
                                                                      ELSE "nothing"]
Reliable == Promise!Spec

\* A queued message is answered once a socket stays open ("offline sends remain
\* queued and retry automatically", README_EN.md), as long as no insert fails:
\* a dropped frame waits for the next auth_ok, which an open socket never brings.
EventuallyAnswered ==
  [](spent.failures = 0) => \A m \in Messages : status[m] = "queued" ~> status[m] # "queued"
=============================================================================
