------------------------------ MODULE ChatPage ------------------------------
(***************************************************************************)
(* A chat on one device: the page Chat.tsx with its history loads, read    *)
(* receipts, reply and sends, the handlers of useSocket that change the    *)
(* message store behind it, the unread badges and the auto-delete timer,   *)
(* against the rows of the server.                                         *)
(*                                                                         *)
(* The page is one React component for all chats: going from one chat to   *)
(* another keeps what it awaits, leaving it for another page does not stop *)
(* what it awaits.                                                         *)
(*                                                                         *)
(* The messages of a chat are a set of entries: their order is left out.   *)
(* What a message says is left out except for the message it quotes.       *)
(***************************************************************************)
EXTENDS Naturals, Sequences, FiniteSets, SequencesExt

CONSTANTS Private, Group,   \* chats of the device
          Timed,            \* the chats with auto-delete
          Incoming,         \* messages others send to it
          Home,             \* their chats
          Text, Picture,    \* what the user sends, each with its client id
          Nothing,
          MAX_IMAGES_PER_SEND,
          MaxLoads,         \* bound on history loads
          MaxEvents         \* bound on lost sockets, failures, replays, expiries and receipts

Chats == Private \cup Group
Own == Text \cup Picture
Message == Incoming \cup Own

ASSUME ChatAssumption == /\ Private \cap Group = {} /\ Timed \subseteq Chats
                         /\ Incoming \cap Own = {} /\ Text \cap Picture = {} /\ Nothing \notin Message \cup Chats
                         /\ Home \in [Incoming -> Chats]
                         /\ {MAX_IMAGES_PER_SEND, MaxLoads, MaxEvents} \subseteq Nat

VARIABLES
  rows,      \* server: stored messages, and those of them that were read
  dropped,   \* server: rows auto-delete removed
  aged,      \* messages older than the auto-delete time of their chat
  own,       \* where each own message was sent, and what it quotes
  store,     \* per chat: the entries of the message store
  unread,    \* per chat: the badge
  screen,    \* the route, and the reply of the mounted chat page
  fetches,   \* history loads under way
  sends,     \* calls of sendMessage under way
  upload,    \* the pictures being uploaded, with the chat and reply of when they were picked
  outbox,    \* messages the socket keeps until they are answered
  last,      \* window.__pendingMsg: the own message whose encryption began last, until its ack
  up,        \* the socket is there
  wire,      \* the frames on their way to the device
  queue,     \* the messages that wait there to be decrypted
  budget,    \* history loads and events so far
  seen       \* history: incoming messages that were on the screen

serverVars == <<rows, dropped, aged>>
net == <<up, wire, queue, budget>>
writing == <<own, sends, upload, outbox, last>>
chatVars == <<serverVars, store, unread, screen, fetches, writing, net, seen>>

\* key: which id the entry has; tagged: it has the client_msg_id of an own message; status: its
\* delivery_status.
ChatEntry == [m : Message, key : {"server", "client"}, tagged : BOOLEAN,
              status : {"none", "queued", "sent", "failed"}, read : BOOLEAN]
Frame == [t : {"message", "replay", "ack", "failed", "read"}, m : Message, read : BOOLEAN]
Send == [m : Own, c : Chats, quote : Incoming \cup {Nothing}, mounted : BOOLEAN]
Route == [kind : {"chats"}, c : {Nothing}] \cup [kind : {"chat", "about"}, c : Chats]

Kept == DOMAIN rows
ChatOf(m) == IF m \in Incoming THEN Home[m] ELSE own[m].c
On(c) == screen.route = [kind |-> "chat", c |-> c]
Mounted == screen.route.kind = "chat"
Shown(c) == {e.m : e \in store[c]}
Found(c, m) == {e \in store[c] : e.m = m /\ e.key = "server"}
Optimistic(c, m) == {e \in store[c] : e.m = m /\ e.tagged}

ChatInit == /\ rows = << >> /\ dropped = {} /\ aged = {}
            /\ own = << >>
            /\ store = [c \in Chats |-> {}]
            /\ unread = [c \in Chats |-> 0]
            /\ screen = [route |-> [kind |-> "chats", c |-> Nothing], reply |-> Nothing]
            /\ fetches = {} /\ sends = {} /\ upload = Nothing /\ outbox = {} /\ last = Nothing
            /\ up = TRUE /\ wire = << >> /\ queue = << >>
            /\ budget = [loads |-> 0, events |-> 0]
            /\ seen = {}

------------------------------------------------------------------------------
\* The effects of the page, which run after every change of the route or store.
Push(t, m, read) == wire' = Append(wire, [t |-> t, m |-> m, read |-> read])
Event == budget.events < MaxEvents /\ budget' = [budget EXCEPT !.events = @ + 1]

\* Mutant: receipts for all that is in the store.
Receipts_All(r, s) == IF r.kind = "chat" /\ up THEN UNION {{e.m : e \in s[c]} \cap Incoming : c \in Chats} ELSE {}
\* The receipts for what a private chat shows of others and is not read: sent when the chat is
\* opened or its length changes, dropped without a socket.
Changed(r, s) == r # screen.route \/ Cardinality(s[r.c]) # Cardinality(store[r.c])
Receipts(r, s) ==
  IF r.kind = "chat" /\ r.c \in Private /\ up /\ Changed(r, s)
    THEN {e.m : e \in {e \in s[r.c] : e.m \in Incoming /\ ~e.read}} ELSE {}

\* s is the store and r the route after a step; the server marks as read the rows it has.
Display(r, s, stored) ==
  /\ store' = s
  /\ seen' = IF r.kind = "chat" THEN seen \cup ({e.m : e \in s[r.c]} \cap Incoming) ELSE seen
  /\ rows' = [m \in DOMAIN stored |-> [read |-> stored[m].read \/ m \in Receipts(r, s)]]

SetStore(c, es) == [store EXCEPT ![c] = es]
ShowStore(s) == Display(screen.route, s, rows)

------------------------------------------------------------------------------
(* Routes. *)

LoadMessages(c) == /\ budget.loads < MaxLoads
                   /\ budget' = [budget EXCEPT !.loads = @ + 1]
                   /\ fetches' = fetches \cup {[c |-> c, step |-> "asked", page |-> {}]}

\* Opening a chat, from the list, a toast or a notification: badge, reply, receipts and a load.
OpenChat(c) ==
  LET r == [kind |-> "chat", c |-> c] IN
  /\ ~On(c) /\ LoadMessages(c)
  /\ screen' = [route |-> r, reply |-> Nothing]
  /\ unread' = [unread EXCEPT ![c] = 0]
  /\ Display(r, store, rows)
  /\ UNCHANGED <<dropped, aged, writing, up, wire, queue>>

\* Any other route unmounts the page: the reply is gone, its sends go on.
\* The bound: only one page that was left still awaits something.
Abandoned == (upload # Nothing /\ ~upload.mounted) \/ \E s \in sends : ~s.mounted
LeaveTo(r) ==
  /\ Mounted /\ ~Abandoned
  /\ screen' = [route |-> r, reply |-> Nothing]
  /\ sends' = {[s EXCEPT !.mounted = FALSE] : s \in sends}
  /\ upload' = IF upload = Nothing THEN Nothing ELSE [upload EXCEPT !.mounted = FALSE]
  /\ UNCHANGED <<serverVars, store, unread, fetches, own, outbox, last, net, seen>>
GoBack == LeaveTo([kind |-> "chats", c |-> Nothing])
OpenAbout == LeaveTo([kind |-> "about", c |-> screen.route.c])

------------------------------------------------------------------------------
(* History. *)

\* The language or the message privacy changed: the effect loads again.
ReloadHistory == /\ Mounted /\ LoadMessages(screen.route.c)
                 /\ UNCHANGED <<serverVars, store, unread, screen, writing, up, wire, queue, seen>>

\* The server removes the expired rows of the chat and returns the others.
HistoryRow(m) == [m |-> m, key |-> "server", tagged |-> FALSE, status |-> "none", read |-> rows[m].read]
AnswerHistory(l) ==
  LET expired == {m \in Kept \cap aged : ChatOf(m) = l.c}
      left == Kept \ expired IN
  /\ l \in fetches /\ l.step = "asked" /\ up
  /\ dropped' = dropped \cup expired
  /\ rows' = [m \in left |-> rows[m]]
  /\ fetches' = (fetches \ {l}) \cup {[l EXCEPT !.step = "answered",
                                             !.page = {HistoryRow(m) : m \in {k \in left : ChatOf(k) = l.c}}]}
  /\ UNCHANGED <<aged, store, unread, screen, writing, net, seen>>

LoadFails(l) == /\ l \in fetches /\ l.step = "asked" /\ Event
                /\ fetches' = fetches \ {l}
                /\ UNCHANGED <<serverVars, store, unread, screen, writing, up, wire, queue, seen>>

\* Mutant: the page replaces what the store has.
Merged_Page(l, es) == l.page
\* The page is decrypted; the store of now is merged into it.
Merged(l, es) == l.page \cup {e \in es : ~(e.key = "server" /\ e.m \in {p.m : p \in l.page})}
MergeHistory(l) == /\ l \in fetches /\ l.step = "answered"
                   /\ fetches' = fetches \ {l}
                   /\ ShowStore(SetStore(l.c, Merged(l, store[l.c])))
                   /\ UNCHANGED <<dropped, aged, unread, screen, writing, net>>

\* useAutoDeleteCleanup, once a minute.
Cleanup == /\ \E c \in Timed : Shown(c) \cap aged # {}
           /\ ShowStore([c \in Chats |-> IF c \in Timed THEN {e \in store[c] : e.m \notin aged} ELSE store[c]])
           /\ UNCHANGED <<dropped, aged, unread, screen, fetches, writing, net>>

------------------------------------------------------------------------------
(* Frames are handled as they come, but for messages, which wait in a queue to be decrypted one *)
(* after the other: the frames behind a message overtake it.                                     *)

IsMessage(f) == f.t \in {"message", "replay"}
EnqueueSequenced == /\ wire # << >> /\ IsMessage(Head(wire))
                    /\ wire' = Tail(wire) /\ queue' = Append(queue, Head(wire))
                    /\ UNCHANGED <<serverVars, store, unread, screen, fetches, writing, up, budget, seen>>
\* The frame of type t for the message m is handled.
Handled(t, m) == /\ wire # << >> /\ Head(wire).t = t /\ Head(wire).m = m
                 /\ wire' = Tail(wire) /\ UNCHANGED <<up, queue, budget>>

Received(f) == [m |-> f.m, key |-> "server", tagged |-> f.m \in Own, status |-> "none", read |-> f.read]

\* addMessage: for an id it has nothing, or, since the messages of a group carry signature_valid, the
\* fields of the message, its client id among them, in every entry with the id; a reconciled entry for
\* a client id it has, else a new entry.
IsNew(c, m) == Found(c, m) = {} /\ Optimistic(c, m) = {}
AddMessage(c, f) ==
  CASE Found(c, f.m) # {} /\ c \in Private -> store[c]
    [] Found(c, f.m) # {} /\ c \in Group ->
         {IF e \in Found(c, f.m) THEN [e EXCEPT !.tagged = f.m \in Own] ELSE e : e \in store[c]}
    [] IsNew(c, f.m) -> store[c] \cup {Received(f)}
    [] OTHER -> {IF e \in Optimistic(c, f.m) THEN [e EXCEPT !.key = "server", !.status = "sent", !.read = f.read] ELSE e : e \in store[c]}

\* Mutant: a replay counts as new.
Counted_Replay(c, m) == m \in Incoming /\ screen.route.c # c
\* The handler of "message": an expired replay is skipped, a new one from others that is not on the
\* page counts.  The routes of the contact or group count as the page: they contain the id too.
Counted(c, m) == IsNew(c, m) /\ m \in Incoming /\ screen.route.c # c
Receive ==
  LET f == Head(queue)   c == ChatOf(f.m) IN
  /\ queue # << >> /\ queue' = Tail(queue)
  /\ IF f.t = "replay" /\ f.m \in aged
       THEN UNCHANGED <<rows, store, unread, seen>>
       ELSE /\ ShowStore(SetStore(c, AddMessage(c, f)))
            /\ unread' = [unread EXCEPT ![c] = @ + (IF Counted(c, f.m) THEN 1 ELSE 0)]
  /\ UNCHANGED <<dropped, aged, screen, fetches, writing, up, wire, budget>>

\* The ack gives the entry with the client id the server's id: the optimistic one of the message that
\* __pendingMsg names ...
Done(e) == [e EXCEPT !.key = "server", !.status = "sent"]
ByPending(c, m) ==
  IF last = m THEN {IF e.m = m /\ e.key = "client" THEN Done(e) ELSE e : e \in store[c]} ELSE store[c]
\* Mutant: only __pendingMsg is looked at.
Settled_Pending(c, m) == {ByPending(c, m)}
\* ... and then the first one with the id of the first one with the client id.  Which that is, when a
\* row of the history got the client id too, depends on the clocks: a load sorts by time.
Settled(c, m) ==
  LET es == ByPending(c, m)
      named == {e \in es : e.m = m /\ \E d \in es : d.m = m /\ d.tagged /\ d.key = e.key} IN
  IF named = {} THEN {es} ELSE {(es \ {e}) \cup {Done(e)} : e \in named}

ReceiveAck(m) ==
  /\ Handled("ack", m)
  /\ outbox' = outbox \ {m}
  /\ last' = IF last = m THEN Nothing ELSE last
  /\ \E es \in Settled(own[m].c, m) : store' = SetStore(own[m].c, es)
  /\ UNCHANGED <<serverVars, unread, screen, fetches, own, sends, upload, seen>>

ReceiveFailed(m) ==
  /\ Handled("failed", m)
  /\ outbox' = outbox \ {m}
  /\ store' = [store EXCEPT ![own[m].c] = {IF e \in Optimistic(own[m].c, m) THEN [e EXCEPT !.status = "failed"] ELSE e : e \in @}]
  /\ UNCHANGED <<serverVars, unread, screen, fetches, own, sends, upload, last, seen>>

\* Mutant: a receipt marks every message of the chat.
ReceiveRead_Chat(m) ==
  /\ Handled("read", m)
  /\ store' = [store EXCEPT ![own[m].c] = {[e EXCEPT !.read = TRUE] : e \in @}]
  /\ UNCHANGED <<serverVars, unread, screen, fetches, writing, seen>>
\* markMessagesRead knows a message by the server's id.
ReceiveRead(m) ==
  /\ Handled("read", m)
  /\ store' = [c \in Chats |-> {IF e \in Found(c, m) THEN [e EXCEPT !.read = TRUE] ELSE e : e \in store[c]}]
  /\ UNCHANGED <<serverVars, unread, screen, fetches, writing, seen>>

------------------------------------------------------------------------------
(* Writing. *)

\* Messages of this account whose picture is being uploaded, and those it may still write.
Uploading == IF upload = Nothing THEN {} ELSE ToSet(upload.left)
Unwritten == Own \ (DOMAIN own \cup {s.m : s \in sends} \cup Uploading)
\* sendingRef of the page that is mounted, or of the one that was left.
Sending(mounted) == \E s \in sends : s.mounted = mounted

\* The menu of a message of others on the page; the button that takes the reply back.
ReplyTo(m) == /\ Mounted /\ m \in Incoming \cap Shown(screen.route.c) /\ screen.reply # m
              /\ screen' = [screen EXCEPT !.reply = m]
              /\ UNCHANGED <<serverVars, store, unread, fetches, writing, net, seen>>
CancelReply == /\ screen.reply # Nothing
               /\ screen' = [screen EXCEPT !.reply = Nothing]
               /\ UNCHANGED <<serverVars, store, unread, fetches, writing, net, seen>>

\* sendMessage up to the encryption: to the chat and with the reply of the page as it is now.  Message
\* privacy is off: protectPresentationText returns at once.
Compose(m, c, quote, mounted) ==
  /\ sends' = sends \cup {[m |-> m, c |-> c, quote |-> quote, mounted |-> mounted]}
  /\ last' = m
SendText(m) == /\ Mounted /\ m \in Text \cap Unwritten /\ ~Sending(TRUE)
               /\ Compose(m, screen.route.c, screen.reply, TRUE)
               /\ UNCHANGED <<serverVars, store, unread, screen, fetches, own, upload, outbox, net, seen>>

\* It is encrypted, queued for the socket and shown at once; the reply of the page is taken back.
Queued(m) == [m |-> m, key |-> "client", tagged |-> TRUE, status |-> "queued", read |-> FALSE]
Encrypted(s) == /\ s \in sends
                /\ sends' = sends \ {s}
                /\ own' = [m \in DOMAIN own \cup {s.m} |-> IF m = s.m THEN [c |-> s.c, quote |-> s.quote] ELSE own[m]]
                /\ outbox' = outbox \cup {s.m}
                /\ ShowStore(SetStore(s.c, store[s.c] \cup {Queued(s.m)}))
                /\ screen' = IF s.mounted THEN [screen EXCEPT !.reply = Nothing] ELSE screen
                /\ UNCHANGED <<dropped, aged, unread, fetches, upload, last, net>>

\* Keys are missing or the encryption fails: nothing is sent; the text goes back into the input, and
\* __pendingMsg is cleared, whosever it is.
SendFails(s) == /\ s \in sends /\ Event
                /\ sends' = sends \ {s} /\ last' = Nothing
                /\ UNCHANGED <<serverVars, store, unread, screen, fetches, own, upload, outbox, up, wire, queue, seen>>

\* handleImageUpload, handleVideoUpload and handleFileUpload: one upload after the other, but their
\* sends are not awaited: a picture that is uploaded while another message is being encrypted is
\* not sent, and nobody is told.
Picks == {ms \in SeqOf(Picture, MAX_IMAGES_PER_SEND) : ms # << >> /\ IsInjective(ms)}
PickFiles(ms) ==
  /\ Mounted /\ upload = Nothing /\ ToSet(ms) \subseteq Unwritten
  /\ upload' = [c |-> screen.route.c, quote |-> screen.reply, left |-> ms, mounted |-> TRUE]
  /\ UNCHANGED <<serverVars, store, unread, screen, fetches, own, sends, outbox, last, net, seen>>
NextImage == upload' = IF Len(upload.left) = 1 THEN Nothing ELSE [upload EXCEPT !.left = Tail(@)]
Uploaded ==
  /\ upload # Nothing /\ NextImage
  /\ IF Sending(upload.mounted) THEN UNCHANGED <<sends, last>>
       ELSE Compose(Head(upload.left), upload.c, upload.quote, upload.mounted)
  /\ UNCHANGED <<serverVars, store, unread, screen, fetches, own, outbox, net, seen>>
UploadFails == /\ upload # Nothing /\ Event /\ NextImage
               /\ UNCHANGED <<serverVars, store, unread, screen, fetches, own, sends, outbox, last, up, wire, queue, seen>>

------------------------------------------------------------------------------
(* The server, the others, the network and the clock. *)

NewRow(m) == rows' = [k \in Kept \cup {m} |-> IF k = m THEN [read |-> FALSE] ELSE rows[k]]

\* Another account writes: the row is stored, and pushed if the socket is there.
OthersSend(m) == /\ m \notin Kept \cup dropped
                 /\ NewRow(m)
                 /\ IF up THEN Push("message", m, FALSE) ELSE UNCHANGED wire
                 /\ UNCHANGED <<dropped, aged, store, unread, screen, fetches, writing, up, queue, budget, seen>>

\* A queued message reaches the server, again on every socket until it is answered: it is stored
\* once and acknowledged later, or, in a group, refused.
Waiting(m) == /\ m \in outbox /\ up
              /\ \A i \in DOMAIN wire : ~(wire[i].m = m /\ wire[i].t \in {"ack", "failed"})
StoreOwn(m) == /\ Waiting(m) /\ m \notin Kept \cup dropped
               /\ NewRow(m)
               /\ UNCHANGED <<dropped, aged, store, unread, screen, fetches, writing, net, seen>>
AckOwn(m) == /\ Waiting(m) /\ m \in Kept \cup dropped
             /\ Push("ack", m, FALSE)
             /\ UNCHANGED <<serverVars, store, unread, screen, fetches, writing, up, queue, budget, seen>>
RefuseOwn(m) == /\ Waiting(m) /\ m \notin Kept \cup dropped /\ own[m].c \in Group
                /\ Push("failed", m, FALSE)
                /\ UNCHANGED <<serverVars, store, unread, screen, fetches, writing, up, queue, budget, seen>>

\* The other one reads a private message; the receipt goes to the device if its socket is there,
\* also before the ack of the message, which the server sends after it looked at the heartbeat.
PeerReads(m) == /\ m \in Kept \cap Own /\ own[m].c \in Private /\ ~rows[m].read /\ Event
                /\ rows' = [rows EXCEPT ![m].read = TRUE]
                /\ IF up THEN Push("read", m, TRUE) ELSE UNCHANGED wire
                /\ UNCHANGED <<dropped, aged, store, unread, screen, fetches, writing, up, queue, seen>>

\* The flush of undelivered private rows and the catch-up replay rows, whether the device has
\* them or not; the flush does not carry own messages.
Replay(m) == /\ up /\ Event /\ m \in Kept
             /\ Push("replay", m, rows[m].read)
             /\ UNCHANGED <<serverVars, store, unread, screen, fetches, writing, up, queue, seen>>

\* Auto-delete time passes over a message of a chat that has it.
Expire(m) == /\ m \in Kept \ aged /\ ChatOf(m) \in Timed /\ Event
             /\ aged' = aged \cup {m}
             /\ UNCHANGED <<rows, dropped, store, unread, screen, fetches, writing, up, wire, queue, seen>>

\* The socket is lost with the frames that are not on the device yet.
Disconnect == /\ up /\ Event
              /\ up' = FALSE /\ wire' = << >>
              /\ UNCHANGED <<serverVars, store, unread, screen, fetches, writing, queue, seen>>
Connect == /\ ~up /\ up' = TRUE
           /\ UNCHANGED <<serverVars, store, unread, screen, fetches, writing, wire, queue, budget, seen>>

------------------------------------------------------------------------------
User == \/ \E c \in Chats : OpenChat(c)
        \/ GoBack \/ OpenAbout \/ ReloadHistory
        \/ \E m \in Incoming : ReplyTo(m)
        \/ CancelReply
        \/ \E m \in Text : SendText(m)
        \/ \E ms \in Picks : PickFiles(ms)
Client == \/ \E l \in fetches : MergeHistory(l) \/ LoadFails(l)
          \/ EnqueueSequenced \/ Receive
          \/ \E m \in Own : ReceiveAck(m) \/ ReceiveFailed(m) \/ ReceiveRead(m)
          \/ \E s \in sends : Encrypted(s) \/ SendFails(s)
          \/ Uploaded \/ UploadFails \/ Cleanup
Server == \/ \E l \in fetches : AnswerHistory(l)
          \/ \E m \in Own : StoreOwn(m) \/ AckOwn(m) \/ RefuseOwn(m)
          \/ \E m \in Message : Replay(m) \/ Expire(m)
Environment == \/ \E m \in Incoming : OthersSend(m)
               \/ \E m \in Own : PeerReads(m)
               \/ Disconnect \/ Connect
ChatNext == User \/ Client \/ Server \/ Environment
ChatSpec == ChatInit /\ [][ChatNext]_chatVars

------------------------------------------------------------------------------
ChatTypeOK ==
  /\ Kept \subseteq Message /\ rows \in [Kept -> [read : BOOLEAN]]
  /\ dropped \cup aged \cup seen \subseteq Message /\ Kept \cap dropped = {}
  /\ DOMAIN own \subseteq Own /\ own \in [DOMAIN own -> [c : Chats, quote : Incoming \cup {Nothing}]]
  /\ store \in [Chats -> SUBSET ChatEntry] /\ unread \in [Chats -> Nat]
  /\ screen \in [route : Route, reply : Incoming \cup {Nothing}]
  /\ fetches \subseteq [c : Chats, step : {"asked", "answered"}, page : SUBSET ChatEntry]
  /\ sends \subseteq Send /\ outbox \subseteq DOMAIN own /\ last \in Own \cup {Nothing}
  /\ upload \in [c : Chats, quote : Incoming \cup {Nothing}, left : Seq(Picture), mounted : BOOLEAN] \cup {Nothing}
  /\ up \in BOOLEAN /\ wire \in Seq(Frame) /\ queue \in Seq(Frame)
  /\ budget \in [loads : 0 .. MaxLoads, events : 0 .. MaxEvents]
  \* One page runs one sendMessage at a time.
  /\ \A s, t \in sends : s # t => s.mounted # t.mounted

\* A badge counts messages that exist, each once, and none the user has had on the screen
\* (unless it expired and was pushed again),
\* although rows are replayed and a chat is opened while messages are being decrypted.
BadgeHonest == \A c \in Chats :
  /\ On(c) => unread[c] = 0
  /\ unread[c] <= Cardinality({m \in Incoming \cap (Kept \cup dropped) : Home[m] = c /\ m \notin seen \ aged})

\* The server says a message was read only if it was on the reader's screen.
ReadMeansSeen == \A m \in Kept \cap Incoming : rows[m].read => m \in seen

\* What own messages show is so: the ticks, read, stored, or refused for good, and the quote, which
\* is of a message of their chat.
TicksAreTrue == \A c \in Chats : \A e \in store[c] : e.m \in Own =>
  /\ own[e.m].quote = Nothing \/ Home[own[e.m].quote] = c
  /\ e.read => e.m \in dropped \/ (e.m \in Kept /\ rows[e.m].read)
  /\ e.status = "sent" => e.m \in Kept \cup dropped
  /\ e.status = "failed" => e.m \notin Kept \cup dropped \cup outbox

\* Once its answer was handled no entry of a message is left in the queue, whatever was sent, loaded,
\* replayed or opened between the message and its answer, but for an entry of a group beside which
\* the chat shows the message a second time, as the server has it: a row of the history that a replay
\* gave the client id takes the ack in its place.
AnswerSettles == \A c \in Chats : \A e \in store[c] :
  e.m \in Own \ outbox => \/ e.status # "queued" /\ (e.key = "client" => e.status = "failed")
                          \/ c \in Group /\ Found(c, e.m) # {}

\* What a chat shows stays there until it expires: a history page that was read earlier takes
\* nothing away that came while it was on its way.
ShownStays == [][\A c \in Chats : Shown(c) \ aged \subseteq Shown(c)']_chatVars
=============================================================================
