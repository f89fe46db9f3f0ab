---------------------------- MODULE CallsProofs ----------------------------
(***************************************************************************)
(* Theorems about what the sockets carry besides messages: the registry    *)
(* and presence of an account (Connections), direct calls (DirectCalls)    *)
(* and meetings (GroupCalls).                                              *)
(***************************************************************************)
EXTENDS Connections, DirectCalls, GroupCalls, FiniteSetTheorems, TLAPS

-----------------------------------------------------------------------------
(* Presence.  Each of the three marks of an account that is online has a   *)
(* socket whose task is going to look at it: a task that finds the set not *)
(* empty leaves this to the sockets in it.                                 *)

\* The sockets that are to clear is_online, and further the two keys in Redis.
Answerable == {"inserted", "registered", "marked", "cached", "live",
               "emptied", "forgotten", "removed", "leaving"}
Somebody(steps) == \E c \in Conns : pc[c] \in steps

\* The set of the account holds sockets that have still to clean up.
InnerInv == \A c \in inner : pc[c] \in {"inserted", "registered", "marked", "cached", "live"}
PresenceInv ==
  ~ghost => /\ is_online => Somebody(Answerable)
            /\ online => Somebody(Answerable \cup {"unmarked"})
            /\ heartbeat => Somebody(Answerable \cup {"unmarked", "uncached"})
ConnInv == ConnTypeOK /\ InnerInv /\ PresenceInv

\* Each step moves one socket on, and leaves somebody who answers for each mark that stays.
LEMMA ConnStepInv == ConnInv /\ [ConnNext]_connVars => ConnInv'
<1> SUFFICES ASSUME ConnInv, [ConnNext]_connVars
             PROVE  ConnInv'
  OBVIOUS
<1> USE ConnAssumption DEF ConnInv, ConnTypeOK, InnerInv, PresenceInv, Somebody, Answerable, Steps,
                           ConnStep, registry, presence
<1>1. ASSUME NEW c \in Conns, Authenticate(c)
      PROVE  ConnInv'
  <2>1. CASE RegisterInner(c)
    BY <2>1 DEF RegisterInner
  <2>2. CASE RegisterSender(c)
    BY <2>2 DEF RegisterSender
  <2>3. CASE MarkOnline(c)
    BY <2>3 DEF MarkOnline
  <2>4. CASE CacheOnline(c)
    BY <2>4 DEF CacheOnline
  <2>5. CASE FirstHeartbeat(c)
    BY <2>5 DEF FirstHeartbeat
  <2> QED
    BY <1>1, <2>1, <2>2, <2>3, <2>4, <2>5 DEF Authenticate
<1>2. ASSUME NEW c \in Conns, Ping(c)
      PROVE  ConnInv'
  BY <1>2 DEF Ping
<1>3. ASSUME NEW c \in Conns, CleanUp(c)
      PROVE  ConnInv'
  <2>1. CASE RemoveInner(c)
    BY <2>1 DEF RemoveInner
  <2>2. CASE RemoveEntry(c)
    BY <2>2 DEF RemoveEntry
  <2>3. CASE RemoveSender(c)
    BY <2>3 DEF RemoveSender
  <2>4. CASE CheckOnline(c)
    BY <2>4 DEF CheckOnline
  <2>5. CASE MarkOffline(c)
    BY <2>5 DEF MarkOffline
  <2>6. CASE UncacheOnline(c)
    BY <2>6 DEF UncacheOnline
  <2>7. CASE DropHeartbeat(c)
    BY <2>7 DEF DropHeartbeat
  <2> QED
    BY <1>3, <2>1, <2>2, <2>3, <2>4, <2>5, <2>6, <2>7 DEF CleanUp
<1>4. CASE Expire
  <2>1. pc' = pc /\ UNCHANGED <<entry, inner, senders, is_online, ghost, restarts>>
    BY <1>4 DEF Expire
  <2>2. /\ online' \in BOOLEAN /\ heartbeat' \in BOOLEAN
        /\ online' => online
        /\ heartbeat' => heartbeat
    <3>1. CASE heartbeat' = FALSE /\ UNCHANGED online
      BY <3>1
    <3>2. CASE online' = FALSE /\ UNCHANGED heartbeat
      BY <3>2
    <3> QED
      BY <1>4, <3>1, <3>2 DEF Expire
  <2> QED
    BY <2>1, <2>2
<1>5. CASE Restart
  <2>1. pc' \in [Conns -> Steps] /\ restarts' \in 0..MaxRestarts
    BY <1>5 DEF Restart
  <2>2. entry' \in BOOLEAN /\ inner' = {} /\ senders' = {}
    BY <1>5 DEF Restart
  <2>3. ghost' \in BOOLEAN /\ UNCHANGED <<is_online, online, heartbeat>>
    BY <1>5 DEF Restart
  <2>4. ~ghost' => ~is_online' /\ ~online' /\ ~heartbeat'
    BY <1>5 DEF Restart
  <2> QED
    BY <2>1, <2>2, <2>3, <2>4
<1>6. CASE UNCHANGED connVars
  BY <1>6 DEF connVars
<1> QED
  BY <1>1, <1>2, <1>3, <1>4, <1>5, <1>6 DEF ConnNext

LEMMA ConnInvariance == ConnSpec => []ConnInv
<1>1. ConnInit => ConnInv
  <2> SUFFICES ASSUME ConnInit PROVE ConnInv
    OBVIOUS
  <2>1. ConnTypeOK
    <3>1. /\ pc \in [Conns -> Steps] /\ restarts \in 0..MaxRestarts
          /\ inner \subseteq Conns /\ inner = {} /\ senders \subseteq Conns
      BY ConnAssumption DEF ConnInit, Steps
    <3>2. /\ entry \in BOOLEAN /\ ghost \in BOOLEAN
          /\ is_online \in BOOLEAN /\ online \in BOOLEAN /\ heartbeat \in BOOLEAN
      BY DEF ConnInit
    <3> QED
      BY <3>1, <3>2 DEF ConnTypeOK
  <2>2. InnerInv /\ PresenceInv
    BY DEF ConnInit, InnerInv, PresenceInv
  <2> QED
    BY <2>1, <2>2 DEF ConnInv
<1> QED
  BY <1>1, ConnStepInv, PTL DEF ConnSpec

\* For any number of sockets and restarts: once the tasks of all sockets have ended, the account is
\* offline in MySQL and in Redis, unless the last restart left it online (register, remove and the
\* end of handle_socket in ws/server.rs).
THEOREM GoneIsOffline == ConnSpec => []OfflineWhenGone
<1>1. ConnInv => OfflineWhenGone
  BY DEF ConnInv, PresenceInv, Somebody, Answerable, OfflineWhenGone, Gone
<1> QED
  BY <1>1, ConnInvariance, PTL

-----------------------------------------------------------------------------
(* Direct calls.  With one attempt at a time, what an account is in or is   *)
(* entering is the room that roomRef names: so the clean-up of any call     *)
(* leaves it, and the next attempt begins when no other is under way.       *)

Progress == UnderWay \cup {"none", "in", "out"}
Screens == [state : {"idle", "outgoing", "incoming", "connecting", "connected", "error"},
            call : Call \cup {None}, ref : Call \cup {None}, timers : 0..MaxTimers]
FrameTypes == {"offer", "answer", "reject", "cancel", "end"}

OneAttempt(row) == \A c, e \in Call : row[c] \in UnderWay /\ row[e] \in UnderWay \cup {"in"} => c = e
RefNames(row, screen) == \A c \in Call : row[c] \in {"joining", "media", "in"} => screen.ref = c
\* A call may ring again while its own attempt comes to its end.
NotYetIn(row, screen) ==
  \A c \in Call : row[c] = "in" => screen.state # "idle" /\ (screen.state = "incoming" => screen.call = c)
Fine(row, screen) == OneAttempt(row) /\ RefNames(row, screen) /\ NotYetIn(row, screen)
RoomInv == \A d \in Account : Fine(at[d], ui[d])

Screened == ui \in [Account -> Screens] /\ at \in [Account -> [Call -> Progress]]
Wired == /\ down \in [Account -> Seq(Frame)]
         /\ todo \in [Account -> SUBSET Task]
         /\ pending \in [Account -> Call \cup {None}]
MediaTyped == sees \in [Account -> SUBSET Call] /\ retrying \in [Account -> SUBSET Call]

\* A step moves one account.
LEMMA OneMoves ==
  ASSUME Screened, RoomInv, NEW d \in Account, NEW row \in [Call -> Progress], NEW screen \in Screens,
         Fine(row, screen), at' = [at EXCEPT ![d] = row], ui' = [ui EXCEPT ![d] = screen]
  PROVE  Screened' /\ RoomInv'
<1>1. ASSUME NEW e \in Account
      PROVE  \/ at'[e] = at[e] /\ ui'[e] = ui[e]
             \/ at'[e] = row /\ ui'[e] = screen
  BY DEF Screened
<1>2. Screened'
  BY DEF Screened
<1>3. ASSUME NEW e \in Account
      PROVE  Fine(at'[e], ui'[e])
  BY <1>1 DEF RoomInv
<1> QED
  BY <1>2, <1>3 DEF RoomInv

\* What is left when an account leaves the room of roomRef.
Left(row, gone) == [c \in Call |-> IF c \notin gone THEN row[c] ELSE IF row[c] \in UnderWay THEN "dead" ELSE "out"]

LEMMA LeftFine ==
  ASSUME NEW row \in [Call -> Progress], NEW screen, NEW next, Fine(row, screen)
  PROVE  /\ Left(row, {screen.ref} \ {None}) \in [Call -> Progress]
         /\ Fine(Left(row, {screen.ref} \ {None}), next)
<1> DEFINE left == Left(row, {screen.ref} \ {None})
<1>1. left \in [Call -> Progress]
  BY DEF Left, Progress, UnderWay
<1>2. ASSUME NEW c \in Call
      PROVE  /\ left[c] \notin {"joining", "media", "in"}
             /\ left[c] \in UnderWay => row[c] \in UnderWay
  <2>1. CASE c = screen.ref
    <3>1. left[c] = IF row[c] \in UnderWay THEN "dead" ELSE "out"
      BY <2>1, CallAssumption DEF Left
    <3> QED
      BY <3>1 DEF UnderWay
  <2>2. CASE c # screen.ref
    <3>1. left[c] = row[c]
      BY <2>2 DEF Left
    <3> QED
      BY <2>2, <3>1 DEF Fine, RefNames
  <2> QED
    BY <2>1, <2>2
<1> HIDE DEF left
<1>3. OneAttempt(left)
  BY <1>2 DEF Fine, OneAttempt, UnderWay
<1>4. RefNames(left, next)
  BY <1>2 DEF RefNames
<1>5. NotYetIn(left, next)
  BY <1>2 DEF NotYetIn
<1>6. Fine(left, next)
  BY <1>3, <1>4, <1>5 DEF Fine
<1> QED
  BY <1>1, <1>6 DEF left

LEMMA NoneUnderWay ==
  ASSUME NEW row, OneAttempt(row), MaxAttempts = 1, Cardinality({e \in Call : row[e] \in UnderWay}) < MaxAttempts
  PROVE  \A e \in Call : row[e] \notin UnderWay
<1> SUFFICES ASSUME NEW c \in Call, row[c] \in UnderWay
             PROVE  FALSE
  OBVIOUS
<1>1. {e \in Call : row[e] \in UnderWay} = {c}
  BY DEF OneAttempt
<1>2. Cardinality({c}) = 1
  BY FS_Singleton
<1> QED
  BY <1>1, <1>2

\* An attempt begins.
LEMMA BegunFine ==
  ASSUME NEW row \in [Call -> Progress], NEW screen, NEW next, Fine(row, screen), MaxAttempts = 1, NEW c \in Call,
         Cardinality({e \in Call : row[e] \in UnderWay}) < MaxAttempts,
         screen.state = "idle" \/ (screen.state = "incoming" /\ screen.call = c)
  PROVE  Fine([row EXCEPT ![c] = "token"], next)
<1>1. \A e \in Call : row[e] \notin UnderWay
  BY NoneUnderWay DEF Fine
<1>2. ASSUME NEW e \in Call, row[e] = "in"
      PROVE  e = c
  <2>1. screen.state # "idle" /\ (screen.state = "incoming" => screen.call = e)
    BY <1>2 DEF Fine, NotYetIn
  <2> QED
    BY <2>1
<1>3. \A e \in Call : e # c => [row EXCEPT ![c] = "token"][e] \notin UnderWay \cup {"in"}
  BY <1>1, <1>2
<1>4. \A e \in Call : e # c => [row EXCEPT ![c] = "token"][e] \notin {"joining", "media", "in"}
  BY <1>3 DEF UnderWay
<1>5. [row EXCEPT ![c] = "token"][c] = "token"
  OBVIOUS
<1> QED
  BY <1>3, <1>4, <1>5 DEF Fine, OneAttempt, RefNames, NotYetIn

LEMMA SendTyped ==
  ASSUME Wired, NEW d \in Account, NEW c \in Call, NEW t \in FrameTypes, NEW queues \in [Account -> Seq(Frame)],
         Send(d, t, c, queues)
  PROVE  Wired'
<1>1. Peer(d, c) \in Account
  BY CallAssumption DEF Peer
<1>2. [t |-> t, c |-> c] \in Frame
  BY DEF Frame, FrameTypes
<1>3. down' \in [Account -> Seq(Frame)]
  <2>1. CASE down' = queues
    BY <2>1
  <2>2. CASE down' = [queues EXCEPT ![Peer(d, c)] = Append(queues[Peer(d, c)], [t |-> t, c |-> c])]
    BY <1>1, <1>2, <2>2
  <2> QED
    BY <2>1, <2>2 DEF Send
<1>4. CASE UNCHANGED <<todo, pending>>
  BY <1>3, <1>4 DEF Wired
<1>5. CASE todo' = [todo EXCEPT ![d] = @ \cup {[t |-> "store", c |-> c]}] /\ pending' = pending
  <2>1. [t |-> "store", c |-> c] \in Task
    BY DEF Task
  <2> QED
    BY <1>3, <1>5, <2>1 DEF Wired
<1>6. CASE /\ todo' = [todo EXCEPT ![d] = {k \in @ : k.t # "store"}]
           /\ pending' = [a \in Account |->
                 IF a = d \/ (t # "answer" /\ a = Peer(d, c)) THEN None
                 ELSE IF \E k \in todo[d] : k.t = "store" /\ a = Peer(d, k.c)
                   THEN (CHOOSE k \in todo[d] : k.t = "store" /\ a = Peer(d, k.c)).c ELSE pending[a]]
  <2>1. todo' \in [Account -> SUBSET Task]
    BY <1>6 DEF Wired
  <2>2. ASSUME NEW a \in Account, \E k \in todo[d] : k.t = "store" /\ a = Peer(d, k.c)
        PROVE  (CHOOSE k \in todo[d] : k.t = "store" /\ a = Peer(d, k.c)).c \in Call
    <3> DEFINE k == CHOOSE k \in todo[d] : k.t = "store" /\ a = Peer(d, k.c)
    <3>1. k \in todo[d] /\ k.t = "store"
      BY <2>2
    <3>2. todo[d] \subseteq Task
      BY DEF Wired
    <3> HIDE DEF k
    <3>3. k.c \in Call
      BY <3>1, <3>2 DEF Task
    <3> QED
      BY <3>3 DEF k
  <2>3. pending' \in [Account -> Call \cup {None}]
    BY <1>6, <2>2 DEF Wired
  <2> QED
    BY <1>3, <2>1, <2>3 DEF Wired
<1> QED
  BY <1>4, <1>5, <1>6 DEF Send

\* The clean-up of a call, and of a room object that has disconnected.
LEMMA CleanedUp ==
  ASSUME Screened, RoomInv, NEW d \in Account, NEW screen \in Screens,
         ui' = [ui EXCEPT ![d] = screen], Leave(d, Held(d))
  PROVE  Screened' /\ RoomInv'
<1>1. at' = [at EXCEPT ![d] = Left(at[d], {ui[d].ref} \ {None})]
  BY DEF Leave, Left, Held
<1>2. at[d] \in [Call -> Progress] /\ Fine(at[d], ui[d])
  BY DEF Screened, RoomInv
<1>3. /\ Left(at[d], {ui[d].ref} \ {None}) \in [Call -> Progress]
      /\ Fine(Left(at[d], {ui[d].ref} \ {None}), screen)
  BY <1>2, LeftFine
<1> QED
  BY <1>1, <1>3, OneMoves

\* Of a step of account d that leaves its attempts alone.
LEMMA ScreenMoves ==
  ASSUME Screened, RoomInv, NEW d \in Account, NEW screen \in Screens, at' = at, ui' = [ui EXCEPT ![d] = screen],
         screen.ref = ui[d].ref, NotYetIn(at[d], screen)
  PROVE  Screened' /\ RoomInv'
<1>1. at[d] \in [Call -> Progress] /\ Fine(at[d], ui[d]) /\ at' = [at EXCEPT ![d] = at[d]]
  BY DEF Screened, RoomInv
<1>2. Fine(at[d], screen)
  BY <1>1 DEF Fine, RefNames
<1> QED
  BY <1>1, <1>2, OneMoves

LEMMA CallsStepInv ==
  ASSUME MaxAttempts = 1, TypeOK, RoomInv, [Next]_vars
  PROVE  TypeOK' /\ RoomInv'
<1> DEFINE Rest1 == link' \in [Account -> BOOLEAN] /\ faults' \in 0..MaxFaults /\ MediaTyped'
<1>1. /\ Screened /\ Wired /\ MediaTyped /\ link \in [Account -> BOOLEAN] /\ faults \in 0..MaxFaults
      /\ MaxFaults \in Nat /\ MaxTimers \in Nat
  BY BoundAssumption DEF TypeOK, Screened, Wired, MediaTyped, Screens, Progress
<1>2. ASSUME Screened', RoomInv', Wired', Rest1
      PROVE  TypeOK' /\ RoomInv'
  BY <1>2 DEF TypeOK, Screened, Wired, MediaTyped, Screens, Progress
<1> HIDE DEF Rest1
<1>3. ASSUME NEW d \in Account
      PROVE  /\ ui[d] \in Screens /\ at[d] \in [Call -> Progress] /\ Fine(at[d], ui[d])
             /\ ui[d].call \in Call \cup {None} /\ ui[d].ref \in Call \cup {None} /\ ui[d].timers \in 0..MaxTimers
             /\ sees[d] \subseteq Call /\ retrying[d] \subseteq Call
             /\ down[d] \in Seq(Frame) /\ todo[d] \subseteq Task /\ pending[d] \in Call \cup {None}
  BY <1>1 DEF Screened, Wired, MediaTyped, RoomInv, Screens
<1>4. ASSUME UNCHANGED wire
      PROVE  Wired'
  BY <1>1, <1>4 DEF wire, Wired
<1>5. ASSUME UNCHANGED <<sees, retrying, link, faults>>
      PROVE  Rest1
  BY <1>1, <1>5 DEF Rest1, MediaTyped
<1>6. ASSUME NEW d \in Account
      PROVE  Cleared(d) \in Screens
  <2>1. Cleared(d) = [state |-> "idle", call |-> None, ref |-> None, timers |-> ui[d].timers]
    BY DEF Cleared, Idle
  <2> QED
    BY <1>3, <2>1 DEF Screens
<1>7. ASSUME NEW d \in Account, NEW gone, Disconnect(d, gone)
      PROVE  MediaTyped'
  BY <1>1, <1>7 DEF Disconnect, Leave, MediaTyped
<1>8. ASSUME NEW d \in Account, Cleanup(d)
      PROVE  Screened' /\ RoomInv' /\ MediaTyped'
  BY <1>1, <1>6, <1>7, <1>8, CleanedUp DEF Cleanup, Disconnect
<1>9. ASSUME UNCHANGED calls
      PROVE  Screened' /\ RoomInv' /\ MediaTyped'
  BY <1>1, <1>9 DEF calls, Screened, RoomInv, MediaTyped
\* The user.
<1>10. ASSUME NEW d \in Account, NEW c \in Call, NEW screen \in Screens, BeginConnect(d, c),
              ui[d].state = "idle" \/ (ui[d].state = "incoming" /\ ui[d].call = c), ui' = [ui EXCEPT ![d] = screen]
       PROVE  TypeOK' /\ RoomInv'
  <2>1. at' = [at EXCEPT ![d] = [at[d] EXCEPT ![c] = "token"]]
    BY <1>1, <1>10 DEF BeginConnect, Screened
  <2>2. [at[d] EXCEPT ![c] = "token"] \in [Call -> Progress]
    BY <1>3 DEF Progress, UnderWay
  <2>3. Fine([at[d] EXCEPT ![c] = "token"], screen)
    BY <1>3, <1>10, BegunFine DEF BeginConnect
  <2>4. Screened' /\ RoomInv'
    BY <1>1, <1>10, <2>1, <2>2, <2>3, OneMoves
  <2> QED
    BY <1>2, <1>4, <1>5, <1>10, <2>4 DEF BeginConnect
<1>11. ASSUME NEW d \in Account, NEW c \in Call, StartCall(d, c)
       PROVE  TypeOK' /\ RoomInv'
  <2> DEFINE screen == [[ui[d] EXCEPT !.state = "outgoing"] EXCEPT !.call = c]
  <2>1. screen \in Screens
    BY <1>3 DEF Screens
  <2>2. ui' = [ui EXCEPT ![d] = screen]
    BY <1>1, <1>11 DEF StartCall, Screened, Screens
  <2> HIDE DEF screen
  <2> QED
    BY <1>10, <1>11, <2>1, <2>2 DEF StartCall
<1>12. ASSUME NEW d \in Account, AcceptCall(d)
       PROVE  TypeOK' /\ RoomInv'
  <2> DEFINE screen == [ui[d] EXCEPT !.state = "connecting"]
  <2>1. screen \in Screens /\ screen.ref = ui[d].ref /\ screen.state = "connecting"
    BY <1>3 DEF Screens
  <2>2. ui' = [ui EXCEPT ![d] = screen]
    BY <1>1, <1>12 DEF AcceptCall, Screened, Screens
  <2> HIDE DEF screen
  <2>3. CASE ui[d].call \in Call
    BY <1>10, <1>12, <2>1, <2>2, <2>3 DEF AcceptCall
  <2>4. CASE ui[d].call \notin Call
    <3>1. at' = at
      BY <1>1, <1>12, <2>4 DEF AcceptCall, BeginConnect, Screened
    <3>2. NotYetIn(at[d], screen)
      BY <1>3, <2>1 DEF Fine, NotYetIn
    <3>3. Screened' /\ RoomInv'
      BY <1>1, <2>1, <2>2, <3>1, <3>2, ScreenMoves
    <3> QED
      BY <1>2, <1>4, <1>5, <1>12, <3>3 DEF AcceptCall, BeginConnect
  <2> QED
    BY <2>3, <2>4
<1>13. ASSUME NEW d \in Account, NEW t \in FrameTypes \cup {""}, Finish(d, t)
       PROVE  TypeOK' /\ RoomInv'
  <2>1. Wired'
    <3>1. CASE UNCHANGED wire
      BY <1>4, <3>1
    <3>2. CASE t # "" /\ ui[d].call # None /\ Send(d, t, ui[d].call, down)
      <4>1. ui[d].call \in Call /\ t \in FrameTypes /\ down \in [Account -> Seq(Frame)]
        BY <1>1, <1>3, <3>2 DEF Wired
      <4> QED
        BY <1>1, <3>2, <4>1, SendTyped
    <3> QED
      BY <1>13, <3>1, <3>2 DEF Finish
  <2>2. Screened' /\ RoomInv' /\ MediaTyped'
    BY <1>8, <1>13 DEF Finish
  <2>3. Rest1
    BY <1>1, <1>13, <2>2 DEF Finish, Rest1
  <2> QED
    BY <1>2, <2>1, <2>2, <2>3
<1>14. ASSUME NEW d \in Account, RejectCall(d) \/ CancelCall(d) \/ HangUp(d) \/ Dismiss(d)
       PROVE  TypeOK' /\ RoomInv'
  <2>1. {"reject", "cancel", "end", ""} \subseteq FrameTypes \cup {""}
    BY DEF FrameTypes
  <2> QED
    BY <1>13, <1>14, <2>1 DEF RejectCall, CancelCall, HangUp, Dismiss
\* An attempt.
<1>15. ASSUME NEW d \in Account, NEW c \in Call, NEW row \in [Call -> Progress], NEW screen \in Screens,
              at' = [at EXCEPT ![d] = row], ui' = [ui EXCEPT ![d] = screen], Fine(row, screen), Wired', Rest1
       PROVE  TypeOK' /\ RoomInv'
  BY <1>1, <1>2, <1>15, OneMoves
<1>16. ASSUME NEW d \in Account, NEW c \in Call, TokenGranted(d, c)
       PROVE  TypeOK' /\ RoomInv'
  <2> DEFINE row == [at[d] EXCEPT ![c] = "joining"]
             screen == [ui[d] EXCEPT !.ref = c]
  <2>1. screen \in Screens /\ screen.ref = c /\ screen.state = ui[d].state /\ screen.call = ui[d].call
    BY <1>3 DEF Screens
  <2>2. row \in [Call -> Progress] /\ row[c] = "joining" /\ \A e \in Call \ {c} : row[e] = at[d][e]
    BY <1>3 DEF Progress, UnderWay
  <2>3. at' = [at EXCEPT ![d] = row] /\ ui' = [ui EXCEPT ![d] = screen] /\ at[d][c] = "token"
    BY <1>1, <1>16 DEF TokenGranted, Screened, Screens
  <2> HIDE DEF row, screen
  <2>4. \A e \in Call \ {c} : row[e] \notin UnderWay \cup {"in"}
    BY <1>3, <2>2, <2>3 DEF Fine, OneAttempt, UnderWay
  <2>5. Fine(row, screen)
    BY <2>1, <2>2, <2>4 DEF Fine, OneAttempt, RefNames, NotYetIn, UnderWay
  <2> QED
    BY <1>4, <1>5, <1>15, <1>16, <2>1, <2>2, <2>3, <2>5 DEF TokenGranted
<1>17. ASSUME NEW d \in Account, NEW c \in Call, JoinRoom(d, c)
       PROVE  TypeOK' /\ RoomInv'
  <2> DEFINE row == [at[d] EXCEPT ![c] = "media"]
  <2>1. PICK screen \in Screens : /\ ui' = [ui EXCEPT ![d] = screen]
                                  /\ screen.ref = ui[d].ref
    <3>1. ui[d] \in Screens /\ [ui[d] EXCEPT !.state = "connected"] \in Screens
      BY <1>3 DEF Screens
    <3>2. [ui[d] EXCEPT !.state = "connected"].ref = ui[d].ref
      BY <1>3 DEF Screens
    <3>3. \/ ui' = [ui EXCEPT ![d] = [ui[d] EXCEPT !.state = "connected"]]
          \/ ui' = [ui EXCEPT ![d] = ui[d]]
      BY <1>1, <1>17 DEF JoinRoom, Screened
    <3> QED
      BY <3>1, <3>2, <3>3
  <2>2. row \in [Call -> Progress] /\ row[c] = "media" /\ \A e \in Call \ {c} : row[e] = at[d][e]
    BY <1>3 DEF Progress, UnderWay
  <2>3. at' = [at EXCEPT ![d] = row] /\ at[d][c] = "joining"
    BY <1>1, <1>17 DEF JoinRoom, Screened
  <2> HIDE DEF row
  <2>4. ui[d].ref = c /\ \A e \in Call \ {c} : row[e] \notin UnderWay \cup {"in"}
    BY <1>3, <2>2, <2>3 DEF Fine, OneAttempt, RefNames, UnderWay
  <2>5. Fine(row, screen)
    BY <2>1, <2>2, <2>4 DEF Fine, OneAttempt, RefNames, NotYetIn, UnderWay
  <2>6. Rest1
    <3>1. MediaTyped'
      BY <1>1, <1>17 DEF JoinRoom, MediaTyped
    <3> QED
      BY <1>1, <1>17, <3>1 DEF JoinRoom, Rest1
  <2> QED
    BY <1>4, <1>15, <1>17, <2>1, <2>2, <2>3, <2>5, <2>6 DEF JoinRoom
\* The attempt for c is over, in the room if the microphone was awaited.
<1>18. ASSUME NEW d \in Account, NEW c \in Call, at[d][c] \in UnderWay
       PROVE  LET row == [at[d] EXCEPT ![c] = IF at[d][c] = "media" THEN "in" ELSE "out"] IN
              /\ row \in [Call -> Progress] /\ OneAttempt(row) /\ RefNames(row, ui[d])
              /\ \A e \in Call : row[e] \notin UnderWay /\ (row[e] = "in" => e = c /\ at[d][c] = "media")
  <2> DEFINE row == [at[d] EXCEPT ![c] = IF at[d][c] = "media" THEN "in" ELSE "out"]
  <2>1. row \in [Call -> Progress] /\ row[c] = (IF at[d][c] = "media" THEN "in" ELSE "out")
        /\ \A e \in Call \ {c} : row[e] = at[d][e]
    BY <1>3 DEF Progress, UnderWay
  <2> HIDE DEF row
  <2>2. \A e \in Call \ {c} : row[e] \notin UnderWay \cup {"in"}
    BY <1>3, <1>18, <2>1 DEF Fine, OneAttempt, UnderWay
  <2>3. \A e \in Call : row[e] \notin UnderWay /\ (row[e] = "in" => e = c /\ at[d][c] = "media")
    BY <2>1, <2>2 DEF UnderWay
  <2>4. RefNames(row, ui[d])
    BY <1>3, <2>3 DEF Fine, RefNames, UnderWay
  <2>5. OneAttempt(row)
    BY <2>3 DEF OneAttempt
  <2> QED
    BY <2>1, <2>3, <2>4, <2>5 DEF row
<1>19. ASSUME NEW d \in Account, NEW c \in Call, ConnectFails(d, c)
       PROVE  TypeOK' /\ RoomInv'
  <2> DEFINE row == [at[d] EXCEPT ![c] = IF at[d][c] = "media" THEN "in" ELSE "out"]
             shown == IF Unconnected(d, c) THEN Cleared(d) ELSE ui[d]
             screen == [shown EXCEPT !.state = "error", !.timers = @ + 1]
  <2>1. ui[d].timers + 1 \in 0..MaxTimers
    BY <1>1, <1>3, <1>19 DEF ConnectFails
  <2>2. /\ screen \in Screens /\ screen.state = "error"
        /\ screen.ref = ui[d].ref \/ (screen.ref = None /\ at[d][c] = "joining")
    <3>1. /\ shown \in Screens /\ shown.timers = ui[d].timers
          /\ shown.ref = ui[d].ref \/ (shown.ref = None /\ at[d][c] = "joining")
      BY <1>3 DEF Screens, Cleared, Idle, Unconnected
    <3> QED
      BY <2>1, <3>1 DEF Screens
  <2>3. at' = [at EXCEPT ![d] = row] /\ at[d][c] \in UnderWay
    BY <1>1, <1>19 DEF ConnectFails, Screened
  <2>4. ui' = [ui EXCEPT ![d] = screen]
    BY <1>19 DEF ConnectFails
  <2>5. /\ row \in [Call -> Progress] /\ OneAttempt(row) /\ RefNames(row, ui[d])
        /\ \A e \in Call : row[e] \notin UnderWay /\ (row[e] = "in" => at[d][c] = "media")
    BY <1>18, <2>3
  <2> HIDE DEF row, screen, shown
  <2>6. Fine(row, screen)
    <3>1. RefNames(row, screen)
      BY <2>2, <2>5 DEF RefNames, UnderWay
    <3> QED
      BY <2>2, <2>5, <3>1 DEF Fine, NotYetIn
  <2>7. Wired'
    <3>1. CASE UNCHANGED wire
      BY <1>4, <3>1
    <3>2. CASE Send(d, "reject", c, down)
      <4>1. "reject" \in FrameTypes /\ down \in [Account -> Seq(Frame)]
        BY <1>1 DEF FrameTypes, Wired
      <4> QED
        BY <1>1, <3>2, <4>1, SendTyped
    <3> QED
      BY <1>19, <3>1, <3>2 DEF ConnectFails
  <2>8. faults' \in 0..MaxFaults
    BY <1>1, <1>19 DEF ConnectFails
  <2>9. Rest1
    BY <1>1, <1>19, <2>8 DEF ConnectFails, Rest1, MediaTyped
  <2> QED
    BY <1>15, <2>2, <2>3, <2>4, <2>5, <2>6, <2>7, <2>9
<1>20. ASSUME NEW d \in Account, NEW c \in Call, ConnectedLate(d, c)
       PROVE  TypeOK' /\ RoomInv'
  <2> DEFINE over == [at[d] EXCEPT ![c] = IF at[d][c] = "media" THEN "in" ELSE "out"]
             row == [e \in Call |-> IF e \notin Held(d) THEN over[e] ELSE
                                      IF e # c /\ over[e] \in UnderWay THEN "dead" ELSE "out"]
             screen == [ui[d] EXCEPT !.ref = None]
  <2>1. screen \in Screens
    BY <1>3 DEF Screens
  <2>2. at[d][c] \in UnderWay
    BY <1>20 DEF ConnectedLate, UnderWay
  <2>3. ui' = [ui EXCEPT ![d] = screen]
    BY <1>1, <1>20 DEF ConnectedLate, Screened, Screens
  <2>4. at' = [at EXCEPT ![d] = row]
    BY <1>1, <1>20 DEF ConnectedLate, Over, Screened
  <2>5. /\ over \in [Call -> Progress] /\ RefNames(over, ui[d])
        /\ \A e \in Call : over[e] \notin UnderWay /\ (over[e] = "in" => e = c /\ at[d][c] = "media")
    BY <1>18, <2>2
  <2> HIDE DEF over, screen
  <2>6. \A e \in Call : row[e] \notin UnderWay \cup {"in"}
    <3> SUFFICES ASSUME NEW e \in Call
                 PROVE  row[e] \notin UnderWay \cup {"in"}
      OBVIOUS
    <3>1. over[e] = "in" => e \in Held(d)
      BY <2>5, CallAssumption DEF RefNames, Held
    <3> QED
      BY <2>5, <3>1 DEF UnderWay
  <2>7. row \in [Call -> Progress]
    BY <2>5 DEF Progress, UnderWay
  <2> HIDE DEF row
  <2>8. Fine(row, screen)
    BY <2>6 DEF Fine, OneAttempt, RefNames, NotYetIn, UnderWay
  <2>9. Rest1
    BY <1>1, <1>20 DEF ConnectedLate, Rest1, MediaTyped
  <2> QED
    BY <1>4, <1>15, <1>20, <2>1, <2>3, <2>4, <2>7, <2>8, <2>9 DEF ConnectedLate
<1>21. ASSUME NEW d \in Account, NEW c \in Call, Connected(d, c)
       PROVE  TypeOK' /\ RoomInv'
  <2> DEFINE row == [at[d] EXCEPT ![c] = IF at[d][c] = "media" THEN "in" ELSE "out"]
  <2>1. at[d][c] \in UnderWay /\ ui[d].call = c /\ ui[d].state # "idle"
    BY <1>21 DEF Connected, Outdated, UnderWay
  <2>2. at' = [at EXCEPT ![d] = row]
    BY <1>1, <1>21 DEF Connected, Over, Screened
  <2>3. PICK screen \in Screens : /\ ui' = [ui EXCEPT ![d] = screen] /\ screen.ref = ui[d].ref
                                  /\ screen.call = c /\ screen.state # "idle"
    <3>1. /\ [ui[d] EXCEPT !.state = "connected"] \in Screens /\ ui[d] \in Screens
          /\ [ui[d] EXCEPT !.state = "connected"].ref = ui[d].ref
          /\ [ui[d] EXCEPT !.state = "connected"].call = ui[d].call
          /\ [ui[d] EXCEPT !.state = "connected"].state = "connected"
      BY <1>3 DEF Screens
    <3>2. \/ ui' = [ui EXCEPT ![d] = [ui[d] EXCEPT !.state = "connected"]]
          \/ ui' = [ui EXCEPT ![d] = ui[d]]
      BY <1>1, <1>21 DEF Connected, Screened
    <3> QED
      BY <2>1, <3>1, <3>2
  <2>4. /\ row \in [Call -> Progress] /\ OneAttempt(row) /\ RefNames(row, ui[d])
        /\ \A e \in Call : row[e] = "in" => e = c
    BY <1>18, <2>1
  <2> HIDE DEF row
  <2>5. Fine(row, screen)
    BY <2>3, <2>4 DEF Fine, RefNames, NotYetIn
  <2>6. Wired'
    <3>1. /\ IF d = c.from THEN Send(d, "offer", c, down) ELSE Send(d, "answer", c, down)
          /\ {"offer", "answer"} \subseteq FrameTypes /\ down \in [Account -> Seq(Frame)]
      BY <1>1, <1>21 DEF Connected, FrameTypes, Wired
    <3> QED
      BY <1>1, <3>1, SendTyped
  <2>7. Rest1
    BY <1>1, <1>21 DEF Connected, Rest1, MediaTyped
  <2> QED
    BY <1>15, <2>2, <2>3, <2>4, <2>5, <2>6, <2>7
<1>22. ASSUME NEW d \in Account, TimerFires(d)
       PROVE  TypeOK' /\ RoomInv'
  <2> DEFINE screen == [Idle EXCEPT !.timers = ui[d].timers - 1]
  <2>1. screen = [state |-> "idle", call |-> None, ref |-> None, timers |-> ui[d].timers - 1]
    BY DEF Idle
  <2>2. ui[d].timers - 1 \in 0..MaxTimers
    BY <1>1, <1>3, <1>22 DEF TimerFires
  <2>3. screen \in Screens
    BY <2>1, <2>2 DEF Screens
  <2>4. ui' = [ui EXCEPT ![d] = screen]
    BY <1>22 DEF TimerFires
  <2> HIDE DEF screen
  <2>5. Screened' /\ RoomInv'
    BY <1>1, <1>22, <2>3, <2>4, CleanedUp DEF TimerFires, Disconnect
  <2>6. Rest1
    BY <1>1, <1>7, <1>22 DEF TimerFires, Rest1
  <2> QED
    BY <1>2, <1>4, <1>22, <2>5, <2>6 DEF TimerFires
\* LiveKit.  A step that shows another state on the screen, and no more of the call.
<1>23. ASSUME NEW d \in Account, NEW state \in {"connecting", "connected"}, at' = at, Wired', Rest1,
              ui' = ui \/ ui' = [ui EXCEPT ![d].state = state]
       PROVE  TypeOK' /\ RoomInv'
  <2>1. CASE ui' = ui
    <3>1. Screened' /\ RoomInv'
      BY <1>1, <1>23, <2>1 DEF Screened, RoomInv
    <3> QED
      BY <1>2, <1>23, <3>1
  <2>2. CASE ui' = [ui EXCEPT ![d].state = state]
    <3> DEFINE screen == [ui[d] EXCEPT !.state = state]
    <3>1. screen \in Screens /\ screen.ref = ui[d].ref /\ screen.state = state
      BY <1>3 DEF Screens
    <3>2. ui' = [ui EXCEPT ![d] = screen]
      BY <1>1, <2>2 DEF Screened
    <3> HIDE DEF screen
    <3>3. NotYetIn(at[d], screen)
      BY <1>3, <3>1 DEF Fine, NotYetIn
    <3>4. Screened' /\ RoomInv'
      BY <1>1, <1>23, <3>1, <3>2, <3>3, ScreenMoves
    <3> QED
      BY <1>2, <1>23, <3>4
  <2> QED
    BY <1>23, <2>1, <2>2
<1>24. ASSUME NEW d \in Account, NEW c \in Call,
              ParticipantConnected(d, c) \/ Reconnecting(d, c) \/ Reconnected(d, c)
       PROVE  TypeOK' /\ RoomInv'
  <2>1. /\ at' = at /\ link' = link /\ UNCHANGED wire
        /\ faults' = faults \/ (faults < MaxFaults /\ faults' = faults + 1)
    BY <1>24 DEF ParticipantConnected, Reconnecting, Reconnected
  <2>2. MediaTyped'
    BY <1>1, <1>24 DEF ParticipantConnected, Reconnecting, Reconnected, MediaTyped
  <2>3. faults' \in 0..MaxFaults
    BY <1>1, <2>1
  <2>4. Rest1
    BY <1>1, <2>1, <2>2, <2>3 DEF Rest1
  <2>5. \E state \in {"connecting", "connected"} : ui' = ui \/ ui' = [ui EXCEPT ![d].state = state]
    BY <1>24 DEF ParticipantConnected, Reconnecting, Reconnected
  <2> QED
    BY <1>4, <1>23, <2>1, <2>4, <2>5
<1>25. ASSUME NEW d \in Account, NEW c \in Call, ParticipantDisconnected(d, c)
       PROVE  TypeOK' /\ RoomInv'
  <2>1. Screened' /\ RoomInv'
    <3>1. CASE ui' = [ui EXCEPT ![d] = Cleared(d)] /\ Leave(d, Held(d))
      BY <1>1, <1>6, <3>1, CleanedUp
    <3>2. CASE UNCHANGED <<ui, at, retrying>>
      BY <1>1, <3>2 DEF Screened, RoomInv
    <3> QED
      BY <1>25, <3>1, <3>2 DEF ParticipantDisconnected
  <2>2. MediaTyped'
    <3>1. retrying' = retrying \/ retrying' = [retrying EXCEPT ![d] = @ \ Held(d)]
      BY <1>25 DEF ParticipantDisconnected, Leave
    <3> QED
      BY <1>1, <1>25, <3>1 DEF ParticipantDisconnected, MediaTyped
  <2>3. Rest1
    BY <1>1, <1>25, <2>2 DEF ParticipantDisconnected, Rest1
  <2> QED
    BY <1>2, <1>4, <1>25, <2>1, <2>3 DEF ParticipantDisconnected
<1>26. ASSUME NEW d \in Account, NEW c \in Call, RoomLost(d, c)
       PROVE  TypeOK' /\ RoomInv'
  <2>1. at[d][c] \in {"media", "in"} /\ ui[d].ref = c
    BY <1>3, <1>26 DEF RoomLost, Room, Fine, RefNames
  <2>2. Held(d) = {c}
    BY <2>1, CallAssumption DEF Held
  <2>3. PICK screen \in Screens : ui' = [ui EXCEPT ![d] = screen]
    <3>1. ui' = [ui EXCEPT ![d] = Cleared(d)] \/ ui' = [ui EXCEPT ![d] = ui[d]]
      BY <1>1, <1>26 DEF RoomLost, Screened
    <3> QED
      BY <1>3, <1>6, <3>1
  <2>4. Screened' /\ RoomInv'
    BY <1>1, <1>26, <2>2, <2>3, CleanedUp DEF RoomLost, Disconnect
  <2>5. faults' \in 0..MaxFaults
    BY <1>1, <1>26 DEF RoomLost
  <2>6. Rest1
    BY <1>1, <1>7, <1>26, <2>5 DEF RoomLost, Rest1
  <2> QED
    BY <1>2, <1>4, <1>26, <2>4, <2>6 DEF RoomLost
\* The frames.
<1>27. ASSUME NEW d \in Account, down[d] # <<>>
       PROVE  /\ Head(down[d]) \in Frame /\ Head(down[d]).c \in Call
              /\ Rest(d) \in [Account -> Seq(Frame)]
  <2>1. Head(down[d]) \in Frame /\ Tail(down[d]) \in Seq(Frame)
    BY <1>3, <1>27
  <2> QED
    BY <1>1, <2>1 DEF Frame, Rest, Wired
<1>28. ASSUME NEW d \in Account, ReceiveOffer(d)
       PROVE  TypeOK' /\ RoomInv'
  <2> DEFINE c == Head(down[d]).c
             screen == [[ui[d] EXCEPT !.state = "incoming"] EXCEPT !.call = c]
  <2>1. c \in Call /\ Rest(d) \in [Account -> Seq(Frame)]
    BY <1>27, <1>28 DEF ReceiveOffer, Arrives
  <2>2. Rest1
    BY <1>5, <1>28 DEF ReceiveOffer
  <2>3. CASE Send(d, "reject", c, Rest(d)) /\ UNCHANGED ui
    <3>1. Wired'
      BY <1>1, <2>1, <2>3, SendTyped DEF FrameTypes
    <3>2. Screened' /\ RoomInv'
      BY <1>1, <1>28, <2>3 DEF ReceiveOffer, Screened, RoomInv
    <3> QED
      BY <1>2, <2>2, <3>1, <3>2
  <2>4. CASE /\ ui[d].state = "idle" /\ down' = Rest(d) /\ UNCHANGED <<todo, pending>>
             /\ ui' = [ui EXCEPT ![d].state = "incoming", ![d].call = c]
    <3>1. Wired'
      BY <1>1, <2>1, <2>4 DEF Wired
    <3>2. screen \in Screens /\ screen.ref = ui[d].ref
      BY <1>3, <2>1 DEF Screens
    <3>3. ui' = [ui EXCEPT ![d] = screen]
      BY <1>1, <2>4 DEF Screened, Screens
    <3> HIDE DEF screen, c
    <3>4. NotYetIn(at[d], screen)
      BY <1>3, <2>4 DEF Fine, NotYetIn
    <3>5. Screened' /\ RoomInv'
      BY <1>1, <1>28, <3>2, <3>3, <3>4, ScreenMoves DEF ReceiveOffer
    <3> QED
      BY <1>2, <2>2, <3>1, <3>5
  <2> QED
    BY <1>28, <2>3, <2>4 DEF ReceiveOffer
<1>29. ASSUME NEW d \in Account, ReceiveAnswer(d)
       PROVE  TypeOK' /\ RoomInv'
  <2>1. Wired'
    BY <1>1, <1>27, <1>29 DEF ReceiveAnswer, Arrives, Wired
  <2>2. Rest1 /\ at' = at
    BY <1>5, <1>29 DEF ReceiveAnswer
  <2>3. \E state \in {"connecting", "connected"} : ui' = ui \/ ui' = [ui EXCEPT ![d].state = state]
    BY <1>29 DEF ReceiveAnswer
  <2> QED
    BY <1>23, <2>1, <2>2, <2>3
<1>30. ASSUME NEW d \in Account, FinishMatchingCall(d)
       PROVE  TypeOK' /\ RoomInv'
  <2>1. Screened' /\ RoomInv' /\ MediaTyped'
    BY <1>8, <1>9, <1>30 DEF FinishMatchingCall
  <2>2. Wired'
    BY <1>1, <1>27, <1>30 DEF FinishMatchingCall, Arrives, Wired
  <2>3. Rest1
    BY <1>1, <1>30, <2>1 DEF FinishMatchingCall, Rest1
  <2> QED
    BY <1>2, <2>1, <2>2, <2>3
\* The server.
<1>31. ASSUME UNCHANGED calls, Wired', link' \in [Account -> BOOLEAN], faults' \in 0..MaxFaults
       PROVE  TypeOK' /\ RoomInv'
  BY <1>2, <1>9, <1>31 DEF Rest1
<1>32. ASSUME NEW d \in Account, NEW k \in todo[d], StoreOffer(d, k)
       PROVE  TypeOK' /\ RoomInv'
  <2>1. k.c \in Call
    BY <1>3, <1>32 DEF StoreOffer, Task
  <2>2. pending' \in [Account -> Call \cup {None}]
    BY <1>1, <1>32, <2>1 DEF StoreOffer, Wired
  <2>3. Wired'
    BY <1>1, <1>32, <2>2 DEF StoreOffer, Wired
  <2> QED
    BY <1>1, <1>31, <1>32, <2>3 DEF StoreOffer
<1>33. ASSUME NEW d \in Account, OfferExpires(d)
       PROVE  TypeOK' /\ RoomInv'
  BY <1>1, <1>31, <1>33 DEF OfferExpires, Wired
<1>34. ASSUME NEW d \in Account, Connect(d)
       PROVE  TypeOK' /\ RoomInv'
  <2>1. [t |-> "lookup", c |-> None] \in Task
    BY DEF Task
  <2>2. Wired' /\ link' \in [Account -> BOOLEAN]
    BY <1>1, <1>34, <2>1 DEF Connect, Wired
  <2> QED
    BY <1>1, <1>31, <1>34, <2>2 DEF Connect
<1>35. ASSUME NEW d \in Account, NEW k \in todo[d], FlushGet(d, k)
       PROVE  TypeOK' /\ RoomInv'
  <2>1. [t : {"replay"}, c : {pending[d]} \ {None}] \subseteq Task
    BY <1>3 DEF Task
  <2>2. todo' \in [Account -> SUBSET Task]
    BY <1>1, <1>35, <2>1 DEF FlushGet, Wired
  <2>3. Wired'
    BY <1>1, <1>35, <2>2 DEF FlushGet, Wired
  <2> QED
    BY <1>1, <1>31, <1>35, <2>3 DEF FlushGet
<1>36. ASSUME NEW d \in Account, NEW k \in todo[d], FlushSend(d, k)
       PROVE  TypeOK' /\ RoomInv'
  <2>1. k.t = "replay" => k.c \in Call
    BY <1>3 DEF Task
  <2>2. down' \in [Account -> Seq(Frame)]
    <3>1. CASE k.t = "drop"
      BY <1>1, <1>36, <3>1 DEF FlushSend, Wired
    <3>2. CASE k.t = "replay"
      <4>1. [t |-> "offer", c |-> k.c] \in Frame
        BY <2>1, <3>2 DEF Frame
      <4> QED
        BY <1>1, <1>36, <3>2, <4>1 DEF FlushSend, Wired
    <3> QED
      BY <1>36, <3>1, <3>2 DEF FlushSend
  <2>3. Wired'
    BY <1>1, <1>36, <2>2 DEF FlushSend, Wired
  <2> QED
    BY <1>1, <1>31, <1>36, <2>3 DEF FlushSend
<1>37. ASSUME NEW d \in Account, SocketLost(d)
       PROVE  TypeOK' /\ RoomInv'
  <2> DEFINE after(k) == IF k.t \in {"store", "late"} THEN [k EXCEPT !.t = "late"] ELSE [t |-> "drop", c |-> None]
  <2>1. ASSUME NEW k \in Task
        PROVE  after(k) \in Task
    <3>1. CASE k.t \in {"store", "late"}
      BY <3>1 DEF Task
    <3>2. CASE k.t \notin {"store", "late"}
      BY <3>2 DEF Task
    <3> QED
      BY <3>1, <3>2
  <2>2. todo' = [todo EXCEPT ![d] = {after(k) : k \in todo[d]}]
    BY <1>37 DEF SocketLost
  <2> HIDE DEF after
  <2>3. todo' \in [Account -> SUBSET Task]
    BY <1>1, <1>3, <2>1, <2>2 DEF Wired
  <2>4. down' \in [Account -> Seq(Frame)]
    BY <1>1, <1>37 DEF SocketLost, Wired
  <2>5. Wired' /\ link' \in [Account -> BOOLEAN] /\ faults' \in 0..MaxFaults /\ UNCHANGED calls
    BY <1>1, <1>37, <2>3, <2>4 DEF SocketLost, Wired
  <2> QED
    BY <1>31, <2>5
<1>38. CASE UNCHANGED vars
  <2>1. UNCHANGED <<calls, wire, link, faults>>
    BY <1>38 DEF vars
  <2> QED
    BY <1>1, <1>4, <1>31, <2>1
<1> QED
  BY <1>11, <1>12, <1>14, <1>16, <1>17, <1>19, <1>20, <1>21, <1>22, <1>24, <1>25, <1>26, <1>28, <1>29, <1>30,
     <1>32, <1>33, <1>34, <1>35, <1>36, <1>37, <1>38 DEF Next, User, Attempt, Media, Receive, Server

LEMMA CallsInvariance ==
  ASSUME MaxAttempts = 1
  PROVE  Spec => [](TypeOK /\ RoomInv)
<1>1. Init => TypeOK /\ RoomInv
  <2> SUFFICES ASSUME Init PROVE TypeOK /\ RoomInv
    OBVIOUS
  <2> USE BoundAssumption DEF Init
  <2>1. ui \in [Account -> Screens] /\ \A d \in Account : ui[d].state = "idle"
    BY DEF Screens, Idle
  <2>2. at \in [Account -> [Call -> Progress]] /\ \A d \in Account, c \in Call : at[d][c] = "none"
    BY DEF Progress
  <2>3. /\ sees \in [Account -> SUBSET Call] /\ retrying \in [Account -> SUBSET Call]
        /\ link \in [Account -> BOOLEAN] /\ down \in [Account -> Seq(Frame)]
        /\ todo \in [Account -> SUBSET Task] /\ pending \in [Account -> Call \cup {None}]
        /\ faults \in 0..MaxFaults
    OBVIOUS
  <2>4. RoomInv
    BY <2>2 DEF RoomInv, Fine, OneAttempt, RefNames, NotYetIn, UnderWay
  <2> QED
    BY <2>1, <2>2, <2>3, <2>4 DEF TypeOK, Screens, Progress
<1>2. TypeOK /\ RoomInv /\ [Next]_vars => (TypeOK /\ RoomInv)'
  BY CallsStepInv
<1> QED
  BY <1>1, <1>2, PTL DEF Spec

\* For any number of accounts, calls, faults and timers, as long as an account has one connection
\* attempt under way at a time: whatever the user, the peer, the server and LiveKit do while it is
\* under way, no microphone stays open behind a call that was cancelled, refused or lost
\* (cleanupCall, connectToCall, startCall and acceptCall in useCall.ts).
THEOREM NoMicrophoneLeft ==
  ASSUME MaxAttempts = 1
  PROVE  Spec => []NoStrayRoom
<1>1. TypeOK /\ RoomInv => NoStrayRoom
  <2> SUFFICES ASSUME RoomInv, NEW d \in Account, NEW c \in Call, d \in Room(c)
               PROVE  ui[d].ref = c /\ (ui[d].state # "idle" \/ at[d][c] = "media")
    BY DEF NoStrayRoom
  <2>1. at[d][c] \in {"media", "in"}
    BY DEF Room
  <2> QED
    BY <2>1 DEF RoomInv, Fine, RefNames, NotYetIn
<1> QED
  BY <1>1, CallsInvariance, PTL

-----------------------------------------------------------------------------
(* Glare.  While both accounts ring and no socket was lost, one of the two  *)
(* calls has its attempt under way, its offer on the way or its rejection   *)
(* on the way.  This needs no bound on the attempts.                        *)

Linked == link \in [Account -> BOOLEAN] /\ faults \in Nat /\ (faults = 0 => \A d \in Account : link[d])
GlareTypes == Screened /\ Wired /\ Linked

Rings(x) == ui[x.from].state = "outgoing" /\ ui[x.from].call = x
Pressing(x) == \/ at[x.from][x] \in UnderWay
               \/ Carries(down[x.to], "offer", x)
               \/ Carries(down[x.from], "reject", x)
Crossing(c, e) == c.from = e.to /\ c.to = e.from /\ Rings(c) /\ Rings(e)
RingInv == \A c, e \in Call : faults = 0 /\ Crossing(c, e) => Pressing(c) \/ Pressing(e)

\* What Send does to the queues while all sockets are there.
LEMMA SendAppends ==
  ASSUME NEW d \in Account, NEW c \in Call, NEW t, NEW queues \in [Account -> Seq(Frame)],
         \A a \in Account : link[a], Send(d, t, c, queues)
  PROVE  /\ down' = [queues EXCEPT ![Peer(d, c)] = Append(@, [t |-> t, c |-> c])]
         /\ Peer(d, c) \in Account
BY CallAssumption DEF Send, Peer

LEMMA CarriesAppend ==
  ASSUME NEW q \in Seq(Frame), NEW f \in Frame, NEW t, NEW c
  PROVE  /\ Append(q, f) \in Seq(Frame)
         /\ Carries(Append(q, f), t, c) <=> Carries(q, t, c) \/ f = [t |-> t, c |-> c]
<1>1. /\ Len(Append(q, f)) = Len(q) + 1 /\ Append(q, f)[Len(q) + 1] = f
      /\ \A i \in 1 .. Len(q) : Append(q, f)[i] = q[i]
  OBVIOUS
<1>2. DOMAIN q = 1 .. Len(q) /\ DOMAIN Append(q, f) = 1 .. Len(q) + 1 /\ Len(q) \in Nat
  OBVIOUS
<1> QED
  BY <1>1, <1>2 DEF Carries

LEMMA CarriesTail ==
  ASSUME NEW q \in Seq(Frame), q # << >>, NEW t, NEW c, Carries(q, t, c)
  PROVE  Carries(Tail(q), t, c) \/ Head(q) = [t |-> t, c |-> c]
<1>1. PICK i \in DOMAIN q : q[i] = [t |-> t, c |-> c]
  BY DEF Carries
<1>2. CASE i = 1
  BY <1>1, <1>2
<1>3. CASE i # 1
  <2>1. i - 1 \in DOMAIN Tail(q) /\ Tail(q)[i - 1] = q[i]
    BY <1>1, <1>3
  <2> QED
    BY <1>1, <2>1 DEF Carries
<1> QED
  BY <1>2, <1>3

\* The actions, by what they do to the screen, the attempts and the queues.
LEMMA GlareTypesStep ==
  ASSUME GlareTypes, [Next]_vars
  PROVE  GlareTypes'
<1>1. /\ ui \in [Account -> Screens] /\ at \in [Account -> [Call -> Progress]] /\ Wired
      /\ down \in [Account -> Seq(Frame)] /\ todo \in [Account -> SUBSET Task]
      /\ pending \in [Account -> Call \cup {None}] /\ link \in [Account -> BOOLEAN] /\ faults \in Nat
  BY DEF GlareTypes, Screened, Wired, Linked
<1>2. CASE UNCHANGED vars
  BY <1>2 DEF vars, calls, wire, GlareTypes, Screened, Wired, Linked
<1>3. ASSUME NEW d \in Account
      PROVE  /\ ui[d] \in Screens /\ at[d] \in [Call -> Progress]
             /\ ui[d].call \in Call \cup {None} /\ ui[d].timers \in 0..MaxTimers
             /\ Cleared(d) \in Screens
  <2>1. ui[d] \in Screens /\ at[d] \in [Call -> Progress]
    BY <1>1
  <2>2. Cleared(d) = [state |-> "idle", call |-> None, ref |-> None, timers |-> ui[d].timers]
    BY DEF Cleared, Idle
  <2> QED
    BY <2>1, <2>2 DEF Screens
\* Screens.
<1>4. ASSUME NEW d \in Account, NEW s \in {"idle", "outgoing", "incoming", "connecting", "connected", "error"}
      PROVE  /\ [ui EXCEPT ![d].state = s] \in [Account -> Screens]
             /\ \A c \in Call : [ui EXCEPT ![d].state = s, ![d].call = c] \in [Account -> Screens]
             /\ \A n \in 0..MaxTimers : [ui EXCEPT ![d].state = s, ![d].timers = n] \in [Account -> Screens]
  <2>1. [ui EXCEPT ![d].state = s] \in [Account -> Screens]
    BY <1>1, <1>3 DEF Screens
  <2>2. ASSUME NEW c \in Call
        PROVE  [ui EXCEPT ![d].state = s, ![d].call = c] \in [Account -> Screens]
    <3>1. [[ui[d] EXCEPT !.state = s] EXCEPT !.call = c] \in Screens
      BY <1>3 DEF Screens
    <3> QED
      BY <1>1, <1>3, <3>1 DEF Screens
  <2>3. ASSUME NEW n \in 0..MaxTimers
        PROVE  [ui EXCEPT ![d].state = s, ![d].timers = n] \in [Account -> Screens]
    <3>1. [[ui[d] EXCEPT !.state = s] EXCEPT !.timers = n] \in Screens
      BY <1>3 DEF Screens
    <3> QED
      BY <1>1, <1>3, <3>1 DEF Screens
  <2> QED
    BY <2>1, <2>2, <2>3
<1>4a. ASSUME NEW d \in Account
       PROVE  /\ [ui EXCEPT ![d].state = "connected"] \in [Account -> Screens]
              /\ [ui EXCEPT ![d].state = "connecting"] \in [Account -> Screens]
  BY <1>4
<1>5. ASSUME NEW d \in Account, NEW r \in Call \cup {None}
      PROVE  [ui EXCEPT ![d].ref = r] \in [Account -> Screens]
  BY <1>1, <1>3 DEF Screens
<1>6. ASSUME NEW d \in Account, NEW s \in Screens
      PROVE  [ui EXCEPT ![d] = s] \in [Account -> Screens]
  BY <1>1
\* Attempts.
<1>7. ASSUME NEW d \in Account, NEW gone, Leave(d, gone)
      PROVE  at' \in [Account -> [Call -> Progress]]
  <2>1. [c \in Call |-> IF c \notin gone THEN at[d][c] ELSE IF at[d][c] \in UnderWay THEN "dead" ELSE "out"]
          \in [Call -> Progress]
    BY <1>3 DEF Progress, UnderWay
  <2> QED
    BY <1>1, <1>7, <2>1 DEF Leave
<1>8. ASSUME NEW d \in Account, NEW c \in Call, NEW p \in Progress
      PROVE  [at EXCEPT ![d][c] = p] \in [Account -> [Call -> Progress]]
  BY <1>1, <1>3
<1>9. {"token", "joining", "media", "in", "out", "dead"} \subseteq Progress
  BY DEF Progress, UnderWay
<1>10. ASSUME NEW d \in Account, NEW t \in FrameTypes, NEW c \in Call, NEW q \in [Account -> Seq(Frame)], Send(d, t, c, q)
       PROVE  Wired'
  BY <1>1, <1>10, SendTyped
<1>11. ASSUME NEW d \in Account, Cleanup(d)
       PROVE  Screened'
  BY <1>3, <1>6, <1>7, <1>11 DEF Cleanup, Disconnect, Screened
<1>12. ASSUME UNCHANGED wire PROVE Wired'
  BY <1>1, <1>12 DEF wire, Wired
<1>13. ASSUME UNCHANGED <<link, faults>> PROVE Linked'
  BY <1>13 DEF GlareTypes, Linked
<1>14. ASSUME faults < MaxFaults, faults' = faults + 1, link' \in [Account -> BOOLEAN]
       PROVE  Linked'
  BY <1>1, <1>14 DEF Linked
<1>15. {"offer", "answer", "reject", "cancel", "end"} = FrameTypes
  BY DEF FrameTypes
<1>16. ASSUME NEW d \in Account, User(d)
       PROVE  GlareTypes'
  <2>1. ASSUME NEW c \in Call, BeginConnect(d, c), ui' \in [Account -> Screens]
        PROVE  GlareTypes'
    BY <1>8, <1>9, <1>12, <1>13, <2>1 DEF BeginConnect, GlareTypes, Screened
  <2>2. ASSUME NEW c \in Call, StartCall(d, c)
        PROVE  GlareTypes'
    <3>1. ui' = [ui EXCEPT ![d].state = "outgoing", ![d].call = c] /\ BeginConnect(d, c)
      BY <2>2 DEF StartCall
    <3>2. ui' \in [Account -> Screens]
      BY <1>4, <3>1
    <3> QED
      BY <2>1, <3>1, <3>2
  <2>3. CASE AcceptCall(d)
    <3>1. ui' \in [Account -> Screens] /\ BeginConnect(d, ui[d].call)
      BY <1>4, <2>3 DEF AcceptCall
    <3>2. CASE ui[d].call \in Call
      BY <2>1, <3>1, <3>2
    <3>3. CASE ui[d].call \notin Call
      <4>1. at' = at
        BY <1>1, <1>3, <3>1, <3>3 DEF BeginConnect
      <4> QED
        BY <1>1, <1>12, <1>13, <3>1, <4>1 DEF BeginConnect, GlareTypes, Screened
    <3> QED
      BY <3>2, <3>3
  <2>4. ASSUME NEW t \in FrameTypes \cup {""}, Finish(d, t)
        PROVE  GlareTypes'
    <3>1. Wired'
      BY <1>1, <1>3, <1>10, <1>12, <2>4 DEF Finish
    <3> QED
      BY <1>11, <1>13, <2>4, <3>1 DEF Finish, GlareTypes
  <2>5. CASE RejectCall(d) \/ CancelCall(d) \/ HangUp(d) \/ Dismiss(d)
    BY <1>15, <2>4, <2>5 DEF RejectCall, CancelCall, HangUp, Dismiss
  <2> QED
    BY <1>16, <2>2, <2>3, <2>5 DEF User
<1>17. ASSUME NEW d \in Account, NEW c \in Call, TokenGranted(d, c) \/ JoinRoom(d, c) \/ ConnectFails(d, c)
                                                  \/ ConnectedLate(d, c) \/ Connected(d, c)
       PROVE  GlareTypes'
  <2>1. CASE TokenGranted(d, c)
    BY <1>5, <1>8, <1>9, <1>12, <1>13, <2>1 DEF TokenGranted, GlareTypes, Screened
  <2>2. CASE JoinRoom(d, c)
    <3>1. ui' \in [Account -> Screens]
      BY <1>1, <1>4a, <2>2 DEF JoinRoom
    <3> QED
      BY <1>8, <1>9, <1>12, <1>13, <2>2, <3>1 DEF JoinRoom, GlareTypes, Screened
  <2>3. CASE ConnectFails(d, c)
    <3>1. at' \in [Account -> [Call -> Progress]]
      BY <1>1, <1>3, <1>9, <2>3 DEF ConnectFails
    <3>2. Wired'
      BY <1>1, <1>10, <1>12, <1>15, <2>3 DEF ConnectFails
    <3>3. Linked'
      BY <1>1, <1>13, <1>14, <2>3 DEF ConnectFails
    <3>4. ui[d].timers + 1 \in 0..MaxTimers
      BY <1>3, <2>3, BoundAssumption DEF ConnectFails
    <3>5. PICK shown : /\ shown = IF Unconnected(d, c) THEN Cleared(d) ELSE ui[d]
                       /\ ui' = [ui EXCEPT ![d] = [shown EXCEPT !.state = "error", !.timers = @ + 1]]
      BY <2>3 DEF ConnectFails
    <3>6. ui' \in [Account -> Screens]
      <4>1. shown \in Screens /\ shown.timers = ui[d].timers
        BY <1>3, <3>5 DEF Screens, Cleared, Idle
      <4>2. [shown EXCEPT !.state = "error", !.timers = @ + 1] \in Screens
        BY <3>4, <4>1 DEF Screens
      <4> QED
        BY <1>1, <3>5, <4>2
    <3> QED
      BY <3>1, <3>2, <3>3, <3>6 DEF GlareTypes, Screened
  <2>4. CASE ConnectedLate(d, c)
    <3>1. at' \in [Account -> [Call -> Progress]]
      <4> DEFINE over == [at[d] EXCEPT ![c] = IF at[d][c] = "media" THEN "in" ELSE "out"]
                 row == [e \in Call |-> IF e \notin Held(d) THEN over[e] ELSE
                                          IF e # c /\ over[e] \in UnderWay THEN "dead" ELSE "out"]
      <4>1. over \in [Call -> Progress]
        BY <1>3, <1>9
      <4>2. at' = [at EXCEPT ![d] = row]
        BY <1>1, <2>4 DEF ConnectedLate, Over
      <4> HIDE DEF over
      <4>3. row \in [Call -> Progress]
        BY <1>9, <4>1
      <4> HIDE DEF row
      <4> QED
        BY <1>1, <4>2, <4>3
    <3> QED
      BY <1>5, <1>12, <1>13, <2>4, <3>1 DEF ConnectedLate, GlareTypes, Screened
  <2>5. CASE Connected(d, c)
    <3>1. at' \in [Account -> [Call -> Progress]]
      BY <1>1, <1>3, <1>9, <2>5 DEF Connected, Over
    <3>2. Wired'
      BY <1>1, <1>10, <1>15, <2>5 DEF Connected
    <3>3. ui' \in [Account -> Screens]
      BY <1>1, <1>4, <2>5 DEF Connected
    <3> QED
      BY <1>13, <2>5, <3>1, <3>2, <3>3 DEF Connected, GlareTypes, Screened
  <2> QED
    BY <1>17, <2>1, <2>2, <2>3, <2>4, <2>5
<1>18. ASSUME NEW d \in Account, Media(d)
       PROVE  GlareTypes'
  <2>1. ASSUME NEW c \in Call, \/ ParticipantConnected(d, c) \/ ParticipantDisconnected(d, c)
                               \/ RoomLost(d, c) \/ Reconnecting(d, c) \/ Reconnected(d, c)
        PROVE  GlareTypes'
    <3>1. ui' \in [Account -> Screens]
      <4>1. \/ UNCHANGED ui \/ ui' = [ui EXCEPT ![d] = Cleared(d)]
            \/ ui' = [ui EXCEPT ![d].state = "connected"] \/ ui' = [ui EXCEPT ![d].state = "connecting"]
        BY <2>1 DEF ParticipantConnected, ParticipantDisconnected, RoomLost, Reconnecting, Reconnected
      <4>2. CASE ui' = [ui EXCEPT ![d] = Cleared(d)]
        BY <1>3, <1>6, <4>2
      <4> QED
        BY <1>1, <1>4a, <4>1, <4>2
    <3>2. at' \in [Account -> [Call -> Progress]]
      BY <1>1, <1>7, <2>1
      DEF ParticipantConnected, ParticipantDisconnected, RoomLost, Reconnecting, Reconnected, Disconnect
    <3>3. Wired'
      BY <1>12, <2>1 DEF ParticipantConnected, ParticipantDisconnected, RoomLost, Reconnecting, Reconnected
    <3>4. Linked'
      BY <1>1, <1>13, <1>14, <2>1
      DEF ParticipantConnected, ParticipantDisconnected, RoomLost, Reconnecting, Reconnected
    <3> QED
      BY <3>1, <3>2, <3>3, <3>4 DEF GlareTypes, Screened
  <2> QED
    BY <1>18, <2>1 DEF Media
<1>19. ASSUME NEW d \in Account, Receive(d)
       PROVE  GlareTypes'
  <2>1. down[d] # << >> /\ Head(down[d]) \in Frame /\ Rest(d) \in [Account -> Seq(Frame)]
    BY <1>1, <1>19 DEF Receive, ReceiveOffer, ReceiveAnswer, FinishMatchingCall, Arrives, Rest
  <2>2. Head(down[d]).c \in Call
    BY <2>1 DEF Frame
  <2>3. CASE ReceiveOffer(d)
    <3>1. Screened'
      <4>1. [ui EXCEPT ![d].state = "incoming", ![d].call = Head(down[d]).c] \in [Account -> Screens]
        BY <1>4, <2>2
      <4> QED
        BY <1>1, <2>3, <4>1 DEF ReceiveOffer, Screened
    <3>2. Wired'
      <4>1. CASE Send(d, "reject", Head(down[d]).c, Rest(d))
        BY <1>10, <1>15, <2>1, <2>2, <4>1
      <4>2. CASE down' = Rest(d) /\ UNCHANGED <<todo, pending>>
        BY <1>1, <2>1, <4>2 DEF Wired
      <4> QED
        BY <2>3, <4>1, <4>2 DEF ReceiveOffer
    <3> QED
      BY <1>13, <2>3, <3>1, <3>2 DEF ReceiveOffer, GlareTypes
  <2>4. CASE ReceiveAnswer(d)
    <3>1. Screened'
      BY <1>1, <1>4, <2>4 DEF ReceiveAnswer, Screened
    <3> QED
      BY <1>1, <1>13, <2>1, <2>4, <3>1 DEF ReceiveAnswer, GlareTypes, Wired
  <2>5. CASE FinishMatchingCall(d)
    <3>1. Screened'
      BY <1>1, <1>11, <2>5 DEF FinishMatchingCall, Screened, calls
    <3> QED
      BY <1>1, <1>13, <2>1, <2>5, <3>1 DEF FinishMatchingCall, GlareTypes, Wired
  <2> QED
    BY <1>19, <2>3, <2>4, <2>5 DEF Receive
<1>20. ASSUME NEW d \in Account, TimerFires(d)
       PROVE  GlareTypes'
  <2>1. [Idle EXCEPT !.timers = ui[d].timers - 1] \in Screens
    <3>1. ui[d].timers - 1 \in 0..MaxTimers
      BY <1>3, <1>20, BoundAssumption DEF TimerFires
    <3>2. [Idle EXCEPT !.timers = ui[d].timers - 1] = [state |-> "idle", call |-> None, ref |-> None, timers |-> ui[d].timers - 1]
      BY DEF Idle
    <3> QED
      BY <3>1, <3>2 DEF Screens
  <2> QED
    BY <1>6, <1>7, <1>12, <1>13, <1>20, <2>1 DEF TimerFires, Disconnect, GlareTypes, Screened
<1>21. ASSUME NEW d \in Account, Server(d)
       PROVE  GlareTypes'
  <2>1. Screened'
    <3>1. UNCHANGED calls
      BY <1>21 DEF Server, StoreOffer, FlushGet, FlushSend, OfferExpires, Connect, SocketLost
    <3> QED
      BY <1>1, <3>1 DEF calls, Screened
  <2>2. Linked'
    <3>1. CASE UNCHANGED <<link, faults>>
      BY <1>13, <3>1
    <3>2. CASE Connect(d)
      BY <1>1, <3>2 DEF Connect, GlareTypes, Linked
    <3>3. CASE SocketLost(d)
      BY <1>1, <1>14, <3>3 DEF SocketLost
    <3> QED
      BY <1>21, <3>1, <3>2, <3>3 DEF Server, StoreOffer, FlushGet, FlushSend, OfferExpires
  <2>3. \A k \in todo[d] : k \in Task /\ (k.t \in {"store", "replay", "late"} => k.c \in Call)
    BY <1>1 DEF Task
  <2>4. Wired'
    <3>1. ASSUME NEW k \in todo[d], StoreOffer(d, k)
          PROVE  Wired'
      <4>1. Peer(d, k.c) \in Account /\ k.c \in Call
        BY <2>3, <3>1, CallAssumption DEF StoreOffer, Peer
      <4> QED
        BY <1>1, <3>1, <4>1 DEF StoreOffer, Wired
    <3>2. ASSUME NEW k \in todo[d], FlushGet(d, k)
          PROVE  Wired'
      <4>1. [t : {"replay"}, c : {pending[d]} \ {None}] \subseteq Task
        BY <1>1 DEF Task
      <4> QED
        BY <1>1, <3>2, <4>1 DEF FlushGet, Wired
    <3>3. ASSUME NEW k \in todo[d], FlushSend(d, k)
          PROVE  Wired'
      <4>1. down' \in [Account -> Seq(Frame)]
        <5>1. CASE k.t = "replay"
          <6>1. [t |-> "offer", c |-> k.c] \in Frame
            BY <2>3, <5>1 DEF Frame
          <6> QED
            BY <1>1, <3>3, <5>1, <6>1 DEF FlushSend
        <5> QED
          BY <1>1, <3>3, <5>1 DEF FlushSend
      <4> QED
        BY <1>1, <3>3, <4>1 DEF FlushSend, Wired
    <3>4. CASE OfferExpires(d)
      BY <1>1, <3>4 DEF OfferExpires, Wired
    <3>5. CASE Connect(d)
      <4>1. [t |-> "lookup", c |-> None] \in Task
        BY DEF Task
      <4> QED
        BY <1>1, <3>5, <4>1 DEF Connect, Wired
    <3>6. CASE SocketLost(d)
      <4> DEFINE after(k) == IF k.t \in {"store", "late"} THEN [k EXCEPT !.t = "late"] ELSE [t |-> "drop", c |-> None]
      <4>1. ASSUME NEW k \in Task PROVE after(k) \in Task
        <5>1. CASE k.t \in {"store", "late"}
          BY <5>1 DEF Task
        <5>2. CASE k.t \notin {"store", "late"}
          BY <5>2 DEF Task
        <5> QED
          BY <5>1, <5>2
      <4>2. todo' = [todo EXCEPT ![d] = {after(k) : k \in todo[d]}]
        BY <3>6 DEF SocketLost
      <4> HIDE DEF after
      <4>3. todo' \in [Account -> SUBSET Task]
        BY <1>1, <4>1, <4>2
      <4> QED
        BY <1>1, <3>6, <4>3 DEF SocketLost, Wired
    <3> QED
      BY <1>21, <3>1, <3>2, <3>3, <3>4, <3>5, <3>6 DEF Server
  <2> QED
    BY <2>1, <2>2, <2>4 DEF GlareTypes
<1> QED
  BY <1>2, <1>16, <1>17, <1>18, <1>19, <1>20, <1>21 DEF Next, Attempt

\* No socket is lost without a fault.
LEMMA FaultsStay ==
  ASSUME GlareTypes, Next, faults' = 0
  PROVE  faults = 0 /\ \A d \in Account : link[d]
<1>1. faults' = faults \/ faults' = faults + 1
  <2>1. ASSUME NEW d \in Account, User(d) \/ TimerFires(d) \/ Receive(d) \/ Server(d) PROVE faults' = faults \/ faults' = faults + 1
    BY <2>1 DEF User, StartCall, AcceptCall, BeginConnect, RejectCall, CancelCall, HangUp, Dismiss, Finish, TimerFires,
                Receive, ReceiveOffer, ReceiveAnswer, FinishMatchingCall,
                Server, StoreOffer, FlushGet, FlushSend, OfferExpires, Connect, SocketLost
  <2>2. ASSUME NEW d \in Account, Attempt(d) \/ Media(d) PROVE faults' = faults \/ faults' = faults + 1
    BY <2>2 DEF Attempt, TokenGranted, JoinRoom, ConnectFails, ConnectedLate, Connected, Media, ParticipantConnected,
                ParticipantDisconnected, RoomLost, Reconnecting, Reconnected
  <2> QED
    BY <2>1, <2>2 DEF Next
<1> QED
  BY <1>1 DEF GlareTypes, Linked

\* A frame stays in its queue until it is received, as long as no socket is lost.
LEMMA FramesStay ==
  ASSUME GlareTypes, Next, faults' = 0, NEW x \in Call, NEW q \in Account, NEW t \in FrameTypes,
         Carries(down[q], t, x)
  PROVE  Carries(down'[q], t, x) \/ (Receive(q) /\ Head(down[q]) = [t |-> t, c |-> x])
<1>1. /\ down \in [Account -> Seq(Frame)] /\ faults = 0 /\ \A a \in Account : link[a]
      /\ todo \in [Account -> SUBSET Task] /\ ui \in [Account -> Screens]
  BY FaultsStay DEF GlareTypes, Wired, Screened
<1>2. ASSUME NEW d \in Account, NEW s \in FrameTypes, NEW c \in Call, NEW queues \in [Account -> Seq(Frame)],
             Send(d, s, c, queues), Carries(queues[q], t, x)
      PROVE  Carries(down'[q], t, x)
  <2>1. /\ down' = [queues EXCEPT ![Peer(d, c)] = Append(queues[Peer(d, c)], [t |-> s, c |-> c])]
        /\ Peer(d, c) \in Account
    BY <1>1, <1>2, SendAppends
  <2>2. [t |-> s, c |-> c] \in Frame /\ queues[q] \in Seq(Frame)
    BY DEF Frame, FrameTypes
  <2>3. Carries(Append(queues[q], [t |-> s, c |-> c]), t, x)
    BY <1>2, <2>2, CarriesAppend
  <2>4. down'[q] = queues[q] \/ down'[q] = Append(queues[q], [t |-> s, c |-> c])
    BY <2>1
  <2> QED
    BY <1>2, <2>3, <2>4
<1>3. {"offer", "answer", "reject", "cancel", "end"} = FrameTypes
  BY DEF FrameTypes
<1>4. CASE down' = down
  BY <1>4
<1>5. ASSUME NEW d \in Account, NEW s \in FrameTypes \cup {""}, Finish(d, s)
      PROVE  Carries(down'[q], t, x)
  <2>1. CASE UNCHANGED wire
    BY <2>1 DEF wire
  <2>2. CASE s # "" /\ ui[d].call # None /\ Send(d, s, ui[d].call, down)
    <3>1. ui[d].call \in Call /\ s \in FrameTypes
      BY <1>1, <2>2 DEF Screens
    <3> QED
      BY <1>1, <1>2, <2>2, <3>1
  <2> QED
    BY <1>5, <2>1, <2>2 DEF Finish
<1>6. ASSUME NEW d \in Account, User(d) \/ Attempt(d)
      PROVE  Carries(down'[q], t, x)
  <2>1. CASE RejectCall(d) \/ CancelCall(d) \/ HangUp(d) \/ Dismiss(d)
    BY <1>3, <1>5, <2>1 DEF RejectCall, CancelCall, HangUp, Dismiss
  <2>2. CASE AcceptCall(d) \/ \E c \in Call : StartCall(d, c) \/ TokenGranted(d, c) \/ JoinRoom(d, c) \/ ConnectedLate(d, c)
    BY <2>2 DEF AcceptCall, StartCall, BeginConnect, TokenGranted, JoinRoom, ConnectedLate, wire
  <2>3. ASSUME NEW c \in Call, ConnectFails(d, c) \/ Connected(d, c)
        PROVE  Carries(down'[q], t, x)
    BY <1>1, <1>2, <1>3, <2>3 DEF ConnectFails, Connected, wire
  <2> QED
    BY <1>6, <2>1, <2>2, <2>3 DEF User, Attempt
<1>7. ASSUME NEW d \in Account, Receive(d)
      PROVE  Carries(down'[q], t, x) \/ (Receive(q) /\ Head(down[q]) = [t |-> t, c |-> x])
  <2>1. down[d] # << >> /\ Head(down[d]) \in Frame /\ Rest(d) \in [Account -> Seq(Frame)]
        /\ Rest(d)[d] = Tail(down[d]) /\ \A a \in Account \ {d} : Rest(d)[a] = down[a]
    BY <1>1, <1>7 DEF Receive, ReceiveOffer, ReceiveAnswer, FinishMatchingCall, Arrives, Rest
  <2>2. Carries(Rest(d)[q], t, x) \/ (d = q /\ Head(down[q]) = [t |-> t, c |-> x])
    <3>1. CASE d = q
      <4>1. down[q] \in Seq(Frame) /\ down[q] # << >> /\ Rest(d)[q] = Tail(down[q])
        BY <1>1, <2>1, <3>1
      <4>2. Carries(Tail(down[q]), t, x) \/ Head(down[q]) = [t |-> t, c |-> x]
        BY <4>1, CarriesTail
      <4> QED
        BY <3>1, <4>1, <4>2
    <3> QED
      BY <2>1, <3>1
  <2>3. Carries(Rest(d)[q], t, x) => Carries(down'[q], t, x)
    <3>1. CASE down' = Rest(d)
      BY <3>1
    <3>2. CASE Send(d, "reject", Head(down[d]).c, Rest(d))
      <4>1. Head(down[d]).c \in Call
        BY <2>1 DEF Frame
      <4> QED
        BY <1>2, <1>3, <2>1, <3>2, <4>1
    <3> QED
      BY <1>7, <3>1, <3>2 DEF Receive, ReceiveOffer, ReceiveAnswer, FinishMatchingCall
  <2> QED
    BY <1>7, <2>2, <2>3
<1>8. ASSUME NEW d \in Account, Server(d)
      PROVE  Carries(down'[q], t, x)
  <2>1. ~SocketLost(d)
    BY <1>1 DEF SocketLost
  <2>2. ASSUME NEW k \in todo[d], FlushSend(d, k)
        PROVE  Carries(down'[q], t, x)
    <3>1. CASE k.t = "drop"
      BY <2>2, <3>1 DEF FlushSend
    <3>2. CASE k.t # "drop"
      <4>1. [t |-> "offer", c |-> k.c] \in Frame
        BY <1>1, <2>2, <3>2 DEF FlushSend, Task, Frame
      <4>2. down'[q] = down[q] \/ down'[q] = Append(down[q], [t |-> "offer", c |-> k.c])
        BY <1>1, <2>2, <3>2 DEF FlushSend
      <4> QED
        <5>1. down[q] \in Seq(Frame)
          BY <1>1
        <5>2. Carries(Append(down[q], [t |-> "offer", c |-> k.c]), t, x)
          BY <4>1, <5>1, CarriesAppend
        <5> QED
          BY <4>2, <5>2
    <3> QED
      BY <3>1, <3>2
  <2>3. CASE (\E k \in todo[d] : StoreOffer(d, k) \/ FlushGet(d, k)) \/ OfferExpires(d) \/ Connect(d)
    BY <2>3 DEF StoreOffer, FlushGet, OfferExpires, Connect
  <2> QED
    BY <1>8, <2>1, <2>2, <2>3 DEF Server
<1>9. ASSUME NEW d \in Account, Media(d) \/ TimerFires(d)
      PROVE  Carries(down'[q], t, x)
  <2>1. UNCHANGED wire
    BY <1>9 DEF Media, TimerFires, ParticipantConnected, ParticipantDisconnected, RoomLost, Reconnecting, Reconnected
  <2> QED
    BY <2>1 DEF wire
<1> QED
  BY <1>6, <1>7, <1>8, <1>9 DEF Next

\* While x rings at both ends of the step and its callee is not idle, it goes on pressing.
LEMMA PressingStays ==
  ASSUME GlareTypes, Next, faults' = 0, NEW x \in Call, Rings(x), Rings(x)', ui[x.to].state # "idle", Pressing(x)
  PROVE  Pressing(x)'
<1> DEFINE a == x.from
           b == x.to
<1>1. /\ a \in Account /\ b \in Account /\ a # b /\ Peer(a, x) = b /\ Peer(b, x) = a
      /\ ui \in [Account -> Screens] /\ at \in [Account -> [Call -> Progress]] /\ down \in [Account -> Seq(Frame)]
      /\ ui[a].state = "outgoing" /\ ui[a].call = x /\ ui'[a].state = "outgoing" /\ ui'[a].call = x
  BY CallAssumption DEF GlareTypes, Screened, Wired, Rings, Peer
<1> HIDE DEF a, b
<1>2. faults = 0 /\ \A d \in Account : link[d]
  BY FaultsStay
<1>3. {"offer", "reject"} \subseteq FrameTypes
  BY DEF FrameTypes
<1>4. ASSUME at'[a][x] \in UnderWay \/ Carries(down'[b], "offer", x) \/ Carries(down'[a], "reject", x)
      PROVE  Pressing(x)'
  BY <1>4 DEF Pressing, a, b
<1>5. CASE Carries(down[b], "offer", x)
  <2>1. CASE Receive(b) /\ Head(down[b]) = [t |-> "offer", c |-> x]
    <3>1. Send(b, "reject", x, Rest(b)) /\ Rest(b) \in [Account -> Seq(Frame)]
      BY <1>1, <2>1 DEF Receive, ReceiveOffer, ReceiveAnswer, FinishMatchingCall, Arrives, Rest, b
    <3>2. down' = [Rest(b) EXCEPT ![a] = Append(Rest(b)[a], [t |-> "reject", c |-> x])]
      <4>1. x \in Call /\ b \in Account /\ \A e \in Account : link[e]
        BY <1>1, <1>2
      <4>2. down' = [Rest(b) EXCEPT ![Peer(b, x)] = Append(Rest(b)[Peer(b, x)], [t |-> "reject", c |-> x])]
        BY <3>1, <4>1, SendAppends
      <4> QED
        BY <1>1, <4>2
    <3>3. [t |-> "reject", c |-> x] \in Frame /\ Rest(b)[a] \in Seq(Frame)
      BY <1>1, <3>1 DEF Frame
    <3>4. Carries(Append(Rest(b)[a], [t |-> "reject", c |-> x]), "reject", x)
      BY <3>3, CarriesAppend
    <3> QED
      BY <1>1, <1>4, <3>1, <3>2, <3>4
  <2>2. CASE Carries(down'[b], "offer", x)
    BY <1>4, <2>2
  <2> QED
    BY <1>1, <1>3, <1>5, <2>1, <2>2, FramesStay
<1>6. CASE Carries(down[a], "reject", x)
  <2>1. CASE Receive(a) /\ Head(down[a]) = [t |-> "reject", c |-> x]
    <3>1. Cleanup(a)
      BY <1>1, <2>1 DEF Receive, ReceiveOffer, ReceiveAnswer, FinishMatchingCall, Arrives
    <3>2. ui'[a].state = "idle"
      BY <1>1, <3>1 DEF Cleanup, Cleared, Idle
    <3> QED
      BY <1>1, <3>2
  <2>2. CASE Carries(down'[a], "reject", x)
    BY <1>4, <2>2
  <2> QED
    BY <1>1, <1>3, <1>6, <2>1, <2>2, FramesStay
<1>7. CASE at[a][x] \in UnderWay
  <2>1. CASE at'[a] = at[a]
    BY <1>4, <1>7, <2>1
  <2>2. ASSUME NEW d \in Account, NEW gone, Leave(d, gone)
        PROVE  Pressing(x)'
    <3>1. at'[a][x] \in UnderWay
      BY <1>1, <1>7, <2>2 DEF Leave, UnderWay
    <3> QED
      BY <1>4, <3>1
  <2>3. ASSUME NEW d \in Account, NEW c \in Call, NEW p, at' = [at EXCEPT ![d][c] = p], d # a \/ c # x \/ p \in UnderWay
        PROVE  Pressing(x)'
    <3>1. at'[a][x] \in UnderWay
      BY <1>1, <1>7, <2>3
    <3> QED
      BY <1>4, <3>1
  <2>4. ASSUME NEW d \in Account, User(d)
        PROVE  Pressing(x)'
    <3>1. CASE RejectCall(d) \/ CancelCall(d) \/ HangUp(d) \/ Dismiss(d)
      BY <2>2, <3>1 DEF RejectCall, CancelCall, HangUp, Dismiss, Finish, Cleanup, Disconnect
    <3>2. ASSUME NEW c, BeginConnect(d, c)
          PROVE  Pressing(x)'
      <4>1. at' = [at EXCEPT ![d][c] = "token"] /\ "token" \in UnderWay
        BY <3>2 DEF BeginConnect, UnderWay
      <4>2. at'[a][x] \in UnderWay
        BY <1>1, <1>7, <4>1
      <4> QED
        BY <1>4, <4>2
    <3> QED
      BY <2>4, <3>1, <3>2 DEF User, StartCall, AcceptCall
  <2>5. ASSUME NEW d \in Account, NEW c \in Call, TokenGranted(d, c) \/ JoinRoom(d, c)
        PROVE  Pressing(x)'
    <3>1. {"joining", "media"} \subseteq UnderWay
      BY DEF UnderWay
    <3> QED
      BY <2>3, <2>5, <3>1 DEF TokenGranted, JoinRoom
  <2>6. ASSUME NEW d \in Account, NEW c \in Call, ConnectFails(d, c)
        PROVE  Pressing(x)'
    <3>1. d # a
      BY <1>1, <2>6 DEF ConnectFails, Screens
    <3> QED
      BY <1>1, <2>1, <2>6, <3>1 DEF ConnectFails
  <2>7. ASSUME NEW d \in Account, NEW c \in Call, ConnectedLate(d, c)
        PROVE  Pressing(x)'
    <3>1. CASE d # a
      BY <1>1, <2>1, <2>7, <3>1 DEF ConnectedLate, Over
    <3>2. CASE d = a
      <4>1. c # x
        BY <1>1, <2>7, <3>2 DEF ConnectedLate, Outdated
      <4>2. Over(d, c)[a][x] = at[a][x] /\ DOMAIN Over(d, c) = Account
        BY <1>1, <4>1 DEF Over
      <4>3. at'[a][x] = IF x \notin Held(d) THEN Over(d, c)[d][x] ELSE
                          IF x # c /\ Over(d, c)[d][x] \in UnderWay THEN "dead" ELSE "out"
        BY <1>1, <2>7, <3>2, <4>2 DEF ConnectedLate
      <4>4. at'[a][x] \in UnderWay
        BY <1>7, <3>2, <4>1, <4>2, <4>3 DEF UnderWay
      <4> QED
        BY <1>4, <4>4
    <3> QED
      BY <3>1, <3>2
  <2>8. ASSUME NEW d \in Account, NEW c \in Call, Connected(d, c)
        PROVE  Pressing(x)'
    <3>1. CASE d # a \/ c # x
      <4>1. at'[a][x] = at[a][x]
        BY <1>1, <2>8, <3>1 DEF Connected, Over
      <4> QED
        BY <1>4, <1>7, <4>1
    <3>2. CASE d = a /\ c = x
      <4>1. Send(a, "offer", x, down)
        BY <2>8, <3>2 DEF Connected, a
      <4>2. down' = [down EXCEPT ![b] = Append(down[b], [t |-> "offer", c |-> x])]
        <5>1. a \in Account /\ x \in Call /\ down \in [Account -> Seq(Frame)] /\ \A e \in Account : link[e]
          BY <1>1, <1>2
        <5>2. down' = [down EXCEPT ![Peer(a, x)] = Append(down[Peer(a, x)], [t |-> "offer", c |-> x])]
          BY <4>1, <5>1, SendAppends
        <5> QED
          BY <1>1, <5>2
      <4>3. [t |-> "offer", c |-> x] \in Frame /\ down[b] \in Seq(Frame)
        BY <1>1 DEF Frame
      <4>4. Carries(Append(down[b], [t |-> "offer", c |-> x]), "offer", x)
        BY <4>3, CarriesAppend
      <4> QED
        BY <1>1, <1>4, <4>2, <4>4
    <3> QED
      BY <3>1, <3>2
  <2>9. ASSUME NEW d \in Account, Media(d)
        PROVE  Pressing(x)'
    BY <1>2, <2>1, <2>2, <2>9
    DEF Media, ParticipantConnected, ParticipantDisconnected, RoomLost, Reconnecting, Reconnected, Disconnect
  <2>10. ASSUME NEW d \in Account, TimerFires(d) \/ Receive(d)
         PROVE  Pressing(x)'
    BY <2>1, <2>2, <2>10
    DEF TimerFires, Receive, ReceiveOffer, ReceiveAnswer, FinishMatchingCall, Cleanup, Disconnect, calls
  <2>11. ASSUME NEW d \in Account, Server(d)
         PROVE  Pressing(x)'
    <3>1. UNCHANGED calls
      BY <2>11 DEF Server, StoreOffer, FlushGet, FlushSend, OfferExpires, Connect, SocketLost
    <3> QED
      BY <2>1, <3>1 DEF calls
  <2> QED
    BY <2>4, <2>5, <2>6, <2>7, <2>8, <2>9, <2>10, <2>11 DEF Next, Attempt
<1> QED
  BY <1>5, <1>6, <1>7 DEF Pressing, a, b

\* An account that begins to ring has its attempt under way.
LEMMA RingBegins ==
  ASSUME GlareTypes, Next, NEW x \in Call, ~Rings(x), Rings(x)'
  PROVE  Pressing(x)'
<1> DEFINE a == x.from
<1>1. a \in Account /\ ui \in [Account -> Screens] /\ at \in [Account -> [Call -> Progress]]
  BY CallAssumption DEF GlareTypes, Screened
<1>2. (ui[a].state # "outgoing" \/ ui[a].call # x) /\ ui'[a].state = "outgoing" /\ ui'[a].call = x
  BY DEF Rings
<1> HIDE DEF a
<1>3. ASSUME NEW d \in Account, NEW s \in Screens, ui' = [ui EXCEPT ![d] = s], s.state # "outgoing"
      PROVE  FALSE
  BY <1>1, <1>2, <1>3
<1>4. ~UNCHANGED ui
  BY <1>2
<1>5. ASSUME NEW d \in Account, NEW s, ui' = [ui EXCEPT ![d].state = s], s # "outgoing"
      PROVE  FALSE
  BY <1>1, <1>2, <1>5 DEF Screens
<1>6. ASSUME NEW d \in Account, NEW c \in Call, StartCall(d, c)
      PROVE  Pressing(x)'
  <2>1. d = a /\ c = x
    BY <1>1, <1>2, <1>6 DEF StartCall, Screens
  <2>2. at'[a][x] = "token"
    BY <1>1, <1>6, <2>1 DEF StartCall, BeginConnect
  <2> QED
    BY <2>2 DEF Pressing, UnderWay, a
<1>7. ASSUME NEW d \in Account, ui' = [ui EXCEPT ![d] = Cleared(d)]
      PROVE  FALSE
  BY <1>1, <1>2, <1>7 DEF Cleared, Idle
<1>8. ASSUME NEW d \in Account, Next, ~\E c \in Call : StartCall(d, c), User(d) \/ Attempt(d) \/ Media(d) \/ Receive(d) \/ TimerFires(d) \/ Server(d)
      PROVE  FALSE
  <2>1. ~User(d)
    BY <1>5, <1>7, <1>8 DEF User, AcceptCall, RejectCall, CancelCall, HangUp, Dismiss, Finish, Cleanup
  <2>2. ASSUME NEW c \in Call PROVE ~TokenGranted(d, c) /\ ~ConnectedLate(d, c)
    BY <1>1, <1>2 DEF TokenGranted, ConnectedLate, Screens
  <2>3. ASSUME NEW c \in Call PROVE ~JoinRoom(d, c) /\ ~Connected(d, c)
    BY <1>4, <1>5 DEF JoinRoom, Connected
  <2>4. ASSUME NEW c \in Call PROVE ~ConnectFails(d, c)
    <3>1. PICK shown : shown = IF Unconnected(d, c) THEN Cleared(d) ELSE ui[d]
      OBVIOUS
    <3>2. PICK s : s = [shown EXCEPT !.state = "error", !.timers = @ + 1]
      OBVIOUS
    <3>3. s.state = "error"
      BY <1>1, <3>1, <3>2 DEF Screens, Cleared, Idle
    <3>4. ConnectFails(d, c) => ui' = [ui EXCEPT ![d] = s]
      BY <3>1, <3>2 DEF ConnectFails
    <3> QED
      BY <1>1, <1>2, <3>3, <3>4
  <2>5. ~Media(d)
    BY <1>4, <1>5, <1>7 DEF Media, ParticipantConnected, ParticipantDisconnected, RoomLost, Reconnecting, Reconnected
  <2>6. ~ReceiveOffer(d)
    BY <1>1, <1>2 DEF ReceiveOffer, Screens
  <2>7. ~ReceiveAnswer(d)
    BY <1>1, <1>2 DEF ReceiveAnswer, Screens
  <2>8. ~FinishMatchingCall(d)
    BY <1>4, <1>7 DEF FinishMatchingCall, Cleanup, calls
  <2>9. ~TimerFires(d)
    BY <1>1, <1>2 DEF TimerFires, Idle
  <2>10. ~Server(d)
    BY <1>4 DEF Server, StoreOffer, FlushGet, FlushSend, OfferExpires, Connect, SocketLost, calls
  <2> QED
    BY <1>8, <2>1, <2>2, <2>3, <2>4, <2>5, <2>6, <2>7, <2>8, <2>9, <2>10 DEF Attempt, Receive
<1> QED
  BY <1>6, <1>8 DEF Next

LEMMA RingStep ==
  ASSUME GlareTypes, RingInv, [Next]_vars
  PROVE  RingInv'
<1>1. CASE UNCHANGED vars
  BY <1>1 DEF vars, calls, wire, RingInv, Crossing, Rings, Pressing
<1>2. CASE Next
  <2> SUFFICES ASSUME NEW c \in Call, NEW e \in Call, faults' = 0, c.from = e.to, c.to = e.from, Rings(c)', Rings(e)'
               PROVE  Pressing(c)' \/ Pressing(e)'
    BY DEF RingInv, Crossing
  <2>1. CASE ~Rings(c)
    BY <1>2, <2>1, RingBegins
  <2>2. CASE ~Rings(e)
    BY <1>2, <2>2, RingBegins
  <2>3. CASE Rings(c) /\ Rings(e)
    <3>1. faults = 0 /\ ui[c.to].state # "idle" /\ ui[e.to].state # "idle"
      BY <1>2, <2>3, FaultsStay DEF Rings
    <3>2. Pressing(c) \/ Pressing(e)
      BY <2>3, <3>1 DEF RingInv, Crossing
    <3> QED
      BY <1>2, <2>3, <3>1, <3>2, PressingStays
  <2> QED
    BY <2>1, <2>2, <2>3
<1> QED
  BY <1>1, <1>2

LEMMA RingInvariance == Spec => [](GlareTypes /\ RingInv)
<1>1. Init => GlareTypes /\ RingInv
  <2> SUFFICES ASSUME Init PROVE GlareTypes /\ RingInv
    OBVIOUS
  <2>1. ui \in [Account -> Screens] /\ \A d \in Account : ui[d].state = "idle"
    BY BoundAssumption DEF Init, Screens, Idle
  <2>2. at \in [Account -> [Call -> Progress]]
    BY DEF Init, Progress
  <2>3. Wired /\ Linked
    BY DEF Init, Wired, Linked
  <2>4. RingInv
    <3>1. ASSUME NEW c \in Call PROVE ~Rings(c)
      <4>1. ui[c.from].state = "idle"
        BY <2>1, CallAssumption
      <4> QED
        BY <4>1 DEF Rings
    <3> QED
      BY <3>1 DEF RingInv, Crossing
  <2> QED
    BY <2>1, <2>2, <2>3, <2>4 DEF GlareTypes, Screened
<1>2. GlareTypes /\ RingInv /\ [Next]_vars => (GlareTypes /\ RingInv)'
  BY GlareTypesStep, RingStep
<1> QED
  BY <1>1, <1>2, PTL DEF Spec

\* Two accounts that call each other at once do not ring for ever: unless something failed, an offer
\* or a rejection that ends one of the two calls is on its way, however many calls, attempts and
\* accounts there are (handleOffer and sendOffer of useCall.ts).
THEOREM GlareIsResolved == Spec => []GlareEnds
<1>1. RingInv => GlareEnds
  BY DEF RingInv, Crossing, GlareEnds, Glare, Rings, Pressing
<1> QED
  BY <1>1, RingInvariance, PTL

-----------------------------------------------------------------------------
(* Meetings.  The room objects of a member, as those of an account above:   *)
(* what it is in or is entering is what roomRef names.                      *)

SeatSteps == Connecting \cup {"none", "in", "out"}
Overlays == [status : {"idle", "ringing", "connecting", "connected"}, call : Meeting \cup {NoMeeting},
             ref : Meeting \cup {NoMeeting}, host : BOOLEAN, muted : BOOLEAN, mode : {"discussion", "lecture"}]

OneConnecting(row) == \A c, e \in Meeting : row[c] \in Connecting /\ row[e] \in Connecting \cup {"in"} => c = e
RefNamesSeat(row, g) == \A c \in Meeting : row[c] \in {"joining", "mic", "in"} => g.ref = c
Shown(row, g) == \A c \in Meeting : row[c] = "in" => g.status \notin {"idle", "ringing"}
Seated(row, g) == OneConnecting(row) /\ RefNamesSeat(row, g) /\ Shown(row, g)

Commands == {"mute-all", "lecture", "discussion"}
Command == [c : Meeting, command : Commands]
Sent == press \in Seq(Commands \cup {"own"}) /\ commands \in [Member -> Seq(Command)]
MeetingTypes ==
  /\ gc \in [Member -> Overlays] /\ seat \in [Member -> [Meeting -> SeatSteps]]
  /\ invites \in [Member -> SUBSET Meeting]
SeatInv == \A m \in Member : /\ Seated(seat[m], gc[m])
                             /\ gc[m].status = "ringing" => gc[m].call \in Meeting
MeetingInv == MeetingTypes /\ SeatInv

LEMMA MemberMoves ==
  ASSUME MeetingInv, NEW m \in Member, NEW row \in [Meeting -> SeatSteps], NEW g \in Overlays,
         Seated(row, g), g.status = "ringing" => g.call \in Meeting,
         invites' \in [Member -> SUBSET Meeting],
         seat' = [seat EXCEPT ![m] = row], gc' = [gc EXCEPT ![m] = g]
  PROVE  MeetingInv'
<1>1. ASSUME NEW n \in Member
      PROVE  \/ seat'[n] = seat[n] /\ gc'[n] = gc[n]
             \/ seat'[n] = row /\ gc'[n] = g
  BY DEF MeetingInv, MeetingTypes
<1>2. MeetingTypes'
  BY DEF MeetingInv, MeetingTypes
<1>3. ASSUME NEW n \in Member
      PROVE  Seated(seat'[n], gc'[n]) /\ (gc'[n].status = "ringing" => gc'[n].call \in Meeting)
  BY <1>1 DEF MeetingInv, SeatInv
<1> QED
  BY <1>2, <1>3 DEF MeetingInv, SeatInv

\* Of a step of member m that leaves its room objects alone.
LEMMA OverlayMoves ==
  ASSUME MeetingInv, NEW m \in Member, NEW g \in Overlays, seat' = seat, gc' = [gc EXCEPT ![m] = g],
         invites' \in [Member -> SUBSET Meeting], g.ref = gc[m].ref, Shown(seat[m], g),
         g.status = "ringing" => g.call \in Meeting
  PROVE  MeetingInv'
<1>1. seat[m] \in [Meeting -> SeatSteps] /\ Seated(seat[m], gc[m]) /\ seat' = [seat EXCEPT ![m] = seat[m]]
  BY DEF MeetingInv, MeetingTypes, SeatInv
<1>2. Seated(seat[m], g)
  BY <1>1 DEF Seated, RefNamesSeat
<1> QED
  BY <1>1, <1>2, MemberMoves

LEMMA NoneConnecting ==
  ASSUME NEW row, OneConnecting(row), MaxConnecting = 1,
         Cardinality({e \in Meeting : row[e] \in Connecting}) < MaxConnecting
  PROVE  \A e \in Meeting : row[e] \notin Connecting
<1> SUFFICES ASSUME NEW c \in Meeting, row[c] \in Connecting
             PROVE  FALSE
  OBVIOUS
<1>1. {e \in Meeting : row[e] \in Connecting} = {c}
  BY DEF OneConnecting
<1>2. Cardinality({c}) = 1
  BY FS_Singleton
<1> QED
  BY <1>1, <1>2

\* A connection begins, from a screen that shows no meeting or an invitation.
LEMMA Begins ==
  ASSUME MeetingInv, MaxConnecting = 1, NEW m \in Member, NEW c \in Meeting, BeginConnecting(m, c),
         gc[m].status \in {"idle", "ringing"}, NEW g \in Overlays, gc' = [gc EXCEPT ![m] = g],
         g.status = "connecting", g.ref = gc[m].ref, invites' = invites
  PROVE  MeetingInv'
<1> DEFINE row == [seat[m] EXCEPT ![c] = "token"]
<1>1. seat[m] \in [Meeting -> SeatSteps] /\ Seated(seat[m], gc[m])
  BY DEF MeetingInv, MeetingTypes, SeatInv
<1>2. \A e \in Meeting : seat[m][e] \notin Connecting \cup {"in"}
  BY <1>1, NoneConnecting DEF BeginConnecting, Seated, Shown
<1>3. /\ row \in [Meeting -> SeatSteps] /\ row[c] = "token"
      /\ \A e \in Meeting \ {c} : row[e] = seat[m][e]
  BY <1>1 DEF SeatSteps, Connecting
<1>4. seat' = [seat EXCEPT ![m] = row]
  BY DEF BeginConnecting, Sit, MeetingInv, MeetingTypes
<1> HIDE DEF row
<1>5. Seated(row, g)
  BY <1>2, <1>3 DEF Seated, OneConnecting, RefNamesSeat, Shown, Connecting
<1> QED
  BY <1>3, <1>4, <1>5, MemberMoves DEF MeetingInv, MeetingTypes

\* What is left after cleanup: the room of roomRef is left, and no other was entered.
LEMMA MeetingCleanedUp ==
  ASSUME MeetingInv, NEW m \in Member, NEW steps \in [Meeting -> SeatSteps], CleanupMeeting(m, steps),
         RefNamesSeat(steps, gc[m]), \A c \in Meeting : steps[c] \in Connecting => seat[m][c] \in Connecting,
         invites' = invites
  PROVE  MeetingInv'
<1> DEFINE r == gc[m].ref
           row == IF r = NoMeeting THEN steps ELSE [steps EXCEPT ![r] = Released(steps[r])]
<1>1. seat[m] \in [Meeting -> SeatSteps] /\ Seated(seat[m], gc[m]) /\ r \in Meeting \cup {NoMeeting}
  BY DEF MeetingInv, MeetingTypes, SeatInv, Overlays
<1>2. seat' = [seat EXCEPT ![m] = row] /\ gc' = [gc EXCEPT ![m] = Away]
  BY DEF CleanupMeeting, MeetingInv, MeetingTypes
<1>3. Away \in Overlays /\ Away.status = "idle"
  BY DEF Away, Overlays
<1>4. ASSUME NEW c \in Meeting
      PROVE  /\ row[c] \in SeatSteps /\ row[c] \notin {"joining", "mic", "in"}
             /\ row[c] \in Connecting => seat[m][c] \in Connecting
  <2>1. CASE c = r
    <3>1. row[c] = Released(steps[c])
      BY <2>1, MeetingAssumption
    <3>2. (row[c] = "dead" /\ steps[c] \in Connecting) \/ row[c] = "out"
      BY <3>1 DEF Released, Connecting
    <3> QED
      BY <3>2 DEF SeatSteps, Connecting
  <2>2. CASE c # r
    <3>1. row[c] = steps[c]
      BY <1>1, <2>2
    <3> QED
      BY <2>2, <3>1 DEF RefNamesSeat
  <2> QED
    BY <2>1, <2>2
<1>5. row \in [Meeting -> SeatSteps]
  <2>1. DOMAIN row = Meeting /\ row = [c \in Meeting |-> row[c]]
    BY <1>1
  <2> QED
    BY <1>4, <2>1
<1> HIDE DEF row
<1>6. Seated(row, Away)
  BY <1>1, <1>4 DEF Seated, OneConnecting, RefNamesSeat, Shown
<1>7. invites' \in [Member -> SUBSET Meeting]
  BY DEF MeetingInv, MeetingTypes
<1> QED
  BY <1>2, <1>3, <1>5, <1>6, <1>7, MemberMoves

\* The commands on their way.
LEMMA CommandSent ==
  ASSUME MeetingInv, Sent, NEW k \in Commands, SendCommand(k)
  PROVE  commands' \in [Member -> Seq(Command)]
<1>1. CASE UNCHANGED commands
  BY <1>1 DEF Sent
<1>2. CASE gc[Owner].ref # NoMeeting /\ commands' = Published(gc[Owner].ref, k)
  <2>1. [c |-> gc[Owner].ref, command |-> k] \in Command
    BY <1>2, MeetingAssumption DEF MeetingInv, MeetingTypes, Overlays, Command
  <2>2. ASSUME NEW m \in Member
        PROVE  /\ commands[m] \in Seq(Command)
               /\ Append(commands[m], [c |-> gc[Owner].ref, command |-> k]) \in Seq(Command)
    BY <2>1 DEF Sent
  <2> QED
    BY <1>2, <2>2 DEF Published
<1> QED
  BY <1>1, <1>2 DEF SendCommand

LEMMA SentStepInv ==
  ASSUME MeetingInv, Sent, [MeetingNext]_meetingVars
  PROVE  Sent'
<1>1. CASE UNCHANGED <<press, commands>>
  BY <1>1 DEF Sent
<1>2. CASE MuteAll \/ SetLecture \/ SetDiscussion
  <2>1. press' \in {<<"own", "mute-all">>, <<"own", "mute-all", "lecture">>, <<"discussion">>} /\ commands' = commands
    BY <1>2 DEF MuteAll, SetLecture, SetDiscussion, Presides
  <2> DEFINE S == Commands \cup {"own"}
  <2>2. "own" \in S /\ "mute-all" \in S /\ "lecture" \in S /\ "discussion" \in S
    BY DEF Commands
  <2> HIDE DEF S
  <2>3. /\ <<"own", "mute-all">> \in Seq(S) /\ <<"own", "mute-all", "lecture">> \in Seq(S)
        /\ <<"discussion">> \in Seq(S)
    BY <2>2
  <2>4. press' \in Seq(S)
    BY <2>1, <2>3
  <2> QED
    BY <2>1, <2>4 DEF Sent, S
<1>3. CASE CarryOn
  <2>1. Head(press) \in Commands \cup {"own"} /\ press' \in Seq(Commands \cup {"own"})
    BY <1>3 DEF CarryOn, Sent
  <2>2. CASE Head(press) = "own"
    BY <1>3, <2>1, <2>2 DEF CarryOn, Sent
  <2>3. CASE Head(press) # "own"
    BY <1>3, <2>1, <2>3, CommandSent DEF CarryOn, Sent
  <2> QED
    BY <2>2, <2>3
<1>4. ASSUME NEW n \in news, Arrival(n)
      PROVE  Sent'
  <2>1. gc[Owner].mode \in Commands
    BY MeetingAssumption DEF MeetingInv, MeetingTypes, Overlays, Commands
  <2> QED
    BY <1>4, <2>1, CommandSent DEF Arrival, Sent
<1>5. ASSUME NEW m \in Member, DataReceived(m)
      PROVE  Sent'
  BY <1>5 DEF DataReceived, Sent
<1>6. ASSUME NEW m \in Member, AcceptGroupCall(m) \/ RejectGroupCall(m) \/ LeaveGroupCall(m) \/ ToggleMute(m)
      PROVE  Sent'
  BY <1>1, <1>6 DEF AcceptGroupCall, RejectGroupCall, LeaveGroupCall, ToggleMute
<1>7. ASSUME NEW m \in Member, NEW c \in Meeting,
             \/ StartGroupCall(m, c) \/ ReceiveInvite(m, c) \/ Token(m, c) \/ Joined(m, c) \/ MicrophoneOpen(m, c)
             \/ MeetingFails(m, c) \/ MeetingLost(m, c) \/ MuteGivesUp(m, c)
      PROVE  Sent'
  BY <1>1, <1>7 DEF StartGroupCall, ReceiveInvite, Token, Joined, MicrophoneOpen, MeetingFails, MeetingLost, MuteGivesUp
<1> QED
  BY <1>1, <1>2, <1>3, <1>4, <1>5, <1>6, <1>7 DEF MeetingNext, meetingVars

LEMMA MuteApplied ==
  ASSUME MeetingInv, NEW m \in Member, NEW g \in Overlays, ApplyMute(m, g), seat' = seat, invites' = invites,
         g.ref = gc[m].ref, g.status = gc[m].status, g.call = gc[m].call
  PROVE  MeetingInv'
<1> DEFINE h == [g EXCEPT !.muted = TRUE]
<1>1. h \in Overlays /\ h.ref = g.ref /\ h.status = g.status /\ h.call = g.call
  BY DEF Overlays
<1>2. gc' = [gc EXCEPT ![m] = g] \/ gc' = [gc EXCEPT ![m] = h]
  BY DEF ApplyMute
<1> HIDE DEF h
<1>3. /\ Seated(seat[m], gc[m]) /\ (gc[m].status = "ringing" => gc[m].call \in Meeting)
      /\ invites' \in [Member -> SUBSET Meeting]
  BY DEF MeetingInv, MeetingTypes, SeatInv
<1>4. Shown(seat[m], g) /\ Shown(seat[m], h)
  BY <1>1, <1>3 DEF Seated, Shown
<1> QED
  BY <1>1, <1>2, <1>3, <1>4, OverlayMoves

LEMMA MeetingStepInv ==
  ASSUME MaxConnecting = 1, MeetingInv, Sent, [MeetingNext]_meetingVars
  PROVE  MeetingInv'
<1>1. ASSUME NEW m \in Member
      PROVE  /\ gc[m] \in Overlays /\ seat[m] \in [Meeting -> SeatSteps] /\ Seated(seat[m], gc[m])
             /\ gc[m].status = "ringing" => gc[m].call \in Meeting
  BY DEF MeetingInv, MeetingTypes, SeatInv
<1>2. CASE UNCHANGED <<gc, seat, invites>>
  BY <1>2 DEF MeetingInv, MeetingTypes, SeatInv
\* Entering and leaving.
<1>3. ASSUME NEW m \in Member, NEW c \in Meeting, StartGroupCall(m, c)
      PROVE  MeetingInv'
  <2> DEFINE g == [[gc[m] EXCEPT !.status = "connecting"] EXCEPT !.call = c]
  <2>1. g \in Overlays /\ g.status = "connecting" /\ g.ref = gc[m].ref
    BY <1>1 DEF Overlays
  <2>2. gc' = [gc EXCEPT ![m] = g]
    BY <1>3 DEF StartGroupCall, MeetingInv, MeetingTypes, Overlays
  <2> HIDE DEF g
  <2> QED
    BY <1>3, <2>1, <2>2, Begins DEF StartGroupCall
<1>4. ASSUME NEW m \in Member, AcceptGroupCall(m)
      PROVE  MeetingInv'
  <2> DEFINE g == [gc[m] EXCEPT !.status = "connecting"]
  <2>1. g \in Overlays /\ g.status = "connecting" /\ g.ref = gc[m].ref
    BY <1>1 DEF Overlays
  <2>2. gc' = [gc EXCEPT ![m] = g] /\ gc[m].call \in Meeting
    BY <1>1, <1>4 DEF AcceptGroupCall, MeetingInv, MeetingTypes
  <2> HIDE DEF g
  <2> QED
    BY <1>4, <2>1, <2>2, Begins DEF AcceptGroupCall
<1>5. ASSUME NEW m \in Member, NEW c \in Meeting, ReceiveInvite(m, c)
      PROVE  MeetingInv'
  <2> DEFINE h == [[gc[m] EXCEPT !.status = "ringing"] EXCEPT !.call = c]
             g == IF gc[m].status = "idle" THEN h ELSE gc[m]
  <2>1. h \in Overlays /\ h.call = c /\ h.status = "ringing" /\ h.ref = gc[m].ref
    BY <1>1 DEF Overlays
  <2>2. gc' = [gc EXCEPT ![m] = g] /\ seat' = seat /\ invites' \in [Member -> SUBSET Meeting]
    BY <1>5 DEF ReceiveInvite, rooms, MeetingInv, MeetingTypes, Overlays
  <2> HIDE DEF h
  <2>3. g \in Overlays /\ g.ref = gc[m].ref /\ (g.status = "ringing" => g.call \in Meeting)
    BY <1>1, <2>1
  <2>4. Shown(seat[m], g)
    BY <1>1, <2>1 DEF Seated, Shown
  <2> HIDE DEF g
  <2> QED
    BY <2>2, <2>3, <2>4, OverlayMoves
<1>6. ASSUME NEW m \in Member, RejectGroupCall(m) \/ LeaveGroupCall(m)
      PROVE  MeetingInv'
  <2>1. CleanupMeeting(m, seat[m]) /\ invites' = invites /\ RefNamesSeat(seat[m], gc[m])
    BY <1>1, <1>6 DEF RejectGroupCall, LeaveGroupCall, Seated
  <2> QED
    BY <1>1, <2>1, MeetingCleanedUp
\* connectMeeting: one step of the connection to c, and a screen that has room for it.
<1>7. ASSUME NEW m \in Member, NEW c \in Meeting, NEW step \in {"joining", "mic", "in"}, NEW g \in Overlays,
             seat[m][c] \in Connecting, Sit(m, c, step), gc' = [gc EXCEPT ![m] = g], g.ref = c,
             g.status = "ringing" => g.call \in Meeting, step = "in" => g.status = "connected",
             invites' \in [Member -> SUBSET Meeting]
      PROVE  MeetingInv'
  <2> DEFINE row == [seat[m] EXCEPT ![c] = step]
  <2>1. /\ row \in [Meeting -> SeatSteps] /\ row[c] = step /\ \A e \in Meeting \ {c} : row[e] = seat[m][e]
    BY <1>1, <1>7 DEF SeatSteps, Connecting
  <2>2. seat' = [seat EXCEPT ![m] = row]
    BY <1>7 DEF Sit, MeetingInv, MeetingTypes
  <2> HIDE DEF row
  <2>3. \A e \in Meeting \ {c} : row[e] \notin Connecting \cup {"in"}
    BY <1>1, <1>7, <2>1 DEF Seated, OneConnecting
  <2>4. Seated(row, g)
    BY <1>7, <2>1, <2>3 DEF Seated, OneConnecting, RefNamesSeat, Shown, Connecting
  <2> QED
    BY <1>7, <2>1, <2>2, <2>4, MemberMoves
<1>8. ASSUME NEW m \in Member, NEW c \in Meeting, Token(m, c)
      PROVE  MeetingInv'
  <2> DEFINE g == [[gc[m] EXCEPT !.ref = c] EXCEPT !.host = (m = Owner)]
  <2>1. g \in Overlays /\ g.ref = c /\ g.status = gc[m].status /\ g.call = gc[m].call
    BY <1>1 DEF Overlays
  <2>2. gc' = [gc EXCEPT ![m] = g]
    BY <1>8 DEF Token, MeetingInv, MeetingTypes, Overlays
  <2> HIDE DEF g
  <2>3. seat[m][c] \in Connecting /\ Sit(m, c, "joining") /\ invites' \in [Member -> SUBSET Meeting]
    BY <1>8 DEF Token, Connecting, MeetingInv, MeetingTypes
  <2> QED
    BY <1>1, <1>7, <2>1, <2>2, <2>3
<1>9. ASSUME NEW m \in Member, NEW c \in Meeting, Joined(m, c)
      PROVE  MeetingInv'
  <2>1. gc' = [gc EXCEPT ![m] = gc[m]] /\ gc[m].ref = c
    BY <1>1, <1>9 DEF Joined, Seated, RefNamesSeat, MeetingInv, MeetingTypes
  <2>2. seat[m][c] \in Connecting /\ Sit(m, c, "mic") /\ invites' \in [Member -> SUBSET Meeting]
    BY <1>9 DEF Joined, Connecting, MeetingInv, MeetingTypes
  <2> QED
    BY <1>1, <1>7, <2>1, <2>2
<1>10. ASSUME NEW m \in Member, NEW c \in Meeting, MicrophoneOpen(m, c)
       PROVE  MeetingInv'
  <2> DEFINE b == gc[m].muted \/ c \in muting[m]
             g == [[gc[m] EXCEPT !.status = "connected"] EXCEPT !.muted = b]
  <2>1. b \in BOOLEAN /\ gc[m].ref = c
    BY <1>1, <1>10 DEF Overlays, MicrophoneOpen, Seated, RefNamesSeat
  <2>2. gc' = [gc EXCEPT ![m] = g]
    BY <1>1, <1>10 DEF MicrophoneOpen, MeetingInv, MeetingTypes, Overlays
  <2> HIDE DEF b
  <2>3. g \in Overlays /\ g.ref = c /\ g.status = "connected"
    BY <1>1, <2>1 DEF Overlays
  <2> HIDE DEF g
  <2>4. invites' \in [Member -> SUBSET Meeting]
    BY <1>10 DEF MicrophoneOpen, Broadcast, MeetingInv, MeetingTypes
  <2>5. seat[m][c] \in Connecting /\ Sit(m, c, "in")
    BY <1>10 DEF MicrophoneOpen, Connecting
  <2> QED
    BY <1>7, <2>2, <2>3, <2>4, <2>5
<1>11. ASSUME NEW m \in Member, NEW c \in Meeting, MeetingFails(m, c)
       PROVE  MeetingInv'
  <2> DEFINE steps == [seat[m] EXCEPT ![c] = IF seat[m][c] = "mic" THEN "in" ELSE "out"]
  <2>1. steps \in [Meeting -> SeatSteps] /\ \A e \in Meeting \ {c} : steps[e] = seat[m][e]
    BY <1>1 DEF SeatSteps
  <2>2. steps[c] \notin Connecting /\ (steps[c] \in {"joining", "mic", "in"} => seat[m][c] = "mic")
    BY <1>1 DEF Connecting
  <2>3. CleanupMeeting(m, steps) /\ invites' = invites
    BY <1>11 DEF MeetingFails
  <2> HIDE DEF steps
  <2>4. RefNamesSeat(steps, gc[m])
    BY <1>1, <2>1, <2>2 DEF Seated, RefNamesSeat
  <2> QED
    BY <2>1, <2>2, <2>3, <2>4, MeetingCleanedUp
<1>12. ASSUME NEW m \in Member, NEW c \in Meeting, MeetingLost(m, c)
       PROVE  MeetingInv'
  <2> DEFINE steps == [seat[m] EXCEPT ![c] = Released(seat[m][c])]
  <2>1. /\ steps \in [Meeting -> SeatSteps] /\ \A e \in Meeting \ {c} : steps[e] = seat[m][e]
        /\ steps[c] = Released(seat[m][c])
    BY <1>1 DEF Released, SeatSteps, Connecting
  <2>2. steps[c] \notin {"joining", "mic", "in"} /\ (steps[c] \in Connecting => seat[m][c] \in Connecting)
    BY <2>1 DEF Released, Connecting
  <2>3. CleanupMeeting(m, steps) /\ invites' = invites
    BY <1>12 DEF MeetingLost
  <2> HIDE DEF steps
  <2>4. RefNamesSeat(steps, gc[m])
    BY <1>1, <2>1, <2>2 DEF Seated, RefNamesSeat
  <2> QED
    BY <2>1, <2>2, <2>3, <2>4, MeetingCleanedUp
\* The controls.
<1>13. ASSUME NEW m \in Member, NEW b \in BOOLEAN, NEW mode \in {"discussion", "lecture"},
              gc' = [gc EXCEPT ![m] = [[gc[m] EXCEPT !.muted = b] EXCEPT !.mode = mode]], seat' = seat, invites' = invites
       PROVE  MeetingInv'
  <2> DEFINE g == [[gc[m] EXCEPT !.muted = b] EXCEPT !.mode = mode]
  <2>1. g \in Overlays /\ g.ref = gc[m].ref /\ g.status = gc[m].status /\ g.call = gc[m].call
    BY <1>1 DEF Overlays
  <2>2. gc' = [gc EXCEPT ![m] = g]
    BY <1>13
  <2> HIDE DEF g
  <2>3. Shown(seat[m], g) /\ (g.status = "ringing" => g.call \in Meeting) /\ invites' \in [Member -> SUBSET Meeting]
    BY <1>1, <1>13, <2>1 DEF Seated, Shown, MeetingInv, MeetingTypes
  <2> QED
    BY <1>13, <2>1, <2>2, <2>3, OverlayMoves
<1>14. ASSUME NEW m \in Member, ToggleMute(m)
       PROVE  MeetingInv'
  <2>1. gc' = [gc EXCEPT ![m] = [[gc[m] EXCEPT !.muted = ~gc[m].muted] EXCEPT !.mode = gc[m].mode]]
    BY <1>1, <1>14 DEF ToggleMute, Overlays, MeetingInv, MeetingTypes
  <2>2. gc[m].mode \in {"discussion", "lecture"}
    BY <1>1 DEF Overlays
  <2>3. (~gc[m].muted) \in BOOLEAN /\ seat' = seat /\ invites' = invites
    BY <1>14 DEF ToggleMute
  <2> QED
    BY <1>13, <2>1, <2>2, <2>3
<1>15. ASSUME NEW m \in Member, NEW mode \in {"discussion", "lecture"}, gc' = [gc EXCEPT ![m].mode = mode],
              seat' = seat, invites' = invites
       PROVE  MeetingInv'
  <2>1. gc' = [gc EXCEPT ![m] = [[gc[m] EXCEPT !.muted = gc[m].muted] EXCEPT !.mode = mode]]
    BY <1>1, <1>15 DEF Overlays, MeetingInv, MeetingTypes
  <2>2. gc[m].muted \in BOOLEAN
    BY <1>1 DEF Overlays
  <2> QED
    BY <1>13, <1>15, <2>1, <2>2
<1>16. CASE MuteAll \/ SetLecture \/ SetDiscussion
  BY <1>2, <1>15, <1>16, MeetingAssumption DEF MuteAll, SetLecture, SetDiscussion, Presides, rooms
<1>17. CASE CarryOn
  <2>1. CASE ApplyMute(Owner, gc[Owner])
    BY <1>1, <1>17, <2>1, MuteApplied, MeetingAssumption DEF CarryOn
  <2> QED
    BY <1>2, <1>17, <2>1 DEF CarryOn
<1>18. ASSUME NEW n \in news, Arrival(n)
       PROVE  MeetingInv'
  BY <1>2, <1>18 DEF Arrival, rooms
<1>19. ASSUME NEW m \in Member, DataReceived(m)
       PROVE  MeetingInv'
  <2> DEFINE k == Head(commands[m])
             g == [gc[m] EXCEPT !.mode = "lecture"]
  <2>1. k.command \in Commands
    <3>1. commands[m] \in Seq(Command) /\ commands[m] # << >>
      BY <1>19 DEF DataReceived, Sent
    <3>2. k \in Command
      BY <3>1
    <3> QED
      BY <3>2 DEF Command
  <2>2. g \in Overlays /\ g.ref = gc[m].ref /\ g.status = gc[m].status /\ g.call = gc[m].call
    BY <1>1 DEF Overlays
  <2>3. CASE gc' = gc
    BY <1>2, <1>19, <2>3 DEF DataReceived
  <2>4. CASE ApplyMute(m, gc[m])
    BY <1>1, <1>19, <2>4, MuteApplied DEF DataReceived
  <2>5. CASE ApplyMute(m, g)
    BY <1>19, <2>2, <2>5, MuteApplied DEF DataReceived
  <2>6. CASE gc' = [gc EXCEPT ![m].mode = "discussion"]
    BY <1>15, <1>19, <2>6 DEF DataReceived
  <2>7. gc' = gc \/ ApplyMute(m, gc[m]) \/ ApplyMute(m, g) \/ gc' = [gc EXCEPT ![m].mode = "discussion"]
    <3> HIDE DEF g
    <3>1. CASE k.command = "mute-all"
      BY <1>19, <3>1 DEF DataReceived
    <3>2. CASE k.command = "lecture"
      BY <1>19, <3>2 DEF DataReceived, g
    <3>3. CASE k.command = "discussion"
      BY <1>19, <3>3 DEF DataReceived
    <3> QED
      BY <2>1, <3>1, <3>2, <3>3 DEF Commands
  <2> QED
    BY <2>3, <2>4, <2>5, <2>6, <2>7
<1>20. ASSUME NEW m \in Member, NEW c \in Meeting, MuteGivesUp(m, c)
       PROVE  MeetingInv'
  <2>1. gc' = [gc EXCEPT ![m] = [[gc[m] EXCEPT !.muted = TRUE] EXCEPT !.mode = gc[m].mode]]
    BY <1>1, <1>20 DEF MuteGivesUp, Overlays, MeetingInv, MeetingTypes
  <2>2. gc[m].mode \in {"discussion", "lecture"}
    BY <1>1 DEF Overlays
  <2> QED
    BY <1>13, <1>20, <2>1, <2>2 DEF MuteGivesUp
<1>21. CASE UNCHANGED meetingVars
  BY <1>2, <1>21 DEF meetingVars, rooms
<1> QED
  BY <1>3, <1>4, <1>5, <1>6, <1>8, <1>9, <1>10, <1>11, <1>12, <1>14, <1>16, <1>17, <1>18, <1>19, <1>20, <1>21
     DEF MeetingNext

LEMMA MeetingInvariance ==
  ASSUME MaxConnecting = 1
  PROVE  MeetingSpec => [](MeetingInv /\ Sent)
<1>1. MeetingInit => MeetingInv /\ Sent
  <2> SUFFICES ASSUME MeetingInit PROVE MeetingInv /\ Sent
    OBVIOUS
  <2>1. Away \in Overlays /\ Away.status = "idle"
    BY DEF Away, Overlays
  <2>2. MeetingTypes /\ Sent
    BY <2>1 DEF MeetingInit, MeetingTypes, Sent, SeatSteps
  <2>3. \A m \in Member : gc[m].status = "idle" /\ \A c \in Meeting : seat[m][c] = "none"
    BY <2>1 DEF MeetingInit
  <2>4. SeatInv
    BY <2>3 DEF SeatInv, Seated, OneConnecting, RefNamesSeat, Shown, Connecting
  <2> QED
    BY <2>2, <2>4 DEF MeetingInv
<1>2. MeetingInv /\ Sent /\ [MeetingNext]_meetingVars => (MeetingInv /\ Sent)'
  BY MeetingStepInv, SentStepInv
<1> QED
  BY <1>1, <1>2, PTL DEF MeetingSpec

\* For any number of members, meetings, troubles and presses, as long as a member has one
\* connection under way at a time: whoever leaves, refuses, fails or is thrown out of a meeting is
\* in no room once the screen is closed, however late the token, the connection or the microphone
\* came (cleanup and connectMeeting in useGroupCall.ts).
THEOREM LeavingLeavesNoRoom ==
  ASSUME MaxConnecting = 1
  PROVE  MeetingSpec => []ClosedMeansOut
<1>1. MeetingInv => ClosedMeansOut
  <2> SUFFICES ASSUME MeetingInv, NEW m \in Member, gc[m].status = "idle", ~Busy(m), NEW c \in Meeting, m \in In(c)
               PROVE  FALSE
    BY DEF ClosedMeansOut
  <2> QED
    BY DEF In, Busy, Connecting, MeetingInv, SeatInv, Seated, Shown
<1> QED
  BY <1>1, MeetingInvariance, PTL

-----------------------------------------------------------------------------
(* A meeting follows its host.  What a member shows and lets be heard.     *)

\* own tells the host; o are the rooms that carry its microphone, w those in which a mute
\* waits, and un those in which LiveKit gave a mute up.
Tidy(own, row, g, o, w, un) ==
  /\ g.ref # NoMeeting => row[g.ref] \in {"joining", "mic", "in"}
  /\ g.host = (own /\ g.ref # NoMeeting)
  /\ \A c \in o : row[c] = "in"
  /\ g.mode = "lecture" => /\ g.ref # NoMeeting /\ row[g.ref] \in {"mic", "in"}
                           /\ own \/ g.ref \in un \/ (g.ref \notin o /\ (row[g.ref] = "mic" => g.ref \in w))

Unheeded(m) == {c \in Meeting : <<m, c>> \in unheeded}
TidyMember(m) == Tidy(m = Owner, seat[m], gc[m], open[m], muting[m], Unheeded(m))
TidyInv == /\ open \in [Member -> SUBSET Meeting] /\ muting \in [Member -> SUBSET Meeting]
           /\ \A m \in Member : TidyMember(m)

\* Of a step of member m.
LEMMA TidyMoves ==
  ASSUME MeetingInv, TidyInv, NEW m \in Member, NEW row, NEW g, NEW o \in SUBSET Meeting, NEW w \in SUBSET Meeting,
         seat' = [seat EXCEPT ![m] = row], gc' = [gc EXCEPT ![m] = g],
         open' = [open EXCEPT ![m] = o], muting' = [muting EXCEPT ![m] = w],
         unheeded \subseteq unheeded', NEW un, un = Unheeded(m)', Tidy(m = Owner, row, g, o, w, un)
  PROVE  TidyInv'
<1>1. open' \in [Member -> SUBSET Meeting] /\ muting' \in [Member -> SUBSET Meeting]
  BY DEF TidyInv
<1>2. ASSUME NEW n \in Member
      PROVE  TidyMember(n)'
  <2>1. CASE n = m
    <3>1. seat'[n] = row /\ gc'[n] = g /\ open'[n] = o /\ muting'[n] = w
      BY <2>1 DEF MeetingInv, MeetingTypes, TidyInv
    <3> QED
      BY <2>1, <3>1 DEF TidyMember
  <2>2. CASE n # m
    <3>1. seat'[n] = seat[n] /\ gc'[n] = gc[n] /\ open'[n] = open[n] /\ muting'[n] = muting[n]
      BY <2>2 DEF MeetingInv, MeetingTypes, TidyInv
    <3>2. Tidy(n = Owner, seat[n], gc[n], open[n], muting[n], Unheeded(n)) /\ Unheeded(n) \subseteq Unheeded(n)'
      BY DEF TidyInv, TidyMember, Unheeded
    <3>3. Tidy(n = Owner, seat[n], gc[n], open[n], muting[n], Unheeded(n)')
      BY <3>2 DEF Tidy
    <3> QED
      BY <3>1, <3>3 DEF TidyMember
  <2> QED
    BY <2>1, <2>2
<1> QED
  BY <1>1, <1>2 DEF TidyInv

\* A mute of a member that is in the room of roomRef, or in none.
LEMMA TidyMute ==
  ASSUME MeetingInv, TidyInv, NEW m \in Member, NEW mode \in {"discussion", "lecture"},
         ApplyMute(m, [gc[m] EXCEPT !.mode = mode]), seat' = seat, unheeded' = unheeded,
         mode = "lecture" => gc[m].ref # NoMeeting /\ seat[m][gc[m].ref] \in {"mic", "in"}
  PROVE  TidyInv'
<1> DEFINE g == [gc[m] EXCEPT !.mode = mode]
           h == [g EXCEPT !.muted = TRUE]
           c == gc[m].ref
<1>1. /\ gc[m] \in Overlays /\ seat' = [seat EXCEPT ![m] = seat[m]]
      /\ open = [open EXCEPT ![m] = open[m]] /\ muting = [muting EXCEPT ![m] = muting[m]]
      /\ open[m] \in SUBSET Meeting /\ muting[m] \in SUBSET Meeting
      /\ Tidy(m = Owner, seat[m], gc[m], open[m], muting[m], Unheeded(m)) /\ Unheeded(m)' = Unheeded(m)
  BY DEF MeetingInv, MeetingTypes, TidyInv, TidyMember, Unheeded
<1>2. /\ g.ref = c /\ g.host = gc[m].host /\ g.mode = mode
      /\ h.ref = c /\ h.host = gc[m].host /\ h.mode = mode
      /\ c \in Meeting \cup {NoMeeting}
  BY <1>1 DEF Overlays
<1>3. /\ c = NoMeeting => gc' = [gc EXCEPT ![m] = g] /\ UNCHANGED <<open, muting>>
      /\ c # NoMeeting /\ seat[m][c] = "in" =>
           gc' = [gc EXCEPT ![m] = h] /\ open' = [open EXCEPT ![m] = open[m] \ {c}] /\ muting' = muting
      /\ c # NoMeeting /\ seat[m][c] # "in" =>
           gc' = [gc EXCEPT ![m] = g] /\ muting' = [muting EXCEPT ![m] = muting[m] \cup {c}] /\ open' = open
  BY <1>1, <1>2 DEF ApplyMute, TidyInv
<1> HIDE DEF g, h
<1>4. CASE c = NoMeeting
  <2>1. Tidy(m = Owner, seat[m], g, open[m], muting[m], Unheeded(m)')
    BY <1>1, <1>2, <1>4 DEF Tidy
  <2>2. gc' = [gc EXCEPT ![m] = g] /\ open' = [open EXCEPT ![m] = open[m]] /\ muting' = [muting EXCEPT ![m] = muting[m]]
    BY <1>1, <1>3, <1>4
  <2>3. seat' = [seat EXCEPT ![m] = seat[m]] /\ unheeded \subseteq unheeded'
    BY <1>1
  <2> QED
    BY <1>1, <2>1, <2>2, <2>3, TidyMoves
<1>5. CASE c # NoMeeting /\ seat[m][c] = "in"
  <2>1. Tidy(m = Owner, seat[m], h, open[m] \ {c}, muting[m], Unheeded(m)')
    BY <1>1, <1>2, <1>5 DEF Tidy
  <2>2. gc' = [gc EXCEPT ![m] = h] /\ open' = [open EXCEPT ![m] = open[m] \ {c}] /\ muting' = [muting EXCEPT ![m] = muting[m]]
    BY <1>1, <1>3, <1>5
  <2>3. seat' = [seat EXCEPT ![m] = seat[m]] /\ unheeded \subseteq unheeded' /\ open[m] \ {c} \in SUBSET Meeting
    BY <1>1
  <2> QED
    BY <1>1, <2>1, <2>2, <2>3, TidyMoves
<1>6. CASE c # NoMeeting /\ seat[m][c] # "in"
  <2>1. Tidy(m = Owner, seat[m], g, open[m], muting[m] \cup {c}, Unheeded(m)')
    BY <1>1, <1>2, <1>6 DEF Tidy
  <2>2. muting[m] \cup {c} \in SUBSET Meeting /\ open' = [open EXCEPT ![m] = open[m]] /\ gc' = [gc EXCEPT ![m] = g]
        /\ muting' = [muting EXCEPT ![m] = muting[m] \cup {c}] /\ seat' = [seat EXCEPT ![m] = seat[m]]
    BY <1>1, <1>2, <1>3, <1>6
  <2> QED
    BY <1>1, <2>1, <2>2, TidyMoves
<1> QED
  BY <1>4, <1>5, <1>6

\* cleanup leaves nothing to be heard.
LEMMA TidyCleaned ==
  ASSUME MeetingInv, TidyInv, NEW m \in Member, NEW steps, CleanupMeeting(m, steps)
  PROVE  TidyInv'
<1> DEFINE c == gc[m].ref
           row == IF c = NoMeeting THEN steps ELSE [steps EXCEPT ![c] = Released(steps[c])]
<1>1. /\ Seated(seat[m], gc[m]) /\ open[m] \in SUBSET Meeting /\ muting[m] \in SUBSET Meeting
      /\ Tidy(m = Owner, seat[m], gc[m], open[m], muting[m], Unheeded(m))
  BY DEF MeetingInv, SeatInv, TidyInv, TidyMember
<1>2. /\ seat' = [seat EXCEPT ![m] = row] /\ gc' = [gc EXCEPT ![m] = Away]
      /\ open' = [open EXCEPT ![m] = open[m] \ {c}] /\ muting' = [muting EXCEPT ![m] = muting[m] \ {c}]
      /\ unheeded' = unheeded
  BY DEF CleanupMeeting, MeetingInv, MeetingTypes, TidyInv
<1>3. open[m] \ {c} = {}
  BY <1>1 DEF Tidy, Seated, RefNamesSeat
<1>4. Away.ref = NoMeeting /\ Away.host = FALSE /\ Away.mode = "discussion"
  BY DEF Away
<1> HIDE DEF row
<1>5. Tidy(m = Owner, row, Away, {}, muting[m] \ {c}, Unheeded(m)')
  BY <1>4 DEF Tidy
<1> QED
  BY <1>1, <1>2, <1>3, <1>5, TidyMoves

\* A step of member m that does not touch what it lets be heard.
LEMMA TidySame ==
  ASSUME MeetingInv, TidyInv, NEW m \in Member, NEW row, NEW g,
         seat' = [seat EXCEPT ![m] = row], gc' = [gc EXCEPT ![m] = g], UNCHANGED <<open, muting, unheeded>>,
         Tidy(m = Owner, row, g, open[m], muting[m], Unheeded(m))
  PROVE  TidyInv'
<1>1. /\ open[m] \in SUBSET Meeting /\ muting[m] \in SUBSET Meeting
      /\ open' = [open EXCEPT ![m] = open[m]] /\ muting' = [muting EXCEPT ![m] = muting[m]]
      /\ Unheeded(m)' = Unheeded(m)
  BY DEF TidyInv, Unheeded
<1> QED
  BY <1>1, TidyMoves

\* A connection begins: nothing was entered before.
LEMMA TidyBegins ==
  ASSUME MeetingInv, TidyInv, MaxConnecting = 1, NEW m \in Member, NEW c \in Meeting, BeginConnecting(m, c),
         gc[m].status \in {"idle", "ringing"}, NEW g, gc' = [gc EXCEPT ![m] = g],
         g.ref = gc[m].ref, g.host = gc[m].host, g.mode = gc[m].mode, UNCHANGED <<open, muting, unheeded>>
  PROVE  TidyInv'
<1> DEFINE row == [seat[m] EXCEPT ![c] = "token"]
<1>1. /\ Seated(seat[m], gc[m]) /\ gc[m].ref \in Meeting \cup {NoMeeting}
      /\ Tidy(m = Owner, seat[m], gc[m], open[m], muting[m], Unheeded(m))
      /\ seat' = [seat EXCEPT ![m] = row] /\ open[m] \in SUBSET Meeting
  BY DEF MeetingInv, SeatInv, MeetingTypes, Overlays, TidyInv, TidyMember, BeginConnecting, Sit
<1>2. \A e \in Meeting : seat[m][e] \notin Connecting \cup {"in"}
  BY <1>1, NoneConnecting DEF BeginConnecting, Seated, Shown
<1>3. gc[m].ref = NoMeeting /\ open[m] = {}
  BY <1>1, <1>2 DEF Tidy, Connecting
<1> HIDE DEF row
<1>4. Tidy(m = Owner, row, g, open[m], muting[m], Unheeded(m))
  BY <1>1, <1>3 DEF Tidy
<1> QED
  BY <1>1, <1>4, TidySame

LEMMA TidyStep ==
  ASSUME MaxConnecting = 1, MeetingInv, Sent, TidyInv, [MeetingNext]_meetingVars
  PROVE  TidyInv'
<1>1. ASSUME NEW m \in Member
      PROVE  /\ gc[m] \in Overlays /\ seat[m] \in [Meeting -> SeatSteps] /\ Seated(seat[m], gc[m])
             /\ Tidy(m = Owner, seat[m], gc[m], open[m], muting[m], Unheeded(m))
             /\ seat = [seat EXCEPT ![m] = seat[m]] /\ gc = [gc EXCEPT ![m] = gc[m]]
             /\ gc[m].ref \in Meeting \cup {NoMeeting}
  BY DEF MeetingInv, MeetingTypes, SeatInv, TidyInv, TidyMember, Overlays
<1>2. CASE UNCHANGED <<gc, rooms>>
  BY <1>2 DEF rooms, TidyInv, TidyMember, Unheeded
\* Entering and leaving.
<1>3. ASSUME NEW m \in Member, NEW c \in Meeting, StartGroupCall(m, c)
      PROVE  TidyInv'
  <2> DEFINE g == [[gc[m] EXCEPT !.status = "connecting"] EXCEPT !.call = c]
  <2>1. g.ref = gc[m].ref /\ g.host = gc[m].host /\ g.mode = gc[m].mode
    BY <1>1 DEF Overlays
  <2>2. gc' = [gc EXCEPT ![m] = g]
    BY <1>3 DEF StartGroupCall, MeetingInv, MeetingTypes, Overlays
  <2> HIDE DEF g
  <2> QED
    BY <1>3, <2>1, <2>2, TidyBegins DEF StartGroupCall
<1>4. ASSUME NEW m \in Member, AcceptGroupCall(m)
      PROVE  TidyInv'
  <2> DEFINE g == [gc[m] EXCEPT !.status = "connecting"]
  <2>1. g.ref = gc[m].ref /\ g.host = gc[m].host /\ g.mode = gc[m].mode
    BY <1>1 DEF Overlays
  <2>2. gc' = [gc EXCEPT ![m] = g] /\ gc[m].call \in Meeting
    BY <1>4 DEF AcceptGroupCall, MeetingInv, MeetingTypes, SeatInv
  <2> HIDE DEF g
  <2> QED
    BY <1>4, <2>1, <2>2, TidyBegins DEF AcceptGroupCall
<1>5. ASSUME NEW m \in Member, NEW c \in Meeting, ReceiveInvite(m, c)
      PROVE  TidyInv'
  <2> DEFINE g == [[gc[m] EXCEPT !.status = "ringing"] EXCEPT !.call = c]
  <2>1. g.ref = gc[m].ref /\ g.host = gc[m].host /\ g.mode = gc[m].mode
    BY <1>1 DEF Overlays
  <2>2. (gc' = [gc EXCEPT ![m] = g] \/ gc' = gc) /\ UNCHANGED rooms
    BY <1>5 DEF ReceiveInvite, MeetingInv, MeetingTypes, Overlays
  <2> HIDE DEF g
  <2>3. Tidy(m = Owner, seat[m], g, open[m], muting[m], Unheeded(m))
    BY <1>1, <2>1 DEF Tidy
  <2>4. CASE gc' = [gc EXCEPT ![m] = g]
    BY <1>1, <2>2, <2>3, <2>4, TidySame DEF rooms
  <2> QED
    BY <1>2, <2>2, <2>4
<1>6. ASSUME NEW m \in Member,
             RejectGroupCall(m) \/ LeaveGroupCall(m) \/ \E c \in Meeting : MeetingFails(m, c) \/ MeetingLost(m, c)
      PROVE  TidyInv'
  <2>1. PICK steps : CleanupMeeting(m, steps)
    BY <1>6 DEF RejectGroupCall, LeaveGroupCall, MeetingFails, MeetingLost
  <2> QED
    BY <2>1, TidyCleaned
\* connectMeeting.
<1>7. ASSUME NEW m \in Member, NEW c \in Meeting, Token(m, c)
      PROVE  TidyInv'
  <2> DEFINE g == [[gc[m] EXCEPT !.ref = c] EXCEPT !.host = (m = Owner)]
             row == [seat[m] EXCEPT ![c] = "joining"]
  <2>1. g.ref = c /\ g.host = (m = Owner) /\ g.mode = gc[m].mode
    BY <1>1 DEF Overlays
  <2>2. gc' = [gc EXCEPT ![m] = g] /\ seat' = [seat EXCEPT ![m] = row] /\ UNCHANGED <<open, muting, unheeded>>
    BY <1>7 DEF Token, Sit, MeetingInv, MeetingTypes, Overlays
  <2>3. row[c] = "joining"
    BY <1>1
  <2>4. seat[m][c] = "token" /\ \A e \in Meeting : seat[m][e] \notin {"joining", "mic", "in"}
    BY <1>1, <1>7 DEF Token, Seated, OneConnecting, Connecting
  <2>5. gc[m].mode # "lecture" /\ open[m] = {}
    BY <1>1, <2>4 DEF Tidy, TidyInv
  <2> HIDE DEF g, row
  <2>6. Tidy(m = Owner, row, g, open[m], muting[m], Unheeded(m))
    BY <2>1, <2>3, <2>5, MeetingAssumption DEF Tidy
  <2> QED
    BY <2>2, <2>6, TidySame
<1>8. ASSUME NEW m \in Member, NEW c \in Meeting, Joined(m, c)
      PROVE  TidyInv'
  <2> DEFINE row == [seat[m] EXCEPT ![c] = "mic"]
  <2>1. gc' = [gc EXCEPT ![m] = gc[m]] /\ seat' = [seat EXCEPT ![m] = row] /\ UNCHANGED <<open, muting, unheeded>>
    BY <1>1, <1>8 DEF Joined, Sit, MeetingInv, MeetingTypes
  <2>2. row[c] = "mic" /\ \A e \in Meeting \ {c} : row[e] = seat[m][e]
    BY <1>1
  <2>3. seat[m][c] = "joining" /\ gc[m].ref = c /\ open[m] \in SUBSET Meeting
    BY <1>1, <1>8 DEF Joined, Seated, RefNamesSeat, TidyInv
  <2> HIDE DEF row
  <2>4. Tidy(m = Owner, row, gc[m], open[m], muting[m], Unheeded(m))
    BY <1>1, <2>2, <2>3 DEF Tidy
  <2> QED
    BY <2>1, <2>4, TidySame
<1>9. ASSUME NEW m \in Member, NEW c \in Meeting, MicrophoneOpen(m, c)
      PROVE  TidyInv'
  <2> DEFINE b == gc[m].muted \/ c \in muting[m]
             g == [[gc[m] EXCEPT !.status = "connected"] EXCEPT !.muted = b]
             row == [seat[m] EXCEPT ![c] = "in"]
             o == IF c \in muting[m] THEN open[m] ELSE open[m] \cup {c}
             w == muting[m] \ {c}
  <2>1. g.ref = gc[m].ref /\ g.host = gc[m].host /\ g.mode = gc[m].mode
    BY <1>1 DEF Overlays
  <2>2. /\ gc' = [gc EXCEPT ![m] = g] /\ seat' = [seat EXCEPT ![m] = row] /\ unheeded' = unheeded
        /\ open' = [open EXCEPT ![m] = o] /\ muting' = [muting EXCEPT ![m] = w]
    BY <1>9 DEF MicrophoneOpen, Sit, MeetingInv, MeetingTypes, Overlays, TidyInv
  <2>3. row[c] = "in" /\ \A e \in Meeting \ {c} : row[e] = seat[m][e]
    BY <1>1
  <2>4. /\ seat[m][c] = "mic" /\ gc[m].ref = c /\ open[m] \in SUBSET Meeting /\ muting[m] \in SUBSET Meeting
        /\ c \notin open[m] /\ Unheeded(m)' = Unheeded(m)
    <3>1. seat[m][c] = "mic" /\ gc[m].ref = c
      BY <1>1, <1>9 DEF MicrophoneOpen, Seated, RefNamesSeat
    <3>2. open[m] \in SUBSET Meeting /\ muting[m] \in SUBSET Meeting /\ Unheeded(m)' = Unheeded(m)
      BY <2>2 DEF TidyInv, Unheeded
    <3> QED
      BY <1>1, <3>1, <3>2 DEF Tidy
  <2> HIDE DEF g, row
  <2>5. Tidy(m = Owner, row, g, o, w, Unheeded(m)') /\ o \in SUBSET Meeting /\ w \in SUBSET Meeting
    BY <1>1, <2>1, <2>3, <2>4 DEF Tidy
  <2> HIDE DEF o, w
  <2> QED
    BY <2>2, <2>5, TidyMoves
\* The controls.
<1>10. ASSUME NEW m \in Member, NEW mode \in {"discussion", "lecture"}, gc' = [gc EXCEPT ![m].mode = mode], UNCHANGED rooms,
              mode = "lecture" => m = Owner /\ gc[m].ref # NoMeeting /\ seat[m][gc[m].ref] \in {"mic", "in"}
       PROVE  TidyInv'
  <2> DEFINE g == [gc[m] EXCEPT !.mode = mode]
  <2>1. g.ref = gc[m].ref /\ g.host = gc[m].host /\ g.mode = mode
    BY <1>1 DEF Overlays
  <2>2. gc' = [gc EXCEPT ![m] = g]
    BY <1>10 DEF MeetingInv, MeetingTypes
  <2> HIDE DEF g
  <2>3. Tidy(m = Owner, seat[m], g, open[m], muting[m], Unheeded(m))
    BY <1>1, <1>10, <2>1 DEF Tidy
  <2>4. seat' = [seat EXCEPT ![m] = seat[m]] /\ UNCHANGED <<open, muting, unheeded>>
    BY <1>1, <1>10 DEF rooms
  <2> QED
    BY <2>2, <2>3, <2>4, TidySame
<1>11. ASSUME NEW m \in Member, ToggleMute(m)
       PROVE  TidyInv'
  <2> DEFINE b == ~gc[m].muted
             g == [gc[m] EXCEPT !.muted = b]
             c == gc[m].ref
             o == IF gc[m].muted THEN open[m] \cup {c} ELSE open[m] \ {c}
  <2>1. g.ref = gc[m].ref /\ g.host = gc[m].host /\ g.mode = gc[m].mode
    BY <1>1 DEF Overlays
  <2>2. /\ gc' = [gc EXCEPT ![m] = g] /\ open' = [open EXCEPT ![m] = o] /\ UNCHANGED <<seat, muting, unheeded>>
    BY <1>11 DEF ToggleMute, MeetingInv, MeetingTypes, TidyInv
  <2>3. /\ c \in Meeting /\ seat[m][c] = "in" /\ (gc[m].mode = "lecture" => m = Owner)
        /\ open[m] \in SUBSET Meeting /\ muting[m] \in SUBSET Meeting /\ Unheeded(m)' = Unheeded(m)
        /\ muting' = [muting EXCEPT ![m] = muting[m]] /\ seat' = [seat EXCEPT ![m] = seat[m]]
    BY <1>1, <1>11, <2>2 DEF ToggleMute, TidyInv, Tidy, Unheeded
  <2> HIDE DEF g
  <2>4. Tidy(m = Owner, seat[m], g, o, muting[m], Unheeded(m)') /\ o \in SUBSET Meeting
    BY <1>1, <2>1, <2>3 DEF Tidy
  <2> HIDE DEF o
  <2> QED
    BY <2>2, <2>3, <2>4, TidyMoves
<1>12. CASE MuteAll \/ SetLecture \/ SetDiscussion
  BY <1>2, <1>10, <1>12, MeetingAssumption DEF MuteAll, SetLecture, SetDiscussion, Presides
<1>13. CASE CarryOn
  <2>1. CASE ApplyMute(Owner, gc[Owner])
    <3>1. gc[Owner] = [gc[Owner] EXCEPT !.mode = gc[Owner].mode] /\ gc[Owner].mode \in {"discussion", "lecture"}
      BY <1>1, MeetingAssumption DEF Overlays
    <3>2. gc[Owner].mode = "lecture" => gc[Owner].ref # NoMeeting /\ seat[Owner][gc[Owner].ref] \in {"mic", "in"}
      BY <1>1, MeetingAssumption DEF Tidy
    <3> QED
      BY <1>13, <2>1, <3>1, <3>2, TidyMute, MeetingAssumption DEF CarryOn
  <2> QED
    BY <1>2, <1>13, <2>1 DEF CarryOn, rooms
<1>14. ASSUME NEW n \in news, Arrival(n)
       PROVE  TidyInv'
  BY <1>2, <1>14 DEF Arrival
<1>15. ASSUME NEW m \in Member, DataReceived(m)
       PROVE  TidyInv'
  <2> DEFINE k == Head(commands[m])
  <2>1. k \in Command /\ seat' = seat /\ unheeded' = unheeded
    <3>1. commands[m] \in Seq(Command) /\ commands[m] # << >>
      BY <1>15 DEF DataReceived, Sent
    <3> QED
      BY <1>15, <3>1 DEF DataReceived
  <2>2. CASE m \notin In(k.c)
    BY <1>2, <1>15, <2>2 DEF DataReceived, rooms
  <2>3. CASE m \in In(k.c)
    <3>1. gc[m].ref = k.c /\ seat[m][k.c] \in {"mic", "in"} /\ k.c # NoMeeting
      BY <1>1, <2>1, <2>3, MeetingAssumption DEF In, Command, Seated, RefNamesSeat
    <3>2. CASE k.command = "mute-all"
      <4>1. gc[m] = [gc[m] EXCEPT !.mode = gc[m].mode] /\ gc[m].mode \in {"discussion", "lecture"}
        BY <1>1 DEF Overlays
      <4>2. ApplyMute(m, gc[m])
        BY <1>15, <2>3, <3>2 DEF DataReceived
      <4> QED
        BY <2>1, <3>1, <4>1, <4>2, TidyMute
    <3>3. CASE k.command = "lecture"
      <4>1. ApplyMute(m, [gc[m] EXCEPT !.mode = "lecture"])
        BY <1>15, <2>3, <3>3 DEF DataReceived
      <4> QED
        BY <2>1, <3>1, <4>1, TidyMute
    <3>4. CASE k.command = "discussion"
      BY <1>10, <1>15, <2>3, <3>4 DEF DataReceived, rooms
    <3> QED
      BY <2>1, <3>2, <3>3, <3>4 DEF Command, Commands
  <2> QED
    BY <2>2, <2>3
<1>16. ASSUME NEW m \in Member, NEW c \in Meeting, MuteGivesUp(m, c)
       PROVE  TidyInv'
  <2> DEFINE g == [gc[m] EXCEPT !.muted = TRUE]
             w == muting[m] \ {c}
  <2>1. g.ref = gc[m].ref /\ g.host = gc[m].host /\ g.mode = gc[m].mode
    BY <1>1 DEF Overlays
  <2>2. /\ gc' = [gc EXCEPT ![m] = g] /\ muting' = [muting EXCEPT ![m] = w] /\ UNCHANGED <<seat, open>>
        /\ unheeded' = unheeded \cup {<<m, c>>}
    BY <1>16 DEF MuteGivesUp, MeetingInv, MeetingTypes, TidyInv
  <2>3. Unheeded(m)' = Unheeded(m) \cup {c}
    BY <2>2 DEF Unheeded
  <2>4. open[m] \in SUBSET Meeting /\ w \in SUBSET Meeting /\ open' = [open EXCEPT ![m] = open[m]]
        /\ seat' = [seat EXCEPT ![m] = seat[m]]
    BY <1>1, <2>2 DEF TidyInv
  <2> HIDE DEF g
  <2>5. Tidy(m = Owner, seat[m], g, open[m], w, Unheeded(m)')
    BY <1>1, <2>1, <2>3 DEF Tidy
  <2> HIDE DEF w
  <2> QED
    BY <2>2, <2>4, <2>5, TidyMoves
<1>17. CASE UNCHANGED meetingVars
  BY <1>2, <1>17 DEF meetingVars
<1> QED
  BY <1>3, <1>4, <1>5, <1>6, <1>7, <1>8, <1>9, <1>11, <1>12, <1>13, <1>14, <1>15, <1>16, <1>17 DEF MeetingNext

\* A member enters a meeting once.  Invited tells of an invitation on its way or on the screen,
\* and Begun that who started the meeting was in it.
Invited(m, c) == c \in invites[m] \/ (gc[m].status = "ringing" /\ gc[m].call = c)
Begun(c) == seat[c.by][c] \in {"in", "out"}
EnteredOnce ==
  \A m \in Member, c \in Meeting :
    /\ Invited(m, c) => m # c.by /\ seat[m][c] = "none" /\ Begun(c)
    /\ c \in invites[m] => ~(gc[m].status = "ringing" /\ gc[m].call = c)
    /\ seat[m][c] # "none" /\ m # c.by => Begun(c)

\* A step that neither invites nor begins a connection.
LEMMA EntersKeep ==
  ASSUME EnteredOnce,
         \A n \in Member, e \in Meeting : /\ seat[n][e] \in {"in", "out"} => seat'[n][e] \in {"in", "out"}
                                          /\ seat[n][e] = "none" <=> seat'[n][e] = "none"
                                          /\ Invited(n, e)' => Invited(n, e)
                                          /\ e \in invites'[n] => ~(gc'[n].status = "ringing" /\ gc'[n].call = e)
  PROVE  EnteredOnce'
<1> SUFFICES ASSUME NEW m \in Member, NEW c \in Meeting
             PROVE  /\ Invited(m, c)' => m # c.by /\ seat'[m][c] = "none" /\ Begun(c)'
                    /\ c \in invites'[m] => ~(gc'[m].status = "ringing" /\ gc'[m].call = c)
                    /\ seat'[m][c] # "none" /\ m # c.by => Begun(c)'
  BY DEF EnteredOnce
<1>1. /\ Invited(m, c) => m # c.by /\ seat[m][c] = "none" /\ Begun(c)
      /\ seat[m][c] # "none" /\ m # c.by => Begun(c)
  BY DEF EnteredOnce
<1>2. Begun(c) => Begun(c)'
  BY MeetingAssumption DEF Begun
<1> QED
  BY <1>1, <1>2

\* cleanup of member m: it leaves every room, and no connection begins.
LEMMA RoomsLeft ==
  ASSUME MeetingInv, TidyInv, NEW m \in Member, NEW steps \in [Meeting -> SeatSteps], CleanupMeeting(m, steps),
         RefNamesSeat(steps, gc[m]), NEW c \in Meeting, steps[c] = seat[m][c] \/ steps[c] \in {"in", "out", "dead"}
  PROVE  /\ seat'[m][c] = seat[m][c] \/ seat'[m][c] \in {"dead", "out"}
         /\ seat'[m][c] \notin {"joining", "mic", "in"}
         /\ steps[c] \in {"in", "out"} => seat'[m][c] = "out"
         /\ gc'[m] = Away
<1> DEFINE r == gc[m].ref
           row == IF r = NoMeeting THEN steps ELSE [steps EXCEPT ![r] = Released(steps[r])]
<1>1. seat'[m] = row /\ gc'[m] = Away
  BY DEF CleanupMeeting, MeetingInv, MeetingTypes
<1>2. CASE c = r
  <2>1. row[c] = Released(steps[c])
    BY <1>2, MeetingAssumption
  <2> QED
    BY <1>1, <2>1 DEF Released
<1>3. CASE c # r
  <2>1. row[c] = steps[c] /\ steps[c] \notin {"joining", "mic", "in"}
    BY <1>3 DEF RefNamesSeat
  <2> QED
    BY <1>1, <2>1
<1> QED
  BY <1>2, <1>3

\* Of a step of member m with its room objects, or its screen.
LEMMA EntersMember ==
  ASSUME MeetingInv, EnteredOnce, NEW m \in Member, NEW row, NEW g,
         seat' = [seat EXCEPT ![m] = row], gc' = [gc EXCEPT ![m] = g], UNCHANGED invites,
         g.status = "ringing" => gc[m].status = "ringing" /\ g.call = gc[m].call,
         \A e \in Meeting : /\ seat[m][e] \in {"in", "out"} => row[e] \in {"in", "out"}
                            /\ seat[m][e] = "none" <=> row[e] = "none"
  PROVE  EnteredOnce'
<1>1. ASSUME NEW n \in Member
      PROVE  \/ seat'[n] = seat[n] /\ gc'[n] = gc[n]
             \/ n = m /\ seat'[n] = row /\ gc'[n] = g
  BY DEF MeetingInv, MeetingTypes
<1>2. ASSUME NEW n \in Member, NEW e \in Meeting
      PROVE  /\ seat[n][e] \in {"in", "out"} => seat'[n][e] \in {"in", "out"}
             /\ seat[n][e] = "none" <=> seat'[n][e] = "none"
             /\ gc'[n].status = "ringing" => gc[n].status = "ringing" /\ gc'[n].call = gc[n].call
  BY <1>1
<1>3. ASSUME NEW n \in Member, NEW e \in Meeting
      PROVE  /\ Invited(n, e)' => Invited(n, e)
             /\ e \in invites'[n] => ~(gc'[n].status = "ringing" /\ gc'[n].call = e)
  BY <1>2 DEF Invited, EnteredOnce
<1> QED
  BY <1>2, <1>3, EntersKeep

LEMMA EnteredStep ==
  ASSUME MaxConnecting = 1, MeetingInv, Sent, TidyInv, EnteredOnce, [MeetingNext]_meetingVars
  PROVE  EnteredOnce'
<1>1. ASSUME NEW m \in Member
      PROVE  /\ gc[m] \in Overlays /\ seat[m] \in [Meeting -> SeatSteps] /\ Seated(seat[m], gc[m])
             /\ seat = [seat EXCEPT ![m] = seat[m]] /\ gc = [gc EXCEPT ![m] = gc[m]] /\ invites[m] \in SUBSET Meeting
  BY DEF MeetingInv, MeetingTypes, SeatInv
<1>2. CASE UNCHANGED <<gc, seat, invites>>
  BY <1>2 DEF EnteredOnce, Invited, Begun
<1>3. ASSUME NEW m \in Member, NEW g \in Overlays, gc' = [gc EXCEPT ![m] = g], g.status = gc[m].status,
             g.call = gc[m].call, UNCHANGED <<seat, invites>>
      PROVE  EnteredOnce'
  BY <1>1, <1>3, EntersMember
\* A connection begins.
<1>4. ASSUME NEW m \in Member, NEW c \in Meeting, seat' = [seat EXCEPT ![m][c] = "token"], UNCHANGED invites,
             NEW g, gc' = [gc EXCEPT ![m] = g], g.status = "connecting",
             seat[m][c] = "none", m # c.by => Begun(c), c \notin invites[m]
      PROVE  EnteredOnce'
  <2>1. ASSUME NEW n \in Member, NEW e \in Meeting
        PROVE  /\ \/ seat'[n][e] = seat[n][e]
                  \/ n = m /\ e = c /\ seat'[n][e] = "token"
               /\ gc'[n].status = "ringing" => n # m /\ gc'[n] = gc[n]
    BY <1>1, <1>4 DEF MeetingInv, MeetingTypes
  <2>2. ASSUME NEW e \in Meeting
        PROVE  Begun(e) => Begun(e)'
    BY <1>4, <2>1, MeetingAssumption DEF Begun
  <2> SUFFICES ASSUME NEW n \in Member, NEW e \in Meeting
               PROVE  /\ Invited(n, e)' => n # e.by /\ seat'[n][e] = "none" /\ Begun(e)'
                      /\ e \in invites'[n] => ~(gc'[n].status = "ringing" /\ gc'[n].call = e)
                      /\ seat'[n][e] # "none" /\ n # e.by => Begun(e)'
    BY DEF EnteredOnce
  <2>3. Invited(n, e)' => Invited(n, e) /\ ~(n = m /\ e = c)
    BY <1>4, <2>1 DEF Invited
  <2>4. /\ Invited(n, e) => n # e.by /\ seat[n][e] = "none" /\ Begun(e)
        /\ e \in invites[n] => ~(gc[n].status = "ringing" /\ gc[n].call = e)
        /\ seat[n][e] # "none" /\ n # e.by => Begun(e)
    BY DEF EnteredOnce
  <2> QED
    BY <1>4, <2>1, <2>2, <2>3, <2>4
<1>5. ASSUME NEW m \in Member, NEW c \in Meeting, StartGroupCall(m, c)
      PROVE  EnteredOnce'
  <2> DEFINE g == [[gc[m] EXCEPT !.status = "connecting"] EXCEPT !.call = c]
  <2>1. g.status = "connecting"
    BY <1>1 DEF Overlays
  <2>2. gc' = [gc EXCEPT ![m] = g]
    BY <1>5 DEF StartGroupCall, MeetingInv, MeetingTypes, Overlays
  <2> HIDE DEF g
  <2>3. seat' = [seat EXCEPT ![m][c] = "token"]
    BY <1>5 DEF StartGroupCall, BeginConnecting, Sit
  <2>4. seat[m][c] = "none" /\ m = c.by /\ c \notin invites[m] /\ UNCHANGED invites
    BY <1>5 DEF StartGroupCall, EnteredOnce, Invited
  <2> QED
    BY <1>4, <2>1, <2>2, <2>3, <2>4
<1>6. ASSUME NEW m \in Member, AcceptGroupCall(m)
      PROVE  EnteredOnce'
  <2> DEFINE g == [gc[m] EXCEPT !.status = "connecting"]
             c == gc[m].call
  <2>1. /\ gc' = [gc EXCEPT ![m] = g] /\ g.status = "connecting" /\ seat' = [seat EXCEPT ![m][c] = "token"]
        /\ c \in Meeting /\ gc[m].status = "ringing"
    BY <1>1, <1>6 DEF AcceptGroupCall, BeginConnecting, Sit, MeetingInv, MeetingTypes, Overlays, SeatInv
  <2> HIDE DEF g
  <2>2. seat[m][c] = "none" /\ Begun(c) /\ c \notin invites[m] /\ UNCHANGED invites
    BY <1>6, <2>1 DEF AcceptGroupCall, EnteredOnce, Invited
  <2> QED
    BY <1>4, <2>1, <2>2
\* An invitation is sent, when the microphone of who started the meeting is open, and arrives.
<1>7. ASSUME NEW m \in Member, NEW c \in Meeting, MicrophoneOpen(m, c)
      PROVE  EnteredOnce'
  <2>1. ASSUME NEW n \in Member, NEW e \in Meeting
        PROVE  /\ \/ seat'[n][e] = seat[n][e]
                  \/ n = m /\ e = c /\ seat[n][e] = "mic" /\ seat'[n][e] = "in"
               /\ gc'[n].status = "ringing" => gc'[n] = gc[n]
               /\ e \in invites'[n] => e \in invites[n] \/ (e = c /\ c.by = m /\ n # m)
    <3>1. /\ \/ seat'[n][e] = seat[n][e]
             \/ n = m /\ e = c /\ seat[n][e] = "mic" /\ seat'[n][e] = "in"
          /\ gc'[n].status = "ringing" => gc'[n] = gc[n]
      BY <1>1, <1>7 DEF MicrophoneOpen, Sit, MeetingInv, MeetingTypes, Overlays
    <3>2. PICK there \in IF c.by = m THEN SUBSET (Member \ {m}) ELSE {{}} : invites' = Broadcast(c, there)
      BY <1>7 DEF MicrophoneOpen
    <3>3. e \in invites'[n] => e \in invites[n] \/ (e = c /\ n \in there)
      BY <3>2 DEF Broadcast
    <3> QED
      BY <3>1, <3>2, <3>3
  <2>2. ASSUME NEW e \in Meeting
        PROVE  Begun(e) => Begun(e)'
    BY <2>1, MeetingAssumption DEF Begun
  <2>3. c.by = m => ~Begun(c) /\ Begun(c)'
    BY <1>1, <1>7, <2>1 DEF Begun, MicrophoneOpen, Sit, MeetingInv, MeetingTypes
  <2> SUFFICES ASSUME NEW n \in Member, NEW e \in Meeting
               PROVE  /\ Invited(n, e)' => n # e.by /\ seat'[n][e] = "none" /\ Begun(e)'
                      /\ e \in invites'[n] => ~(gc'[n].status = "ringing" /\ gc'[n].call = e)
                      /\ seat'[n][e] # "none" /\ n # e.by => Begun(e)'
    BY DEF EnteredOnce
  <2>4. Invited(n, e)' => Invited(n, e) \/ (e = c /\ c.by = m /\ n # m)
    BY <2>1 DEF Invited
  <2>5. /\ Invited(n, e) => n # e.by /\ seat[n][e] = "none" /\ Begun(e)
        /\ e \in invites[n] => ~(gc[n].status = "ringing" /\ gc[n].call = e)
        /\ seat[n][e] # "none" /\ n # e.by => Begun(e)
        /\ gc[n].status = "ringing" /\ gc[n].call = e => Begun(e)
    BY DEF EnteredOnce, Invited
  <2> QED
    BY <2>1, <2>2, <2>3, <2>4, <2>5
<1>8. ASSUME NEW m \in Member, NEW c \in Meeting, ReceiveInvite(m, c)
      PROVE  EnteredOnce'
  <2>1. ASSUME NEW n \in Member, NEW e \in Meeting
        PROVE  /\ seat'[n][e] = seat[n][e]
               /\ e \in invites'[n] => e \in invites[n] /\ ~(n = m /\ e = c)
               /\ gc'[n].status = "ringing" => gc'[n] = gc[n] \/ (n = m /\ gc'[n].call = c)
    BY <1>8 DEF ReceiveInvite, rooms, MeetingInv, MeetingTypes, Overlays
  <2>2. c \in invites[m]
    BY <1>8 DEF ReceiveInvite
  <2>3. ASSUME NEW n \in Member, NEW e \in Meeting
        PROVE  /\ Invited(n, e)' => Invited(n, e)
               /\ e \in invites'[n] => ~(gc'[n].status = "ringing" /\ gc'[n].call = e)
    BY <2>1, <2>2 DEF Invited, EnteredOnce
  <2> QED
    BY <2>1, <2>3, EntersKeep
\* A connection goes on.
<1>9. ASSUME NEW m \in Member, NEW c \in Meeting, Token(m, c) \/ Joined(m, c)
      PROVE  EnteredOnce'
  <2>1. ASSUME NEW n \in Member, NEW e \in Meeting
        PROVE  /\ \/ seat'[n][e] = seat[n][e]
                  \/ seat[n][e] \in {"token", "joining"} /\ seat'[n][e] \in {"joining", "mic"}
               /\ gc'[n].status = gc[n].status /\ gc'[n].call = gc[n].call /\ invites'[n] = invites[n]
    <3>1. CASE Token(m, c)
      <4> DEFINE g == [[gc[m] EXCEPT !.ref = c] EXCEPT !.host = (m = Owner)]
      <4>1. gc' = [gc EXCEPT ![m] = g] /\ g.status = gc[m].status /\ g.call = gc[m].call
        BY <1>1, <3>1 DEF Token, MeetingInv, MeetingTypes, Overlays
      <4> HIDE DEF g
      <4> QED
        BY <3>1, <4>1 DEF Token, Sit, MeetingInv, MeetingTypes
    <3>2. CASE Joined(m, c)
      BY <3>2 DEF Joined, Sit, MeetingInv, MeetingTypes
    <3> QED
      BY <1>9, <3>1, <3>2
  <2>2. ASSUME NEW n \in Member, NEW e \in Meeting
        PROVE  /\ Invited(n, e)' => Invited(n, e)
               /\ e \in invites'[n] => ~(gc'[n].status = "ringing" /\ gc'[n].call = e)
    BY <2>1 DEF Invited, EnteredOnce
  <2> QED
    BY <2>1, <2>2, EntersKeep
\* A meeting is left.
<1>10. ASSUME NEW m \in Member, NEW steps \in [Meeting -> SeatSteps], CleanupMeeting(m, steps), UNCHANGED invites,
              RefNamesSeat(steps, gc[m]),
              \A e \in Meeting : \/ steps[e] = seat[m][e]
                                 \/ seat[m][e] # "none" /\ steps[e] \in {"in", "out"}
                                 \/ seat[m][e] = "mic" /\ steps[e] = "dead"
       PROVE  EnteredOnce'
  <2> DEFINE row == seat'[m]
  <2>1. seat' = [seat EXCEPT ![m] = row] /\ gc' = [gc EXCEPT ![m] = Away]
    BY <1>10 DEF CleanupMeeting, MeetingInv, MeetingTypes
  <2>2. Away.status # "ringing"
    BY DEF Away
  <2>3. ASSUME NEW e \in Meeting
        PROVE  /\ seat[m][e] \in {"in", "out"} => row[e] \in {"in", "out"}
               /\ seat[m][e] = "none" <=> row[e] = "none"
    <3>1. /\ row[e] = seat[m][e] \/ row[e] \in {"dead", "out"}
          /\ row[e] \notin {"joining", "mic", "in"} /\ (steps[e] \in {"in", "out"} => row[e] = "out")
      BY <1>10, RoomsLeft
    <3>2. seat[m][e] = "none" => row[e] = "none"
      <4>1. gc[m].ref # e \/ seat[m][e] # "none"
        BY MeetingAssumption DEF TidyInv, TidyMember, Tidy
      <4> QED
        BY <1>10, <2>1, <4>1 DEF CleanupMeeting, MeetingInv, MeetingTypes
    <3>3. seat[m][e] \in {"in", "out"} => steps[e] \in {"in", "out"}
      BY <1>10
    <3> QED
      BY <3>1, <3>2, <3>3
  <2> HIDE DEF row
  <2> QED
    BY <2>1, <2>2, <2>3, <1>10, EntersMember
<1>11. ASSUME NEW m \in Member, RejectGroupCall(m) \/ LeaveGroupCall(m)
       PROVE  EnteredOnce'
  <2>1. CleanupMeeting(m, seat[m]) /\ UNCHANGED invites
    BY <1>11 DEF RejectGroupCall, LeaveGroupCall
  <2> QED
    BY <1>1, <1>10, <2>1 DEF Seated
<1>12. ASSUME NEW m \in Member, NEW c \in Meeting, MeetingFails(m, c) \/ MeetingLost(m, c)
       PROVE  EnteredOnce'
  <2>1. PICK step \in SeatSteps : /\ CleanupMeeting(m, [seat[m] EXCEPT ![c] = step])
                                  /\ \/ seat[m][c] # "none" /\ step = "out"
                                     \/ seat[m][c] = "mic" /\ step \in {"in", "dead"}
    <3>1. CASE MeetingFails(m, c)
      BY <3>1 DEF MeetingFails, SeatSteps, Connecting
    <3>2. CASE MeetingLost(m, c)
      <4>1. CleanupMeeting(m, [seat[m] EXCEPT ![c] = Released(seat[m][c])]) /\ seat[m][c] \in {"mic", "in"}
        BY <1>1, <3>2 DEF MeetingLost, In
      <4>2. Released(seat[m][c]) = IF seat[m][c] = "mic" THEN "dead" ELSE "out"
        BY <4>1 DEF Released
      <4> QED
        BY <4>1, <4>2 DEF SeatSteps, Connecting
    <3> QED
      BY <1>12, <3>1, <3>2
  <2> DEFINE steps == [seat[m] EXCEPT ![c] = step]
  <2>2. /\ steps \in [Meeting -> SeatSteps] /\ steps[c] = step
        /\ \A e \in Meeting \ {c} : steps[e] = seat[m][e]
    BY <1>1
  <2>3. CleanupMeeting(m, steps) /\ UNCHANGED invites
    BY <1>12, <2>1 DEF MeetingFails, MeetingLost
  <2> HIDE DEF steps
  <2>4. RefNamesSeat(steps, gc[m])
    BY <1>1, <2>1, <2>2 DEF Seated, RefNamesSeat
  <2> QED
    BY <1>10, <2>1, <2>2, <2>3, <2>4
\* The controls.
<1>13. CASE MuteAll \/ SetLecture \/ SetDiscussion \/ CarryOn \/ \E n \in news : Arrival(n)
  <2>1. PICK g \in Overlays : /\ gc' = [gc EXCEPT ![Owner] = g] /\ g.status = gc[Owner].status
                              /\ g.call = gc[Owner].call /\ UNCHANGED <<seat, invites>>
    <3>1. gc[Owner] \in Overlays /\ gc = [gc EXCEPT ![Owner] = gc[Owner]]
      BY <1>1, MeetingAssumption
    <3>2. CASE MuteAll \/ SetLecture \/ SetDiscussion
      <4> DEFINE h(k) == [gc[Owner] EXCEPT !.mode = k]
      <4>1. \A k \in {"lecture", "discussion"} : h(k) \in Overlays /\ h(k).status = gc[Owner].status /\ h(k).call = gc[Owner].call
        BY <3>1 DEF Overlays
      <4>2. gc' \in {gc, [gc EXCEPT ![Owner] = h("lecture")], [gc EXCEPT ![Owner] = h("discussion")]}
        BY <3>2, MeetingAssumption DEF MuteAll, SetLecture, SetDiscussion, MeetingInv, MeetingTypes
      <4> HIDE DEF h
      <4> QED
        BY <3>1, <3>2, <4>1, <4>2 DEF MuteAll, SetLecture, SetDiscussion, Presides, rooms
    <3>3. CASE CarryOn
      <4> DEFINE h == [gc[Owner] EXCEPT !.muted = TRUE]
      <4>1. h \in Overlays /\ h.status = gc[Owner].status /\ h.call = gc[Owner].call
        BY <3>1 DEF Overlays
      <4>2. gc' \in {gc, [gc EXCEPT ![Owner] = gc[Owner]], [gc EXCEPT ![Owner] = h]} /\ UNCHANGED <<seat, invites>>
        BY <3>3 DEF CarryOn, ApplyMute
      <4> HIDE DEF h
      <4> QED
        BY <3>1, <4>1, <4>2
    <3> QED
      BY <1>13, <3>1, <3>2, <3>3 DEF Arrival, rooms
  <2> QED
    BY <1>3, <2>1, MeetingAssumption
<1>14. ASSUME NEW m \in Member, ToggleMute(m) \/ DataReceived(m) \/ \E c \in Meeting : MuteGivesUp(m, c)
       PROVE  EnteredOnce'
  <2>1. ASSUME NEW n \in Member
        PROVE  seat'[n] = seat[n] /\ invites'[n] = invites[n] /\ gc'[n].status = gc[n].status /\ gc'[n].call = gc[n].call
    <3>1. CASE ToggleMute(m) \/ \E c \in Meeting : MuteGivesUp(m, c)
      <4> DEFINE g(b) == [gc[m] EXCEPT !.muted = b]
      <4>1. \A b : g(b).status = gc[m].status /\ g(b).call = gc[m].call
        BY <1>1 DEF Overlays
      <4>2. UNCHANGED <<seat, invites>> /\ \E b : gc' = [gc EXCEPT ![m] = g(b)]
        BY <3>1 DEF ToggleMute, MuteGivesUp, MeetingInv, MeetingTypes
      <4> HIDE DEF g
      <4> QED
        BY <4>1, <4>2 DEF MeetingInv, MeetingTypes
    <3>2. CASE DataReceived(m)
      <4>1. seat'[n] = seat[n] /\ invites'[n] = invites[n]
        BY <3>2 DEF DataReceived
      <4>2. ASSUME NEW g, ApplyMute(m, g), g \in Overlays, g.status = gc[m].status, g.call = gc[m].call
            PROVE  gc'[n].status = gc[n].status /\ gc'[n].call = gc[n].call
        BY <1>1, <4>2 DEF ApplyMute, MeetingInv, MeetingTypes, Overlays
      <4>3. ASSUME NEW k \in {"lecture", "discussion"}
            PROVE  /\ [gc[m] EXCEPT !.mode = k] \in Overlays /\ [gc[m] EXCEPT !.mode = k].status = gc[m].status
                   /\ [gc[m] EXCEPT !.mode = k].call = gc[m].call
        BY <1>1 DEF Overlays
      <4>4. Head(commands[m]).command \in Commands
        <5>1. commands[m] \in Seq(Command) /\ commands[m] # << >>
          BY <3>2 DEF DataReceived, Sent
        <5>2. Head(commands[m]) \in Command
          BY <5>1
        <5> QED
          BY <5>2 DEF Command
      <4>5. CASE ApplyMute(m, gc[m]) \/ ApplyMute(m, [gc[m] EXCEPT !.mode = "lecture"])
        BY <1>1, <4>1, <4>2, <4>3, <4>5
      <4>6. CASE gc' = gc \/ gc' = [gc EXCEPT ![m].mode = "discussion"]
        <5> DEFINE g == [gc[m] EXCEPT !.mode = "discussion"]
        <5>1. g.status = gc[m].status /\ g.call = gc[m].call
          BY <1>1 DEF Overlays
        <5>2. gc' = gc \/ gc' = [gc EXCEPT ![m] = g]
          BY <4>6 DEF MeetingInv, MeetingTypes
        <5> HIDE DEF g
        <5>3. gc'[n] = gc[n] \/ (n = m /\ gc'[n] = g)
          BY <5>2 DEF MeetingInv, MeetingTypes
        <5> QED
          BY <4>1, <5>1, <5>3
      <4> QED
        BY <3>2, <4>4, <4>5, <4>6 DEF DataReceived, Commands
    <3> QED
      BY <1>14, <3>1, <3>2
  <2>2. ASSUME NEW n \in Member, NEW e \in Meeting
        PROVE  /\ Invited(n, e)' => Invited(n, e)
               /\ e \in invites'[n] => ~(gc'[n].status = "ringing" /\ gc'[n].call = e)
    BY <2>1 DEF EnteredOnce, Invited
  <2> QED
    BY <2>1, <2>2, EntersKeep
<1>15. CASE UNCHANGED meetingVars
  BY <1>2, <1>15 DEF meetingVars, rooms
<1> QED
  BY <1>5, <1>6, <1>7, <1>8, <1>9, <1>11, <1>12, <1>13, <1>14, <1>15 DEF MeetingNext

\* What the members hear of the host.  Heard: a queue of commands brings a member that shows the
\* mode shown in the meeting c to the mode of the host.
Modes == {"discussion", "lecture"}
Tells(k, c) == k.c = c /\ k.command \in Modes
Heard(q, c, shown, mode) ==
  /\ (\A i \in DOMAIN q : ~Tells(q[i], c)) => shown = mode
  /\ \A i \in DOMAIN q : Tells(q[i], c) /\ (\A j \in DOMAIN q : Tells(q[j], c) => j <= i) => q[i].command = mode

\* The host presses nothing while it enters a room, and what a press tells is its mode.
PressInv ==
  /\ press # << >> => \A c \in Meeting : seat[Owner][c] \notin {"token", "joining", "mic"}
  /\ \A c \in Meeting : Owner \in In(c) => \A i \in DOMAIN press : press[i] \in Modes => press[i] = gc[Owner].mode
\* Before the host is in a meeting, nothing is told there.
Silent(c, m) == /\ \A i \in DOMAIN commands[m] : commands[m][i].c # c
                /\ m \in In(c) => gc[m].mode = "discussion"
                /\ [c |-> c, m |-> m] \notin news
Before(c) == seat[Owner][c] \in {"none", "token", "joining"} => \A m \in Member : Silent(c, m)
\* While it is there, every member is about to be told its mode, or on its way to it.
Pressed == \E i \in DOMAIN press : press[i] \in Modes
Hears(c, m) == [c |-> c, m |-> m] \in news \/ Pressed \/ Heard(commands[m], c, gc[m].mode, gc[Owner].mode)
Told(c) == Owner \in In(c) => \A m \in In(c) \ {Owner} : Hears(c, m)
TalkInv == /\ commands[Owner] = << >> /\ news \subseteq [c : Meeting, m : Member]
           /\ PressInv /\ \A c \in Meeting : Before(c) /\ Told(c)

\* A command of another room, or a mute, changes nothing; a mode that is sent will be heard.
LEMMA HeardAppend ==
  ASSUME NEW q \in Seq(Command), NEW k \in Command, NEW c \in Meeting, NEW shown, NEW mode,
         IF Tells(k, c) THEN k.command = mode ELSE Heard(q, c, shown, mode)
  PROVE  Heard(Append(q, k), c, shown, mode)
<1> DEFINE r == Append(q, k)
<1>1. /\ DOMAIN r = 1..(Len(q) + 1) /\ DOMAIN q = 1..Len(q) /\ Len(q) \in Nat
      /\ r[Len(q) + 1] = k /\ \A i \in 1..Len(q) : r[i] = q[i]
  OBVIOUS
<1> HIDE DEF r
<1>2. CASE Tells(k, c)
  <2>1. Len(q) + 1 \in DOMAIN r
    BY <1>1
  <2>2. ~\A i \in DOMAIN r : ~Tells(r[i], c)
    BY <1>1, <1>2, <2>1
  <2>3. ASSUME NEW i \in DOMAIN r, \A j \in DOMAIN r : Tells(r[j], c) => j <= i
        PROVE  r[i].command = mode
    <3>1. Len(q) + 1 <= i
      BY <1>1, <1>2, <2>1, <2>3
    <3>2. i = Len(q) + 1
      BY <1>1, <3>1
    <3> QED
      BY <1>1, <1>2, <3>2
  <2> QED
    BY <2>2, <2>3 DEF Heard, r
<1>3. CASE ~Tells(k, c)
  <2>1. (\A i \in DOMAIN r : ~Tells(r[i], c)) => \A i \in DOMAIN q : ~Tells(q[i], c)
    BY <1>1
  <2>2. ASSUME NEW i \in DOMAIN r, Tells(r[i], c), \A j \in DOMAIN r : Tells(r[j], c) => j <= i
        PROVE  r[i].command = mode
    <3>1. i \in DOMAIN q /\ r[i] = q[i]
      BY <1>1, <1>3, <2>2
    <3>2. \A j \in DOMAIN q : Tells(q[j], c) => j <= i
      BY <1>1, <2>2
    <3> QED
      BY <1>3, <2>2, <3>1, <3>2 DEF Heard
  <2> QED
    BY <1>3, <2>1, <2>2 DEF Heard, r
<1> QED
  BY <1>2, <1>3

\* A command that arrives: its mode is shown from then on.
LEMMA HeardTail ==
  ASSUME NEW q \in Seq(Command), q # << >>, NEW c \in Meeting, NEW shown, NEW mode, Heard(q, c, shown, mode)
  PROVE  Heard(Tail(q), c, IF Tells(Head(q), c) THEN Head(q).command ELSE shown, mode)
<1> DEFINE r == Tail(q)
           s == IF Tells(Head(q), c) THEN Head(q).command ELSE shown
<1>1. /\ DOMAIN r = 1..(Len(q) - 1) /\ DOMAIN q = 1..Len(q) /\ Len(q) \in Nat \ {0}
      /\ Head(q) = q[1] /\ \A i \in 1..(Len(q) - 1) : r[i] = q[i + 1]
  OBVIOUS
<1> HIDE DEF r
<1>2. ASSUME \A i \in DOMAIN r : ~Tells(r[i], c)
      PROVE  s = mode
  <2>1. ASSUME NEW i \in DOMAIN q, i # 1
        PROVE  ~Tells(q[i], c)
    <3>1. i - 1 \in DOMAIN r /\ q[i] = r[i - 1]
      BY <1>1, <2>1
    <3> QED
      BY <1>2, <3>1
  <2>2. CASE Tells(q[1], c)
    <3>1. 1 \in DOMAIN q /\ \A j \in DOMAIN q : Tells(q[j], c) => j <= 1
      BY <1>1, <2>1
    <3> QED
      BY <1>1, <2>2, <3>1 DEF Heard
  <2>3. CASE ~Tells(q[1], c)
    BY <1>1, <2>1, <2>3 DEF Heard
  <2> QED
    BY <2>2, <2>3
<1>3. ASSUME NEW i \in DOMAIN r, Tells(r[i], c), \A j \in DOMAIN r : Tells(r[j], c) => j <= i
      PROVE  r[i].command = mode
  <2>1. i + 1 \in DOMAIN q /\ r[i] = q[i + 1] /\ i \in Nat
    BY <1>1
  <2>2. ASSUME NEW j \in DOMAIN q, Tells(q[j], c), j # 1
        PROVE  j <= i + 1
    <3>1. j - 1 \in DOMAIN r /\ q[j] = r[j - 1]
      BY <1>1, <2>2
    <3>2. j - 1 <= i
      BY <1>3, <2>2, <3>1
    <3> QED
      BY <1>1, <2>1, <3>2
  <2>3. \A j \in DOMAIN q : Tells(q[j], c) => j <= i + 1
    BY <1>1, <2>1, <2>2
  <2> QED
    BY <1>3, <2>1, <2>3 DEF Heard
<1> QED
  BY <1>2, <1>3 DEF Heard, r

\* A step that sends nothing, and in which no member enters a room.
LEMMA SeatsMove ==
  ASSUME TalkInv, UNCHANGED <<press, news, commands>>,
         \A n \in Member, c \in Meeting : n \in In(c)' => n \in In(c) /\ gc'[n].mode = gc[n].mode,
         \A c \in Meeting : /\ seat'[Owner][c] \in {"token", "joining", "mic"} => press = << >>
                            /\ seat'[Owner][c] \in {"none", "token", "joining"}
                                 => seat[Owner][c] \in {"none", "token", "joining"}
  PROVE  TalkInv'
<1>1. commands'[Owner] = << >> /\ news' \subseteq [c : Meeting, m : Member] /\ PressInv'
  BY MeetingAssumption DEF TalkInv, PressInv
<1>2. ASSUME NEW c \in Meeting
      PROVE  Before(c)'
  BY <1>2 DEF TalkInv, Before, Silent
<1>3. ASSUME NEW c \in Meeting, (Owner \in In(c))', NEW m \in Member \ {Owner}, (m \in In(c))'
      PROVE  Hears(c, m)'
  <2>1. Hears(c, m) /\ gc'[m].mode = gc[m].mode /\ gc'[Owner].mode = gc[Owner].mode
    BY <1>3, MeetingAssumption DEF TalkInv, Told
  <2> QED
    BY <2>1 DEF Hears, Pressed
<1>4. \A c \in Meeting : In(c)' \subseteq Member
  BY DEF In
<1> QED
  BY <1>1, <1>2, <1>3, <1>4 DEF TalkInv, Told

\* Who gets a command: all members in the room with the host.
LEMMA SentTo ==
  ASSUME MeetingInv, TidyInv, Sent, NEW k, SendCommand(k), NEW m \in Member
  PROVE  /\ \/ commands'[m] = commands[m]
            \/ /\ m # Owner /\ gc[Owner].ref \in Meeting /\ m \in In(gc[Owner].ref)
               /\ commands'[m] = Append(commands[m], [c |-> gc[Owner].ref, command |-> k])
         /\ \A c \in Meeting : Owner \in In(c) /\ m \in In(c) \ {Owner} =>
              commands'[m] = Append(commands[m], [c |-> c, command |-> k])
<1>1. gc[Owner].ref \in Meeting \cup {NoMeeting}
  BY MeetingAssumption DEF MeetingInv, MeetingTypes, Overlays
<1>2. Tidy(TRUE, seat[Owner], gc[Owner], open[Owner], muting[Owner], Unheeded(Owner))
  <2>1. (Owner = Owner) = TRUE
    OBVIOUS
  <2> QED
    BY <2>1, MeetingAssumption DEF TidyInv, TidyMember
<1>3. ASSUME NEW c \in Meeting, Owner \in In(c)
      PROVE  gc[Owner].ref = c /\ gc[Owner].host
  <2>1. gc[Owner].ref = c
    BY <1>3, MeetingAssumption DEF In, MeetingInv, SeatInv, Seated, RefNamesSeat
  <2> QED
    BY <1>2, <2>1, MeetingAssumption DEF Tidy
<1>4. CASE gc[Owner].host /\ gc[Owner].ref # NoMeeting
  <2>1. commands' = Published(gc[Owner].ref, k)
    BY <1>4 DEF SendCommand
  <2> QED
    BY <1>1, <1>3, <1>4, <2>1 DEF Published
<1>5. CASE ~(gc[Owner].host /\ gc[Owner].ref # NoMeeting)
  <2>1. commands' = commands
    BY <1>5 DEF SendCommand
  <2> QED
    BY <1>3, <1>5, <2>1, MeetingAssumption
<1> QED
  BY <1>4, <1>5

\* The host sends a command while it is in a room, or in none: those it is in hear its mode.
LEMMA HostSends ==
  ASSUME MeetingInv, TidyInv, Sent, TalkInv, NEW k \in Commands, SendCommand(k), UNCHANGED <<gc, seat>>,
         \A c \in Meeting : seat[Owner][c] # "joining",
         \A c \in Meeting : Owner \in In(c) /\ k \in Modes => k = gc[Owner].mode,
         news' \subseteq news, k \in Modes \/ ((Pressed => Pressed') /\ news' = news), PressInv'
  PROVE  TalkInv'
<1>1. commands'[Owner] = << >> /\ news' \subseteq [c : Meeting, m : Member]
  BY SentTo, MeetingAssumption DEF TalkInv
<1>2. ASSUME NEW c \in Meeting, seat[Owner][c] \in {"none", "token", "joining"}, NEW m \in Member
      PROVE  Silent(c, m)'
  <2>1. Silent(c, m)
    BY <1>2 DEF TalkInv, Before
  <2>2. gc[Owner].ref # c \/ gc[Owner].ref \notin Meeting
    BY <1>2, MeetingAssumption DEF TidyInv, TidyMember, Tidy
  <2>3. \A i \in DOMAIN commands'[m] : commands'[m][i].c # c
    <3>1. CASE commands'[m] = commands[m]
      BY <2>1, <3>1 DEF Silent
    <3>2. CASE gc[Owner].ref \in Meeting /\ commands'[m] = Append(commands[m], [c |-> gc[Owner].ref, command |-> k])
      <4> DEFINE r == gc[Owner].ref
                 x == [c |-> r, command |-> k]
      <4>1. commands[m] \in Seq(Command) /\ x \in Command /\ x.c # c
        BY <2>2, <3>2 DEF Sent, Command
      <4> HIDE DEF x
      <4>2. \A i \in DOMAIN Append(commands[m], x) :
                 \/ Append(commands[m], x)[i] = x
                 \/ i \in DOMAIN commands[m] /\ Append(commands[m], x)[i] = commands[m][i]
        BY <4>1
      <4> QED
        BY <2>1, <3>2, <4>1, <4>2 DEF Silent, x
    <3> QED
      BY <3>1, <3>2, SentTo
  <2> QED
    BY <2>1, <2>3 DEF Silent, In
<1>3. ASSUME NEW c \in Meeting, Owner \in In(c), NEW m \in Member \ {Owner}, m \in In(c)
      PROVE  Hears(c, m)'
  <2> DEFINE x == [c |-> c, command |-> k]
  <2>1. commands'[m] = Append(commands[m], x)
    BY <1>3, SentTo
  <2>2. x \in Command /\ x.c = c /\ x.command = k /\ commands[m] \in Seq(Command)
    BY DEF Command, Sent
  <2> HIDE DEF x
  <2>3. CASE k \in Modes
    <3>1. Tells(x, c) /\ x.command = gc[Owner].mode
      BY <1>3, <2>2, <2>3 DEF Tells
    <3>2. Heard(Append(commands[m], x), c, gc[m].mode, gc[Owner].mode)
      BY <2>2, <3>1, HeardAppend
    <3> QED
      BY <2>1, <3>2 DEF Hears
  <2>4. CASE k \notin Modes
    <3>1. ~Tells(x, c) /\ Hears(c, m)
      BY <1>3, <2>2, <2>4 DEF Tells, TalkInv, Told
    <3>2. CASE Heard(commands[m], c, gc[m].mode, gc[Owner].mode)
      <4>1. Heard(Append(commands[m], x), c, gc[m].mode, gc[Owner].mode)
        BY <2>2, <3>1, <3>2, HeardAppend
      <4> QED
        BY <2>1, <4>1 DEF Hears
    <3> QED
      BY <2>4, <3>1, <3>2 DEF Hears
  <2> QED
    BY <2>3, <2>4
<1>4. \A c \in Meeting : In(c)' = In(c) /\ In(c) \subseteq Member
  BY DEF In
<1> QED
  BY <1>1, <1>2, <1>3, <1>4 DEF TalkInv, Before, Told

LEMMA TalkStep ==
  ASSUME MaxConnecting = 1, MeetingInv, Sent, TidyInv, EnteredOnce, TalkInv, [MeetingNext]_meetingVars
  PROVE  TalkInv'
<1>1. ASSUME NEW m \in Member
      PROVE  /\ gc[m] \in Overlays /\ seat[m] \in [Meeting -> SeatSteps] /\ Seated(seat[m], gc[m])
             /\ gc[m].mode \in Modes /\ commands[m] \in Seq(Command)
  BY DEF MeetingInv, MeetingTypes, SeatInv, Overlays, Modes, Sent
<1>2. \A c \in Meeting : In(c) \subseteq Member
  BY DEF In
\* A step that changes neither a room nor a mode, and sends nothing.
<1>3. ASSUME UNCHANGED <<seat, press, news, commands>>, \A n \in Member : gc'[n].mode = gc[n].mode
      PROVE  TalkInv'
  BY <1>3, SeatsMove DEF In, TalkInv, PressInv
<1>4. ASSUME NEW m \in Member,
             \/ ToggleMute(m) \/ AcceptGroupCall(m)
             \/ \E c \in Meeting : StartGroupCall(m, c) \/ ReceiveInvite(m, c) \/ MuteGivesUp(m, c)
      PROVE  \A n \in Member : gc'[n].mode = gc[n].mode
  <2> DEFINE g(status, call) == [[gc[m] EXCEPT !.status = status] EXCEPT !.call = call]
             h(status) == [gc[m] EXCEPT !.status = status]
             j(muted) == [gc[m] EXCEPT !.muted = muted]
  <2>1. /\ \A x, y : g(x, y).mode = gc[m].mode
        /\ \A x : h(x).mode = gc[m].mode /\ j(x).mode = gc[m].mode
    BY <1>1 DEF Overlays
  <2>2. CASE \E c \in Meeting : StartGroupCall(m, c) \/ ReceiveInvite(m, c)
    <3>1. PICK c \in Meeting : StartGroupCall(m, c) \/ ReceiveInvite(m, c)
      BY <2>2
    <3>2. gc' \in {gc, [gc EXCEPT ![m] = g("connecting", c)], [gc EXCEPT ![m] = g("ringing", c)]}
      BY <3>1 DEF StartGroupCall, ReceiveInvite, MeetingInv, MeetingTypes, Overlays
    <3> HIDE DEF g
    <3> QED
      BY <2>1, <3>2 DEF MeetingInv, MeetingTypes
  <2>3. CASE AcceptGroupCall(m) \/ ToggleMute(m) \/ \E c \in Meeting : MuteGivesUp(m, c)
    <3>1. \/ gc' = [gc EXCEPT ![m] = h("connecting")]
          \/ gc' = [gc EXCEPT ![m] = j(TRUE)] \/ gc' = [gc EXCEPT ![m] = j(~gc[m].muted)]
      BY <2>3 DEF AcceptGroupCall, MuteGivesUp, ToggleMute, MeetingInv, MeetingTypes
    <3> HIDE DEF h, j
    <3>2. PICK x : x.mode = gc[m].mode /\ gc' = [gc EXCEPT ![m] = x]
      BY <2>1, <3>1
    <3> QED
      BY <3>2 DEF MeetingInv, MeetingTypes
  <2> QED
    BY <1>4, <2>2, <2>3
\* Entering.
<1>5. ASSUME NEW m \in Member, NEW c \in Meeting, seat' = [seat EXCEPT ![m][c] = "token"], seat[m][c] = "none", Free(m),
             UNCHANGED <<press, news, commands>>, \A n \in Member : gc'[n].mode = gc[n].mode
      PROVE  TalkInv'
  <2>1. ASSUME NEW n \in Member, NEW e \in Meeting
        PROVE  \/ seat'[n][e] = seat[n][e]
               \/ n = m /\ e = c /\ seat[n][e] = "none" /\ seat'[n][e] = "token"
    BY <1>5 DEF MeetingInv, MeetingTypes
  <2>2. \A n \in Member, e \in Meeting : n \in In(e)' => n \in In(e)
    BY <2>1 DEF In
  <2> QED
    BY <1>5, <2>1, <2>2, SeatsMove, MeetingAssumption DEF Free, TalkInv, PressInv
<1>6. ASSUME NEW m \in Member, NEW c \in Meeting, StartGroupCall(m, c)
      PROVE  TalkInv'
  <2>1. /\ seat' = [seat EXCEPT ![m][c] = "token"] /\ seat[m][c] = "none" /\ Free(m)
        /\ UNCHANGED <<press, news, commands>>
    BY <1>6 DEF StartGroupCall, BeginConnecting, Sit
  <2> QED
    BY <1>4, <1>5, <1>6, <2>1
<1>7. ASSUME NEW m \in Member, AcceptGroupCall(m)
      PROVE  TalkInv'
  <2> DEFINE c == gc[m].call
  <2>1. /\ seat' = [seat EXCEPT ![m][c] = "token"] /\ Free(m) /\ UNCHANGED <<press, news, commands>>
        /\ gc[m].status = "ringing" /\ c \in Meeting
    BY <1>7 DEF AcceptGroupCall, BeginConnecting, Sit, MeetingInv, SeatInv
  <2>2. seat[m][c] = "none"
    BY <2>1 DEF EnteredOnce, Invited
  <2> HIDE DEF c
  <2> QED
    BY <1>4, <1>5, <1>7, <2>1, <2>2
<1>8. ASSUME NEW m \in Member, NEW c \in Meeting, Token(m, c) \/ MicrophoneOpen(m, c)
      PROVE  TalkInv'
  <2>1. ASSUME NEW n \in Member, NEW e \in Meeting
        PROVE  \/ seat'[n][e] = seat[n][e]
               \/ seat[n][e] = "token" /\ seat'[n][e] = "joining"
               \/ seat[n][e] = "mic" /\ seat'[n][e] = "in"
    <3>1. \/ seat[m][c] = "token" /\ seat' = [seat EXCEPT ![m][c] = "joining"]
          \/ seat[m][c] = "mic" /\ seat' = [seat EXCEPT ![m][c] = "in"]
      BY <1>8 DEF Token, MicrophoneOpen, Sit
    <3> QED
      BY <3>1 DEF MeetingInv, MeetingTypes
  <2>2. ASSUME NEW n \in Member
        PROVE  gc'[n].mode = gc[n].mode
    <3>1. CASE Token(m, c)
      <4> DEFINE g == [[gc[m] EXCEPT !.ref = c] EXCEPT !.host = (m = Owner)]
      <4>1. g.mode = gc[m].mode
        BY <1>1 DEF Overlays
      <4>2. gc' = [gc EXCEPT ![m] = g]
        BY <3>1 DEF Token, MeetingInv, MeetingTypes, Overlays
      <4> HIDE DEF g
      <4> QED
        BY <4>1, <4>2 DEF MeetingInv, MeetingTypes
    <3>2. CASE MicrophoneOpen(m, c)
      BY <1>1, <3>2 DEF MicrophoneOpen, MeetingInv, MeetingTypes, Overlays
    <3> QED
      BY <1>8, <3>1, <3>2
  <2>3. \A n \in Member, e \in Meeting : n \in In(e)' => n \in In(e)
    BY <2>1 DEF In
  <2>4. UNCHANGED <<press, news, commands>>
    BY <1>8 DEF Token, MicrophoneOpen
  <2> QED
    BY <2>1, <2>2, <2>3, <2>4, SeatsMove, MeetingAssumption DEF TalkInv, PressInv
<1>9. ASSUME NEW m \in Member, NEW c \in Meeting, Joined(m, c)
      PROVE  TalkInv'
  <2>1. ASSUME NEW n \in Member, NEW e \in Meeting
        PROVE  \/ seat'[n][e] = seat[n][e] /\ ~(n = m /\ e = c)
               \/ n = m /\ e = c /\ seat[n][e] = "joining" /\ seat'[n][e] = "mic"
    BY <1>9 DEF Joined, Sit, MeetingInv, MeetingTypes
  <2>2. ASSUME NEW n \in Member, NEW e \in Meeting
        PROVE  (n \in In(e))' <=> n \in In(e) \/ (n = m /\ e = c)
    BY <2>1 DEF In
  <2>3. /\ UNCHANGED <<gc, press, commands>> /\ news' \subseteq news \cup {[c |-> c, m |-> m]} /\ news \subseteq news'
        /\ m # Owner /\ Owner \in In(c) => [c |-> c, m |-> m] \in news'
        /\ m = Owner \/ Owner \notin In(c) => news' = news
    BY <1>9 DEF Joined
  <2>4. gc[m].mode = "discussion"
    BY <1>1, <1>9 DEF Joined, TidyInv, TidyMember, Tidy, Seated, RefNamesSeat, Modes
  <2>5. commands'[Owner] = << >> /\ news' \subseteq [c : Meeting, m : Member]
    BY <2>3 DEF TalkInv
  <2>6. PressInv'
    <3>1. m = Owner => press = << >>
      BY <2>1 DEF TalkInv, PressInv
    <3> QED
      BY <2>1, <2>2, <2>3, <3>1, MeetingAssumption DEF TalkInv, PressInv
  <2>7. ASSUME NEW e \in Meeting, seat'[Owner][e] \in {"none", "token", "joining"}, NEW n \in Member
        PROVE  Silent(e, n)'
    <3>1. Silent(e, n) /\ Owner \notin In(e)
      BY <2>1, <2>7, MeetingAssumption DEF TalkInv, Before, In
    <3>2. [c |-> e, m |-> n] \notin news'
      BY <2>3, <3>1 DEF Silent
    <3>3. (n \in In(e))' => gc'[n].mode = "discussion"
      BY <2>2, <2>3, <2>4, <3>1 DEF Silent
    <3> QED
      BY <2>3, <3>1, <3>2, <3>3 DEF Silent
  <2>8. ASSUME NEW e \in Meeting, (Owner \in In(e))', NEW n \in Member \ {Owner}, (n \in In(e))'
        PROVE  Hears(e, n)'
    <3>1. CASE Owner \in In(e) /\ n \in In(e)
      <4>1. Hears(e, n)
        BY <3>1 DEF TalkInv, Told
      <4> QED
        BY <2>3, <4>1 DEF Hears, Pressed
    <3>2. CASE Owner \in In(e) /\ n \notin In(e)
      BY <2>2, <2>3, <2>8, <3>2 DEF Hears
    <3>3. CASE Owner \notin In(e)
      <4>1. m = Owner /\ e = c /\ n \in In(e)
        BY <2>2, <2>8, <3>3, MeetingAssumption
      <4>2. Silent(e, n)
        BY <2>1, <4>1 DEF TalkInv, Before
      <4>3. gc[n].mode = "discussion" /\ gc[Owner].mode = "discussion" /\ \A i \in DOMAIN commands[n] : commands[n][i].c # e
        BY <2>4, <4>1, <4>2 DEF Silent
      <4> QED
        BY <2>3, <4>3 DEF Hears, Heard, Tells
    <3> QED
      BY <3>1, <3>2, <3>3
  <2>9. \A e \in Meeting : In(e)' \subseteq Member
    BY DEF In
  <2> QED
    BY <2>5, <2>6, <2>7, <2>8, <2>9 DEF TalkInv, Before, Told
\* Leaving.
<1>10. ASSUME NEW m \in Member, NEW steps \in [Meeting -> SeatSteps], CleanupMeeting(m, steps),
              UNCHANGED <<press, news, commands>>, RefNamesSeat(steps, gc[m]),
              \A e \in Meeting : steps[e] = seat[m][e] \/ steps[e] \in {"in", "out", "dead"}
       PROVE  TalkInv'
  <2>1. ASSUME NEW n \in Member, NEW e \in Meeting
        PROVE  \/ n # m /\ seat'[n] = seat[n] /\ gc'[n] = gc[n]
               \/ /\ n = m /\ seat'[n][e] \notin {"joining", "mic", "in"}
                  /\ seat'[n][e] = seat[n][e] \/ seat'[n][e] \in {"dead", "out"}
    <3>1. CASE n # m
      BY <1>10, <3>1 DEF CleanupMeeting, MeetingInv, MeetingTypes
    <3>2. CASE n = m
      BY <1>10, <3>2, RoomsLeft
    <3> QED
      BY <3>1, <3>2
  <2>2. \A n \in Member, e \in Meeting : n \in In(e)' => n \in In(e) /\ gc'[n].mode = gc[n].mode
    BY <2>1 DEF In
  <2> QED
    BY <1>10, <2>1, <2>2, SeatsMove, MeetingAssumption DEF TalkInv, PressInv
<1>11. ASSUME NEW m \in Member, RejectGroupCall(m) \/ LeaveGroupCall(m)
       PROVE  TalkInv'
  <2>1. CleanupMeeting(m, seat[m]) /\ UNCHANGED <<press, news, commands>>
    BY <1>11 DEF RejectGroupCall, LeaveGroupCall
  <2> QED
    BY <1>1, <1>10, <2>1 DEF Seated
<1>12. ASSUME NEW m \in Member, NEW c \in Meeting, MeetingFails(m, c) \/ MeetingLost(m, c)
       PROVE  TalkInv'
  <2>1. PICK step \in {"in", "out", "dead"} : /\ CleanupMeeting(m, [seat[m] EXCEPT ![c] = step])
                                              /\ step = "in" => seat[m][c] = "mic"
    BY <1>12 DEF MeetingFails, MeetingLost, Released
  <2> DEFINE steps == [seat[m] EXCEPT ![c] = step]
  <2>2. /\ steps \in [Meeting -> SeatSteps] /\ steps[c] = step
        /\ \A e \in Meeting \ {c} : steps[e] = seat[m][e]
    BY <1>1 DEF SeatSteps, Connecting
  <2>3. CleanupMeeting(m, steps) /\ UNCHANGED <<press, news, commands>>
    BY <1>12, <2>1 DEF MeetingFails, MeetingLost
  <2> HIDE DEF steps
  <2>4. RefNamesSeat(steps, gc[m])
    BY <1>1, <2>1, <2>2 DEF Seated, RefNamesSeat
  <2> QED
    BY <1>10, <2>1, <2>2, <2>3, <2>4
\* The controls of the host.
<1>13. CASE MuteAll \/ SetLecture \/ SetDiscussion
  <2> DEFINE r == gc[Owner].ref
  <2>1. /\ press = << >> /\ UNCHANGED <<seat, news, commands>> /\ r # NoMeeting /\ seat[Owner][r] = "in"
    BY <1>13 DEF MuteAll, SetLecture, SetDiscussion, Presides, Free, rooms
  <2>2. \A e \in Meeting : seat[Owner][e] \notin {"token", "joining", "mic"}
    BY <1>1, <2>1, MeetingAssumption DEF Seated, OneConnecting, Connecting, MeetingInv, MeetingTypes, Overlays
  <2>3. ASSUME NEW n \in Member \ {Owner}
        PROVE  gc'[n] = gc[n]
    BY <1>13, MeetingAssumption DEF MuteAll, SetLecture, SetDiscussion, Presides, MeetingInv, MeetingTypes
  <2>4. PressInv' /\ (~Pressed' => gc' = gc)
    <3>1. CASE MuteAll
      <4>1. press' = <<"own", "mute-all">> /\ gc' = gc
        BY <3>1 DEF MuteAll
      <4>2. \A i \in DOMAIN press' : press'[i] \notin Modes
        BY <4>1 DEF Modes
      <4> QED
        BY <2>1, <2>2, <4>1, <4>2 DEF PressInv, In
    <3>2. CASE SetLecture
      <4>1. press' = <<"own", "mute-all", "lecture">> /\ gc'[Owner].mode = "lecture"
        BY <1>1, <3>2, MeetingAssumption DEF SetLecture, MeetingInv, MeetingTypes, Overlays
      <4>2. /\ DOMAIN press' = 1..3 /\ press'[1] = "own" /\ press'[2] = "mute-all" /\ press'[3] = "lecture"
        BY <4>1
      <4>3. Pressed' /\ \A i \in DOMAIN press' : press'[i] \in Modes => press'[i] = "lecture"
        BY <4>2 DEF Pressed, Modes
      <4> QED
        BY <2>1, <2>2, <4>1, <4>3 DEF PressInv, In
    <3>3. CASE SetDiscussion
      <4>1. press' = <<"discussion">> /\ gc'[Owner].mode = "discussion"
        BY <1>1, <3>3, MeetingAssumption DEF SetDiscussion, MeetingInv, MeetingTypes, Overlays
      <4>2. DOMAIN press' = 1..1 /\ press'[1] = "discussion"
        BY <4>1
      <4>3. Pressed' /\ \A i \in DOMAIN press' : press'[i] \in Modes => press'[i] = "discussion"
        BY <4>2 DEF Pressed, Modes
      <4> QED
        BY <2>1, <2>2, <4>1, <4>3 DEF PressInv, In
    <3> QED
      BY <1>13, <3>1, <3>2, <3>3
  <2>5. ~Pressed
    BY <2>1 DEF Pressed
  <2>6. ASSUME NEW e \in Meeting, seat[Owner][e] \in {"none", "token", "joining"}, NEW n \in Member
        PROVE  Silent(e, n)'
    <3>1. Silent(e, n) /\ (n \in In(e) => n # Owner)
      BY <2>6 DEF TalkInv, Before, In
    <3> QED
      BY <2>1, <2>3, <3>1 DEF Silent, In
  <2>7. ASSUME NEW e \in Meeting, Owner \in In(e), NEW n \in Member \ {Owner}, n \in In(e)
        PROVE  Hears(e, n)'
    <3>1. Hears(e, n)
      BY <2>7 DEF TalkInv, Told
    <3> QED
      BY <2>1, <2>4, <2>5, <3>1 DEF Hears
  <2>8. \A e \in Meeting : In(e)' = In(e)
    BY <2>1 DEF In
  <2> QED
    BY <1>2, <2>1, <2>4, <2>6, <2>7, <2>8 DEF TalkInv, Before, Told
<1>14. CASE CarryOn
  <2>1. /\ press # << >> /\ press \in Seq(Commands \cup {"own"}) /\ press' = Tail(press) /\ UNCHANGED <<seat, news>>
    BY <1>14 DEF CarryOn, Sent
  <2>2. /\ DOMAIN press = 1..Len(press) /\ Len(press) \in Nat \ {0} /\ Head(press) = press[1]
        /\ DOMAIN press' = 1..(Len(press) - 1) /\ \A i \in 1..(Len(press) - 1) : press'[i] = press[i + 1]
    BY <2>1
  <2>3. gc'[Owner].mode = gc[Owner].mode
    BY <1>1, <1>14, MeetingAssumption DEF CarryOn, ApplyMute, MeetingInv, MeetingTypes, Overlays
  <2>4. PressInv'
    <3>1. ASSUME NEW e \in Meeting, Owner \in In(e), NEW i \in DOMAIN press', press'[i] \in Modes
          PROVE  press'[i] = gc'[Owner].mode
      <4>1. i + 1 \in DOMAIN press /\ press'[i] = press[i + 1]
        BY <2>2
      <4> QED
        BY <2>3, <3>1, <4>1 DEF TalkInv, PressInv
    <3>2. \A e \in Meeting : In(e)' = In(e) /\ seat[Owner][e] \notin {"token", "joining", "mic"}
      BY <2>1 DEF In, TalkInv, PressInv
    <3> QED
      BY <2>1, <3>1, <3>2 DEF PressInv
  <2>5. Head(press) \notin Modes => (Pressed => Pressed')
    <3> SUFFICES ASSUME Head(press) \notin Modes, NEW i \in DOMAIN press, press[i] \in Modes
                 PROVE  Pressed'
      BY DEF Pressed
    <3>1. i - 1 \in DOMAIN press' /\ press'[i - 1] = press[i]
      BY <2>2
    <3> QED
      BY <3>1 DEF Pressed
  <2>6. CASE Head(press) = "own"
    <3>1. UNCHANGED commands /\ \A n \in Member : gc'[n].mode = gc[n].mode
      BY <1>1, <1>14, <2>3, <2>6, MeetingAssumption DEF CarryOn, ApplyMute, MeetingInv, MeetingTypes
    <3>2. \A e \in Meeting : In(e)' = In(e)
      BY <2>1 DEF In
    <3>3. Pressed => Pressed'
      BY <2>5, <2>6 DEF Modes
    <3>4. \A e \in Meeting, n \in Member : Silent(e, n) => Silent(e, n)'
      BY <2>1, <3>1, <3>2 DEF Silent
    <3>5. \A e \in Meeting, n \in Member : Hears(e, n) => Hears(e, n)'
      BY <2>1, <2>3, <3>1, <3>3 DEF Hears
    <3> QED
      BY <1>2, <2>1, <2>4, <3>1, <3>2, <3>4, <3>5 DEF TalkInv, Before, Told
  <2>7. CASE Head(press) # "own"
    <3>1. SendCommand(Head(press)) /\ UNCHANGED <<gc, seat, news>> /\ Head(press) \in Commands
      BY <1>14, <2>1, <2>7 DEF CarryOn
    <3>2. /\ \A e \in Meeting : seat[Owner][e] # "joining"
          /\ \A e \in Meeting : Owner \in In(e) /\ Head(press) \in Modes => Head(press) = gc[Owner].mode
      BY <2>1, <2>2 DEF TalkInv, PressInv
    <3> QED
      BY <2>4, <2>5, <3>1, <3>2, HostSends
  <2> QED
    BY <2>6, <2>7
<1>15. ASSUME NEW x \in news, Arrival(x)
       PROVE  TalkInv'
  <2>1. /\ x \in [c : Meeting, m : Member] /\ news' = news \ {x} /\ UNCHANGED <<gc, seat, press>>
    BY <1>15 DEF Arrival, rooms, TalkInv
  <2>2. PressInv'
    BY <2>1 DEF TalkInv, PressInv, In
  <2>3. CASE Owner \in In(x.c)
    <3> DEFINE k == gc[Owner].mode
    <3>1. SendCommand(k) /\ k \in Commands /\ k \in Modes /\ k = gc[Owner].mode
      BY <1>1, <1>15, <2>3, MeetingAssumption DEF Arrival, Modes, Commands
    <3>2. \A e \in Meeting : seat[Owner][e] # "joining"
      BY <1>1, <2>1, <2>3, MeetingAssumption DEF In, Seated, OneConnecting, RefNamesSeat, Connecting
    <3> HIDE DEF k
    <3>3. news' \subseteq news /\ UNCHANGED <<gc, seat>>
      BY <2>1
    <3> QED
      BY <2>2, <3>1, <3>2, <3>3, HostSends
  <2>4. CASE Owner \notin In(x.c)
    <3>1. commands' = commands
      BY <1>15, <2>4 DEF Arrival
    <3>2. \A e \in Meeting : In(e)' = In(e)
      BY <2>1 DEF In
    <3>3. \A e \in Meeting, n \in Member : Silent(e, n) => Silent(e, n)'
      BY <2>1, <3>1, <3>2 DEF Silent
    <3>4. ASSUME NEW e \in Meeting, NEW n \in Member, Owner \in In(e), Hears(e, n)
          PROVE  Hears(e, n)'
      <4>1. x # [c |-> e, m |-> n]
        BY <2>4, <3>4
      <4> QED
        BY <2>1, <3>1, <3>4, <4>1 DEF Hears, Pressed
    <3> QED
      BY <1>2, <2>1, <2>2, <3>1, <3>2, <3>3, <3>4 DEF TalkInv, Before, Told
  <2> QED
    BY <2>3, <2>4
<1>16. ASSUME NEW m \in Member, DataReceived(m)
       PROVE  TalkInv'
  <2> DEFINE k == Head(commands[m])
             q == Tail(commands[m])
  <2>1. /\ commands[m] # << >> /\ m # Owner /\ commands' = [commands EXCEPT ![m] = q] /\ UNCHANGED <<seat, press, news>>
    BY <1>16 DEF DataReceived, TalkInv
  <2>2. /\ k \in Command /\ k = commands[m][1] /\ 1 \in DOMAIN commands[m] /\ DOMAIN q \in SUBSET Nat
        /\ \A i \in DOMAIN q : i + 1 \in DOMAIN commands[m] /\ q[i] = commands[m][i + 1]
    BY <1>1, <2>1
  <2>3. ASSUME NEW n \in Member
        PROVE  IF n = m THEN commands'[n] = q ELSE commands'[n] = commands[n] /\ gc'[n] = gc[n]
    <3>1. commands'[n] = IF n = m THEN q ELSE commands[n]
      BY <2>1 DEF Sent
    <3>2. n # m => gc'[n] = gc[n]
      <4>1. k.command \in Commands
        BY <2>2 DEF Command
      <4>2. ASSUME NEW g, ApplyMute(m, g)
            PROVE  n # m => gc'[n] = gc[n]
        BY <4>2 DEF ApplyMute, MeetingInv, MeetingTypes
      <4> QED
        BY <1>16, <4>1, <4>2 DEF DataReceived, Commands, MeetingInv, MeetingTypes
    <3> QED
      BY <3>1, <3>2
  <2>4. ASSUME NEW e \in Meeting, m \in In(e)
        PROVE  gc'[m].mode = IF Tells(k, e) THEN k.command ELSE gc[m].mode
    <3>1. m \in In(k.c) => k.c = e
      BY <1>1, <2>2, <2>4 DEF In, Command, Seated, RefNamesSeat
    <3>2. CASE m \notin In(k.c)
      BY <1>16, <2>4, <3>2 DEF DataReceived, Tells
    <3>3. CASE m \in In(k.c)
      <4>1. CASE k.command = "mute-all"
        <5>1. ApplyMute(m, gc[m]) /\ ~Tells(k, e)
          BY <1>16, <3>3, <4>1 DEF DataReceived, Tells, Modes
        <5> QED
          BY <1>1, <5>1 DEF ApplyMute, MeetingInv, MeetingTypes, Overlays
      <4>2. CASE k.command = "lecture"
        <5> DEFINE g == [gc[m] EXCEPT !.mode = "lecture"]
        <5>1. ApplyMute(m, g) /\ Tells(k, e)
          BY <1>16, <3>1, <3>3, <4>2 DEF DataReceived, Tells, Modes
        <5>2. g.mode = "lecture" /\ [g EXCEPT !.muted = TRUE].mode = "lecture"
          BY <1>1 DEF Overlays
        <5> HIDE DEF g
        <5> QED
          BY <4>2, <5>1, <5>2 DEF ApplyMute, MeetingInv, MeetingTypes
      <4>3. CASE k.command = "discussion"
        <5>1. gc' = [gc EXCEPT ![m].mode = "discussion"] /\ Tells(k, e)
          BY <1>16, <3>1, <3>3, <4>3 DEF DataReceived, Tells, Modes
        <5> QED
          BY <1>1, <4>3, <5>1 DEF MeetingInv, MeetingTypes, Overlays
      <4> QED
        BY <2>2, <4>1, <4>2, <4>3 DEF Command, Commands
    <3> QED
      BY <3>2, <3>3
  <2>5. \A e \in Meeting : In(e)' = In(e)
    BY <2>1 DEF In
  <2>6. commands'[Owner] = << >> /\ gc'[Owner] = gc[Owner]
    BY <2>1, <2>3, MeetingAssumption DEF TalkInv
  <2>7. PressInv'
    BY <2>1, <2>5, <2>6 DEF TalkInv, PressInv
  <2>8. ASSUME NEW e \in Meeting, NEW n \in Member, Silent(e, n)
        PROVE  Silent(e, n)'
    <3>1. CASE n # m
      BY <2>1, <2>3, <2>5, <2>8, <3>1 DEF Silent
    <3>2. CASE n = m
      <4>1. ~Tells(k, e) /\ \A i \in DOMAIN q : q[i].c # e
        BY <2>2, <2>8, <3>2 DEF Silent, Tells
      <4>2. commands'[n] = q /\ ((n \in In(e))' => gc'[n].mode = gc[n].mode)
        BY <2>3, <2>4, <2>5, <3>2, <4>1
      <4> HIDE DEF q, k
      <4> QED
        BY <2>1, <2>5, <2>8, <4>1, <4>2 DEF Silent
    <3> QED
      BY <3>1, <3>2
  <2>9. ASSUME NEW e \in Meeting, NEW n \in Member, n \in In(e), Hears(e, n)
        PROVE  Hears(e, n)'
    <3>1. CASE n # m
      BY <2>1, <2>3, <2>6, <2>9, <3>1 DEF Hears, Pressed
    <3>2. CASE n = m
      <4>1. gc'[m].mode = (IF Tells(k, e) THEN k.command ELSE gc[m].mode) /\ commands'[m] = q
        BY <2>3, <2>4, <2>9, <3>2
      <4>2. Heard(commands[m], e, gc[m].mode, gc[Owner].mode) => Heard(q, e, gc'[m].mode, gc[Owner].mode)
        BY <1>1, <2>1, <4>1, HeardTail
      <4> HIDE DEF q, k
      <4> QED
        BY <2>1, <2>6, <2>9, <3>2, <4>1, <4>2 DEF Hears, Pressed
    <3> QED
      BY <3>1, <3>2
  <2> QED
    BY <1>2, <2>1, <2>5, <2>6, <2>7, <2>8, <2>9 DEF TalkInv, Before, Told
<1>17. ASSUME NEW m \in Member, ToggleMute(m) \/ \E c \in Meeting : ReceiveInvite(m, c) \/ MuteGivesUp(m, c)
       PROVE  TalkInv'
  <2>1. UNCHANGED <<seat, press, news, commands>>
    BY <1>17 DEF ToggleMute, ReceiveInvite, MuteGivesUp, rooms
  <2> QED
    BY <1>3, <1>4, <1>17, <2>1
<1>18. CASE UNCHANGED meetingVars
  BY <1>3, <1>18 DEF meetingVars, rooms
<1> QED
  BY <1>6, <1>7, <1>8, <1>9, <1>11, <1>12, <1>13, <1>14, <1>15, <1>16, <1>17, <1>18 DEF MeetingNext

LEMMA HostInvariance ==
  ASSUME MaxConnecting = 1
  PROVE  MeetingSpec => [](MeetingInv /\ TidyInv /\ TalkInv)
<1> DEFINE IInv == MeetingInv /\ Sent /\ TidyInv /\ EnteredOnce /\ TalkInv
<1>1. MeetingInit => TidyInv /\ EnteredOnce /\ TalkInv
  <2> SUFFICES ASSUME MeetingInit PROVE TidyInv /\ EnteredOnce /\ TalkInv
    OBVIOUS
  <2>1. Away.status = "idle" /\ Away.ref = NoMeeting /\ Away.host = FALSE /\ Away.mode = "discussion"
    BY DEF Away
  <2>2. ASSUME NEW m \in Member
        PROVE  /\ gc[m] = Away /\ open[m] = {} /\ invites[m] = {} /\ commands[m] = << >>
               /\ \A c \in Meeting : seat[m][c] = "none" /\ m \notin In(c)
    BY DEF MeetingInit, In
  <2>3. TidyInv
    <3>1. \A m \in Member : TidyMember(m)
      BY <2>1, <2>2 DEF TidyMember, Tidy
    <3> QED
      BY <3>1 DEF TidyInv, MeetingInit
  <2>4. EnteredOnce
    BY <2>1, <2>2 DEF EnteredOnce, Invited
  <2>5. PressInv
    BY <2>2, MeetingAssumption DEF PressInv, MeetingInit
  <2>6. \A c \in Meeting : Before(c) /\ Told(c)
    BY <2>2, MeetingAssumption DEF Before, Silent, Told, MeetingInit
  <2> QED
    BY <2>2, <2>3, <2>4, <2>5, <2>6, MeetingAssumption DEF TalkInv, MeetingInit
<1>2. IInv /\ [MeetingNext]_meetingVars => (TidyInv /\ EnteredOnce /\ TalkInv)'
  BY TidyStep, EnteredStep, TalkStep
<1> QED
  BY <1>1, <1>2, MeetingInvariance, PTL DEF MeetingSpec

\* For any number of members, meetings, troubles and presses, as long as a member has one
\* connection under way at a time: a member that is in the room with the host is told the mode,
\* whether the host set it before the member came, after, or while it was coming, and a lecture
\* closes every microphone but the host's and those whose mute LiveKit gave up
\* (sendCommand, setLecture, ParticipantConnected and DataReceived in useGroupCall.ts).
THEOREM MembersFollowHost ==
  ASSUME MaxConnecting = 1
  PROVE  MeetingSpec => []FollowsHost
<1>1. MeetingInv /\ TidyInv /\ TalkInv => FollowsHost
  <2> SUFFICES ASSUME MeetingInv, TidyInv, TalkInv, NEW c \in Meeting, Settled(c), Owner \in In(c),
                      NEW m \in Member \ {Owner}, m \in In(c)
               PROVE  /\ gc[m].mode = gc[Owner].mode
                      /\ gc[m].mode = "lecture" => c \notin open[m] \/ <<m, c>> \in unheeded
    BY DEF FollowsHost, In
  <2>1. /\ press = << >> /\ [c |-> c, m |-> m] \notin news
        /\ seat[m][c] = "in" /\ \A i \in DOMAIN commands[m] : commands[m][i].c # c
    <3>1. [c |-> c, m |-> m].c = c
      OBVIOUS
    <3> QED
      BY <3>1 DEF Settled
  <2>2. gc[m].mode = gc[Owner].mode
    <3>1. Hears(c, m) /\ ~Pressed
      BY <2>1 DEF TalkInv, Told, Pressed
    <3> QED
      BY <2>1, <3>1 DEF Hears, Heard, Tells
  <2>3. gc[m].ref = c /\ (m = Owner) = FALSE
    BY <2>1 DEF MeetingInv, SeatInv, Seated, RefNamesSeat
  <2>4. gc[m].mode = "lecture" => c \notin open[m] \/ <<m, c>> \in unheeded
    BY <2>3 DEF TidyInv, TidyMember, Tidy, Unheeded
  <2> QED
    BY <2>2, <2>4
<1> QED
  BY <1>1, HostInvariance, PTL
=============================================================================
