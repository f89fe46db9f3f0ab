----------------------------- MODULE Connections -----------------------------
(***************************************************************************)
(* The sockets of one account on the server: the WsClients registry and the *)
(* presence of the account in MySQL and Redis, as the tasks that serve the  *)
(* sockets change them concurrently (server/src/ws/server.rs).  Each step    *)
(* is one call on a DashMap, one query or one Redis command.                 *)
(***************************************************************************)
EXTENDS Naturals, FiniteSets

CONSTANTS
  Conns,        \* conn_ids
  MaxRestarts   \* bound: restarts of the server

ASSUME ConnAssumption == IsFiniteSet(Conns) /\ MaxRestarts \in Nat

VARIABLES
  pc,         \* where the task of a socket is
  entry,      \* whether WsClients.inner has an entry for the account
  inner,      \* the conn_ids in it
  senders,    \* the keys of WsClients.senders
  is_online,  \* users.is_online
  online,     \* the key online:{id} in Redis
  heartbeat,  \* the key heartbeat:{id} in Redis
  ghost,      \* history: a restart left the account online
  restarts

registry == <<entry, inner, senders>>
presence == <<is_online, online, heartbeat>>
connVars == <<pc, registry, presence, ghost, restarts>>

Steps == {"new", "inserted", "registered", "marked", "cached", "live",
          "removing", "emptied", "forgotten", "removed", "leaving", "unmarked",
          "uncached", "gone"}

ConnInit ==
  /\ pc = [c \in Conns |-> "new"]
  /\ entry = FALSE /\ inner = {} /\ senders = {}
  /\ is_online = FALSE /\ online = FALSE /\ heartbeat = FALSE
  /\ ghost = FALSE /\ restarts = 0

ConnStep(c, from, to) ==
  /\ pc[c] = from
  /\ pc' = [pc EXCEPT ![c] = to]

-----------------------------------------------------------------------------
\* register: the set of the account, then the channel of the connection.
RegisterInner(c) ==
  /\ ConnStep(c, "new", "inserted")
  /\ entry' = TRUE /\ inner' = inner \cup {c}
  /\ UNCHANGED <<senders, presence, ghost, restarts>>

RegisterSender(c) ==
  /\ ConnStep(c, "inserted", "registered")
  /\ senders' = senders \cup {c}
  /\ UNCHANGED <<entry, inner, presence, ghost, restarts>>

\* The rest of the auth frame: MySQL, Redis, auth_ok and the first heartbeat.
MarkOnline(c) ==
  /\ ConnStep(c, "registered", "marked")
  /\ is_online' = TRUE
  /\ UNCHANGED <<registry, online, heartbeat, ghost, restarts>>

CacheOnline(c) ==
  /\ ConnStep(c, "marked", "cached")
  /\ online' = TRUE
  /\ UNCHANGED <<registry, is_online, heartbeat, ghost, restarts>>

FirstHeartbeat(c) ==
  /\ ConnStep(c, "cached", "live")
  /\ heartbeat' = TRUE
  /\ UNCHANGED <<registry, is_online, online, ghost, restarts>>

Ping(c) ==
  /\ pc[c] = "live" /\ ~heartbeat
  /\ heartbeat' = TRUE
  /\ UNCHANGED <<pc, registry, is_online, online, ghost, restarts>>

\* The keys expire: no ping for 60 seconds, no auth frame for a day.
Expire ==
  /\ \/ heartbeat /\ heartbeat' = FALSE /\ UNCHANGED online
     \/ online /\ online' = FALSE /\ UNCHANGED heartbeat
  /\ UNCHANGED <<pc, registry, is_online, ghost, restarts>>

-----------------------------------------------------------------------------
\* Mutant: the clean-up ends where the set does not become empty.
RemoveInner_Returns(c) ==
  /\ pc[c] = "live"
  /\ inner' = IF entry THEN inner \ {c} ELSE inner
  /\ pc' = [pc EXCEPT ![c] = IF entry /\ inner' = {} THEN "emptied" ELSE "gone"]
  /\ UNCHANGED <<entry, senders, presence, ghost, restarts>>

\* The socket closes: remove takes the connection out of the set.  The lock on
\* the entry is dropped before an empty set is removed from the map.
RemoveInner(c) ==
  /\ pc[c] = "live"
  /\ inner' = IF entry THEN inner \ {c} ELSE inner
  /\ pc' = [pc EXCEPT ![c] = IF entry /\ inner' = {} THEN "emptied" ELSE "forgotten"]
  /\ UNCHANGED <<entry, senders, presence, ghost, restarts>>

RemoveEntry(c) ==
  /\ ConnStep(c, "emptied", "forgotten")
  /\ entry' = FALSE /\ inner' = {}
  /\ UNCHANGED <<senders, presence, ghost, restarts>>

RemoveSender(c) ==
  /\ ConnStep(c, "forgotten", "removed")
  /\ senders' = senders \ {c}
  /\ UNCHANGED <<entry, inner, presence, ghost, restarts>>

\* is_online: the account is marked offline if no connection is left in the map.
CheckOnline(c) ==
  /\ pc[c] = "removed"
  /\ pc' = [pc EXCEPT ![c] = IF inner # {} THEN "gone" ELSE "leaving"]
  /\ UNCHANGED <<registry, presence, ghost, restarts>>

MarkOffline(c) ==
  /\ ConnStep(c, "leaving", "unmarked")
  /\ is_online' = FALSE /\ ghost' = FALSE
  /\ UNCHANGED <<registry, online, heartbeat, restarts>>

UncacheOnline(c) ==
  /\ ConnStep(c, "unmarked", "uncached")
  /\ online' = FALSE
  /\ UNCHANGED <<registry, is_online, heartbeat, ghost, restarts>>

DropHeartbeat(c) ==
  /\ ConnStep(c, "uncached", "gone")
  /\ heartbeat' = FALSE
  /\ UNCHANGED <<registry, is_online, online, ghost, restarts>>

\* The process ends: no cleanup runs, and none runs at the next start.
Restart ==
  /\ restarts < MaxRestarts
  /\ restarts' = restarts + 1
  /\ pc' = [c \in Conns |-> IF pc[c] = "new" THEN "new" ELSE "gone"]
  /\ entry' = FALSE /\ inner' = {} /\ senders' = {}
  /\ ghost' = (is_online \/ online \/ heartbeat)
  /\ UNCHANGED presence

Authenticate(c) ==
  \/ RegisterInner(c) \/ RegisterSender(c) \/ MarkOnline(c) \/ CacheOnline(c)
  \/ FirstHeartbeat(c)

CleanUp(c) ==
  \/ RemoveInner(c) \/ RemoveEntry(c) \/ RemoveSender(c) \/ CheckOnline(c)
  \/ MarkOffline(c) \/ UncacheOnline(c) \/ DropHeartbeat(c)

ConnNext ==
  \/ \E c \in Conns : Authenticate(c) \/ Ping(c) \/ CleanUp(c)
  \/ Expire \/ Restart

ConnSpec == ConnInit /\ [][ConnNext]_connVars

-----------------------------------------------------------------------------
ConnTypeOK ==
  /\ pc \in [Conns -> Steps]
  /\ entry \in BOOLEAN /\ inner \subseteq Conns /\ (~entry => inner = {})
  /\ senders \subseteq Conns
  /\ is_online \in BOOLEAN /\ online \in BOOLEAN /\ heartbeat \in BOOLEAN
  /\ ghost \in BOOLEAN /\ restarts \in 0..MaxRestarts

\* Once every socket of the account has closed and its task has ended, the
\* account is offline and counts as not reachable, in whatever order the tasks
\* registered and cleaned up: friends see it offline and messages are pushed to
\* its devices.  A restart breaks this until the next socket closes.
Gone == \A c \in Conns : pc[c] \in {"new", "gone"}
OfflineWhenGone ==
  Gone /\ ~ghost => ~is_online /\ ~online /\ ~heartbeat

\* Every connection that has registered and not closed is in the set that
\* send_to_user sends to ("Thread-safe map of userId -> set of sender channels").
Reachable ==
  \A c \in Conns : pc[c] \in {"registered", "marked", "cached", "live"}
                     => c \in inner /\ c \in senders
=============================================================================
