----------------------------- MODULE MessageSync -----------------------------
(***************************************************************************)
(* How the messages of one account reach a browser of that account: the    *)
(* server numbers and commits them behind message_sync_barrier and pushes   *)
(* them to registered sockets (server/src/ws/server.rs); a tab catches up   *)
(* with GET /messages/sync (server/src/routes/messages.rs) from a cursor in *)
(* localStorage, saving its message cache before it advances the cursor     *)
(* (client/src/api/sync.ts, client/src/store/index.ts).  A tab may crash, a *)
(* socket may drop, a request or a write may fail between any two steps.    *)
(* No conversation has auto-delete, which would make the tab skip what had  *)
(* expired before it came (hooks/useSocket.ts): ChatPage models that.       *)
(***************************************************************************)
EXTENDS Integers, Sequences, FiniteSets, SequencesExt

CONSTANTS
  Messages,     \* messages that senders offer, each to one handler
  Mine,         \* those addressed to the account
  Private,      \* the private ones among them
  Tabs,         \* tabs of one browser: they share localStorage
  PageSize,     \* limit of a sync page (500)
  CacheLimit,   \* messages a conversation keeps in the cache (2000)
  EvictLimit,   \* messages it keeps once localStorage is full (100)
  MaxEvents,    \* bound: sockets lost, tabs reloaded, requests and writes that
                \* fail, logouts and sender_key_rotate events, together
  StaleJobs     \* whether the user may log in while a sync job still runs

AuthOk == "auth_ok"

ASSUME SyncAssumption ==
  /\ IsFiniteSet(Messages) /\ AuthOk \notin Messages
  /\ Mine \subseteq Messages /\ Private \subseteq Mine
  /\ PageSize \in Nat \ {0} /\ CacheLimit \in Nat \ {0} /\ EvictLimit \in 0..CacheLimit
  /\ MaxEvents \in Nat
  /\ StaleJobs \in BOOLEAN

VARIABLES
  tx,         \* the transaction that inserts a message
  seq,        \* messages.server_seq, 0 before the INSERT
  barrier,    \* the messages whose transaction holds the barrier row
  delivered,  \* messages.delivered
  fanout,     \* committed messages their handler has still to push
  cursor,     \* localStorage pp_sync_cursor
  cache,      \* localStorage pp_msg_cache, oldest first
  dropped,    \* history: messages cut from the cache by its limits
  user,       \* whether the browser is logged in
  conn,       \* how far the server got with the socket of a tab
  channel,    \* frames on their way to a tab
  memory,     \* the messages of the store, in order of arrival
  timer,      \* what the debounced save will write, NoSave when it is not set
  called,     \* whether a handler has still to call syncMessages
  job,        \* the running sync job
  outcome,    \* what the promise given to the last call came to
  events      \* how many of them there were

server  == <<tx, seq, barrier, delivered, fanout>>
storage == <<cursor, cache, dropped>>
socket  == <<conn, channel>>
page    == <<memory, timer, called, job, outcome>>
vars    == <<server, storage, socket, page, user, events>>

NoSave == <<"none">>
NoJob  == [phase |-> "none", cur |-> 0, rows |-> {}, next |-> 0, more |-> FALSE,
           fresh |-> FALSE]

Committed == {m \in Messages : tx[m] = "committed"}
Held      == ToSet(cache) \cup dropped
LastSeq   == Cardinality({m \in Messages : seq[m] # 0})

-----------------------------------------------------------------------------
Init ==
  /\ tx = [m \in Messages |-> "idle"]
  /\ seq = [m \in Messages |-> 0]
  /\ barrier = {}
  /\ delivered = {}
  /\ fanout = {}
  /\ cursor = 0 /\ cache = <<>> /\ dropped = {}
  /\ user = TRUE
  /\ conn = [t \in Tabs |-> "down"]
  /\ channel = [t \in Tabs |-> <<>>]
  /\ memory = [t \in Tabs |-> <<>>]
  /\ timer = [t \in Tabs |-> NoSave]
  /\ called = [t \in Tabs |-> FALSE]
  /\ job = [t \in Tabs |-> NoJob]
  /\ outcome = [t \in Tabs |-> "none"]
  /\ events = 0

Happens ==
  /\ events < MaxEvents
  /\ events' = events + 1

-----------------------------------------------------------------------------
(* The server.  A handler locks the barrier row, inserts (which takes the   *)
(* next AUTO_INCREMENT value), commits, and pushes.                          *)

LockBarrier(m) ==
  /\ tx[m] = "idle"
  /\ barrier = {}
  /\ tx' = [tx EXCEPT ![m] = "locked"]
  /\ barrier' = {m}
  /\ UNCHANGED <<seq, delivered, fanout, storage, socket, page, user, events>>

InsertRow(m) ==
  /\ tx[m] = "locked"
  /\ tx' = [tx EXCEPT ![m] = "inserted"]
  /\ seq' = [seq EXCEPT ![m] = LastSeq + 1]
  /\ UNCHANGED <<barrier, delivered, fanout, storage, socket, page, user, events>>

CommitRow(m) ==
  /\ tx[m] = "inserted"
  /\ tx' = [tx EXCEPT ![m] = "committed"]
  /\ barrier' = barrier \ {m}
  /\ fanout' = fanout \cup ({m} \cap Mine)
  /\ UNCHANGED <<seq, delivered, storage, socket, page, user, events>>

\* Mutant: a transaction that is rolled back leaves the barrier row locked.
AbortRow_KeepsLock(m) ==
  /\ tx[m] \in {"locked", "inserted"}
  /\ tx' = [tx EXCEPT ![m] = "aborted"]
  /\ UNCHANGED <<seq, barrier, delivered, fanout, storage, socket, page, user, events>>

\* The INSERT or the COMMIT fails: dropping the transaction rolls it back, and
\* the sequence value is lost.
AbortRow(m) ==
  /\ tx[m] \in {"locked", "inserted"}
  /\ tx' = [tx EXCEPT ![m] = "aborted"]
  /\ barrier' = barrier \ {m}
  /\ UNCHANGED <<seq, delivered, fanout, storage, socket, page, user, events>>

\* send_to_user, after the commit: the sockets registered at that moment.
Push(m) ==
  /\ m \in fanout
  /\ fanout' = fanout \ {m}
  /\ channel' = [t \in Tabs |-> IF conn[t] = "down" THEN channel[t]
                                                    ELSE Append(channel[t], m)]
  /\ UNCHANGED <<tx, seq, barrier, delivered, storage, conn, page, user, events>>

\* The auth frame of a new socket: register, then auth_ok, then the undelivered
\* private messages, which are marked as delivered once they are queued.
Register(t) ==
  /\ user /\ conn[t] = "down"
  /\ conn' = [conn EXCEPT ![t] = "registered"]
  /\ outcome' = [outcome EXCEPT ![t] = "none"]
  /\ UNCHANGED <<server, storage, channel, memory, timer, called, job, user, events>>

SendAuthOk(t) ==
  /\ conn[t] = "registered"
  /\ conn' = [conn EXCEPT ![t] = "greeted"]
  /\ channel' = [channel EXCEPT ![t] = Append(@, AuthOk)]
  /\ UNCHANGED <<server, storage, page, user, events>>

\* They are sorted by created_at, which leaves those of one moment in any order.
FlushOffline(t) ==
  LET rows == (Committed \cap Private) \ delivered IN
  /\ conn[t] = "greeted"
  /\ conn' = [conn EXCEPT ![t] = "flushed"]
  /\ \E frames \in SetToSeqs(rows) : channel' = [channel EXCEPT ![t] = @ \o frames]
  /\ delivered' = delivered \cup rows
  /\ UNCHANGED <<tx, seq, barrier, fanout, storage, page, user, events>>

\* Another browser of the account takes an undelivered message the same way.
DeliverElsewhere(m) ==
  /\ m \in (Committed \cap Private) \ delivered
  /\ delivered' = delivered \cup {m}
  /\ UNCHANGED <<tx, seq, barrier, fanout, storage, socket, page, user, events>>

\* The rows sync_messages returns after a cursor, at most PageSize of them.
SyncRows(after) ==
  LET visible == {m \in Committed \cap Mine : seq[m] > after} IN
  {m \in visible : Cardinality({k \in visible : seq[k] < seq[m]}) < PageSize}

NextCursor(after, rows) ==
  IF rows = {} THEN after
  ELSE CHOOSE s \in {seq[m] : m \in rows} : \A m \in rows : seq[m] <= s

-----------------------------------------------------------------------------
(* The tab.  A step between two awaits is atomic; "advance" is the moment    *)
(* between two synchronous writes to localStorage, where only a crash fits.  *)

Idle(t) == job[t].phase # "advance"

Keep(messages, n) ==
  SubSeq(messages, IF Len(messages) > n THEN Len(messages) - n + 1 ELSE 1, Len(messages))

\* addMessage: a replay is recognised by its id; the debounced save is set.
Add(t, m) ==
  LET messages == IF m \in ToSet(memory[t]) THEN memory[t] ELSE Append(memory[t], m) IN
  /\ memory' = [memory EXCEPT ![t] = messages]
  /\ timer' = [timer EXCEPT ![t] = IF messages = memory[t] THEN @ ELSE messages]

Receive(t) ==
  /\ Idle(t) /\ channel[t] # <<>>
  /\ channel' = [channel EXCEPT ![t] = Tail(@)]
  /\ IF Head(channel[t]) = AuthOk
     THEN /\ called' = [called EXCEPT ![t] = TRUE]
          /\ UNCHANGED <<memory, timer>>
     ELSE /\ Add(t, Head(channel[t]))
          /\ UNCHANGED called
  /\ UNCHANGED <<server, storage, conn, job, outcome, user, events>>

\* sender_key_rotate: once a new key is published, the handler catches up.
RotateKeys(t) ==
  /\ Idle(t) /\ conn[t] # "down" /\ ~called[t]
  /\ Happens
  /\ called' = [called EXCEPT ![t] = TRUE]
  /\ UNCHANGED <<server, storage, socket, memory, timer, job, outcome, user>>

\* syncMessages, once recoverGroups has ended: a job that is already running for
\* the account is returned instead of starting another.
SyncMessages(t) ==
  /\ Idle(t) /\ called[t]
  /\ called' = [called EXCEPT ![t] = FALSE]
  /\ outcome' = [outcome EXCEPT ![t] = IF user THEN "pending" ELSE "resolved"]
  /\ job' = IF user /\ job[t] = NoJob
            THEN [job EXCEPT ![t] = [NoJob EXCEPT !.phase = "request", !.cur = cursor,
                                                  !.fresh = conn[t] # "down"]]
            ELSE job
  /\ UNCHANGED <<server, storage, socket, memory, timer, user, events>>

\* The job ends, and with it the promise of the handler that waits for it.
Finish(t, result) ==
  /\ job' = [job EXCEPT ![t] = NoJob]
  /\ outcome' = [outcome EXCEPT
       ![t] = IF @ # "pending" THEN @
              ELSE IF result = "resolved" /\ ~job[t].fresh THEN "joined" ELSE result]

\* The account is no longer the job's owner at one of its checks.
Abandon(t) ==
  /\ job[t].phase \in {"request", "dispatch"}
  /\ ~user
  /\ Finish(t, "resolved")
  /\ UNCHANGED <<server, storage, socket, memory, timer, called, user, events>>

Request(t) ==
  /\ job[t].phase = "request" /\ user
  /\ job' = [job EXCEPT ![t].phase = "waiting"]
  /\ UNCHANGED <<server, storage, socket, memory, timer, called, outcome, user, events>>

\* Mutant: a full page is taken for the last one.
SyncPage_NoMore(t) ==
  LET rows == SyncRows(job[t].cur) IN
  /\ job[t].phase = "waiting"
  /\ barrier = {}
  /\ job' = [job EXCEPT
       ![t] = [@ EXCEPT !.phase = "dispatch", !.rows = rows,
                        !.next = NextCursor(job[t].cur, rows),
                        !.more = Cardinality(rows) > PageSize]]
  /\ UNCHANGED <<server, storage, socket, memory, timer, called, outcome, user, events>>

\* sync_messages: the rows are read while the barrier row is locked.
SyncPage(t) ==
  LET rows == SyncRows(job[t].cur) IN
  /\ job[t].phase = "waiting"
  /\ barrier = {}
  /\ job' = [job EXCEPT
       ![t] = [@ EXCEPT !.phase = "dispatch", !.rows = rows,
                        !.next = NextCursor(job[t].cur, rows),
                        !.more = Cardinality(rows) = PageSize]]
  /\ UNCHANGED <<server, storage, socket, memory, timer, called, outcome, user, events>>

\* The request fails: the job rejects.
RequestFails(t) ==
  /\ job[t].phase = "waiting"
  /\ Happens
  /\ Finish(t, "rejected")
  /\ UNCHANGED <<server, storage, socket, memory, timer, called, user>>

Dispatch(t) ==
  /\ job[t].phase = "dispatch" /\ user
  /\ \E m \in job[t].rows :
       /\ \A k \in job[t].rows : seq[m] <= seq[k]
       /\ Add(t, m)
       /\ job' = [job EXCEPT ![t].rows = @ \ {m}]
  /\ UNCHANGED <<server, storage, socket, called, outcome, user, events>>

\* Mutant: the cursor is advanced and the save is left to the timer.
FlushMessageCache_Later(t) ==
  /\ job[t].phase = "dispatch" /\ user /\ job[t].rows = {}
  /\ job' = [job EXCEPT ![t].phase = "advance"]
  /\ UNCHANGED <<server, storage, socket, memory, timer, called, outcome, user, events>>

\* flushMessageCache: the whole store, each conversation cut to its limit.
FlushMessageCache(t) ==
  /\ job[t].phase = "dispatch" /\ user /\ job[t].rows = {}
  /\ cache' = Keep(memory[t], CacheLimit)
  /\ dropped' = dropped \cup (ToSet(memory[t]) \ ToSet(cache'))
  /\ timer' = [timer EXCEPT ![t] = NoSave]
  /\ job' = [job EXCEPT ![t].phase = "advance"]
  /\ UNCHANGED <<server, cursor, socket, memory, called, outcome, user, events>>

\* localStorage is full: the flush throws after it has cancelled the timer.
FlushFails(t) ==
  /\ job[t].phase = "dispatch" /\ user /\ job[t].rows = {}
  /\ Happens
  /\ timer' = [timer EXCEPT ![t] = NoSave]
  /\ Finish(t, "rejected")
  /\ UNCHANGED <<server, storage, socket, memory, called, user>>

\* The cursor only moves forward; a full page asks for the next one.
AdvanceCursor(t) ==
  /\ job[t].phase = "advance"
  /\ cursor' = IF job[t].next > job[t].cur THEN job[t].next ELSE cursor
  /\ IF job[t].more
     THEN /\ job' = [job EXCEPT ![t].phase = "request", ![t].cur = job[t].next]
          /\ UNCHANGED outcome
     ELSE Finish(t, "resolved")
  /\ UNCHANGED <<server, cache, dropped, socket, memory, timer, called, user, events>>

\* persistMessages: the debounced save, of the store as it was when it was set.
SaveTimer(t) ==
  /\ Idle(t) /\ timer[t] # NoSave
  /\ timer' = [timer EXCEPT ![t] = NoSave]
  /\ cache' = Keep(timer[t], CacheLimit)
  /\ dropped' = dropped \cup (ToSet(timer[t]) \ ToSet(cache'))
  /\ UNCHANGED <<server, cursor, socket, memory, called, job, outcome, user, events>>

\* localStorage is full: only the newest messages are kept, or, with no more
\* than three conversations or a second failure, the old cache stays.
SaveFails(t) ==
  /\ Idle(t) /\ timer[t] # NoSave
  /\ Happens
  /\ timer' = [timer EXCEPT ![t] = NoSave]
  /\ cache' \in {cache, Keep(timer[t], EvictLimit)}
  /\ dropped' = dropped \cup ((ToSet(cache) \cup ToSet(timer[t])) \ ToSet(cache'))
  /\ UNCHANGED <<server, cursor, socket, memory, called, job, outcome, user>>

\* The socket is lost, with what is on its way: a job goes on without it.
Disconnect(t) ==
  /\ Idle(t) /\ conn[t] # "down"
  /\ Happens
  /\ conn' = [conn EXCEPT ![t] = "down"]
  /\ channel' = [channel EXCEPT ![t] = <<>>]
  /\ job' = [job EXCEPT ![t].fresh = FALSE]
  /\ UNCHANGED <<server, storage, memory, timer, called, outcome, user>>

\* The tab crashes or is reloaded: loadCachedMessages is all that is left.
Reload(t) ==
  /\ Happens
  /\ conn' = [conn EXCEPT ![t] = "down"]
  /\ channel' = [channel EXCEPT ![t] = <<>>]
  /\ memory' = [memory EXCEPT ![t] = cache]
  /\ timer' = [timer EXCEPT ![t] = NoSave]
  /\ called' = [called EXCEPT ![t] = FALSE]
  /\ job' = [job EXCEPT ![t] = NoJob]
  /\ outcome' = [outcome EXCEPT ![t] = "none"]
  /\ UNCHANGED <<server, storage, user>>

\* logout: the cursor, the cache and the store are cleared, and the effect of
\* useSocket closes the socket; the timer and a running job are left alone.
Logout(t) ==
  /\ Idle(t) /\ user
  /\ Happens
  /\ user' = FALSE
  /\ cursor' = 0 /\ cache' = <<>> /\ dropped' = {}
  /\ memory' = [memory EXCEPT ![t] = <<>>]
  /\ conn' = [conn EXCEPT ![t] = "down"]
  /\ channel' = [channel EXCEPT ![t] = <<>>]
  /\ job' = [job EXCEPT ![t].fresh = FALSE]
  /\ UNCHANGED <<server, timer, called, outcome>>

\* The same account logs in again.
Login(t) ==
  /\ ~user
  /\ StaleJobs \/ job[t] = NoJob
  /\ user' = TRUE
  /\ UNCHANGED <<server, storage, socket, page, events>>

Handle(m) ==
  \/ LockBarrier(m) \/ InsertRow(m) \/ CommitRow(m) \/ AbortRow(m) \/ Push(m)

Greet(t) == Register(t) \/ SendAuthOk(t) \/ FlushOffline(t)

SyncJob(t) ==
  \/ SyncMessages(t) \/ Abandon(t) \/ Request(t) \/ SyncPage(t)
  \/ Dispatch(t) \/ FlushMessageCache(t) \/ AdvanceCursor(t)

Fault(t) ==
  \/ RequestFails(t) \/ FlushFails(t) \/ SaveFails(t)
  \/ Disconnect(t) \/ Reload(t) \/ Logout(t) \/ Login(t)

Next ==
  \/ \E m \in Messages : Handle(m) \/ DeliverElsewhere(m)
  \/ \E t \in Tabs : \/ Greet(t) \/ Receive(t) \/ RotateKeys(t)
                      \/ SyncJob(t) \/ SaveTimer(t) \/ Fault(t)

Spec == Init /\ [][Next]_vars

\* A transaction that started ends, the event loop runs what is due, and the
\* server answers a request once the barrier is free for it.
Fairness ==
  /\ \A m \in Messages : WF_vars(InsertRow(m) \/ CommitRow(m) \/ AbortRow(m))
  /\ \A t \in Tabs : WF_vars(SyncJob(t))

FairSpec == Spec /\ Fairness

-----------------------------------------------------------------------------
Phases   == {"none", "request", "waiting", "dispatch", "advance"}
Outcomes == {"none", "pending", "resolved", "joined", "rejected"}
SeqNumbers == 0..Cardinality(Messages)

TypeOK ==
  /\ tx \in [Messages -> {"idle", "locked", "inserted", "committed", "aborted"}]
  /\ seq \in [Messages -> SeqNumbers]
  /\ barrier \subseteq Messages
  /\ delivered \subseteq Messages /\ fanout \subseteq Mine
  /\ cursor \in SeqNumbers
  /\ cache \in Seq(Mine) /\ dropped \subseteq Mine
  /\ user \in BOOLEAN
  /\ conn \in [Tabs -> {"down", "registered", "greeted", "flushed"}]
  /\ channel \in [Tabs -> Seq(Mine \cup {AuthOk})]
  /\ memory \in [Tabs -> Seq(Mine)]
  /\ timer \in [Tabs -> Seq(Mine) \cup {NoSave}]
  /\ called \in [Tabs -> BOOLEAN]
  /\ job \in [Tabs -> [phase : Phases, cur : SeqNumbers, rows : SUBSET Mine,
                       next : SeqNumbers, more : BOOLEAN, fresh : BOOLEAN]]
  /\ outcome \in [Tabs -> Outcomes]

\* The durable cursor never passes a message that the cache has not held: what
\* a crash takes from the store is fetched again ("saves its ciphertext cache
\* before advancing the account-scoped cursor", client/tests/README.md).
NoSkip ==
  \A m \in Committed \cap Mine : seq[m] <= cursor => m \in Held

\* A connected tab whose catch-up has succeeded misses nothing: each message is
\* in its store (or was cut from it by the cache limits), on its way to it, or
\* about to be pushed to its socket: the socket is registered before the catch-up
\* reads, so no commit fits between.
Reached(t) ==
  \A m \in Committed \cap Mine :
    m \in ToSet(memory[t]) \cup ToSet(channel[t]) \cup fanout \cup dropped

CaughtUp ==
  \A t \in Tabs : conn[t] # "down" /\ outcome[t] = "resolved" => Reached(t)

\* A sync job ends: no transaction keeps the barrier from it for ever, and the
\* pages run out.
SyncEnds ==
  \A t \in Tabs : job[t].phase # "none" ~> job[t].phase = "none"
=============================================================================
