------------------------------ MODULE Sessions ------------------------------
(***************************************************************************)
(* The login of one browser: session rows, refresh tokens and the checks of *)
(* the server (routes/auth.rs, routes/sessions.rs, auth/middleware.rs), and  *)
(* the tabs that share the tokens in localStorage, call the API, renew the   *)
(* access token, and end the login on an explicit signal (api/http.ts,       *)
(* utils/session.ts).  Each tab has one call under way; every answer may     *)
(* arrive after other tabs have moved on.                                    *)
(***************************************************************************)
EXTENDS Naturals, FiniteSets

CONSTANTS
  Tabs,          \* tabs of one browser
  MaxSessions,   \* bound: logins
  MaxExpiries,   \* bound: how often the access tokens in use expire
  MaxEvents,     \* bound: requests and sockets lost, tabs opened or reloaded, and
                 \* session queries that fail, together
  MaxUpgrades,   \* bound: refresh tokens given to a login from before them
  SharedUpgrade  \* whether two tabs may ask for one at the same time

ASSUME SessionAssumption ==
  /\ IsFiniteSet(Tabs) /\ MaxSessions \in Nat \ {0}
  /\ MaxExpiries \in Nat /\ MaxEvents \in Nat
  /\ MaxUpgrades \in Nat /\ SharedUpgrade \in BOOLEAN

VARIABLES
  logins,     \* how many session rows exist
  revoked,    \* sessions.revoked
  hash,       \* sessions.refresh_token_hash, as the version of the token
  clock,      \* counts the moments at which access tokens expire
  storage,    \* localStorage: token, refreshToken, user
  page,       \* the token in the store of a tab
  call,       \* the request a tab waits for
  conn,       \* the socket of a tab, as the server knows it
  told,       \* session_revoked is on its way to a tab
  ended,      \* history: the sessions the user asked to end
  spent       \* how much of each bound is used

server == <<logins, revoked, hash, clock>>
vars   == <<server, storage, page, call, conn, told, ended, spent>>

Ids     == 1..MaxSessions
NoToken == [session |-> 0, version |-> 0]
Token   == [session : Ids, version : 0..MaxUpgrades + MaxExpiries + 1]
Empty   == [token |-> NoToken, refresh |-> NoToken, user |-> 0]
Idle    == [phase |-> "idle", kind |-> "api", token |-> NoToken, refresh |-> NoToken,
            target |-> 0, answer |-> "none"]
Down    == [state |-> "down", session |-> 0]

-----------------------------------------------------------------------------
\* The browser is logged out, or in since before there were refresh tokens.
Init ==
  /\ clock = 0
  /\ revoked = {}
  /\ hash = [s \in Ids |-> 0]
  /\ \/ /\ logins = 0
        /\ storage = Empty
     \/ /\ logins = 1
        /\ storage = [Empty EXCEPT !.token = [session |-> 1, version |-> 0], !.user = 1]
  /\ page = [t \in Tabs |-> storage.token]
  /\ call = [t \in Tabs |-> Idle]
  /\ conn = [t \in Tabs |-> Down]
  /\ told = {}
  /\ ended = {}
  /\ spent = [losses |-> 0, db |-> 0, upgrades |-> 0]

Happens(kind) ==
  /\ spent.losses + spent.db < MaxEvents
  /\ spent' = [spent EXCEPT ![kind] = @ + 1]

\* The token of the store of a tab changes: the effect of useSocket closes the
\* socket, and with it what was on its way.
SetPage(t, token) ==
  /\ page' = [page EXCEPT ![t] = token]
  /\ conn' = [conn EXCEPT ![t] = Down]
  /\ told' = told \ {t}

\* endSession and logout: localStorage is cleared for every tab, the store for one.
EndSession(t) == storage' = Empty /\ SetPage(t, NoToken)

Stay == UNCHANGED <<storage, page, conn, told>>

\* The access token is verified, then the session row is looked at.
Verdict(token) ==
  CASE token = NoToken \/ token.version # clock -> "unauthorized"
    [] token # NoToken /\ token.version = clock /\ token.session \in revoked -> "revoked"
    [] OTHER -> "ok"

\* revoke_session: the row, then a frame to the sockets registered under it.
Revoke(s) ==
  /\ revoked' = revoked \cup {s}
  /\ told' = told \cup {t \in Tabs : conn[t] = [state |-> "registered", session |-> s]}

-----------------------------------------------------------------------------
\* A login creates a session with a refresh token, and setAuth stores both.
Login(t) ==
  LET token == [session |-> logins + 1, version |-> clock]
      refresh == [session |-> logins + 1, version |-> 1]
  IN /\ page[t] = NoToken /\ call[t] = Idle /\ logins < MaxSessions
     /\ logins' = logins + 1
     /\ hash' = [hash EXCEPT ![logins + 1] = 1]
     /\ storage' = [token |-> token, refresh |-> refresh, user |-> logins + 1]
     /\ SetPage(t, token)
     /\ UNCHANGED <<revoked, clock, call, ended, spent>>

\* A request, under the token localStorage holds.
ApiCall(t) ==
  /\ page[t] # NoToken /\ call[t] = Idle
  /\ call' = [call EXCEPT ![t] = [Idle EXCEPT !.phase = "sent", !.token = storage.token]]
  /\ UNCHANGED <<server, ended, spent>> /\ Stay

\* handleLogout: the session of the stored token is to be revoked first.
AskLogout(t) ==
  /\ page[t] # NoToken /\ call[t] = Idle
  /\ call' = [call EXCEPT ![t] = [Idle EXCEPT
       !.phase = IF storage.token = NoToken THEN "leave" ELSE "sent",
       !.kind = "logout", !.token = storage.token, !.target = storage.token.session]]
  /\ ended' = ended \cup ({page[t].session, storage.token.session} \ {0})
  /\ UNCHANGED <<server, spent>> /\ Stay

Leave(t) ==
  /\ call[t].phase = "leave"
  /\ EndSession(t)
  /\ call' = [call EXCEPT ![t] = Idle]
  /\ UNCHANGED <<server, ended, spent>>

Answered(t, answer) ==
  [call EXCEPT ![t].answer = answer,
               ![t].phase = IF @ = "sent" THEN "answered" ELSE "replied"]

\* Mutant: the session row is not looked at.
AuthUser_NoSession(t) ==
  LET answer == IF Verdict(call[t].token) = "revoked" THEN "ok" ELSE Verdict(call[t].token) IN
  /\ call[t].phase \in {"sent", "replay"}
  /\ call' = Answered(t, answer)
  /\ IF answer = "ok" /\ call[t].kind = "logout"
     THEN Revoke(call[t].target)
     ELSE UNCHANGED <<revoked, told>>
  /\ UNCHANGED <<logins, hash, clock, storage, page, conn, ended, spent>>

\* AuthUser, and the handler behind it when the request is accepted.
AuthUser(t) ==
  LET answer == Verdict(call[t].token) IN
  /\ call[t].phase \in {"sent", "replay"}
  /\ call' = Answered(t, answer)
  /\ IF answer = "ok" /\ call[t].kind = "logout"
     THEN Revoke(call[t].target)
     ELSE UNCHANGED <<revoked, told>>
  /\ UNCHANGED <<logins, hash, clock, storage, page, conn, ended, spent>>

\* The session query of AuthUser fails, which counts as a revoked session.
AuthUserDbFails(t) ==
  /\ call[t].phase \in {"sent", "replay"}
  /\ Verdict(call[t].token) # "unauthorized"
  /\ Happens("db")
  /\ call' = Answered(t, "revoked")
  /\ UNCHANGED <<server, ended>> /\ Stay

\* The promise of the call settles; a logout goes on to clear the login.
Settled(t) ==
  [call EXCEPT ![t] = IF @.kind = "logout" THEN [@ EXCEPT !.phase = "leave"] ELSE Idle]

\* A 401 starts a refresh, whatever its reason; without a refresh token the login ends.
ReceiveAnswer(t) ==
  /\ call[t].phase = "answered"
  /\ CASE call[t].answer = "ok" -> call' = Settled(t) /\ Stay
       [] call[t].answer # "ok" /\ storage.refresh = NoToken ->
            call' = Settled(t) /\ EndSession(t)
       [] OTHER ->
            /\ call' = [call EXCEPT ![t].phase = "refresh", ![t].refresh = storage.refresh]
            /\ Stay
  /\ UNCHANGED <<server, ended, spent>>

\* The answer to the replayed request: only an explicit signal ends the login.
ReceiveReply(t) ==
  /\ call[t].phase = "replied"
  /\ call' = Settled(t)
  /\ IF call[t].answer = "revoked" THEN EndSession(t) ELSE Stay
  /\ UNCHANGED <<server, ended, spent>>

Valid(refresh) ==
  refresh.session \notin revoked /\ hash[refresh.session] = refresh.version

\* Mutant: each refresh replaces the refresh token.
ServerRefresh_Rotates(t) ==
  LET r == call[t].refresh IN
  /\ call[t].phase = "refresh"
  /\ IF Valid(r)
     THEN /\ r.version <= MaxExpiries
          /\ call' = [call EXCEPT ![t].phase = "granted", ![t].refresh.version = @ + 1,
                                  ![t].token = [session |-> r.session, version |-> clock]]
          /\ hash' = [hash EXCEPT ![r.session] = @ + 1]
     ELSE call' = [call EXCEPT ![t].phase = "denied"] /\ UNCHANGED hash
  /\ UNCHANGED <<logins, revoked, clock, ended, spent>> /\ Stay

\* refresh: the refresh token stays what it is.
ServerRefresh(t) ==
  LET r == call[t].refresh IN
  /\ call[t].phase = "refresh"
  /\ call' = IF Valid(r)
             THEN [call EXCEPT ![t].phase = "granted",
                               ![t].token = [session |-> r.session, version |-> clock]]
             ELSE [call EXCEPT ![t].phase = "denied"]
  /\ UNCHANGED <<server, ended, spent>> /\ Stay

ServerRefreshDbFails(t) ==
  /\ call[t].phase = "refresh"
  /\ Happens("db")
  /\ call' = [call EXCEPT ![t].phase = "denied"]
  /\ UNCHANGED <<server, ended>> /\ Stay

\* setToken, and the request is sent again.
ReceiveGrant(t) ==
  /\ call[t].phase = "granted"
  /\ storage' = [storage EXCEPT !.token = call[t].token, !.refresh = call[t].refresh]
  /\ SetPage(t, call[t].token)
  /\ call' = IF call[t].kind = "socket" THEN [call EXCEPT ![t] = Idle]
             ELSE [call EXCEPT ![t].phase = "replay"]
  /\ UNCHANGED <<server, ended, spent>>

ReceiveDenial(t) ==
  /\ call[t].phase = "denied"
  /\ call' = Settled(t)
  /\ EndSession(t)
  /\ UNCHANGED <<server, ended, spent>>

\* Mutant: a refresh that is lost is taken for a refusal.
Lose_Ends(t) ==
  /\ call[t].phase \notin {"idle", "leave"}
  /\ Happens("losses")
  /\ call' = Settled(t)
  /\ IF call[t].phase \in {"refresh", "granted", "denied"} THEN EndSession(t) ELSE Stay
  /\ UNCHANGED <<server, ended>>

\* A request or its answer is lost.  The refresh of a call that was answered with
\* an explicit signal leaves that signal to be obeyed.
Lose(t) ==
  /\ call[t].phase \notin {"idle", "leave"}
  /\ Happens("losses")
  /\ call' = Settled(t)
  /\ IF call[t].phase \in {"refresh", "granted", "denied"} /\ call[t].answer = "revoked"
     THEN EndSession(t) ELSE Stay
  /\ UNCHANGED <<server, ended>>

-----------------------------------------------------------------------------
\* connectWs and the auth frame, by the token in the store: an expired one asks
\* for a refresh, a revoked session is told so, another is registered next.
Authenticate(t) ==
  LET answer == Verdict(page[t]) IN
  /\ page[t] # NoToken /\ conn[t] = Down /\ t \notin told
  /\ CASE answer = "ok" ->
            /\ conn' = [conn EXCEPT ![t] = [state |-> "checked", session |-> page[t].session]]
            /\ UNCHANGED <<call, told, storage, page>>
       [] answer = "revoked" ->
            /\ told' = told \cup {t}
            /\ UNCHANGED <<call, conn, storage, page>>
       [] answer = "unauthorized" /\ storage.refresh = NoToken ->
            call[t] = Idle /\ EndSession(t) /\ UNCHANGED call
       [] OTHER ->
            /\ call[t] = Idle
            /\ call' = [call EXCEPT ![t] = [Idle EXCEPT !.phase = "refresh",
                          !.kind = "socket", !.refresh = storage.refresh]]
            /\ Stay
  /\ UNCHANGED <<server, ended, spent>>

AuthenticateDbFails(t) ==
  /\ page[t] # NoToken /\ conn[t] = Down /\ Verdict(page[t]) # "unauthorized"
  /\ Happens("db")
  /\ told' = told \cup {t}
  /\ UNCHANGED <<server, storage, page, call, conn, ended>>

Register(t) ==
  /\ conn[t].state = "checked"
  /\ conn' = [conn EXCEPT ![t].state = "registered"]
  /\ UNCHANGED <<server, storage, page, call, told, ended, spent>>

SocketLost(t) ==
  /\ conn[t] # Down
  /\ Happens("losses")
  /\ conn' = [conn EXCEPT ![t] = Down]
  /\ told' = told \ {t}
  /\ UNCHANGED <<server, storage, page, call, ended>>

ReceiveRevoked(t) ==
  /\ t \in told
  /\ EndSession(t)
  /\ UNCHANGED <<server, call, ended, spent>>

\* ensureRefreshToken: a login without a refresh token asks for one.
AskUpgrade(t) ==
  /\ page[t] # NoToken /\ conn[t] = Down /\ call[t] = Idle
  /\ storage.refresh = NoToken /\ storage.token # NoToken
  /\ SharedUpgrade \/ \A u \in Tabs : call[u].phase \notin {"upgrade", "upgraded"}
  /\ call' = [call EXCEPT ![t] = [Idle EXCEPT !.phase = "upgrade", !.kind = "socket",
                                              !.token = storage.token]]
  /\ UNCHANGED <<server, ended, spent>> /\ Stay

\* upgrade_session: the hash of the row is replaced.
UpgradeSession(t) ==
  LET s == call[t].token.session IN
  /\ call[t].phase = "upgrade"
  /\ IF Verdict(call[t].token) = "ok"
     THEN /\ spent.upgrades < MaxUpgrades
          /\ spent' = [spent EXCEPT !.upgrades = @ + 1]
          /\ hash' = [hash EXCEPT ![s] = @ + 1]
          /\ call' = [call EXCEPT ![t].phase = "upgraded",
                                  ![t].refresh = [session |-> s, version |-> hash[s] + 1]]
     ELSE /\ call' = [call EXCEPT ![t].phase = "denied"]
          /\ UNCHANGED <<hash, spent>>
  /\ UNCHANGED <<logins, revoked, clock, ended>> /\ Stay

ReceiveUpgrade(t) ==
  /\ call[t].phase = "upgraded"
  /\ storage' = [storage EXCEPT !.refresh = call[t].refresh]
  /\ call' = [call EXCEPT ![t] = Idle]
  /\ UNCHANGED <<server, page, conn, told, ended, spent>>

-----------------------------------------------------------------------------
\* The user revokes the session from another device.
RevokeElsewhere(s) ==
  /\ s \in 1..logins \ revoked
  /\ Revoke(s)
  /\ ended' = ended \cup {s}
  /\ UNCHANGED <<logins, hash, clock, storage, page, call, conn, spent>>

\* Thirty minutes pass: the access tokens issued so far are no longer valid.
Expire ==
  /\ clock < MaxExpiries
  /\ clock' = clock + 1
  /\ UNCHANGED <<logins, revoked, hash, ended, spent, call>> /\ Stay

\* A tab is reloaded, or opened: the store starts from localStorage.
Reload(t) ==
  /\ page[t] # storage.token \/ call[t] # Idle
  /\ Happens("losses")
  /\ SetPage(t, storage.token)
  /\ call' = [call EXCEPT ![t] = Idle]
  /\ UNCHANGED <<server, storage, ended>>

Serve(t) == AuthUser(t) \/ ServerRefresh(t) \/ UpgradeSession(t) \/ Register(t)

Answer(t) ==
  \/ ReceiveAnswer(t) \/ ReceiveReply(t) \/ ReceiveGrant(t) \/ ReceiveDenial(t)
  \/ ReceiveRevoked(t) \/ ReceiveUpgrade(t) \/ Leave(t)

Fault(t) ==
  \/ Lose(t) \/ SocketLost(t)
  \/ AuthUserDbFails(t) \/ ServerRefreshDbFails(t) \/ AuthenticateDbFails(t)

Next ==
  \/ \E t \in Tabs : \/ Login(t) \/ ApiCall(t) \/ AskLogout(t) \/ Authenticate(t)
                     \/ AskUpgrade(t) \/ Serve(t) \/ Answer(t) \/ Fault(t) \/ Reload(t)
  \/ \E s \in Ids : RevokeElsewhere(s)
  \/ Expire

Spec == Init /\ [][Next]_vars

\* Requests are served, answers arrive, and a tab that is logged in keeps asking.
Fairness ==
  \A t \in Tabs : WF_vars(Serve(t) \/ Answer(t)) /\ WF_vars(ApiCall(t))

FairSpec == Spec /\ Fairness

-----------------------------------------------------------------------------
Phases == {"idle", "sent", "answered", "refresh", "granted", "denied", "replay",
           "replied", "upgrade", "upgraded", "leave"}

TypeOK ==
  /\ logins \in 0..MaxSessions /\ revoked \subseteq 1..logins
  /\ hash \in [Ids -> 0..MaxUpgrades + 1] /\ clock \in 0..MaxExpiries
  /\ storage \in [token : Token \cup {NoToken}, refresh : Token \cup {NoToken},
                  user : 0..MaxSessions]
  /\ page \in [Tabs -> Token \cup {NoToken}]
  /\ call \in [Tabs -> [phase : Phases, kind : {"api", "logout", "socket"},
                        token : Token \cup {NoToken}, refresh : Token \cup {NoToken},
                        target : 0..MaxSessions,
                        answer : {"none", "ok", "unauthorized", "revoked"}]]
  /\ conn \in [Tabs -> [state : {"down", "checked", "registered"}, session : 0..MaxSessions]]
  /\ told \subseteq Tabs /\ ended \subseteq Ids

\* A login that has a refresh token ends only when the user has asked for it,
\* however refreshes of several tabs overlap and requests get lost ("asks for
\* credentials only when the durable session expires or is revoked",
\* README_EN.md), as long as no session query fails.
KeepsLogin ==
  [][/\ storage.token # NoToken /\ storage.refresh # NoToken
     /\ storage'.token = NoToken /\ spent'.db = 0
     => storage.token.session \in ended]_vars

\* The refresh token a browser holds is the one the server accepts for as long
\* as its session lives ("Keep the device token stable across tabs/processes").
RefreshWorks ==
  storage.refresh # NoToken => /\ storage.refresh.session \in 1..logins
                               /\ hash[storage.refresh.session] = storage.refresh.version

\* A session that was revoked elsewhere ends the login of this browser, also
\* when its socket was being registered at that moment.
RevocationEndsLogin ==
  \A s \in Ids : s \in revoked ~> storage.token.session # s
=============================================================================
