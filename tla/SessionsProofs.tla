--------------------------- MODULE SessionsProofs ---------------------------
(***************************************************************************)
(* Theorems about Sessions: for any number of tabs, expiries, faults and    *)
(* upgrades, the refresh token a browser holds is the one the server knows, *)
(* and a login lasts until its user asks for its end.                        *)
(***************************************************************************)
EXTENDS Sessions, TLAPS

-----------------------------------------------------------------------------
(* The inductive invariant.                                                  *)

Bounds ==
  /\ spent \in [losses : Nat, db : Nat, upgrades : 0..MaxUpgrades]
  /\ \A s \in Ids : hash[s] <= spent.upgrades + 1

\* Every token belongs to a session that exists.
Issued ==
  /\ storage.token.session <= logins /\ storage.refresh.session <= logins
  /\ \A t \in Tabs : /\ page[t].session <= logins
                     /\ call[t].token.session <= logins /\ call[t].refresh.session <= logins
                     /\ call[t].kind = "logout" /\ call[t].phase \notin {"idle", "leave"}
                          => call[t].target \in 1..logins
                     /\ call[t].phase \in {"refresh", "granted"} => call[t].refresh # NoToken

Typed == TypeOK /\ Bounds /\ Issued

\* A refresh token is the one the server, with these hashes of n sessions, accepts.
Current(r, h, n) == r.session \in 1..n /\ h[r.session] = r.version

\* Tabs that hold a refresh token from localStorage, and those that ask for one.
Carries(t)  == call[t].phase \in {"refresh", "granted"}
Upgrades(t) == call[t].phase \in {"upgrade", "upgraded"}

RefreshInv ==
  /\ storage.refresh # NoToken => Current(storage.refresh, hash, logins)
  /\ \A t \in Tabs : Carries(t) => Current(call[t].refresh, hash, logins)
  /\ storage.token # NoToken /\ storage.refresh = NoToken => \A t \in Tabs : ~Carries(t)
  /\ \A t \in Tabs : call[t].phase = "upgrade" =>
       /\ call[t].token # NoToken
       /\ storage.refresh.session # call[t].token.session
       /\ \A u \in Tabs : Carries(u) => call[u].refresh.session # call[t].token.session
  /\ \A t \in Tabs : call[t].phase = "upgraded" => Current(call[t].refresh, hash, logins)
  /\ \A t, u \in Tabs : Upgrades(t) /\ Upgrades(u) => t = u

-----------------------------------------------------------------------------
LEMMA OneMore ==
  ASSUME NEW h \in Nat, NEW n \in Nat, NEW m \in Nat, h <= n + 1, n < m
  PROVE  n + 1 \in 0..m /\ h + 1 \in 0..m + 1 /\ h + 1 <= n + 2
OBVIOUS

LEMMA TypedInit == Init => Typed
<1> SUFFICES ASSUME Init PROVE Typed
  OBVIOUS
<1> USE SessionAssumption DEF Init
<1>1. /\ logins \in 0..MaxSessions /\ revoked \subseteq 1..logins
      /\ hash \in [Ids -> 0..MaxUpgrades + 1] /\ clock \in 0..MaxExpiries
      /\ told \subseteq Tabs /\ ended \subseteq Ids
  BY DEF Ids
<1>2. PICK token \in Token \cup {NoToken} : /\ storage = [token |-> token, refresh |-> NoToken, user |-> token.session]
                                            /\ token.session <= logins /\ token.session \in 0..MaxSessions
  <2>1. CASE storage = Empty
    <3>1. storage = [token |-> NoToken, refresh |-> NoToken, user |-> NoToken.session]
      BY ONLY <2>1 DEF Empty, NoToken
    <3>2. NoToken.session <= logins /\ NoToken.session \in 0..MaxSessions
      BY <1>1 DEF NoToken
    <3> QED
      BY ONLY <3>1, <3>2
  <2>2. CASE logins = 1 /\ storage = [Empty EXCEPT !.token = [session |-> 1, version |-> 0], !.user = 1]
    <3> DEFINE first == [session |-> 1, version |-> 0]
    <3>1. first \in Token /\ first.session = 1
      BY DEF Token, Ids
    <3>2. storage = [token |-> first, refresh |-> NoToken, user |-> 1]
      BY <2>2 DEF Empty
    <3>3. 1 <= logins /\ 1 \in 0..MaxSessions
      BY <2>2
    <3> HIDE DEF first
    <3>4. storage = [token |-> first, refresh |-> NoToken, user |-> first.session]
      BY ONLY <3>1, <3>2
    <3>5. first.session <= logins /\ first.session \in 0..MaxSessions
      BY ONLY <3>1, <3>3
    <3> QED
      BY ONLY <3>1, <3>4, <3>5
  <2> QED
    BY <2>1, <2>2
<1>3. storage \in [token : Token \cup {NoToken}, refresh : Token \cup {NoToken}, user : 0..MaxSessions]
  BY <1>2
<1>4. page \in [Tabs -> Token \cup {NoToken}]
  BY <1>2
<1>5. call \in [Tabs -> [phase : Phases, kind : {"api", "logout", "socket"},
                        token : Token \cup {NoToken}, refresh : Token \cup {NoToken},
                        target : 0..MaxSessions,
                        answer : {"none", "ok", "unauthorized", "revoked"}]]
  BY DEF Idle, Phases
<1>6. conn \in [Tabs -> [state : {"down", "checked", "registered"}, session : 0..MaxSessions]]
  BY DEF Down
<1>7. Bounds
  BY DEF Bounds
<1>8. Issued
  BY <1>2 DEF Issued, Idle, NoToken
<1> QED
  BY <1>1, <1>3, <1>4, <1>5, <1>6, <1>7, <1>8 DEF Typed, TypeOK

Tokens == Token \cup {NoToken}
Calls  == [phase : Phases, kind : {"api", "logout", "socket"}, token : Tokens, refresh : Tokens,
           target : 0..MaxSessions, answer : {"none", "ok", "unauthorized", "revoked"}]
Conns  == [state : {"down", "checked", "registered"}, session : 0..MaxSessions]

\* What a step of tab t may do to its call.
CallOK(c, n) ==
  /\ c \in Calls /\ c.token.session <= n /\ c.refresh.session <= n
  /\ c.kind = "logout" /\ c.phase \notin {"idle", "leave"} => c.target \in 1..n
  /\ c.phase \in {"refresh", "granted"} => c.refresh # NoToken

LEMMA TypedCalls ==
  ASSUME Typed, logins' = logins, NEW t \in Tabs, NEW c, call' = [call EXCEPT ![t] = c], CallOK(c, logins)
  PROVE  /\ call' \in [Tabs -> Calls]
         /\ \A u \in Tabs : CallOK(call'[u], logins)
BY DEF Typed, TypeOK, Issued, CallOK, Calls, Tokens

LEMMA TypedPage ==
  ASSUME Typed, NEW t \in Tabs, NEW token \in Tokens, token.session <= logins', logins' \in Nat, logins <= logins',
         SetPage(t, token)
  PROVE  /\ page' \in [Tabs -> Tokens] /\ conn' \in [Tabs -> Conns] /\ told' \subseteq Tabs
         /\ \A u \in Tabs : page'[u].session <= logins'
<1>1. Down \in Conns
  BY SessionAssumption DEF Down, Conns
<1>2. \A u \in Tabs : page[u].session \in Nat /\ page[u].session <= logins /\ logins \in Nat
  <2>1. \A k \in Tokens : k.session \in Nat
    BY SessionAssumption DEF Tokens, Token, NoToken, Ids
  <2>2. page \in [Tabs -> Tokens]
    BY DEF Typed, TypeOK, Tokens
  <2>3. logins \in Nat
    BY SessionAssumption DEF Typed, TypeOK
  <2>4. \A u \in Tabs : page[u].session <= logins
    BY DEF Typed, Issued
  <2> QED
    BY <2>1, <2>2, <2>3, <2>4
<1>3. token.session \in Nat
  BY SessionAssumption DEF Tokens, Token, NoToken, Ids
<1>4. /\ page \in [Tabs -> Tokens] /\ conn \in [Tabs -> Conns] /\ told \subseteq Tabs
  BY DEF Typed, TypeOK, Tokens, Conns
<1>5. page' = [page EXCEPT ![t] = token] /\ conn' = [conn EXCEPT ![t] = Down] /\ told' = told \ {t}
  BY DEF SetPage
<1> QED
  BY <1>1, <1>2, <1>3, <1>4, <1>5

LEMMA TypedStep == Typed /\ [Next]_vars => Typed'
<1> SUFFICES ASSUME Typed, [Next]_vars
             PROVE  Typed'
  OBVIOUS
<1> DEFINE Kept == /\ UNCHANGED <<logins, hash, clock>> /\ revoked' \subseteq 1..logins
                   /\ ended' \subseteq Ids /\ Bounds'
           Wire == /\ page' \in [Tabs -> Tokens] /\ conn' \in [Tabs -> Conns] /\ told' \subseteq Tabs
                   /\ \A u \in Tabs : page'[u].session <= logins'
           Store == /\ storage' \in [token : Tokens, refresh : Tokens, user : 0..MaxSessions]
                    /\ storage'.token.session <= logins' /\ storage'.refresh.session <= logins'
           Called == /\ call' \in [Tabs -> Calls]
                     /\ \A u \in Tabs : CallOK(call'[u], logins')
<1>0. /\ logins \in 0..MaxSessions /\ revoked \subseteq 1..logins
      /\ hash \in [Ids -> 0..MaxUpgrades + 1] /\ clock \in 0..MaxExpiries
      /\ storage \in [token : Tokens, refresh : Tokens, user : 0..MaxSessions]
      /\ page \in [Tabs -> Tokens] /\ call \in [Tabs -> Calls] /\ conn \in [Tabs -> Conns]
      /\ told \subseteq Tabs /\ ended \subseteq Ids
      /\ storage.token.session <= logins /\ storage.refresh.session <= logins
      /\ \A u \in Tabs : page[u].session <= logins /\ CallOK(call[u], logins)
      /\ MaxSessions \in Nat \ {0} /\ MaxExpiries \in Nat /\ MaxUpgrades \in Nat /\ Ids = 1..MaxSessions
      /\ Bounds
  BY SessionAssumption DEF Typed, TypeOK, Issued, Tokens, Calls, Conns, CallOK, Ids
<1>1. ASSUME /\ Kept /\ Wire /\ Store /\ Called
      PROVE  Typed'
  BY <1>0, <1>1 DEF Typed, TypeOK, Issued, Tokens, Calls, Conns, CallOK
<1>2. UNCHANGED <<page, conn, told, logins>> => Wire
  BY <1>0
<1>3. UNCHANGED <<storage, logins>> => Store
  BY <1>0
<1>4. UNCHANGED <<call, logins>> => Called
  BY <1>0
<1>5. UNCHANGED <<server, ended>> /\ (UNCHANGED spent \/ Happens("losses") \/ Happens("db")) => Kept
  <2> SUFFICES ASSUME UNCHANGED <<server, ended>>, UNCHANGED spent \/ Happens("losses") \/ Happens("db")
               PROVE  Kept
    OBVIOUS
  <2>1. /\ spent' \in [losses : Nat, db : Nat, upgrades : 0..MaxUpgrades]
        /\ spent'.upgrades = spent.upgrades
    <3>1. spent \in [losses : Nat, db : Nat, upgrades : 0..MaxUpgrades]
      BY <1>0 DEF Bounds
    <3>2. CASE UNCHANGED spent
      BY <3>1, <3>2
    <3>3. CASE Happens("losses")
      BY <3>1, <3>3 DEF Happens
    <3>4. CASE Happens("db")
      BY <3>1, <3>4 DEF Happens
    <3> QED
      BY <3>2, <3>3, <3>4
  <2>2. Bounds'
    BY <1>0, <2>1 DEF server, Bounds
  <2> QED
    BY <1>0, <2>2 DEF server
<1>6. ASSUME NEW t \in Tabs, NEW c, call' = [call EXCEPT ![t] = c], CallOK(c, logins), logins' = logins
      PROVE  Called
  BY <1>0, <1>6, TypedCalls
<1>7. CallOK(Idle, logins) /\ NoToken \in Tokens /\ NoToken.session = 0 /\ Idle \in Calls
  BY <1>0 DEF CallOK, Calls, Idle, Tokens, NoToken, Phases
<1>8. ASSUME NEW t \in Tabs, EndSession(t), logins' = logins
      PROVE  Wire /\ Store
  <2>1. storage' = [token |-> NoToken, refresh |-> NoToken, user |-> 0] /\ SetPage(t, NoToken)
    BY <1>8 DEF EndSession, Empty
  <2> QED
    BY <1>0, <1>7, <1>8, <2>1, TypedPage
<1>9. ASSUME NEW t \in Tabs
      PROVE  call[t] \in Calls /\ CallOK(call[t], logins)
  BY <1>0
\* A call under way is moved on, or has settled.
<1>10. ASSUME NEW t \in Tabs, call[t].phase \notin {"idle", "leave"}, NEW c \in Calls,
              c.kind = call[t].kind, c.target = call[t].target,
              c.token.session <= logins, c.refresh.session <= logins,
              c.phase \in {"refresh", "granted"} => c.refresh # NoToken
       PROVE  CallOK(c, logins)
  BY <1>9, <1>10 DEF CallOK
<1>11. ASSUME NEW t \in Tabs, call' = Settled(t), logins' = logins
       PROVE  Called
  <2>1. CASE call[t].kind = "logout"
    <3>1. call' = [call EXCEPT ![t] = [call[t] EXCEPT !.phase = "leave"]]
      BY <1>0, <1>11, <2>1 DEF Settled
    <3>2. CallOK([call[t] EXCEPT !.phase = "leave"], logins)
      BY <1>9 DEF CallOK, Calls, Phases
    <3> QED
      BY <1>6, <1>11, <3>1, <3>2
  <2>2. CASE call[t].kind # "logout"
    <3>1. call' = [call EXCEPT ![t] = Idle]
      BY <1>0, <1>11, <2>2 DEF Settled
    <3> QED
      BY <1>6, <1>7, <1>11, <3>1
  <2> QED
    BY <2>1, <2>2
<1>12. ASSUME NEW t \in Tabs, NEW phase \in Phases \ {"refresh", "granted"}, call[t].phase \notin {"idle", "leave"},
              call' = [call EXCEPT ![t].phase = phase], logins' = logins
       PROVE  Called
  <2> DEFINE c == [call[t] EXCEPT !.phase = phase]
  <2>1. /\ call' = [call EXCEPT ![t] = c] /\ c \in Calls
        /\ c.kind = call[t].kind /\ c.target = call[t].target
        /\ c.token = call[t].token /\ c.refresh = call[t].refresh /\ c.phase = phase
    BY <1>9, <1>12 DEF Calls
  <2> HIDE DEF c
  <2>2. c.token.session <= logins /\ c.refresh.session <= logins
    BY <1>9, <2>1 DEF CallOK
  <2>3. CallOK(c, logins)
    BY <1>10, <1>12, <2>1, <2>2
  <2> QED
    BY <1>6, <1>12, <2>1, <2>3
<1>13. ASSUME NEW t \in Tabs, Login(t)
       PROVE  Typed'
  <2> DEFINE n == logins + 1
             token == [session |-> n, version |-> clock]
             refresh == [session |-> n, version |-> 1]
  <2>1. /\ logins < MaxSessions /\ logins' = n /\ hash' = [hash EXCEPT ![n] = 1]
        /\ storage' = [token |-> token, refresh |-> refresh, user |-> n]
        /\ SetPage(t, token) /\ UNCHANGED <<revoked, clock, call, ended, spent>>
    BY <1>13 DEF Login
  <2>2. n \in 1..MaxSessions /\ n \in Nat /\ logins < n
    BY <1>0, <2>1
  <2> HIDE DEF n
  <2>3. token \in Tokens /\ refresh \in Tokens /\ token.session = n /\ refresh.session = n
    BY <1>0, <2>2 DEF Tokens, Token
  <2> HIDE DEF token, refresh
  <2>4. Wire
    BY <1>0, <2>1, <2>2, <2>3, TypedPage
  <2>5. Store
    BY <1>0, <2>1, <2>2, <2>3
  <2>6. Called
    <3>1. ASSUME NEW u \in Tabs PROVE CallOK(call[u], n)
      <4>1. CallOK(call[u], logins) /\ call[u].token.session \in Nat /\ call[u].refresh.session \in Nat
        <5>1. \A k \in Tokens : k.session \in Nat
          BY <1>0 DEF Tokens, Token, NoToken
        <5>2. CallOK(call[u], logins) /\ call[u].token \in Tokens /\ call[u].refresh \in Tokens
          BY <1>0 DEF Calls
        <5> QED
          BY <5>1, <5>2
      <4>2. \A i \in Nat : i <= logins => i <= n
        BY <1>0, <2>2
      <4>3. 1..logins \subseteq 1..n
        BY <1>0, <2>2
      <4> QED
        BY <4>1, <4>2, <4>3 DEF CallOK
    <3> QED
      BY <1>0, <2>1, <3>1
  <2>7. revoked' \subseteq 1..logins' /\ logins' \in 0..MaxSessions
    BY <1>0, <2>1, <2>2
  <2>8. hash' \in [Ids -> 0..MaxUpgrades + 1] /\ Bounds'
    <3>1. hash' \in [Ids -> 0..MaxUpgrades + 1]
      <4>1. 1 \in 0..MaxUpgrades + 1
        BY <1>0
      <4> QED
        BY ONLY <1>0, <2>1, <4>1
    <3>2. spent' = spent /\ spent.upgrades \in Nat
      BY <1>0, <2>1 DEF Bounds
    <3>3. ASSUME NEW s \in Ids PROVE hash'[s] <= spent.upgrades + 1
      <4>1. hash[s] <= spent.upgrades + 1 /\ 1 <= spent.upgrades + 1
        BY <1>0, <3>2 DEF Bounds
      <4>2. hash'[s] = hash[s] \/ hash'[s] = 1
        BY <1>0, <2>1
      <4> QED
        BY <4>1, <4>2
    <3> QED
      BY <1>0, <3>1, <3>2, <3>3 DEF Bounds
  <2>9. clock' \in 0..MaxExpiries /\ ended' \subseteq Ids
    BY <1>0, <2>1
  <2> QED
    BY <2>4, <2>5, <2>6, <2>7, <2>8, <2>9 DEF Typed, TypeOK, Issued, Tokens, Calls, Conns, CallOK
<1>14. ASSUME NEW t \in Tabs, ApiCall(t)
       PROVE  Typed'
  <2> DEFINE c == [Idle EXCEPT !.phase = "sent", !.token = storage.token]
  <2>1. call' = [call EXCEPT ![t] = c] /\ UNCHANGED <<server, ended, spent>> /\ Stay
    BY <1>14 DEF ApiCall
  <2>2. CallOK(c, logins)
    BY <1>0, <1>7 DEF CallOK, Idle, Calls, Phases
  <2> QED
    BY <1>1, <1>2, <1>3, <1>5, <1>6, <2>1, <2>2 DEF server, Stay
<1>15. ASSUME NEW t \in Tabs, AskLogout(t)
       PROVE  Typed'
  <2>1. /\ UNCHANGED <<server, spent>> /\ Stay
        /\ ended' = ended \cup ({page[t].session, storage.token.session} \ {0})
    BY <1>15 DEF AskLogout
  <2>2. PICK phase : /\ phase = IF storage.token = NoToken THEN "leave" ELSE "sent"
                     /\ call' = [call EXCEPT ![t] = [Idle EXCEPT
                          !.phase = phase, !.kind = "logout", !.token = storage.token,
                          !.target = storage.token.session]]
    BY <1>15 DEF AskLogout
  <2> DEFINE c == [Idle EXCEPT !.phase = phase, !.kind = "logout", !.token = storage.token,
                               !.target = storage.token.session]
  <2>3. /\ storage.token.session \in 0..MaxSessions /\ page[t].session \in 0..MaxSessions
        /\ storage.token # NoToken => storage.token.session \in 1..logins
    <3>1. \A k \in Tokens : k.session \in 0..MaxSessions /\ (k # NoToken => k.session \in 1..MaxSessions)
      BY <1>0 DEF Tokens, Token, NoToken, Ids
    <3>2. /\ storage.token \in Tokens /\ page[t] \in Tokens /\ storage.token.session <= logins
          /\ logins \in Nat
      BY <1>0
    <3> QED
      BY <3>1, <3>2
  <2>4. /\ c.phase = phase /\ c.kind = "logout" /\ c.token = storage.token /\ c.refresh = NoToken
        /\ c.target = storage.token.session /\ c \in Calls
    <3>1. storage.token \in Tokens /\ phase \in Phases
      BY <1>0, <2>2 DEF Phases
    <3>2. c \in Calls
      BY <1>7, <2>3, <3>1 DEF Calls
    <3>3. /\ c.phase = phase /\ c.kind = "logout" /\ c.token = storage.token /\ c.refresh = NoToken
          /\ c.target = storage.token.session
      BY DEF Idle
    <3> HIDE DEF c
    <3> QED
      BY <3>2, <3>3
  <2> HIDE DEF c
  <2>5. CallOK(c, logins)
    BY <1>0, <1>7, <2>2, <2>3, <2>4 DEF CallOK
  <2>6. Kept
    <3>1. ended' \subseteq Ids
      <4>1. \A i \in {page[t].session, storage.token.session} : i \in 0..MaxSessions
        BY <2>3
      <4>2. \A i \in 0..MaxSessions : i # 0 => i \in Ids
        BY <1>0
      <4>3. ended \subseteq Ids
        BY <1>0
      <4> QED
        BY ONLY <2>1, <4>1, <4>2, <4>3
    <3>2. Bounds'
      BY <1>0, <2>1 DEF server, Bounds
    <3> QED
      BY <1>0, <2>1, <3>1, <3>2 DEF server
  <2> QED
    BY <1>1, <1>2, <1>3, <1>6, <2>1, <2>2, <2>5, <2>6 DEF c, server, Stay
<1>16. ASSUME NEW t \in Tabs, Leave(t)
       PROVE  Typed'
  BY <1>1, <1>5, <1>6, <1>7, <1>8, <1>16 DEF Leave, server
<1>17. ASSUME NEW t \in Tabs, NEW answer \in {"ok", "unauthorized", "revoked"}, call[t].phase \in {"sent", "replay"},
              call' = Answered(t, answer), logins' = logins
       PROVE  Called
  <2> DEFINE c == [call[t] EXCEPT !.answer = answer,
                                  !.phase = IF @ = "sent" THEN "answered" ELSE "replied"]
  <2>1. /\ call' = [call EXCEPT ![t] = c] /\ c \in Calls
        /\ c.kind = call[t].kind /\ c.target = call[t].target
        /\ c.token = call[t].token /\ c.refresh = call[t].refresh
        /\ c.phase \in {"answered", "replied"}
    BY <1>9, <1>17 DEF Calls, Answered, Phases
  <2> HIDE DEF c
  <2>2. c.token.session <= logins /\ c.refresh.session <= logins
    BY <1>9, <2>1 DEF CallOK
  <2>3. CallOK(c, logins)
    BY <1>10, <1>17, <2>1, <2>2
  <2> QED
    BY <1>6, <1>17, <2>1, <2>3
<1>18. ASSUME NEW t \in Tabs, AuthUser(t)
       PROVE  Typed'
  <2>1. /\ Verdict(call[t].token) \in {"ok", "unauthorized", "revoked"}
        /\ call[t].phase \in {"sent", "replay"} /\ call' = Answered(t, Verdict(call[t].token))
        /\ UNCHANGED <<logins, hash, clock, storage, page, conn, ended, spent>>
    BY <1>18 DEF AuthUser, Verdict
  <2>2. Called
    BY <1>17, <2>1
  <2>3. /\ revoked' \subseteq 1..logins /\ told' \subseteq Tabs
    <3>1. CASE call[t].kind = "logout" /\ Revoke(call[t].target)
      <4>1. call[t].target \in 1..logins
        BY <1>9, <2>1, <3>1 DEF CallOK
      <4> QED
        BY <1>0, <3>1, <4>1 DEF Revoke
    <3>2. CASE UNCHANGED <<revoked, told>>
      BY <1>0, <3>2
    <3> QED
      BY <1>18, <3>1, <3>2 DEF AuthUser
  <2>4. Kept
    BY <1>0, <2>1, <2>3 DEF Bounds
  <2>5. Wire
    BY <1>0, <2>1, <2>3
  <2> QED
    BY <1>1, <1>3, <2>1, <2>2, <2>4, <2>5
<1>19. ASSUME NEW t \in Tabs, AuthUserDbFails(t)
       PROVE  Typed'
  BY <1>1, <1>2, <1>3, <1>5, <1>17, <1>19 DEF AuthUserDbFails, server, Stay
<1>20. ASSUME NEW t \in Tabs, ReceiveAnswer(t)
       PROVE  Typed'
  <2>1. UNCHANGED <<server, ended, spent>> /\ call[t].phase = "answered"
    BY <1>20 DEF ReceiveAnswer
  <2>2. CASE call' = Settled(t) /\ Stay
    BY <1>1, <1>2, <1>3, <1>5, <1>11, <2>1, <2>2 DEF server, Stay
  <2>3. CASE call' = Settled(t) /\ EndSession(t)
    BY <1>1, <1>5, <1>8, <1>11, <2>1, <2>3 DEF server
  <2>4. CASE /\ storage.refresh # NoToken /\ Stay
             /\ call' = [call EXCEPT ![t].phase = "refresh", ![t].refresh = storage.refresh]
    <3> DEFINE c == [call[t] EXCEPT !.phase = "refresh", !.refresh = storage.refresh]
    <3>1. /\ call' = [call EXCEPT ![t] = c] /\ c \in Calls
          /\ c.kind = call[t].kind /\ c.target = call[t].target
          /\ c.token = call[t].token /\ c.refresh = storage.refresh
      BY <1>0, <1>9, <2>4 DEF Calls, Phases
    <3> HIDE DEF c
    <3>2. c.token.session <= logins /\ c.refresh.session <= logins
      BY <1>0, <1>9, <3>1 DEF CallOK
    <3>3. CallOK(c, logins)
      BY <1>10, <2>1, <2>4, <3>1, <3>2
    <3> QED
      BY <1>1, <1>2, <1>3, <1>5, <1>6, <2>1, <2>4, <3>1, <3>3 DEF server, Stay
  <2> QED
    BY <1>20, <2>2, <2>3, <2>4 DEF ReceiveAnswer
<1>21. ASSUME NEW t \in Tabs, ReceiveReply(t) \/ ReceiveDenial(t)
       PROVE  Typed'
  <2>1. UNCHANGED <<server, ended, spent>> /\ call' = Settled(t) /\ (EndSession(t) \/ Stay)
    BY <1>21 DEF ReceiveReply, ReceiveDenial
  <2>2. Called /\ Kept
    BY <1>5, <1>11, <2>1 DEF server
  <2>3. Wire /\ Store
    BY <1>2, <1>3, <1>8, <2>1 DEF Stay, server
  <2> QED
    BY <1>1, <2>2, <2>3
<1>22. ASSUME NEW t \in Tabs, ServerRefresh(t)
       PROVE  Typed'
  <2>1. call[t].phase = "refresh" /\ UNCHANGED <<server, ended, spent>> /\ Stay
    BY <1>22 DEF ServerRefresh
  <2>2. Called
    <3>1. CASE call' = [call EXCEPT ![t].phase = "denied"]
      BY <1>12, <2>1, <3>1 DEF server, Phases
    <3>2. CASE call' = [call EXCEPT ![t].phase = "granted",
                                    ![t].token = [session |-> call[t].refresh.session, version |-> clock]]
      <4> DEFINE token == [session |-> call[t].refresh.session, version |-> clock]
                 c == [call[t] EXCEPT !.phase = "granted", !.token = token]
      <4>1. token \in Tokens /\ token.session = call[t].refresh.session
        BY <1>0, <1>9, <2>1 DEF CallOK, Calls, Tokens, Token
      <4>2. call' = [call EXCEPT ![t] = c]
        BY <3>2
      <4> HIDE DEF token
      <4>3. /\ c \in Calls /\ c.kind = call[t].kind /\ c.target = call[t].target
            /\ c.token = token /\ c.refresh = call[t].refresh
        BY <1>9, <4>1 DEF Calls, Phases
      <4>4. CallOK(c, logins)
        BY <1>9, <1>10, <2>1, <4>1, <4>3 DEF CallOK
      <4> QED
        BY <1>6, <2>1, <4>2, <4>4 DEF server
    <3> QED
      BY <1>22, <3>1, <3>2 DEF ServerRefresh
  <2> QED
    BY <1>1, <1>2, <1>3, <1>5, <2>1, <2>2 DEF server, Stay
<1>23. ASSUME NEW t \in Tabs, ServerRefreshDbFails(t)
       PROVE  Typed'
  <2>1. /\ call[t].phase = "refresh" /\ call' = [call EXCEPT ![t].phase = "denied"]
        /\ UNCHANGED <<server, ended>> /\ Stay /\ Happens("db")
    BY <1>23 DEF ServerRefreshDbFails
  <2>2. Called
    BY <1>12, <2>1 DEF server, Phases
  <2> QED
    BY <1>1, <1>2, <1>3, <1>5, <2>1, <2>2 DEF server, Stay
<1>24. ASSUME NEW t \in Tabs, ReceiveGrant(t)
       PROVE  Typed'
  <2>1. /\ call[t].phase = "granted" /\ SetPage(t, call[t].token) /\ UNCHANGED <<server, ended, spent>>
        /\ storage' = [storage EXCEPT !.token = call[t].token, !.refresh = call[t].refresh]
        /\ call' = [call EXCEPT ![t] = Idle] \/ call' = [call EXCEPT ![t].phase = "replay"]
    BY <1>24 DEF ReceiveGrant
  <2>2. Called
    BY <1>6, <1>7, <1>12, <2>1 DEF server, Phases
  <2>3. call[t].token \in Tokens /\ call[t].token.session <= logins /\ call[t].refresh \in Tokens
        /\ call[t].refresh.session <= logins
    BY <1>9 DEF CallOK, Calls
  <2>4. Wire
    BY <1>0, <2>1, <2>3, TypedPage DEF server
  <2>5. Store
    BY <1>0, <2>1, <2>3 DEF server
  <2> QED
    BY <1>1, <1>5, <2>1, <2>2, <2>4, <2>5
<1>25. ASSUME NEW t \in Tabs, Lose(t)
       PROVE  Typed'
  <2>1. UNCHANGED <<server, ended>> /\ Happens("losses") /\ call' = Settled(t) /\ (EndSession(t) \/ Stay)
    BY <1>25 DEF Lose
  <2>2. Called /\ Kept
    BY <1>5, <1>11, <2>1 DEF server
  <2>3. Wire /\ Store
    BY <1>2, <1>3, <1>8, <2>1 DEF Stay, server
  <2> QED
    BY <1>1, <2>2, <2>3
<1>26. ASSUME NEW t \in Tabs, Authenticate(t)
       PROVE  Typed'
  <2>1. UNCHANGED <<server, ended, spent>> /\ page[t] \in Tokens /\ page[t].session <= logins
        /\ page[t].session \in 0..MaxSessions
    BY <1>0, <1>26 DEF Authenticate, Tokens, Token, NoToken
  <2>2. CASE /\ conn' = [conn EXCEPT ![t] = [state |-> "checked", session |-> page[t].session]]
             /\ UNCHANGED <<call, told, storage, page>>
    <3>1. [state |-> "checked", session |-> page[t].session] \in Conns
      BY <2>1 DEF Conns
    <3>2. Wire
      BY <1>0, <2>1, <2>2, <3>1 DEF server
    <3> QED
      BY <1>1, <1>3, <1>4, <1>5, <2>1, <2>2, <3>2 DEF server
  <2>3. CASE told' = told \cup {t} /\ UNCHANGED <<call, conn, storage, page>>
    BY <1>0, <1>1, <1>3, <1>4, <1>5, <2>1, <2>3 DEF server
  <2>4. CASE EndSession(t) /\ UNCHANGED call
    BY <1>1, <1>4, <1>5, <1>8, <2>1, <2>4 DEF server
  <2>5. CASE /\ storage.refresh # NoToken /\ Stay
             /\ call' = [call EXCEPT ![t] = [Idle EXCEPT !.phase = "refresh", !.kind = "socket",
                                                         !.refresh = storage.refresh]]
    <3> DEFINE c == [Idle EXCEPT !.phase = "refresh", !.kind = "socket", !.refresh = storage.refresh]
    <3>1. CallOK(c, logins)
      BY <1>0, <1>7, <2>5 DEF CallOK, Idle, Calls, Phases
    <3> QED
      BY <1>1, <1>2, <1>3, <1>5, <1>6, <2>1, <2>5, <3>1 DEF server, Stay
  <2>6. Verdict(page[t]) \in {"ok", "unauthorized", "revoked"}
    BY DEF Verdict
  <2> QED
    BY <1>26, <2>2, <2>3, <2>4, <2>5, <2>6 DEF Authenticate
<1>27. ASSUME NEW t \in Tabs, AuthenticateDbFails(t)
       PROVE  Typed'
  <2>1. /\ Happens("db") /\ told' = told \cup {t}
        /\ UNCHANGED <<server, storage, page, call, conn, ended>>
    BY <1>27 DEF AuthenticateDbFails
  <2> QED
    BY <1>0, <1>1, <1>3, <1>4, <1>5, <2>1 DEF server
<1>28. ASSUME NEW t \in Tabs, Register(t)
       PROVE  Typed'
  <2>1. /\ conn' = [conn EXCEPT ![t].state = "registered"]
        /\ UNCHANGED <<server, storage, page, call, told, ended, spent>>
    BY <1>28 DEF Register
  <2>2. conn' \in [Tabs -> Conns]
    BY <1>0, <2>1 DEF Conns
  <2> QED
    BY <1>0, <1>1, <1>3, <1>4, <1>5, <2>1, <2>2 DEF server
<1>29. ASSUME NEW t \in Tabs, SocketLost(t)
       PROVE  Typed'
  <2>1. /\ conn' = [conn EXCEPT ![t] = Down] /\ told' = told \ {t} /\ Happens("losses")
        /\ UNCHANGED <<server, storage, page, call, ended>>
    BY <1>29 DEF SocketLost
  <2>2. Down \in Conns
    BY <1>0 DEF Conns, Down
  <2> QED
    BY <1>0, <1>1, <1>3, <1>4, <1>5, <2>1, <2>2 DEF server
<1>30. ASSUME NEW t \in Tabs, ReceiveRevoked(t)
       PROVE  Typed'
  BY <1>1, <1>4, <1>5, <1>8, <1>30 DEF ReceiveRevoked, server
<1>31. ASSUME NEW t \in Tabs, AskUpgrade(t)
       PROVE  Typed'
  <2> DEFINE c == [Idle EXCEPT !.phase = "upgrade", !.kind = "socket", !.token = storage.token]
  <2>1. call' = [call EXCEPT ![t] = c] /\ UNCHANGED <<server, ended, spent>> /\ Stay
    BY <1>31 DEF AskUpgrade
  <2>2. CallOK(c, logins)
    BY <1>0, <1>7 DEF CallOK, Idle, Calls, Phases
  <2> QED
    BY <1>1, <1>2, <1>3, <1>5, <1>6, <2>1, <2>2 DEF server, Stay
<1>32. ASSUME NEW t \in Tabs, UpgradeSession(t)
       PROVE  Typed'
  <2>1. call[t].phase = "upgrade" /\ UNCHANGED <<logins, revoked, clock, ended>> /\ Stay
    BY <1>32 DEF UpgradeSession
  <2>2. CASE call' = [call EXCEPT ![t].phase = "denied"] /\ UNCHANGED <<hash, spent>>
    <3>1. Called
      BY <1>12, <2>1, <2>2 DEF Phases
    <3> QED
      BY <1>1, <1>2, <1>3, <1>5, <2>1, <2>2, <3>1 DEF server, Stay
  <2>3. CASE Verdict(call[t].token) = "ok"
    <3> DEFINE s == call[t].token.session
               refresh == [session |-> s, version |-> hash[s] + 1]
               c == [call[t] EXCEPT !.phase = "upgraded", !.refresh = refresh]
    <3>1. /\ spent.upgrades < MaxUpgrades /\ spent' = [spent EXCEPT !.upgrades = @ + 1]
          /\ hash' = [hash EXCEPT ![s] = @ + 1] /\ call' = [call EXCEPT ![t] = c]
      BY <1>32, <2>3 DEF UpgradeSession
    <3>2. s \in Ids /\ s <= logins
      <4>1. call[t].token # NoToken
        BY <2>3 DEF Verdict
      <4> QED
        BY <1>9, <4>1 DEF CallOK, Calls, Tokens, Token
    <3> HIDE DEF s
    <3>3. /\ hash[s] \in Nat /\ hash[s] + 1 \in 0..MaxUpgrades + 1 /\ hash[s] + 1 <= spent.upgrades + 2
          /\ spent' \in [losses : Nat, db : Nat, upgrades : 0..MaxUpgrades]
          /\ spent'.upgrades = spent.upgrades + 1
      <4>1. /\ spent.losses \in Nat /\ spent.db \in Nat /\ spent.upgrades \in Nat
            /\ spent = [losses |-> spent.losses, db |-> spent.db, upgrades |-> spent.upgrades]
            /\ hash[s] \in Nat /\ hash[s] <= spent.upgrades + 1
        BY <1>0, <3>2 DEF Bounds
      <4>2. MaxUpgrades \in Nat /\ spent.upgrades < MaxUpgrades
        BY <1>0, <3>1
      <4>3. /\ spent.upgrades + 1 \in 0..MaxUpgrades
            /\ hash[s] + 1 \in 0..MaxUpgrades + 1 /\ hash[s] + 1 <= spent.upgrades + 2
        BY ONLY <4>1, <4>2, OneMore
      <4>4. spent' = [losses |-> spent.losses, db |-> spent.db, upgrades |-> spent.upgrades + 1]
        BY <3>1, <4>1
      <4> QED
        BY <4>1, <4>2, <4>3, <4>4
    <3>4. hash' \in [Ids -> 0..MaxUpgrades + 1] /\ Bounds'
      <4>1. hash' \in [Ids -> 0..MaxUpgrades + 1]
        BY <1>0, <3>1, <3>2, <3>3
      <4>2. ASSUME NEW i \in Ids PROVE hash'[i] <= spent'.upgrades + 1
        <5>1. hash[i] \in Nat /\ hash[i] <= spent.upgrades + 1 /\ spent.upgrades \in Nat
          BY <1>0 DEF Bounds
        <5>2. hash'[i] = IF i = s THEN hash[s] + 1 ELSE hash[i]
          BY <1>0, <3>1, <3>2
        <5> QED
          BY <3>3, <5>1, <5>2
      <4> QED
        BY <3>3, <4>1, <4>2 DEF Bounds
    <3>5. refresh \in Tokens /\ refresh.session = s
      BY <1>0, <3>2, <3>3 DEF Tokens, Token
    <3> HIDE DEF refresh
    <3>6. /\ c \in Calls /\ c.kind = call[t].kind /\ c.target = call[t].target
          /\ c.token = call[t].token /\ c.refresh = refresh /\ c.phase = "upgraded"
      BY <1>9, <3>5 DEF Calls, Phases
    <3>7. CallOK(c, logins)
      BY <1>9, <1>10, <2>1, <3>2, <3>5, <3>6 DEF CallOK
    <3>8. Called
      BY <1>6, <2>1, <3>1, <3>7
    <3> QED
      BY <1>0, <1>2, <1>3, <2>1, <3>4, <3>8 DEF Stay, Typed, TypeOK, Issued, Tokens, Calls, Conns, CallOK
  <2> QED
    BY <1>32, <2>2, <2>3 DEF UpgradeSession
<1>33. ASSUME NEW t \in Tabs, ReceiveUpgrade(t)
       PROVE  Typed'
  <2>1. /\ storage' = [storage EXCEPT !.refresh = call[t].refresh] /\ call' = [call EXCEPT ![t] = Idle]
        /\ UNCHANGED <<server, page, conn, told, ended, spent>>
    BY <1>33 DEF ReceiveUpgrade
  <2>2. Store
    BY <1>0, <1>9, <2>1 DEF server, CallOK, Calls
  <2> QED
    BY <1>1, <1>2, <1>5, <1>6, <1>7, <2>1, <2>2 DEF server
<1>34. ASSUME NEW s \in Ids, RevokeElsewhere(s)
       PROVE  Typed'
  <2>1. /\ s \in 1..logins /\ revoked' = revoked \cup {s} /\ ended' = ended \cup {s}
        /\ told' \subseteq Tabs
        /\ UNCHANGED <<logins, hash, clock, storage, page, call, conn, spent>>
    BY <1>0, <1>34 DEF RevokeElsewhere, Revoke
  <2>2. Kept /\ Wire
    BY <1>0, <2>1 DEF Bounds
  <2> QED
    BY <1>1, <1>3, <1>4, <2>1, <2>2
<1>35. CASE Expire
  <2>1. /\ clock' \in 0..MaxExpiries
        /\ UNCHANGED <<logins, revoked, hash, ended, spent, call, storage, page, conn, told>>
    BY <1>0, <1>35 DEF Expire, Stay
  <2> QED
    BY <1>0, <2>1 DEF Typed, TypeOK, Bounds, Issued
<1>36. ASSUME NEW t \in Tabs, Reload(t)
       PROVE  Typed'
  <2>1. /\ Happens("losses") /\ SetPage(t, storage.token) /\ call' = [call EXCEPT ![t] = Idle]
        /\ UNCHANGED <<server, storage, ended>>
    BY <1>36 DEF Reload
  <2>2. Wire
    BY <1>0, <2>1, TypedPage DEF server
  <2> QED
    BY <1>1, <1>3, <1>5, <1>6, <1>7, <2>1, <2>2 DEF server
<1>37. CASE UNCHANGED vars
  BY <1>37 DEF vars, server, Typed, TypeOK, Bounds, Issued
<1> QED
  BY <1>13, <1>14, <1>15, <1>16, <1>18, <1>19, <1>20, <1>21, <1>22, <1>23, <1>24, <1>25, <1>26, <1>27,
     <1>28, <1>29, <1>30, <1>31, <1>32, <1>33, <1>34, <1>35, <1>36, <1>37
     DEF Next, Serve, Answer, Fault

\* The session type of every token: what the steps below need of Typed.
LEMMA Facts ==
  ASSUME Typed
  PROVE  /\ logins \in 0..MaxSessions /\ logins \in Nat /\ MaxSessions \in Nat
         /\ hash \in [Ids -> 0..MaxUpgrades + 1] /\ call \in [Tabs -> Calls]
         /\ storage \in [token : Tokens, refresh : Tokens, user : 0..MaxSessions]
         /\ \A k \in Tokens : /\ k.session \in 0..MaxSessions /\ k.version \in Nat
                              /\ k # NoToken <=> k.session \in Ids
         /\ storage.token.session <= logins /\ storage.refresh.session <= logins
         /\ \A t \in Tabs : CallOK(call[t], logins)
<1>1. \A k \in Tokens : /\ k.session \in 0..MaxSessions /\ k.version \in Nat
                        /\ k # NoToken <=> k.session \in Ids
  <2> TAKE k \in Tokens
  <2>1. CASE k = NoToken
    BY <2>1, SessionAssumption DEF NoToken, Ids
  <2>2. CASE k \in Token
    BY <2>2, SessionAssumption DEF NoToken, Ids, Token
  <2> QED
    BY <2>1, <2>2 DEF Tokens
<1> QED
  BY <1>1, SessionAssumption DEF Typed, TypeOK, Issued, Tokens, Calls, CallOK

\* A step that gives no tab a refresh token leaves the invariant as it is.
LEMMA RefreshCalm ==
  ASSUME Typed, RefreshInv, UNCHANGED <<hash, logins>>,
         storage' = storage \/ storage' = Empty,
         \A u \in Tabs : call'[u] = call[u] \/ ~(Carries(u) \/ Upgrades(u))'
  PROVE  RefreshInv'
<1>1. /\ storage'.refresh # NoToken => storage'.refresh = storage.refresh /\ storage'.token = storage.token
      /\ storage'.token # NoToken => storage' = storage
      /\ storage'.refresh.session = storage.refresh.session \/ storage'.refresh.session = 0
  BY DEF Empty, NoToken
<1>2. \A r : Current(r, hash', logins') <=> Current(r, hash, logins)
  BY DEF Current
<1>3. \A u \in Tabs : /\ Carries(u)' => call'[u] = call[u] /\ Carries(u)
                      /\ Upgrades(u)' => call'[u] = call[u] /\ Upgrades(u)
  BY DEF Carries, Upgrades
<1>4. \A u \in Tabs : call[u].token # NoToken => call[u].token.session # 0
  BY Facts, SessionAssumption DEF CallOK, Calls, Ids
<1>5. storage'.refresh # NoToken => Current(storage'.refresh, hash', logins')
  BY <1>1, <1>2 DEF RefreshInv
<1>6. \A u \in Tabs : Carries(u)' => Current(call'[u].refresh, hash', logins')
  BY <1>2, <1>3 DEF RefreshInv
<1>7. storage'.token # NoToken /\ storage'.refresh = NoToken => \A u \in Tabs : ~Carries(u)'
  BY <1>1, <1>3 DEF RefreshInv
<1>8. \A t \in Tabs : call'[t].phase = "upgrade" =>
        /\ call'[t].token # NoToken
        /\ storage'.refresh.session # call'[t].token.session
        /\ \A u \in Tabs : Carries(u)' => call'[u].refresh.session # call'[t].token.session
  BY <1>1, <1>3, <1>4 DEF RefreshInv, Upgrades
<1>9. \A t \in Tabs : call'[t].phase = "upgraded" => Current(call'[t].refresh, hash', logins')
  BY <1>2, <1>3 DEF RefreshInv, Upgrades
<1>10. \A t, u \in Tabs : Upgrades(t)' /\ Upgrades(u)' => t = u
  BY <1>3 DEF RefreshInv
<1> QED
  BY <1>5, <1>6, <1>7, <1>8, <1>9, <1>10 DEF RefreshInv

\* A tab takes the refresh token of localStorage along.
LEMMA RefreshTaken ==
  ASSUME Typed, RefreshInv, UNCHANGED <<hash, logins, storage>>, storage.refresh # NoToken,
         NEW t \in Tabs, NEW c, call' = [call EXCEPT ![t] = c], c.phase = "refresh", c.refresh = storage.refresh
  PROVE  RefreshInv'
<1>1. \A r : Current(r, hash', logins') <=> Current(r, hash, logins)
  BY DEF Current
<1>2. /\ call'[t] = c /\ \A u \in Tabs \ {t} : call'[u] = call[u]
  BY Facts
<1>3. \A u \in Tabs : /\ Carries(u)' => Current(call'[u].refresh, hash, logins)
                      /\ Upgrades(u)' => u # t /\ Upgrades(u)
                      /\ Carries(u)' => u = t \/ Carries(u)
  BY <1>2 DEF RefreshInv, Carries, Upgrades
<1>4. \A u \in Tabs : call'[u].phase = "upgrade" =>
        /\ call'[u].token # NoToken
        /\ storage'.refresh.session # call'[u].token.session
        /\ \A v \in Tabs : Carries(v)' => call'[v].refresh.session # call'[u].token.session
  BY <1>2, <1>3 DEF RefreshInv, Upgrades
<1>5. \A u \in Tabs : call'[u].phase = "upgraded" => Current(call'[u].refresh, hash', logins')
  BY <1>1, <1>2, <1>3 DEF RefreshInv, Upgrades
<1>6. \A u, v \in Tabs : Upgrades(u)' /\ Upgrades(v)' => u = v
  BY <1>3 DEF RefreshInv
<1>7. storage'.refresh # NoToken /\ Current(storage'.refresh, hash', logins')
  BY <1>1 DEF RefreshInv
<1> QED
  BY <1>1, <1>3, <1>4, <1>5, <1>6, <1>7 DEF RefreshInv

LEMMA RefreshInit == Init => RefreshInv
<1> SUFFICES ASSUME Init PROVE RefreshInv
  OBVIOUS
<1>1. storage.refresh = NoToken
  <2>1. CASE storage = Empty
    BY <2>1 DEF Empty
  <2>2. CASE storage = [Empty EXCEPT !.token = [session |-> 1, version |-> 0], !.user = 1]
    BY <2>2 DEF Empty
  <2> QED
    BY <2>1, <2>2 DEF Init
<1>2. \A t \in Tabs : call[t].phase = "idle"
  BY DEF Init, Idle
<1> QED
  BY <1>1, <1>2 DEF RefreshInv, Carries, Upgrades

LEMMA RefreshStep == Typed /\ RefreshInv /\ ~SharedUpgrade /\ [Next]_vars => RefreshInv'
<1> SUFFICES ASSUME Typed, RefreshInv, ~SharedUpgrade, [Next]_vars
             PROVE  RefreshInv'
  OBVIOUS
<1>0. /\ call \in [Tabs -> Calls] /\ \A u \in Tabs : CallOK(call[u], logins)
      /\ storage \in [token : Tokens, refresh : Tokens, user : 0..MaxSessions]
  BY Facts
<1>1. ASSUME NEW t \in Tabs, NEW c, call' = [call EXCEPT ![t] = c], UNCHANGED <<hash, logins>>,
             storage' = storage \/ storage' = Empty, c.phase \notin {"refresh", "granted", "upgrade", "upgraded"}
      PROVE  RefreshInv'
  <2>1. \A u \in Tabs : call'[u] = call[u] \/ ~(Carries(u) \/ Upgrades(u))'
    BY <1>0, <1>1 DEF Carries, Upgrades
  <2> QED
    BY <1>1, <2>1, RefreshCalm
<1>2. ASSUME UNCHANGED <<hash, logins, call>>, storage' = storage \/ storage' = Empty
      PROVE  RefreshInv'
  BY <1>2, RefreshCalm
<1>3. ASSUME NEW t \in Tabs, call' = Settled(t), UNCHANGED <<hash, logins>>, EndSession(t) \/ Stay
      PROVE  RefreshInv'
  <2>1. storage' = storage \/ storage' = Empty
    BY <1>3 DEF EndSession, Stay
  <2>2. CASE call[t].kind = "logout"
    <3>1. call' = [call EXCEPT ![t] = [call[t] EXCEPT !.phase = "leave"]]
      BY <1>0, <1>3, <2>2 DEF Settled
    <3>2. [call[t] EXCEPT !.phase = "leave"].phase = "leave"
      BY <1>0 DEF Calls
    <3> QED
      BY <1>1, <1>3, <2>1, <3>1, <3>2
  <2>3. CASE call[t].kind # "logout"
    <3>1. call' = [call EXCEPT ![t] = Idle] /\ Idle.phase = "idle"
      BY <1>0, <1>3, <2>3 DEF Settled, Idle
    <3> QED
      BY <1>1, <1>3, <2>1, <3>1
  <2> QED
    BY <2>2, <2>3
<1>4. ASSUME NEW t \in Tabs, Login(t)
      PROVE  RefreshInv'
  <2> DEFINE n == logins + 1
             refresh == [session |-> n, version |-> 1]
  <2>1. /\ n \in Ids /\ logins' = n /\ hash' = [hash EXCEPT ![n] = 1] /\ UNCHANGED call
        /\ storage'.refresh = refresh
    BY <1>4, Facts DEF Login, Ids
  <2>2. refresh # NoToken /\ refresh.session = n /\ Current(refresh, hash', logins')
    BY <2>1, Facts DEF NoToken, Current, Ids
  <2> HIDE DEF refresh
  <2>3. ASSUME NEW r, Current(r, hash, logins)
        PROVE  Current(r, hash', logins') /\ r.session # n
    BY <2>1, <2>3, Facts DEF Current, Ids
  <2>4. \A u \in Tabs : call[u].token.session # n
    BY Facts DEF CallOK, Calls
  <2> HIDE DEF n
  <2>5. \A u \in Tabs : (Carries(u)' <=> Carries(u)) /\ (Upgrades(u)' <=> Upgrades(u))
    BY <2>1 DEF Carries, Upgrades
  <2> QED
    BY <2>1, <2>2, <2>3, <2>4, <2>5 DEF RefreshInv
<1>5. ASSUME NEW t \in Tabs, ApiCall(t) \/ AskLogout(t)
      PROVE  RefreshInv'
  <2>1. PICK c : /\ call' = [call EXCEPT ![t] = c] /\ c.phase \in {"sent", "leave"}
                 /\ UNCHANGED <<hash, logins, storage>>
    <3>1. CASE ApiCall(t)
      <4> DEFINE c == [Idle EXCEPT !.phase = "sent", !.token = storage.token]
      <4>1. call' = [call EXCEPT ![t] = c] /\ UNCHANGED <<hash, logins, storage>>
        BY <3>1 DEF ApiCall, Stay, server
      <4>2. c.phase = "sent"
        BY DEF Idle
      <4> QED
        BY <4>1, <4>2
    <3>2. CASE AskLogout(t)
      <4>1. PICK phase \in {"sent", "leave"} :
              /\ call' = [call EXCEPT ![t] = [Idle EXCEPT
                             !.phase = phase, !.kind = "logout", !.token = storage.token,
                             !.target = storage.token.session]]
              /\ UNCHANGED <<hash, logins, storage>>
        BY <3>2 DEF AskLogout, Stay, server
      <4> DEFINE c == [Idle EXCEPT !.phase = phase, !.kind = "logout", !.token = storage.token,
                                   !.target = storage.token.session]
      <4>2. c.phase = phase
        BY DEF Idle
      <4> QED
        BY <4>1, <4>2
    <3> QED
      BY <1>5, <3>1, <3>2
  <2> QED
    BY <1>1, <2>1
<1>6. ASSUME NEW t \in Tabs, Leave(t)
      PROVE  RefreshInv'
  <2>1. /\ call' = [call EXCEPT ![t] = Idle] /\ UNCHANGED <<hash, logins>>
        /\ storage' = Empty /\ Idle.phase = "idle"
    BY <1>6 DEF Leave, EndSession, Idle, server
  <2> QED
    BY <1>1, <2>1
<1>7. ASSUME NEW t \in Tabs, AuthUser(t) \/ AuthUserDbFails(t)
      PROVE  RefreshInv'
  <2>1. PICK answer : /\ call' = Answered(t, answer) /\ UNCHANGED <<hash, logins, storage>>
    BY <1>7 DEF AuthUser, AuthUserDbFails, server, Stay
  <2>2. PICK c : call' = [call EXCEPT ![t] = c] /\ c.phase \in {"answered", "replied"}
    <3> DEFINE c == [call[t] EXCEPT !.answer = answer,
                                    !.phase = IF @ = "sent" THEN "answered" ELSE "replied"]
    <3>1. call' = [call EXCEPT ![t] = c]
      BY <1>0, <2>1 DEF Answered
    <3>2. c.phase \in {"answered", "replied"}
      BY <1>0 DEF Calls
    <3> QED
      BY <3>1, <3>2
  <2> QED
    BY <1>1, <2>1, <2>2
<1>8. ASSUME NEW t \in Tabs, ReceiveAnswer(t)
      PROVE  RefreshInv'
  <2>1. CASE call' = Settled(t) /\ (Stay \/ EndSession(t))
    BY <1>3, <1>8, <2>1 DEF ReceiveAnswer, server
  <2>2. CASE /\ storage.refresh # NoToken /\ Stay
             /\ call' = [call EXCEPT ![t].phase = "refresh", ![t].refresh = storage.refresh]
    <3> DEFINE c == [call[t] EXCEPT !.phase = "refresh", !.refresh = storage.refresh]
    <3>1. call' = [call EXCEPT ![t] = c] /\ c.phase = "refresh" /\ c.refresh = storage.refresh
      BY <1>0, <2>2 DEF Calls
    <3> HIDE DEF c
    <3> QED
      BY <1>8, <2>2, <3>1, RefreshTaken DEF ReceiveAnswer, server, Stay
  <2> QED
    BY <1>8, <2>1, <2>2 DEF ReceiveAnswer
<1>9. ASSUME NEW t \in Tabs, ReceiveReply(t) \/ ReceiveDenial(t) \/ Lose(t)
      PROVE  RefreshInv'
  BY <1>3, <1>9 DEF ReceiveReply, ReceiveDenial, Lose, server
<1>10. ASSUME NEW t \in Tabs, call' = [call EXCEPT ![t].phase = "denied"], UNCHANGED <<hash, logins, storage>>
       PROVE  RefreshInv'
  <2> DEFINE c == [call[t] EXCEPT !.phase = "denied"]
  <2>1. call' = [call EXCEPT ![t] = c] /\ c.phase = "denied"
    BY <1>0, <1>10 DEF Calls
  <2> HIDE DEF c
  <2> QED
    BY <1>1, <1>10, <2>1
<1>11. ASSUME NEW t \in Tabs, ServerRefresh(t)
       PROVE  RefreshInv'
  <2>1. call[t].phase = "refresh" /\ UNCHANGED <<hash, logins, storage>>
    BY <1>11 DEF ServerRefresh, server, Stay
  <2>2. CASE call' = [call EXCEPT ![t].phase = "denied"]
    BY <1>10, <2>1, <2>2
  <2>3. CASE call' = [call EXCEPT ![t].phase = "granted",
                                  ![t].token = [session |-> call[t].refresh.session, version |-> clock]]
    <3>1. /\ call'[t].phase = "granted" /\ call'[t].refresh = call[t].refresh
          /\ \A u \in Tabs \ {t} : call'[u] = call[u]
      BY <1>0, <2>3 DEF Calls
    <3>2. \A u \in Tabs : /\ Carries(u)' <=> Carries(u)
                          /\ Upgrades(u)' <=> Upgrades(u)
                          /\ Upgrades(u) => call'[u] = call[u]
                          /\ call'[u].refresh = call[u].refresh
      BY <2>1, <3>1 DEF Carries, Upgrades
    <3>3. \A r : Current(r, hash', logins') <=> Current(r, hash, logins)
      BY <2>1 DEF Current
    <3>4. \A u \in Tabs : call'[u].phase \in {"upgrade", "upgraded"} => call'[u] = call[u]
      BY <3>1
    <3> QED
      BY <2>1, <3>2, <3>3, <3>4 DEF RefreshInv
  <2> QED
    BY <1>11, <2>2, <2>3 DEF ServerRefresh
<1>12. ASSUME NEW t \in Tabs, ServerRefreshDbFails(t)
       PROVE  RefreshInv'
  BY <1>10, <1>12 DEF ServerRefreshDbFails, server, Stay
<1>13. ASSUME NEW t \in Tabs, ReceiveGrant(t)
       PROVE  RefreshInv'
  <2>1. /\ Carries(t) /\ UNCHANGED <<hash, logins>>
        /\ storage'.refresh = call[t].refresh
    BY <1>0, <1>13 DEF ReceiveGrant, Carries, server
  <2>2. PICK c : call' = [call EXCEPT ![t] = c] /\ c.phase \in {"idle", "replay"}
    <3>1. CASE call' = [call EXCEPT ![t] = Idle]
      <4>1. Idle.phase = "idle"
        BY DEF Idle
      <4> QED
        BY <3>1, <4>1
    <3>2. CASE call' = [call EXCEPT ![t].phase = "replay"]
      <4> DEFINE c == [call[t] EXCEPT !.phase = "replay"]
      <4>1. call' = [call EXCEPT ![t] = c] /\ c.phase = "replay"
        BY <1>0, <3>2 DEF Calls
      <4> HIDE DEF c
      <4> QED
        BY <4>1
    <3> QED
      BY <1>13, <3>1, <3>2 DEF ReceiveGrant
  <2>3. \A u \in Tabs : call'[u] = IF u = t THEN c ELSE call[u]
    BY <1>0, <2>2
  <2>4. \A u \in Tabs : /\ Carries(u)' => Carries(u) /\ call'[u] = call[u]
                        /\ Upgrades(u)' => Upgrades(u) /\ call'[u] = call[u]
                        /\ call'[u].phase \in {"upgrade", "upgraded"} => call'[u] = call[u]
    BY <2>2, <2>3 DEF Carries, Upgrades
  <2>5. \A r : Current(r, hash', logins') <=> Current(r, hash, logins)
    BY <2>1 DEF Current
  <2>6. Current(call[t].refresh, hash, logins) /\ call[t].refresh # NoToken
    BY <1>0, <2>1 DEF RefreshInv, Carries, CallOK
  <2> QED
    BY <2>1, <2>4, <2>5, <2>6 DEF RefreshInv
<1>14. ASSUME NEW t \in Tabs, Authenticate(t)
       PROVE  RefreshInv'
  <2>1. UNCHANGED <<hash, logins>> /\ Verdict(page[t]) \in {"ok", "unauthorized", "revoked"}
    BY <1>14 DEF Authenticate, server, Verdict
  <2>2. CASE UNCHANGED <<call, storage>> \/ (EndSession(t) /\ UNCHANGED call)
    BY <1>2, <2>1, <2>2 DEF EndSession
  <2>3. CASE /\ storage.refresh # NoToken /\ Stay
             /\ call' = [call EXCEPT ![t] = [Idle EXCEPT !.phase = "refresh", !.kind = "socket",
                                                         !.refresh = storage.refresh]]
    <3> DEFINE c == [Idle EXCEPT !.phase = "refresh", !.kind = "socket", !.refresh = storage.refresh]
    <3>1. call' = [call EXCEPT ![t] = c] /\ c.phase = "refresh" /\ c.refresh = storage.refresh
      BY <2>3 DEF Idle
    <3> HIDE DEF c
    <3> QED
      BY <2>1, <2>3, <3>1, RefreshTaken DEF Stay
  <2> QED
    BY <1>14, <2>1, <2>2, <2>3 DEF Authenticate
<1>15. ASSUME NEW t \in Tabs, AuthenticateDbFails(t) \/ Register(t) \/ SocketLost(t)
       PROVE  RefreshInv'
  BY <1>2, <1>15 DEF AuthenticateDbFails, Register, SocketLost, server
<1>16. ASSUME NEW t \in Tabs, ReceiveRevoked(t)
       PROVE  RefreshInv'
  BY <1>2, <1>16 DEF ReceiveRevoked, EndSession, server
<1>17. ASSUME NEW t \in Tabs, AskUpgrade(t)
       PROVE  RefreshInv'
  <2> DEFINE c == [Idle EXCEPT !.phase = "upgrade", !.kind = "socket", !.token = storage.token]
  <2>1. /\ storage.refresh = NoToken /\ storage.token # NoToken /\ UNCHANGED <<hash, logins, storage>>
        /\ \A u \in Tabs : ~Upgrades(u)
        /\ call' = [call EXCEPT ![t] = c]
    BY <1>17 DEF AskUpgrade, Stay, server, Upgrades
  <2>2. c.phase = "upgrade" /\ c.token = storage.token
    BY DEF Idle
  <2> HIDE DEF c
  <2>3. \A u \in Tabs : call'[u] = IF u = t THEN c ELSE call[u]
    BY <1>0, <2>1
  <2>4. \A u \in Tabs : ~Carries(u)
    BY <2>1 DEF RefreshInv
  <2>5. \A u \in Tabs : ~Carries(u)' /\ (Upgrades(u)' => u = t) /\ call'[u].phase # "upgraded"
    BY <2>1, <2>2, <2>3, <2>4 DEF Carries, Upgrades
  <2>6. storage.token.session # 0 /\ storage.refresh.session = 0
    BY <1>0, <2>1, Facts DEF NoToken, Ids
  <2>7. \A u \in Tabs : call'[u].phase = "upgrade" => call'[u].token = storage.token
    BY <2>1, <2>2, <2>3 DEF Upgrades
  <2> QED
    BY <2>1, <2>5, <2>6, <2>7 DEF RefreshInv
<1>18. ASSUME NEW t \in Tabs, UpgradeSession(t)
       PROVE  RefreshInv'
  <2>1. call[t].phase = "upgrade" /\ UNCHANGED <<logins, storage>>
    BY <1>18 DEF UpgradeSession, Stay
  <2>2. CASE call' = [call EXCEPT ![t].phase = "denied"] /\ UNCHANGED hash
    BY <1>10, <2>1, <2>2
  <2>3. CASE Verdict(call[t].token) = "ok"
    <3> DEFINE s == call[t].token.session
               refresh == [session |-> s, version |-> hash[s] + 1]
    <3>1. /\ hash' = [hash EXCEPT ![s] = hash[s] + 1]
          /\ call' = [call EXCEPT ![t].phase = "upgraded", ![t].refresh = refresh]
      BY <1>18, <2>3 DEF UpgradeSession
    <3>2. s \in 1..logins /\ s \in Ids
      <4>1. call[t].token # NoToken
        BY <2>3 DEF Verdict
      <4> QED
        BY <1>0, <4>1, Facts DEF CallOK, Calls, Ids
    <3>3. /\ call'[t].phase = "upgraded" /\ call'[t].refresh = refresh
          /\ \A u \in Tabs \ {t} : call'[u] = call[u]
      BY <1>0, <3>1 DEF Calls
    <3>4. Current(refresh, hash', logins')
      BY <2>1, <3>1, <3>2, Facts DEF Current
    <3> HIDE DEF refresh
    <3>5. ASSUME NEW r, Current(r, hash, logins), r.session # s
          PROVE  Current(r, hash', logins')
      BY <2>1, <3>1, <3>5, Facts DEF Current
    <3>6. \A u \in Tabs : u # t => ~Upgrades(u)
      BY <2>1 DEF RefreshInv, Upgrades
    <3>7. \A u \in Tabs : /\ Carries(u)' => Carries(u) /\ call'[u] = call[u]
                          /\ Upgrades(u)' => u = t
                          /\ call'[u].phase # "upgrade"
                          /\ call'[u].phase = "upgraded" => u = t
      BY <3>3, <3>6 DEF Carries, Upgrades
    <3>8. /\ storage.refresh.session # s
          /\ \A u \in Tabs : Carries(u) => call[u].refresh.session # s
      BY <2>1 DEF RefreshInv
    <3> HIDE DEF s
    <3> QED
      BY <2>1, <3>3, <3>4, <3>5, <3>7, <3>8 DEF RefreshInv
  <2> QED
    BY <1>18, <2>2, <2>3 DEF UpgradeSession
<1>19. ASSUME NEW t \in Tabs, ReceiveUpgrade(t)
       PROVE  RefreshInv'
  <2>1. /\ call[t].phase = "upgraded" /\ storage'.refresh = call[t].refresh
        /\ call' = [call EXCEPT ![t] = Idle] /\ UNCHANGED <<hash, logins>>
    BY <1>0, <1>19 DEF ReceiveUpgrade, server
  <2>2. \A u \in Tabs : call'[u] = IF u = t THEN Idle ELSE call[u]
    BY <1>0, <2>1
  <2>3. \A u \in Tabs : u # t => ~Upgrades(u)
    BY <2>1 DEF RefreshInv, Upgrades
  <2>4. \A u \in Tabs : /\ Carries(u)' => Carries(u) /\ call'[u] = call[u]
                        /\ ~Upgrades(u)' /\ call'[u].phase \notin {"upgrade", "upgraded"}
    BY <2>2, <2>3 DEF Carries, Upgrades, Idle
  <2>5. Current(call[t].refresh, hash, logins)
    BY <2>1 DEF RefreshInv
  <2>6. call[t].refresh # NoToken
    BY <2>5, Facts DEF Current, NoToken
  <2>7. \A r : Current(r, hash', logins') <=> Current(r, hash, logins)
    BY <2>1 DEF Current
  <2> QED
    BY <2>1, <2>4, <2>5, <2>6, <2>7 DEF RefreshInv
<1>20. ASSUME NEW s \in Ids, RevokeElsewhere(s)
       PROVE  RefreshInv'
  BY <1>2, <1>20 DEF RevokeElsewhere
<1>21. CASE Expire
  BY <1>2, <1>21 DEF Expire, Stay
<1>22. ASSUME NEW t \in Tabs, Reload(t)
       PROVE  RefreshInv'
  <2>1. /\ call' = [call EXCEPT ![t] = Idle] /\ UNCHANGED <<hash, logins, storage>> /\ Idle.phase = "idle"
    BY <1>22 DEF Reload, Idle, server
  <2> QED
    BY <1>1, <2>1
<1>23. CASE UNCHANGED vars
  BY <1>2, <1>23 DEF vars, server
<1> QED
  BY <1>4, <1>5, <1>6, <1>7, <1>8, <1>9, <1>11, <1>12, <1>13, <1>14, <1>15, <1>16, <1>17, <1>18,
     <1>19, <1>20, <1>21, <1>22, <1>23
     DEF Next, Serve, Answer, Fault

\* Every state has the shape the code gives it.
THEOREM TypeCorrect == Spec => []TypeOK
<1>1. Typed => TypeOK
  BY DEF Typed
<1> QED
  BY <1>1, TypedInit, TypedStep, PTL DEF Spec

\* Unless two tabs ask for a refresh token at the same time, the one this
\* browser holds is the one the server accepts, for any number of tabs and
\* logins: however refreshes, upgrades and logouts of several tabs interleave,
\* no stale token is written over the live one (stable refresh tokens,
\* routes/auth.rs refresh and upgrade_session, api/http.ts setToken).
THEOREM RefreshTokenWorks == ASSUME ~SharedUpgrade PROVE Spec => []RefreshWorks
<1>1. RefreshInv => RefreshWorks
  BY DEF RefreshInv, RefreshWorks, Current
<1>2. Typed /\ RefreshInv /\ [Next]_vars => RefreshInv'
  BY RefreshStep
<1> QED
  BY <1>1, <1>2, TypedInit, TypedStep, RefreshInit, PTL DEF Spec

-----------------------------------------------------------------------------
(* A login lasts.  With one login in the history of this browser, every       *)
(* signal that ends it goes back to a request of the user, or to a login      *)
(* whose access token has expired and that never had a refresh token.         *)

Asked == ended # {}

\* The login of before refresh tokens missed the moment to ask for one.
Stuck ==
  /\ logins = 1 /\ storage.refresh = NoToken
  /\ storage.token # NoToken => storage.token.version < clock
  /\ \A t \in Tabs : /\ ~Carries(t) /\ call[t].phase # "upgraded"
                     /\ call[t].phase = "upgrade" => call[t].token.version < clock

LoginInv ==
  /\ storage.token.version <= clock /\ (revoked # {} => Asked)
  /\ \A t \in Tabs :
       /\ call[t].token.version <= clock
       /\ call[t].kind = "logout" \/ call[t].phase = "leave" => Asked
       /\ call[t].phase = "granted" => call[t].token # NoToken
       /\ call[t].phase = "upgrade" => storage.token \in {NoToken, call[t].token}
  /\ spent.db = 0 =>
       /\ told # {} => Asked
       /\ \A t \in Tabs : /\ call[t].answer = "revoked" => Asked
                          /\ call[t].phase = "denied" => Asked \/ Stuck

LEMMA LoginInit == Init => LoginInv
<1> SUFFICES ASSUME Init PROVE LoginInv
  OBVIOUS
<1>1. storage.token.version = 0
  <2>1. CASE storage = Empty
    BY <2>1 DEF Empty, NoToken
  <2>2. CASE storage = [Empty EXCEPT !.token = [session |-> 1, version |-> 0], !.user = 1]
    BY <2>2 DEF Empty
  <2> QED
    BY <2>1, <2>2 DEF Init
<1>2. \A t \in Tabs : /\ call[t].phase = "idle" /\ call[t].kind = "api"
                      /\ call[t].answer = "none" /\ call[t].token.version = 0
  BY DEF Init, Idle, NoToken
<1> QED
  BY <1>1, <1>2 DEF Init, LoginInv

\* A step in which at most one tab moves on, with no token to look after.
LEMMA LoginCalm ==
  ASSUME Typed, LoginInv, UNCHANGED <<logins, clock>>, storage' = storage \/ storage' = Empty,
         Asked => Asked', revoked' # {} => Asked',
         spent'.db = 0 => spent.db = 0 /\ (told' # {} => Asked'),
         \A u \in Tabs :
           \/ call'[u] = call[u]
           \/ /\ call'[u].phase \notin {"refresh", "granted", "upgrade", "upgraded"}
              /\ call'[u].token.version <= clock
              /\ call'[u].kind = "logout" \/ call'[u].phase = "leave" => Asked'
              /\ spent'.db = 0 => /\ call'[u].answer = "revoked" => Asked'
                                  /\ call'[u].phase = "denied" => Asked' \/ Stuck
  PROVE  LoginInv'
<1>1. /\ storage'.token \in {storage.token, NoToken} /\ storage'.refresh \in {storage.refresh, NoToken}
      /\ NoToken.version = 0 /\ clock \in Nat
  BY SessionAssumption DEF Empty, NoToken, Typed, TypeOK
<1>2. storage'.token.version <= clock'
  BY <1>1 DEF LoginInv
<1>3. Stuck => Stuck'
  BY <1>1 DEF Stuck, Carries
<1>4. ASSUME NEW u \in Tabs
      PROVE  /\ call'[u].token.version <= clock'
             /\ call'[u].kind = "logout" \/ call'[u].phase = "leave" => Asked'
             /\ call'[u].phase = "granted" => call'[u].token # NoToken
             /\ call'[u].phase = "upgrade" => storage'.token \in {NoToken, call'[u].token}
             /\ spent'.db = 0 => /\ call'[u].answer = "revoked" => Asked'
                                 /\ call'[u].phase = "denied" => Asked' \/ Stuck'
  <2>1. CASE call'[u] = call[u]
    BY <1>1, <1>3, <2>1 DEF LoginInv
  <2>2. CASE call'[u] # call[u]
    BY <1>3, <2>2
  <2> QED
    BY <2>1, <2>2
<1> QED
  BY <1>2, <1>4 DEF LoginInv

LEMMA LoginTaken ==
  ASSUME Typed, LoginInv, UNCHANGED <<logins, clock, storage, revoked, ended, told, spent>>,
         storage.refresh # NoToken,
         NEW t \in Tabs, NEW c, call' = [call EXCEPT ![t] = c],
         c.phase = "refresh", c.token.version <= clock,
         c.kind = "logout" => Asked, spent.db = 0 /\ c.answer = "revoked" => Asked
  PROVE  LoginInv'
<1>1. \A u \in Tabs : call'[u] = IF u = t THEN c ELSE call[u]
  BY Facts
<1>2. ~Stuck /\ (Asked' <=> Asked)
  BY DEF Stuck, Asked
<1> QED
  BY <1>1, <1>2 DEF LoginInv

LEMMA LoginStep ==
  ASSUME MaxSessions = 1, ~SharedUpgrade, Typed, RefreshInv, LoginInv, [Next]_vars
  PROVE  LoginInv'
<1>0. /\ call \in [Tabs -> Calls] /\ \A u \in Tabs : CallOK(call[u], logins)
      /\ storage \in [token : Tokens, refresh : Tokens, user : 0..MaxSessions]
      /\ logins \in 0..1 /\ clock \in Nat /\ Ids = {1}
      /\ \A k \in Tokens : /\ k.session \in 0..1 /\ k.version \in Nat
                           /\ k # NoToken <=> k.session = 1
  BY Facts, SessionAssumption DEF Typed, TypeOK, Ids
\* What LoginInv says of the call of tab t, and of what is on its way to it.
<1>1. /\ revoked # {} => Asked
      /\ \A u \in Tabs : /\ call[u].token.version <= clock
                         /\ call[u].kind = "logout" \/ call[u].phase = "leave" => Asked
                         /\ spent.db = 0 => /\ call[u].answer = "revoked" => Asked
                                            /\ call[u].phase = "denied" => Asked \/ Stuck
      /\ spent.db = 0 /\ told # {} => Asked
      /\ storage.token.version <= clock
  BY DEF LoginInv
<1>2. spent \in [losses : Nat, db : Nat, upgrades : 0..MaxUpgrades]
  BY DEF Typed, Bounds
\* The fault that a signal may come from is a query of the session that fails.
<1>3. /\ Happens("losses") => spent'.db = spent.db
      /\ Happens("db") => spent'.db # 0
  BY <1>2 DEF Happens
<1>4. ASSUME NEW t \in Tabs, NEW c, call' = [call EXCEPT ![t] = c],
             UNCHANGED <<logins, clock>>, storage' = storage \/ storage' = Empty,
             Asked => Asked', revoked' # {} => Asked',
             spent'.db = 0 => spent.db = 0 /\ (told' # {} => Asked'),
             c.phase \notin {"refresh", "granted", "upgrade", "upgraded"},
             c.token.version <= clock,
             c.kind = "logout" \/ c.phase = "leave" => Asked',
             spent'.db = 0 => /\ c.answer = "revoked" => Asked'
                              /\ c.phase = "denied" => Asked' \/ Stuck
      PROVE  LoginInv'
  <2>1. \A u \in Tabs : call'[u] = IF u = t THEN c ELSE call[u]
    BY <1>0, <1>4
  <2> QED
    BY <1>4, <2>1, LoginCalm
<1>5. ASSUME NEW t \in Tabs, UNCHANGED <<server, ended, call>>,
             storage' = storage \/ storage' = Empty,
             spent'.db = 0 => spent.db = 0 /\ (told' # {} => Asked)
      PROVE  LoginInv'
  BY <1>1, <1>5, LoginCalm DEF server, Asked
\* EndSession takes signals away, and never brings one.
<1>6. ASSUME NEW t \in Tabs, EndSession(t) \/ Stay
      PROVE  told' \subseteq told /\ (storage' = storage \/ storage' = Empty)
  BY <1>6 DEF EndSession, SetPage, Stay
<1>7. ASSUME NEW t \in Tabs, call' = Settled(t), UNCHANGED <<server, ended>>, EndSession(t) \/ Stay,
             spent'.db = spent.db
      PROVE  LoginInv'
  <2>1. told' \subseteq told /\ (storage' = storage \/ storage' = Empty) /\ (Asked' <=> Asked)
    BY <1>6, <1>7 DEF Asked
  <2>2. CASE call[t].kind = "logout"
    <3> DEFINE c == [call[t] EXCEPT !.phase = "leave"]
    <3>1. call' = [call EXCEPT ![t] = c]
      BY <1>0, <1>7, <2>2 DEF Settled
    <3>2. c.phase = "leave" /\ c.token = call[t].token /\ c.answer = call[t].answer
      BY <1>0 DEF Calls
    <3> HIDE DEF c
    <3> QED
      BY <1>1, <1>4, <1>7, <2>1, <2>2, <3>1, <3>2 DEF server
  <2>3. CASE call[t].kind # "logout"
    <3>1. call' = [call EXCEPT ![t] = Idle]
      BY <1>0, <1>7, <2>3 DEF Settled
    <3>2. Idle.phase = "idle" /\ Idle.kind = "api" /\ Idle.answer = "none" /\ Idle.token.version <= clock
      BY <1>0 DEF Idle, NoToken
    <3> QED
      BY <1>1, <1>4, <1>7, <2>1, <3>1, <3>2 DEF server
  <2> QED
    BY <2>2, <2>3
<1>8. ASSUME NEW t \in Tabs, Login(t)
      PROVE  LoginInv'
  <2> DEFINE token == [session |-> logins + 1, version |-> clock]
  <2>1. /\ logins = 0 /\ logins' = 1 /\ UNCHANGED <<revoked, clock, call, ended, spent>>
        /\ told' \subseteq told /\ storage'.token = token
    BY <1>0, <1>8 DEF Login, SetPage
  <2>2. token.version = clock /\ ~Stuck
    BY <2>1 DEF Stuck
  <2>3. \A u \in Tabs : call[u].phase # "upgrade"
    <3> SUFFICES ASSUME NEW u \in Tabs, call[u].phase = "upgrade"
                 PROVE  FALSE
      OBVIOUS
    <3>1. call[u].token # NoToken /\ call[u].token \in Tokens /\ call[u].token.session <= 0
      BY <1>0, <2>1 DEF RefreshInv, CallOK, Calls
    <3> QED
      BY <1>0, <3>1
  <2>4. Asked' <=> Asked
    BY <2>1 DEF Asked
  <2> HIDE DEF token
  <2> QED
    BY <1>0, <2>1, <2>2, <2>3, <2>4 DEF LoginInv
<1>9. ASSUME NEW t \in Tabs, ApiCall(t)
      PROVE  LoginInv'
  <2> DEFINE c == [Idle EXCEPT !.phase = "sent", !.token = storage.token]
  <2>1. call' = [call EXCEPT ![t] = c] /\ UNCHANGED <<server, ended, spent>> /\ Stay
    BY <1>9 DEF ApiCall
  <2>2. c.phase = "sent" /\ c.kind = "api" /\ c.token = storage.token /\ c.answer = "none"
    BY DEF Idle
  <2> HIDE DEF c
  <2> QED
    BY <1>1, <1>4, <2>1, <2>2 DEF server, Stay, Asked
<1>10. ASSUME NEW t \in Tabs, AskLogout(t)
       PROVE  LoginInv'
  <2>1. PICK phase \in {"sent", "leave"} :
          call' = [call EXCEPT ![t] = [Idle EXCEPT
                     !.phase = phase, !.kind = "logout", !.token = storage.token,
                     !.target = storage.token.session]]
    BY <1>10 DEF AskLogout
  <2> DEFINE c == [Idle EXCEPT !.phase = phase, !.kind = "logout", !.token = storage.token,
                               !.target = storage.token.session]
  <2>2. c.phase = phase /\ c.token = storage.token /\ c.answer = "none"
    BY DEF Idle
  <2>3. UNCHANGED <<server, spent>> /\ Stay
    BY <1>10 DEF AskLogout
  <2>4. page[t].session \in ended'
    <3>1. page[t] \in Tokens /\ page[t] # NoToken
      BY <1>10 DEF AskLogout, Typed, TypeOK, Tokens
    <3>2. page[t].session # 0
      BY <1>0, <3>1
    <3> QED
      BY <1>10, <3>2 DEF AskLogout
  <2>5. Asked'
    BY <2>4 DEF Asked
  <2>6. call' = [call EXCEPT ![t] = c]
    BY <2>1
  <2> HIDE DEF c
  <2> QED
    BY <1>1, <1>4, <2>2, <2>3, <2>5, <2>6 DEF server, Stay
<1>11. ASSUME NEW t \in Tabs, Leave(t)
       PROVE  LoginInv'
  <2>1. /\ call' = [call EXCEPT ![t] = Idle] /\ UNCHANGED <<server, ended, spent>> /\ EndSession(t)
    BY <1>11 DEF Leave
  <2>2. Idle.phase = "idle" /\ Idle.kind = "api" /\ Idle.answer = "none" /\ Idle.token.version <= clock
    BY <1>0 DEF Idle, NoToken
  <2>3. told' \subseteq told /\ (storage' = storage \/ storage' = Empty) /\ (Asked' <=> Asked)
    BY <1>6, <2>1 DEF Asked
  <2> QED
    BY <1>1, <1>4, <2>1, <2>2, <2>3 DEF server
<1>12. ASSUME NEW t \in Tabs, NEW answer, call' = Answered(t, answer), UNCHANGED <<logins, clock, storage, ended>>,
              revoked' # {} => Asked, answer = "revoked" => Asked \/ spent'.db # 0,
              spent'.db = 0 => spent.db = 0 /\ (told' # {} => Asked)
       PROVE  LoginInv'
  <2> DEFINE c == [call[t] EXCEPT !.answer = answer,
                                  !.phase = IF @ = "sent" THEN "answered" ELSE "replied"]
  <2>1. call' = [call EXCEPT ![t] = c]
    BY <1>0, <1>12 DEF Answered
  <2>2. /\ c.phase \in {"answered", "replied"} /\ c.answer = answer
        /\ c.token = call[t].token /\ c.kind = call[t].kind
    BY <1>0 DEF Calls
  <2>3. Asked' <=> Asked
    BY <1>12 DEF Asked
  <2> HIDE DEF c
  <2> QED
    BY <1>1, <1>4, <1>12, <2>1, <2>2, <2>3
<1>13. ASSUME NEW t \in Tabs, AuthUser(t)
       PROVE  LoginInv'
  <2> DEFINE answer == Verdict(call[t].token)
  <2>1. /\ call' = Answered(t, answer) /\ UNCHANGED <<logins, clock, storage, ended, spent>>
        /\ (call[t].kind = "logout" \/ UNCHANGED <<revoked, told>>)
    BY <1>13 DEF AuthUser
  <2>2. answer = "revoked" => revoked # {}
    BY DEF Verdict
  <2> HIDE DEF answer
  <2> QED
    BY <1>1, <1>12, <2>1, <2>2
<1>14. ASSUME NEW t \in Tabs, AuthUserDbFails(t)
       PROVE  LoginInv'
  <2>1. /\ call' = Answered(t, "revoked") /\ UNCHANGED <<server, ended, storage, told>> /\ spent'.db # 0
    BY <1>3, <1>14 DEF AuthUserDbFails, Stay
  <2> QED
    BY <1>1, <1>12, <2>1 DEF server
<1>15. ASSUME NEW t \in Tabs, ReceiveAnswer(t)
       PROVE  LoginInv'
  <2>1. UNCHANGED <<server, ended, spent>> /\ call[t].phase = "answered"
    BY <1>15 DEF ReceiveAnswer
  <2>2. CASE call' = Settled(t) /\ (Stay \/ EndSession(t))
    BY <1>7, <2>1, <2>2
  <2>3. CASE /\ storage.refresh # NoToken /\ Stay
             /\ call' = [call EXCEPT ![t].phase = "refresh", ![t].refresh = storage.refresh]
    <3> DEFINE c == [call[t] EXCEPT !.phase = "refresh", !.refresh = storage.refresh]
    <3>1. call' = [call EXCEPT ![t] = c]
      BY <1>0, <2>3
    <3>2. /\ c.phase = "refresh" /\ c.token = call[t].token /\ c.kind = call[t].kind
          /\ c.answer = call[t].answer
      BY <1>0 DEF Calls
    <3> HIDE DEF c
    <3> QED
      BY <1>1, <2>1, <2>3, <3>1, <3>2, LoginTaken DEF server, Stay
  <2> QED
    BY <1>15, <2>2, <2>3 DEF ReceiveAnswer
<1>16. ASSUME NEW t \in Tabs, ReceiveReply(t) \/ ReceiveDenial(t)
       PROVE  LoginInv'
  BY <1>7, <1>16 DEF ReceiveReply, ReceiveDenial
<1>17. ASSUME NEW t \in Tabs, Lose(t)
       PROVE  LoginInv'
  BY <1>3, <1>7, <1>17 DEF Lose
\* A refusal is either the user's doing or leaves the login stuck.
<1>18. ASSUME NEW t \in Tabs, call' = [call EXCEPT ![t].phase = "denied"],
              UNCHANGED <<server, ended, storage, told>>,
              spent'.db = 0 => spent.db = 0 /\ (Asked \/ Stuck)
       PROVE  LoginInv'
  <2> DEFINE c == [call[t] EXCEPT !.phase = "denied"]
  <2>1. call' = [call EXCEPT ![t] = c]
    BY <1>0, <1>18
  <2>2. /\ c.phase = "denied" /\ c.token = call[t].token /\ c.kind = call[t].kind
        /\ c.answer = call[t].answer
    BY <1>0 DEF Calls
  <2>3. Asked' <=> Asked
    BY <1>18 DEF Asked
  <2> HIDE DEF c
  <2> QED
    BY <1>1, <1>4, <1>18, <2>1, <2>2, <2>3 DEF server
<1>19. ASSUME NEW t \in Tabs, ServerRefresh(t)
       PROVE  LoginInv'
  <2> DEFINE r == call[t].refresh
  <2>1. call[t].phase = "refresh" /\ UNCHANGED <<server, ended, spent, storage, told>>
    BY <1>19 DEF ServerRefresh, Stay
  <2>2. Current(r, hash, logins)
    BY <2>1 DEF RefreshInv, Carries
  <2>3. CASE ~Valid(r)
    <3>1. Asked
      BY <1>1, <2>2, <2>3 DEF Valid, Current
    <3> QED
      BY <1>18, <1>19, <2>1, <2>3, <3>1 DEF ServerRefresh
  <2>4. CASE Valid(r)
    <3> DEFINE token == [session |-> r.session, version |-> clock]
               c == [call[t] EXCEPT !.phase = "granted", !.token = token]
    <3>1. call' = [call EXCEPT ![t] = c]
      BY <1>0, <1>19, <2>4 DEF ServerRefresh
    <3>2. token # NoToken /\ token.version = clock
      BY <1>0, <2>2 DEF NoToken, Current
    <3> HIDE DEF token
    <3>3. c.phase = "granted" /\ c.token = token /\ c.kind = call[t].kind /\ c.answer = call[t].answer
      BY <1>0 DEF Calls
    <3> HIDE DEF c
    <3>4. \A u \in Tabs : call'[u] = IF u = t THEN c ELSE call[u]
      BY <1>0, <3>1
    <3>5. ~Stuck /\ (Asked' <=> Asked)
      BY <2>1 DEF Stuck, Carries, Asked
    <3> QED
      BY <1>0, <2>1, <3>2, <3>3, <3>4, <3>5 DEF LoginInv, server
  <2> QED
    BY <2>3, <2>4
<1>20. ASSUME NEW t \in Tabs, ServerRefreshDbFails(t)
       PROVE  LoginInv'
  BY <1>3, <1>18, <1>20 DEF ServerRefreshDbFails, Stay
<1>21. ASSUME NEW t \in Tabs, ReceiveGrant(t)
       PROVE  LoginInv'
  <2>1. /\ call[t].phase = "granted" /\ storage'.token = call[t].token /\ told' \subseteq told
        /\ UNCHANGED <<server, ended, spent>>
    BY <1>0, <1>21 DEF ReceiveGrant, SetPage
  <2>2. PICK c : /\ call' = [call EXCEPT ![t] = c] /\ c.phase \in {"idle", "replay"}
                 /\ c.token.version <= clock
                 /\ c.kind = call[t].kind \/ c.kind = "api"
                 /\ c.answer = call[t].answer \/ c.answer = "none"
    <3>1. CASE call' = [call EXCEPT ![t] = Idle]
      <4>1. Idle.phase = "idle" /\ Idle.kind = "api" /\ Idle.answer = "none" /\ Idle.token.version <= clock
        BY <1>0 DEF Idle, NoToken
      <4> QED
        BY <3>1, <4>1
    <3>2. CASE call' = [call EXCEPT ![t].phase = "replay"]
      <4> DEFINE c == [call[t] EXCEPT !.phase = "replay"]
      <4>1. call' = [call EXCEPT ![t] = c]
        BY <1>0, <3>2
      <4>2. /\ c.phase = "replay" /\ c.token = call[t].token /\ c.kind = call[t].kind
            /\ c.answer = call[t].answer
        BY <1>0 DEF Calls
      <4> HIDE DEF c
      <4> QED
        BY <1>1, <4>1, <4>2
    <3> QED
      BY <1>21, <3>1, <3>2 DEF ReceiveGrant
  <2>3. \A u \in Tabs : call'[u] = IF u = t THEN c ELSE call[u]
    BY <1>0, <2>2
  \* Nobody asks for a refresh token while this tab has one of the same session.
  <2>4. \A u \in Tabs : call[u].phase # "upgrade"
    <3> SUFFICES ASSUME NEW u \in Tabs, call[u].phase = "upgrade"
                 PROVE  FALSE
      OBVIOUS
    <3>1. call[u].token # NoToken /\ call[t].refresh.session # call[u].token.session
      BY <2>1 DEF RefreshInv, Carries
    <3>2. call[t].refresh # NoToken /\ call[t].refresh \in Tokens /\ call[u].token \in Tokens
      BY <1>0, <2>1 DEF CallOK, Calls
    <3> QED
      BY <1>0, <3>1, <3>2
  <2>5. ~Stuck /\ (Asked' <=> Asked)
    BY <2>1 DEF Stuck, Carries, Asked
  <2> QED
    BY <1>0, <2>1, <2>2, <2>3, <2>4, <2>5 DEF LoginInv, server
<1>22. ASSUME NEW t \in Tabs, Authenticate(t)
       PROVE  LoginInv'
  <2>1. UNCHANGED <<server, ended, spent>> /\ Verdict(page[t]) \in {"ok", "unauthorized", "revoked"}
    BY <1>22 DEF Authenticate, Verdict
  <2>2. CASE UNCHANGED <<call, told, storage>>
    BY <1>1, <1>5, <2>1, <2>2
  <2>3. CASE Verdict(page[t]) = "revoked" /\ UNCHANGED <<call, storage>>
    <3>1. Asked
      BY <1>1, <2>3 DEF Verdict
    <3> QED
      BY <1>1, <1>5, <2>1, <2>3, <3>1
  <2>4. CASE EndSession(t) /\ UNCHANGED call
    BY <1>1, <1>5, <1>6, <2>1, <2>4
  <2>5. CASE /\ storage.refresh # NoToken /\ Stay
             /\ call' = [call EXCEPT ![t] = [Idle EXCEPT !.phase = "refresh", !.kind = "socket",
                                                         !.refresh = storage.refresh]]
    <3> DEFINE c == [Idle EXCEPT !.phase = "refresh", !.kind = "socket", !.refresh = storage.refresh]
    <3>1. c.phase = "refresh" /\ c.kind = "socket" /\ c.answer = "none" /\ c.token.version <= clock
      BY <1>0 DEF Idle, NoToken
    <3>2. call' = [call EXCEPT ![t] = c]
      BY <2>5
    <3> HIDE DEF c
    <3> QED
      BY <2>1, <2>5, <3>1, <3>2, LoginTaken DEF server, Stay
  <2> QED
    BY <1>22, <2>1, <2>2, <2>3, <2>4, <2>5 DEF Authenticate
<1>23. ASSUME NEW t \in Tabs, AuthenticateDbFails(t)
       PROVE  LoginInv'
  BY <1>3, <1>5, <1>23 DEF AuthenticateDbFails
<1>24. ASSUME NEW t \in Tabs, Register(t)
       PROVE  LoginInv'
  BY <1>1, <1>5, <1>24 DEF Register
<1>25. ASSUME NEW t \in Tabs, SocketLost(t)
       PROVE  LoginInv'
  BY <1>1, <1>3, <1>5, <1>25 DEF SocketLost
<1>26. ASSUME NEW t \in Tabs, ReceiveRevoked(t)
       PROVE  LoginInv'
  BY <1>1, <1>5, <1>6, <1>26 DEF ReceiveRevoked
<1>27. ASSUME NEW t \in Tabs, AskUpgrade(t)
       PROVE  LoginInv'
  <2> DEFINE c == [Idle EXCEPT !.phase = "upgrade", !.kind = "socket", !.token = storage.token]
  <2>1. /\ UNCHANGED <<server, ended, spent>> /\ Stay
        /\ storage.refresh = NoToken /\ storage.token # NoToken
        /\ call' = [call EXCEPT ![t] = c]
    BY <1>27 DEF AskUpgrade
  <2>2. c.phase = "upgrade" /\ c.kind = "socket" /\ c.token = storage.token /\ c.answer = "none"
    BY DEF Idle
  <2> HIDE DEF c
  <2>3. \A u \in Tabs : call'[u] = IF u = t THEN c ELSE call[u]
    BY <1>0, <2>1
  <2>4. Asked' <=> Asked
    BY <2>1 DEF Asked
  <2>5. Stuck => Stuck'
    BY <2>1, <2>2, <2>3 DEF Stuck, Carries, server, Stay
  <2> QED
    BY <2>1, <2>2, <2>3, <2>4, <2>5 DEF LoginInv, server, Stay
<1>28. ASSUME NEW t \in Tabs, UpgradeSession(t)
       PROVE  LoginInv'
  <2> DEFINE token == call[t].token
  <2>1. /\ call[t].phase = "upgrade" /\ UNCHANGED <<logins, revoked, clock, ended, storage, told>>
        /\ (Asked' <=> Asked)
    BY <1>28 DEF UpgradeSession, Stay, Asked
  <2>2. token # NoToken /\ token.session = 1 /\ logins = 1
    BY <1>0, <2>1 DEF RefreshInv, CallOK, Calls
  <2>3. CASE Verdict(token) # "ok"
    <3>1. call' = [call EXCEPT ![t].phase = "denied"] /\ UNCHANGED <<hash, spent>>
      BY <1>28, <2>3 DEF UpgradeSession
    <3>2. Asked \/ Stuck
      <4>1. CASE revoked # {}
        BY <1>1, <4>1
      <4>2. CASE token.version # clock
        <5>1. token.version < clock
          BY <1>0, <1>1, <4>2 DEF Calls
        <5>2. storage.refresh = NoToken
          BY <1>0, <2>1, <2>2 DEF RefreshInv
        <5>3. \A u \in Tabs : ~Carries(u)
          <6> SUFFICES ASSUME NEW u \in Tabs, Carries(u)
                       PROVE  FALSE
            OBVIOUS
          <6>1. call[u].refresh.session # token.session
            BY <2>1 DEF RefreshInv
          <6>2. call[u].refresh # NoToken /\ call[u].refresh \in Tokens
            BY <1>0 DEF CallOK, Calls, Carries
          <6> QED
            BY <1>0, <2>2, <6>1, <6>2
        <5>4. \A u \in Tabs : u # t => call[u].phase \notin {"upgrade", "upgraded"}
          BY <2>1 DEF RefreshInv, Upgrades
        <5>5. storage.token \in {NoToken, token}
          BY <2>1 DEF LoginInv
        <5> HIDE DEF token
        <5>6. call[t].token.version < clock /\ call[t].phase # "upgraded"
          BY <2>1, <5>1 DEF token
        <5> QED
          BY <2>2, <5>1, <5>2, <5>3, <5>4, <5>5, <5>6 DEF Stuck
      <4>3. revoked # {} \/ token.version # clock
        BY <2>2, <2>3 DEF Verdict
      <4> QED
        BY <4>1, <4>2, <4>3
    <3> QED
      BY <1>18, <2>1, <3>1, <3>2 DEF server
  <2>4. CASE Verdict(token) = "ok"
    <3>1. PICK refresh : call' = [call EXCEPT ![t].phase = "upgraded", ![t].refresh = refresh]
      BY <1>28, <2>4 DEF UpgradeSession
    <3> DEFINE c == [call[t] EXCEPT !.phase = "upgraded", !.refresh = refresh]
    <3>2. call' = [call EXCEPT ![t] = c]
      BY <1>0, <3>1
    <3>3. /\ c.phase = "upgraded" /\ c.token = call[t].token /\ c.kind = call[t].kind
          /\ c.answer = call[t].answer
      BY <1>0 DEF Calls
    <3> HIDE DEF c
    <3>4. \A u \in Tabs : call'[u] = IF u = t THEN c ELSE call[u]
      BY <1>0, <3>2
    <3>5. spent'.db = spent.db
      BY <1>2, <1>28, <2>4 DEF UpgradeSession
    <3>6. ~Stuck
      BY <1>0, <2>1, <2>4 DEF Stuck, Verdict, Calls
    <3> QED
      BY <2>1, <3>3, <3>4, <3>5, <3>6 DEF LoginInv
  <2> QED
    BY <2>3, <2>4
<1>29. ASSUME NEW t \in Tabs, ReceiveUpgrade(t)
       PROVE  LoginInv'
  <2>1. /\ call[t].phase = "upgraded" /\ storage'.token = storage.token
        /\ call' = [call EXCEPT ![t] = Idle] /\ UNCHANGED <<server, told, ended, spent>>
    BY <1>0, <1>29 DEF ReceiveUpgrade
  <2>2. Idle.phase = "idle" /\ Idle.kind = "api" /\ Idle.answer = "none" /\ Idle.token.version <= clock
    BY <1>0 DEF Idle, NoToken
  <2>3. \A u \in Tabs : call'[u] = IF u = t THEN Idle ELSE call[u]
    BY <1>0, <2>1
  <2>4. ~Stuck /\ (Asked' <=> Asked)
    BY <2>1 DEF Stuck, Asked
  <2> QED
    BY <2>1, <2>2, <2>3, <2>4 DEF LoginInv, server
<1>30. ASSUME NEW s \in Ids, RevokeElsewhere(s)
       PROVE  LoginInv'
  <2>1. Asked' /\ UNCHANGED <<logins, clock, storage, call, spent>>
    BY <1>30 DEF RevokeElsewhere, Asked
  <2> QED
    BY <2>1, LoginCalm
<1>31. CASE Expire
  <2>1. clock' = clock + 1 /\ UNCHANGED <<logins, revoked, hash, ended, spent, call, storage, told>>
    BY <1>31 DEF Expire, Stay
  <2>2. /\ storage.token.version <= clock' /\ \A u \in Tabs : call[u].token.version <= clock'
    <3>1. storage.token \in Tokens /\ \A u \in Tabs : call[u].token \in Tokens
      BY <1>0 DEF Calls
    <3> QED
      BY <1>0, <1>1, <2>1, <3>1
  <2>3. (Stuck => Stuck') /\ (Asked' <=> Asked)
    <3>1. \A k \in Tokens : k.version < clock => k.version < clock'
      BY <1>0, <2>1
    <3>2. storage.token \in Tokens /\ \A u \in Tabs : call[u].token \in Tokens
      BY <1>0 DEF Calls
    <3> QED
      BY <2>1, <3>1, <3>2 DEF Stuck, Asked, Carries
  <2> QED
    BY <2>1, <2>2, <2>3 DEF LoginInv
<1>32. ASSUME NEW t \in Tabs, Reload(t)
       PROVE  LoginInv'
  <2>1. /\ call' = [call EXCEPT ![t] = Idle] /\ UNCHANGED <<server, storage, ended>>
        /\ told' \subseteq told /\ spent'.db = spent.db
    BY <1>3, <1>32 DEF Reload, SetPage
  <2>2. Idle.phase = "idle" /\ Idle.kind = "api" /\ Idle.answer = "none" /\ Idle.token.version <= clock
    BY <1>0 DEF Idle, NoToken
  <2>3. Asked' <=> Asked
    BY <2>1 DEF Asked
  <2> QED
    BY <1>1, <1>4, <2>1, <2>2, <2>3 DEF server
<1>33. CASE UNCHANGED vars
  <2>1. UNCHANGED <<logins, clock, storage, call, told, ended, revoked, spent>> /\ (Asked' <=> Asked)
    BY <1>33 DEF vars, server, Asked
  <2> QED
    BY <1>1, <2>1, LoginCalm
<1> QED
  BY <1>8, <1>9, <1>10, <1>11, <1>13, <1>14, <1>15, <1>16, <1>17, <1>19, <1>20, <1>21, <1>22, <1>23,
     <1>24, <1>25, <1>26, <1>27, <1>28, <1>29, <1>30, <1>31, <1>32, <1>33
     DEF Next, Serve, Answer, Fault

\* What ends a login that has a refresh token was asked for.
LEMMA LoginKept ==
  ASSUME MaxSessions = 1, Typed, RefreshInv, LoginInv, [Next]_vars,
         storage.token # NoToken, storage.refresh # NoToken, storage'.token = NoToken, spent'.db = 0
  PROVE  storage.token.session \in ended
<1>0. /\ call \in [Tabs -> Calls] /\ \A u \in Tabs : CallOK(call[u], logins)
      /\ storage \in [token : Tokens, refresh : Tokens, user : 0..MaxSessions]
      /\ storage.token.session \in {1} /\ ended \subseteq {1}
  BY Facts, SessionAssumption DEF Typed, TypeOK, Ids
<1>1. SUFFICES Asked
  BY <1>0, <1>1 DEF Asked
<1>2. SUFFICES ASSUME storage' # storage
               PROVE  Asked
  BY <1>2
<1>3. ~Stuck
  BY DEF Stuck
<1>4. spent.db = 0 \/ spent'.db # spent.db
  OBVIOUS
<1>5. ASSUME NEW t \in Tabs, Login(t)
      PROVE  FALSE
  <2>1. storage'.token = [session |-> logins + 1, version |-> clock]
    BY <1>5 DEF Login
  <2> QED
    BY <2>1, Facts DEF NoToken
<1>6. ASSUME NEW t \in Tabs, Leave(t)
      PROVE  Asked
  BY <1>6 DEF Leave, LoginInv
<1>7. ASSUME NEW t \in Tabs, ReceiveAnswer(t)
      PROVE  FALSE
  BY <1>2, <1>7 DEF ReceiveAnswer, Stay
<1>8. ASSUME NEW t \in Tabs, ReceiveReply(t)
      PROVE  Asked
  BY <1>2, <1>8 DEF ReceiveReply, Stay, LoginInv
<1>9. ASSUME NEW t \in Tabs, ReceiveGrant(t)
      PROVE  FALSE
  BY <1>0, <1>9 DEF ReceiveGrant, LoginInv
<1>10. ASSUME NEW t \in Tabs, ReceiveDenial(t)
       PROVE  Asked
  BY <1>3, <1>10 DEF ReceiveDenial, LoginInv
<1>11. ASSUME NEW t \in Tabs, Lose(t)
       PROVE  Asked
  <2>1. call[t].answer = "revoked"
    BY <1>2, <1>11 DEF Lose, Stay
  <2>2. spent.db = 0
    <3>1. spent \in [losses : Nat, db : Nat, upgrades : 0..MaxUpgrades]
      BY DEF Typed, Bounds
    <3> QED
      BY <1>11, <3>1 DEF Lose, Happens
  <2> QED
    BY <2>1, <2>2 DEF LoginInv
<1>12. ASSUME NEW t \in Tabs, Authenticate(t)
       PROVE  FALSE
  BY <1>2, <1>12 DEF Authenticate, Stay
<1>13. ASSUME NEW t \in Tabs, ReceiveRevoked(t)
       PROVE  Asked
  BY <1>13 DEF ReceiveRevoked, LoginInv
<1>14. ASSUME NEW t \in Tabs, ReceiveUpgrade(t)
       PROVE  FALSE
  BY <1>0, <1>14 DEF ReceiveUpgrade
<1>15. ASSUME NEW t \in Tabs, ApiCall(t) \/ AskLogout(t) \/ AskUpgrade(t) \/ Serve(t)
       PROVE  FALSE
  BY <1>2, <1>15 DEF ApiCall, AskLogout, AskUpgrade, Serve, AuthUser, ServerRefresh, UpgradeSession,
                     Register, Stay
<1>16. ASSUME NEW t \in Tabs, Reload(t) \/ SocketLost(t) \/ AuthUserDbFails(t) \/ ServerRefreshDbFails(t)
                              \/ AuthenticateDbFails(t)
       PROVE  FALSE
  BY <1>2, <1>16 DEF Reload, SocketLost, AuthUserDbFails, ServerRefreshDbFails, AuthenticateDbFails, Stay
<1>17. (\E s \in Ids : RevokeElsewhere(s)) \/ Expire \/ UNCHANGED vars => FALSE
  BY <1>2 DEF RevokeElsewhere, Expire, Stay, vars
<1> QED
  BY <1>5, <1>6, <1>7, <1>8, <1>9, <1>10, <1>11, <1>12, <1>13, <1>14, <1>15, <1>16, <1>17
     DEF Next, Answer, Fault

\* In a browser with one login, however many tabs share it, whatever expires,
\* gets lost or is reloaded, a login that has a refresh token ends only when
\* its user has asked for that, unless a query of the session has failed
\* (api/http.ts request and refresh, utils/session.ts endSession,
\* auth/middleware.rs).  A second login is excluded: a signal about the first
\* may then reach a tab late and clear the second.
THEOREM LoginLasts == ASSUME MaxSessions = 1, ~SharedUpgrade PROVE Spec => KeepsLogin
<1> DEFINE Inv == Typed /\ RefreshInv /\ LoginInv
<1>1. Init => Inv
  BY TypedInit, RefreshInit, LoginInit
<1>2. Inv /\ [Next]_vars => Inv'
  BY TypedStep, RefreshStep, LoginStep
<1>3. Inv /\ [Next]_vars => [/\ storage.token # NoToken /\ storage.refresh # NoToken
                             /\ storage'.token = NoToken /\ spent'.db = 0
                             => storage.token.session \in ended]_vars
  BY LoginKept
<1> QED
  BY <1>1, <1>2, <1>3, PTL DEF Spec, KeepsLogin
=============================================================================
