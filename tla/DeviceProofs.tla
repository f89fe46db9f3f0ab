---------------------------- MODULE DeviceProofs ----------------------------
(***************************************************************************)
(* Theorems about what one device keeps: the identity keys of its accounts *)
(* and the presentation password (DeviceAccount), the proxies of the       *)
(* Android application (ProxyList), and the chats with their badges,       *)
(* receipts and ticks (ChatPage).                                          *)
(***************************************************************************)
EXTENDS DeviceAccount, ProxyList, ChatPage, SequenceTheorems, FiniteSetTheorems, TLAPS

-----------------------------------------------------------------------------
(* The invariant of the account.                                           *)

\* The steps of a sign-in before the store is told of it, and those after.
Before == {"register", "store", "login", "code"}
After  == {"load", "make", "save", "put", "reset", "compare", "ask", "put again", "reset again"}
Keys   == Nat \cup {None}

Logins == [pc : Before \cup After, account : Account, keys : Keys]
Loads  == [account : Account, live : BOOLEAN, read : BOOLEAN]
Worlds == [made : Nat, acts : Nat, fault : BOOLEAN, due : BOOLEAN,
           gone : SUBSET Account, missed : SUBSET Account]
Derivations == [op : {"enable", "unlock", "disable"}, password : Password,
                verifier : Password \cup {None}, asked : BOOLEAN]

AccountTypes ==
  /\ user \in Account \cup {None}
  /\ mem \in [account : Account \cup {None}, keys : Keys]
  /\ disk \in [Account -> Keys]
  /\ server \in [Account -> [keys : Keys, stale : BOOLEAN]]
  /\ login \in Logins \cup {Idle}
  /\ loads \subseteq Loads
  /\ leaving \in {Idle, [pc |-> "logout"], [pc |-> "delete"]}
  /\ world \in Worlds

\* Who the keystore and the tasks work for.
Owners ==
  /\ user # None => mem.account = user
  /\ user = None => leaving = Idle
  /\ \A l \in loads : mem.account \in {None, l.account}
  /\ login.pc \in Before => user = None /\ loads = {}
  /\ login.pc \in After => user \in {None, login.account} /\ mem.account \in {None, login.account}

\* Keys in memory are those in the store, unless they are about to be written there;
\* a sign-in makes keys only for an account that has none in the store.
Stores ==
  /\ mem.account # None /\ mem.keys # None =>
       \/ mem.keys = disk[mem.account]
       \/ login.pc \in {"store", "save"} /\ mem = [account |-> login.account, keys |-> login.keys]
  /\ login.pc \in {"register", "store", "make", "save"} => disk[login.account] = None
  /\ login.pc \in {"register", "store", "save", "put", "ask", "put again"} => login.keys # None
  /\ login.pc = "store" => mem = [account |-> login.account, keys |-> login.keys]
  /\ login.pc = "save" /\ mem.account # None => mem.keys = login.keys

\* What the server has: keys for every account that has some in a store, and sender
\* keys for older ones only where the reset is under way or was missed.
Published ==
  /\ \A a \in Account : disk[a] # None => server[a].keys # None \/ a \in world.gone
  /\ login.pc \in After \cup {"store", "login", "code"} =>
       server[login.account].keys # None \/ login.account \in world.gone
  /\ login.pc = "register" => server[login.account].keys = None /\ login.account \notin world.gone
  /\ \A a \in Account : server[a].stale =>
       a \in world.missed \/ (login.pc \in {"reset", "reset again"} /\ login.account = a)

\* What a sign-in without a fault has reached.
Agreeing ==
  ~world.fault =>
    /\ login.pc = "store" => server[login.account].keys = login.keys
    /\ user # None /\ login = Idle =>
         /\ disk[user] # None /\ server[user].keys = disk[user]
         /\ mem.keys = None => \E l \in loads : l.read
    /\ user # None /\ login.pc \in After \ {"load", "make"} =>
         mem.keys # None /\ (login.pc # "compare" => mem.keys = login.keys)
    /\ user # None /\ login.pc = "reset again" => server[user].keys = login.keys

AccountInv == AccountTypes /\ Owners /\ Stores /\ Published /\ Agreeing

\* The password in memory opens what the settings protect; what is to be derived is
\* checked against the verifier of the moment, and an enabling comes last.
PasswordTypes ==
  /\ settings \in [enabled : BOOLEAN, verifier : Password \cup {None}]
  /\ password \in Password \cup {None}
  /\ deriving \in Seq(Derivations)
  /\ plain \in BOOLEAN /\ prompt \in BOOLEAN

PasswordInv ==
  /\ PasswordTypes
  /\ settings.enabled /\ password # None => password = settings.verifier
  /\ world.due => password = None /\ ~plain
  /\ \A i \in 1..Len(deriving) :
       /\ settings.enabled => deriving[i].op # "enable" /\ deriving[i].verifier = settings.verifier
       /\ deriving[i].op = "enable" => i = Len(deriving)

-----------------------------------------------------------------------------
(* Lemmas.                                                                   *)

LEMMA AccountFacts ==
  ASSUME AccountTypes
  PROVE  /\ None \notin Account /\ None \notin Nat
         /\ login.pc \in {"idle"} \cup Before \cup After
         /\ login.pc # "idle" => login \in Logins /\ login.account \in Account /\ login.keys \in Keys
         /\ login.pc = "idle" <=> login = Idle
         /\ Idle.pc = "idle"
         /\ mem.account \in Account \cup {None} /\ mem.keys \in Keys
         /\ mem = [account |-> mem.account, keys |-> mem.keys]
         /\ world.made \in Nat /\ world.made + 1 \in Nat /\ world.made + 1 # None
<1>1. login.pc \in {"idle"} \cup Before \cup After /\ Idle.pc = "idle" /\ "idle" \notin Before \cup After
  <2>1. CASE login \in Logins
    BY <2>1 DEF Logins, Idle, Before, After
  <2>2. CASE login = Idle
    BY <2>2 DEF Idle, Before, After
  <2> QED
    BY <2>1, <2>2 DEF AccountTypes
<1>2. login.pc # "idle" => login \in Logins
  BY DEF AccountTypes, Idle
<1>3. login.pc = "idle" => login = Idle
  BY <1>1 DEF AccountTypes, Logins
<1>4. login \in Logins => login.account \in Account /\ login.keys \in Keys
  BY DEF Logins
<1>5. mem.account \in Account \cup {None} /\ mem.keys \in Keys /\ mem = [account |-> mem.account, keys |-> mem.keys]
  BY DEF AccountTypes
<1>6. world.made \in Nat
  BY DEF AccountTypes, Worlds
<1> QED
  BY <1>1, <1>2, <1>3, <1>4, <1>5, <1>6, AccountAssumption

\* A sign-in goes on.
LEMMA Moved ==
  ASSUME login \in Logins, NEW pc \in Before \cup After, login' = [login EXCEPT !.pc = pc]
  PROVE  login' \in Logins /\ login'.pc = pc /\ login'.account = login.account /\ login'.keys = login.keys
BY DEF Logins

LEMMA MovedKeys ==
  ASSUME login \in Logins, NEW pc \in Before \cup After, NEW k \in Keys,
         login' = [login EXCEPT !.pc = pc, !.keys = k]
  PROVE  login' \in Logins /\ login'.pc = pc /\ login'.account = login.account /\ login'.keys = k
BY DEF Logins

\* What the properties ask of the world stays, up to the count of acts.
SameWorld == /\ world' \in Worlds /\ world'.fault = world.fault
             /\ world'.gone = world.gone /\ world'.missed = world.missed

LEMMA AccountCalm ==
  ASSUME AccountInv, SameWorld, UNCHANGED <<user, mem, disk, server, login, loads, leaving>>
  PROVE  AccountInv'
<1>1. AccountTypes'
  BY DEF AccountInv, AccountTypes, SameWorld
<1>2. Owners' /\ Stores'
  BY DEF AccountInv, Owners, Stores
<1>3. Published'
  BY DEF AccountInv, Published, SameWorld
<1>4. Agreeing'
  BY DEF AccountInv, Agreeing, SameWorld
<1> QED
  BY <1>1, <1>2, <1>3, <1>4 DEF AccountInv

LEMMA ActWorld ==
  ASSUME AccountTypes, Act
  PROVE  SameWorld /\ world'.due = world.due
<1>1. world \in Worlds /\ world' = [world EXCEPT !.acts = world.acts + 1]
  BY DEF AccountTypes, Act, Acts
<1>2. world.acts + 1 \in Nat
  BY <1>1 DEF Worlds
<1> QED
  BY <1>1, <1>2 DEF SameWorld, Worlds

\* What the effect of App does to the tasks that load keys.
LEMMA Hydrates ==
  ASSUME AccountTypes, NEW a \in Account, Hydrate(a)
  PROVE  /\ loads' \subseteq Loads
         /\ \A l \in loads' : l.account = a \/ \E k \in loads : l.account = k.account
         /\ (\E l \in loads : l.read) => \E l \in loads' : l.read
         /\ mem.account # a \/ mem.keys = None => \E l \in loads' : l.read
<1> DEFINE new == [account |-> a, live |-> TRUE, read |-> mem.account # a \/ mem.keys = None]
<1>1. loads' = {[l EXCEPT !.live = FALSE] : l \in loads} \cup {new}
  BY DEF Hydrate
<1>2. new \in Loads /\ new.account = a /\ (new.read <=> mem.account # a \/ mem.keys = None)
  BY DEF Loads
<1>3. \A l \in loads : LET k == [l EXCEPT !.live = FALSE] IN
        k \in Loads /\ k.account = l.account /\ k.read = l.read
  BY DEF AccountTypes, Loads
<1> HIDE DEF new
<1> QED
  BY <1>1, <1>2, <1>3

\* Signing in.
LEMMA SubmitInv ==
  ASSUME AccountInv, NEW a \in Account, NEW kind \in {"login", "register"}, Submit(kind, a)
  PROVE  AccountInv'
<1>1. /\ user = None /\ login = Idle /\ loads = {} /\ a \notin world.gone
      /\ UNCHANGED <<user, mem, disk, server, loads, leaving>>
      /\ kind = "register" <=> server[a].keys = None
  BY DEF Submit, OnLogin, keystore
<1>2. Fresh \in Nat /\ Fresh # None /\ None \in Keys /\ world \in Worlds /\ world.acts + 1 \in Nat
  BY AccountFacts DEF AccountInv, AccountTypes, Fresh, Keys, Worlds
<1>3. /\ login' \in Logins /\ login'.pc = kind /\ login'.account = a
      /\ kind = "register" => login'.keys # None
      /\ world' \in Worlds /\ world'.gone = world.gone /\ world'.missed = world.missed /\ ~world'.fault
  <2>1. CASE kind = "register"
    <3>1. /\ login' = [pc |-> kind, account |-> a, keys |-> Fresh]
          /\ world' = [[world EXCEPT !.made = Fresh, !.fault = FALSE] EXCEPT !.acts = @ + 1]
      BY <2>1 DEF Submit, Acts
    <3> HIDE DEF Fresh
    <3> QED
      BY <1>2, <2>1, <3>1 DEF Logins, Before, Keys, Worlds
  <2>2. CASE kind # "register"
    <3>1. /\ login' = [pc |-> kind, account |-> a, keys |-> None]
          /\ world' = [[world EXCEPT !.fault = FALSE] EXCEPT !.acts = @ + 1]
      BY <2>2 DEF Submit, Acts
    <3> QED
      BY <1>2, <2>2, <3>1 DEF Logins, Before, Worlds
  <2> QED
    BY <2>1, <2>2
<1>4. AccountTypes'
  BY <1>1, <1>2, <1>3, AccountFacts DEF AccountInv, AccountTypes
<1>5. Owners'
  BY <1>1, <1>2, <1>3, AccountFacts DEF AccountInv, AccountTypes, Owners, Before, After
<1>6. Stores'
  BY <1>1, <1>2, <1>3, AccountFacts DEF AccountInv, AccountTypes, Owners, Stores, Published, Before, After
<1>7. Published'
  BY <1>1, <1>2, <1>3, AccountFacts DEF AccountInv, AccountTypes, Published, Before, After
<1>8. Agreeing'
  BY <1>1, <1>2, <1>3, AccountFacts DEF AccountInv, AccountTypes, Owners, Stores, Agreeing, Before, After
<1> QED
  BY <1>4, <1>5, <1>6, <1>7, <1>8 DEF AccountInv

LEMMA RegisteredInv ==
  ASSUME AccountInv, Registered
  PROVE  AccountInv'
<1>1. /\ login \in Logins /\ login.pc = "register" /\ login.account \in Account
      /\ user = None /\ loads = {} /\ login.keys # None /\ login.keys \in Keys /\ disk[login.account] = None
  BY AccountFacts DEF AccountInv, Registered, Owners, Stores, Before
<1>2. login' \in Logins /\ login'.pc = "store" /\ login'.account = login.account /\ login'.keys = login.keys
  BY <1>1, Moved DEF Registered, Before
<1>3. /\ mem' = [account |-> login.account, keys |-> login.keys]
      /\ server' = [server EXCEPT ![login.account].keys = login.keys]
      /\ UNCHANGED <<user, disk, loads, leaving, world>>
  BY DEF Registered
<1>4. /\ server' \in [Account -> [keys : Keys, stale : BOOLEAN]]
      /\ server'[login.account].keys = login.keys /\ server'[login.account].stale = server[login.account].stale
      /\ \A a \in Account : a # login.account => server'[a] = server[a]
  BY <1>1, <1>3 DEF AccountInv, AccountTypes
<1>5. AccountTypes'
  BY <1>1, <1>2, <1>3, <1>4, AccountFacts DEF AccountInv, AccountTypes
<1>6. Owners'
  BY <1>1, <1>2, <1>3, <1>4, AccountFacts DEF AccountInv, AccountTypes, Owners, Before, After
<1>7. Stores'
  BY <1>1, <1>2, <1>3, <1>4, AccountFacts DEF AccountInv, AccountTypes, Owners, Stores, Before, After
<1>8. Published'
  BY <1>1, <1>2, <1>3, <1>4, AccountFacts DEF AccountInv, AccountTypes, Published, Before, After
<1>9. Agreeing'
  BY <1>1, <1>2, <1>3, <1>4, AccountFacts DEF AccountInv, AccountTypes, Owners, Stores, Agreeing, Before, After
<1> QED
  BY <1>5, <1>6, <1>7, <1>8, <1>9 DEF AccountInv

LEMMA StoredInv ==
  ASSUME AccountInv, Stored
  PROVE  AccountInv'
<1>1. /\ login \in Logins /\ login.pc = "store" /\ login.account \in Account
      /\ user = None /\ loads = {} /\ leaving = Idle /\ login.keys # None /\ login.keys \in Keys
      /\ mem = [account |-> login.account, keys |-> login.keys]
  BY AccountFacts DEF AccountInv, Stored, Owners, Stores, Before
<1>2. /\ login' = Idle /\ user' = login.account /\ disk' = [disk EXCEPT ![login.account] = login.keys]
      /\ UNCHANGED <<mem, server, leaving, world>>
  BY DEF Stored
<1>3. /\ loads' \subseteq Loads /\ \A l \in loads' : l.account = login.account
  BY <1>1, Hydrates DEF AccountInv, Stored
<1>4. AccountTypes'
  BY <1>1, <1>2, <1>3, AccountFacts DEF AccountInv, AccountTypes
<1>5. Owners'
  BY <1>1, <1>2, <1>3, AccountFacts DEF AccountInv, AccountTypes, Owners, Before, After
<1>6. Stores'
  BY <1>1, <1>2, <1>3, AccountFacts DEF AccountInv, AccountTypes, Owners, Stores, Before, After
<1>7. Published'
  BY <1>1, <1>2, <1>3, AccountFacts DEF AccountInv, AccountTypes, Published, Before, After
<1>8. Agreeing'
  BY <1>1, <1>2, <1>3, AccountFacts DEF AccountInv, AccountTypes, Owners, Stores, Agreeing, Before, After
<1> QED
  BY <1>4, <1>5, <1>6, <1>7, <1>8 DEF AccountInv

LEMMA NeedsCodeInv ==
  ASSUME AccountInv, NeedsCode
  PROVE  AccountInv'
<1>1. login \in Logins /\ login.pc = "login"
  BY AccountFacts DEF AccountInv, NeedsCode
<1>2. /\ login' \in Logins /\ login'.pc = "code" /\ login'.account = login.account
      /\ UNCHANGED <<user, mem, disk, server, loads, leaving, world>>
  BY <1>1, Moved DEF NeedsCode, keystore, Before
<1>3. AccountTypes'
  BY <1>1, <1>2, AccountFacts DEF AccountInv, AccountTypes
<1>4. Owners'
  BY <1>1, <1>2, AccountFacts DEF AccountInv, AccountTypes, Owners, Before, After
<1>5. Stores'
  BY <1>1, <1>2, AccountFacts DEF AccountInv, AccountTypes, Owners, Stores, Before, After
<1>6. Published'
  BY <1>1, <1>2, AccountFacts DEF AccountInv, AccountTypes, Published, Before, After
<1>7. Agreeing'
  BY <1>1, <1>2, AccountFacts DEF AccountInv, AccountTypes, Owners, Stores, Agreeing, Before, After
<1> QED
  BY <1>3, <1>4, <1>5, <1>6, <1>7 DEF AccountInv

LEMMA SignedInInv ==
  ASSUME AccountInv, SignedIn
  PROVE  AccountInv'
<1>1. /\ login \in Logins /\ login.pc \in {"login", "code"} /\ login.account \in Account
      /\ user = None /\ loads = {} /\ leaving = Idle
  BY AccountFacts DEF AccountInv, SignedIn, Owners, Before
<1>2. /\ user' = login.account /\ UNCHANGED <<disk, server, leaving, world>>
      /\ mem' = Claim(login.account)
  BY DEF SignedIn
<1>3. /\ mem'.account = login.account /\ mem' \in [account : Account \cup {None}, keys : Keys]
      /\ mem'.keys # None => mem = mem'
  BY <1>1, <1>2 DEF AccountInv, AccountTypes, Claim, Keys
<1>4. /\ login' \in Logins /\ login'.account = login.account
      /\ login'.pc = IF mem'.keys # None THEN "compare" ELSE "load"
  BY <1>1, Moved DEF SignedIn, After
<1>5. /\ loads' \subseteq Loads /\ \A l \in loads' : l.account = login.account
  BY <1>1, Hydrates DEF AccountInv, SignedIn
<1>6. AccountTypes'
  BY <1>1, <1>2, <1>3, <1>4, <1>5, AccountFacts DEF AccountInv, AccountTypes
<1>7. Owners'
  BY <1>1, <1>2, <1>3, <1>4, <1>5, AccountFacts DEF AccountInv, AccountTypes, Owners, Before, After
<1>8. Stores'
  BY <1>1, <1>2, <1>3, <1>4, <1>5, AccountFacts DEF AccountInv, AccountTypes, Owners, Stores, Before, After
<1>9. Published'
  BY <1>1, <1>2, <1>3, <1>4, <1>5, AccountFacts DEF AccountInv, AccountTypes, Published, Before, After
<1>10. Agreeing'
  BY <1>1, <1>2, <1>3, <1>4, <1>5, AccountFacts DEF AccountInv, AccountTypes, Owners, Stores, Agreeing, Before, After
<1> QED
  BY <1>6, <1>7, <1>8, <1>9, <1>10 DEF AccountInv

LEMMA RefusedInv ==
  ASSUME AccountInv, Refused
  PROVE  AccountInv'
<1>1. /\ login \in Logins /\ login.pc \in {"register", "login", "code"} /\ user = None
      /\ login' \in {login, Idle} /\ UNCHANGED <<user, mem, disk, server, loads, leaving>>
  BY AccountFacts DEF AccountInv, Refused, Owners, Before, keystore
<1>2. SameWorld
  BY ActWorld DEF AccountInv, Refused
<1>3. AccountTypes'
  BY <1>1, <1>2, AccountFacts DEF AccountInv, AccountTypes, SameWorld, Before, After
<1>4. Owners'
  BY <1>1, <1>2, AccountFacts DEF AccountInv, Owners, SameWorld, Before, After
<1>5. Stores'
  BY <1>1, <1>2, AccountFacts DEF AccountInv, Stores, SameWorld, Before, After
<1>6. Published'
  BY <1>1, <1>2, AccountFacts DEF AccountInv, Published, SameWorld, Before, After
<1>7. Agreeing'
  BY <1>1, <1>2, AccountFacts DEF AccountInv, Agreeing, SameWorld, Before, After
<1> QED
  BY <1>3, <1>4, <1>5, <1>6, <1>7 DEF AccountInv

\* What the end of a handler by a fault does to the world.
LEMMA MissedWorld ==
  ASSUME AccountTypes
  PROVE  /\ Missed(world) \in Worlds /\ Missed(world).gone = world.gone
         /\ Missed(world).fault <=> world.fault \/ login # Idle
         /\ Missed(world).missed = IF login.pc \in {"reset", "reset again"}
                                   THEN world.missed \cup {login.account} ELSE world.missed
<1>1. login.pc \in {"reset", "reset again"} => login.account \in Account
  BY AccountFacts
<1>2. world \in Worlds
  BY DEF AccountTypes
<1>3. (world.fault \/ login # Idle) \in BOOLEAN
  OBVIOUS
<1>4. (IF login.pc \in {"reset", "reset again"} THEN world.missed \cup {login.account} ELSE world.missed) \in SUBSET Account
  BY <1>1, <1>2 DEF Worlds
<1> QED
  BY <1>2, <1>3, <1>4 DEF Missed, Worlds

LEMMA LoadKeysInv ==
  ASSUME AccountInv, LoadKeys
  PROVE  AccountInv'
<1>1. /\ login \in Logins /\ login.pc \in {"load"} /\ login.account \in Account /\ login.keys \in Keys
      /\ user \in {None, login.account} /\ mem.account \in {None, login.account}
  BY AccountFacts DEF AccountInv, Owners, After, LoadKeys
<1>2. /\ mem' = Loaded(login.account) /\ UNCHANGED <<user, disk, server, loads, leaving, world>>
  BY DEF LoadKeys
<1>3. /\ mem' \in [account : Account \cup {None}, keys : Keys] /\ mem'.account = mem.account
      /\ mem'.keys = IF disk[login.account] # None THEN disk[login.account] ELSE mem.keys
  BY <1>1, <1>2 DEF AccountInv, AccountTypes, Loaded
<1>4. /\ login' \in Logins /\ login'.account = login.account /\ login'.keys = login.keys
      /\ login'.pc = IF mem'.keys # None THEN "compare" ELSE "make"
  BY <1>1, Moved DEF LoadKeys, After
<1>5. AccountTypes'
  BY <1>1, <1>2, <1>3, <1>4, AccountFacts DEF AccountInv, AccountTypes
<1>6. Owners'
  BY <1>1, <1>2, <1>3, <1>4, AccountFacts DEF AccountInv, AccountTypes, Owners, Before, After
<1>7. Stores'
  BY <1>1, <1>2, <1>3, <1>4, AccountFacts DEF AccountInv, AccountTypes, Owners, Stores, Before, After
<1>8. Published'
  BY <1>1, <1>2, <1>3, <1>4, AccountFacts DEF AccountInv, AccountTypes, Published, Before, After
<1>9. Agreeing'
  BY <1>1, <1>2, <1>3, <1>4, AccountFacts DEF AccountInv, AccountTypes, Owners, Stores, Agreeing, Before, After
<1> QED
  BY <1>5, <1>6, <1>7, <1>8, <1>9 DEF AccountInv

LEMMA MakeKeysInv ==
  ASSUME AccountInv, MakeKeys
  PROVE  AccountInv'
<1>1. /\ login \in Logins /\ login.pc \in {"make"} /\ login.account \in Account /\ login.keys \in Keys
      /\ user \in {None, login.account} /\ mem.account \in {None, login.account}
      /\ disk[login.account] = None
  BY AccountFacts DEF AccountInv, Owners, After, MakeKeys, Stores
<1>2. /\ UNCHANGED <<user, disk, server, loads, leaving>>
      /\ IF user = None THEN login' = [login EXCEPT !.pc = "compare"] /\ UNCHANGED <<mem, world>>
         ELSE /\ mem' = [account |-> login.account, keys |-> Fresh]
              /\ login' = [login EXCEPT !.pc = "save", !.keys = Fresh]
              /\ world' = [world EXCEPT !.made = Fresh]
  BY <1>1 DEF MakeKeys
<1>3. Fresh \in Nat /\ Fresh \in Keys /\ Fresh # None
  BY AccountFacts DEF AccountInv, Fresh, Keys
<1>4. /\ login' \in Logins /\ login'.account = login.account
      /\ login'.pc = IF user = None THEN "compare" ELSE "save"
      /\ user # None => /\ login'.keys # None /\ mem' = [account |-> login'.account, keys |-> login'.keys]
                        /\ mem'.account = login.account /\ mem'.keys = login'.keys
      /\ user = None => mem' = mem
    <2>1. CASE user = None
    BY <1>1, <1>2, <2>1, Moved DEF After
  <2>2. CASE user # None
    <3>1. /\ login' = [login EXCEPT !.pc = "save", !.keys = Fresh]
          /\ mem' = [account |-> login.account, keys |-> Fresh] /\ Fresh \in Keys /\ Fresh # None
      BY <1>2, <1>3, <2>2
    <3> HIDE DEF Fresh
    <3>2. login' \in Logins /\ login'.account = login.account /\ login'.pc = "save" /\ login'.keys = Fresh
      BY <1>1, <3>1, MovedKeys DEF After
    <3> QED
      BY <2>2, <3>1, <3>2
  <2> QED
    BY <2>1, <2>2
<1>5. SameWorld
    <2>1. CASE user = None
    BY <1>2, <2>1 DEF AccountInv, AccountTypes, SameWorld
  <2>2. CASE user # None
    <3>1. world \in Worlds /\ world' = [world EXCEPT !.made = Fresh] /\ Fresh \in Nat
      BY <1>2, <1>3, <2>2 DEF AccountInv, AccountTypes
    <3> HIDE DEF Fresh
    <3> QED
      BY <3>1 DEF SameWorld, Worlds
  <2> QED
    BY <2>1, <2>2
<1>6. mem' \in [account : Account \cup {None}, keys : Keys]
  BY <1>1, <1>2, <1>3, <1>4 DEF AccountInv, AccountTypes
<1>7. AccountTypes'
  BY <1>1, <1>2, <1>3, <1>4, <1>5, <1>6, AccountFacts DEF AccountInv, AccountTypes, SameWorld, Before, After
<1>8. Owners'
  BY <1>1, <1>2, <1>3, <1>4, <1>5, <1>6, AccountFacts DEF AccountInv, Owners, SameWorld, Before, After
<1>9. Stores'
  BY <1>1, <1>2, <1>3, <1>4, <1>5, <1>6, AccountFacts DEF AccountInv, AccountTypes, Stores, SameWorld, Before, After
<1>10. Published'
  BY <1>1, <1>2, <1>3, <1>4, <1>5, <1>6, AccountFacts DEF AccountInv, AccountTypes, Published, SameWorld, Before, After
<1>11. Agreeing'
  BY <1>1, <1>2, <1>3, <1>4, <1>5, <1>6, AccountFacts DEF AccountInv, AccountTypes, Owners, Stores, Agreeing, SameWorld, Before, After
<1> QED
  BY <1>7, <1>8, <1>9, <1>10, <1>11 DEF AccountInv

LEMMA SaveKeysInv ==
  ASSUME AccountInv, SaveKeys
  PROVE  AccountInv'
<1>1. /\ login \in Logins /\ login.pc \in {"save"} /\ login.account \in Account /\ login.keys \in Keys
      /\ user \in {None, login.account} /\ mem.account \in {None, login.account}
      /\ disk[login.account] = None /\ login.keys # None
  BY AccountFacts DEF AccountInv, Owners, After, SaveKeys, Stores
<1>2. /\ login' \in Logins /\ login'.pc = "put" /\ login'.account = login.account /\ login'.keys = login.keys
      /\ disk' = [disk EXCEPT ![login.account] = login.keys]
      /\ UNCHANGED <<user, mem, server, loads, leaving, world>>
  BY <1>1, Moved DEF SaveKeys, After
<1>3. AccountTypes'
  BY <1>1, <1>2, AccountFacts DEF AccountInv, AccountTypes
<1>4. Owners'
  BY <1>1, <1>2, AccountFacts DEF AccountInv, AccountTypes, Owners, Before, After
<1>5. Stores'
  BY <1>1, <1>2, AccountFacts DEF AccountInv, AccountTypes, Owners, Stores, Before, After
<1>6. Published'
  BY <1>1, <1>2, AccountFacts DEF AccountInv, AccountTypes, Published, Before, After
<1>7. Agreeing'
  BY <1>1, <1>2, AccountFacts DEF AccountInv, AccountTypes, Owners, Stores, Agreeing, Before, After
<1> QED
  BY <1>3, <1>4, <1>5, <1>6, <1>7 DEF AccountInv

LEMMA PutKeysInv ==
  ASSUME AccountInv, PutKeys
  PROVE  AccountInv'
<1>1. /\ login \in Logins /\ login.pc \in {"put", "put again"} /\ login.account \in Account /\ login.keys \in Keys
      /\ user \in {None, login.account} /\ mem.account \in {None, login.account}
      /\ user = login.account /\ login.keys # None
  BY AccountFacts DEF AccountInv, Owners, After, PutKeys, Stores
<1>2. /\ login' \in Logins /\ login'.account = login.account /\ login'.keys = login.keys
      /\ login'.pc = IF login.pc = "put" THEN "reset" ELSE "reset again"
      /\ UNCHANGED <<user, mem, disk, loads, leaving, world>>
  BY <1>1, Moved DEF PutKeys, After
<1>3. /\ server' \in [Account -> [keys : Keys, stale : BOOLEAN]] /\ server'[user].keys = login.keys
      /\ \A a \in Account : a # user => server'[a] = server[a]
  BY <1>1 DEF AccountInv, AccountTypes, PutKeys
<1>4. AccountTypes'
  BY <1>1, <1>2, <1>3, AccountFacts DEF AccountInv, AccountTypes
<1>5. Owners'
  BY <1>1, <1>2, <1>3, AccountFacts DEF AccountInv, AccountTypes, Owners, Before, After
<1>6. Stores'
  BY <1>1, <1>2, <1>3, AccountFacts DEF AccountInv, AccountTypes, Owners, Stores, Before, After
<1>7. Published'
  BY <1>1, <1>2, <1>3, AccountFacts DEF AccountInv, AccountTypes, Published, Before, After
<1>8. Agreeing'
  BY <1>1, <1>2, <1>3, AccountFacts DEF AccountInv, AccountTypes, Owners, Stores, Agreeing, Before, After
<1> QED
  BY <1>4, <1>5, <1>6, <1>7, <1>8 DEF AccountInv

LEMMA ResetSenderKeysInv ==
  ASSUME AccountInv, ResetSenderKeys
  PROVE  AccountInv'
<1>1. /\ login \in Logins /\ login.pc \in {"reset", "reset again"} /\ login.account \in Account /\ login.keys \in Keys
      /\ user \in {None, login.account} /\ mem.account \in {None, login.account}
      /\ user = login.account
  BY AccountFacts DEF AccountInv, Owners, After, ResetSenderKeys
<1>2. /\ UNCHANGED <<user, mem, disk, loads, leaving, world>>
      /\ login' = IF login.pc = "reset" THEN [login EXCEPT !.pc = "compare"] ELSE Idle
  BY DEF ResetSenderKeys
<1>3. login.pc = "reset" => login' \in Logins /\ login'.account = login.account /\ login'.keys = login.keys /\ login'.pc = "compare"
  BY <1>1, <1>2, Moved DEF After
<1>4. /\ server' \in [Account -> [keys : Keys, stale : BOOLEAN]]
      /\ server'[user].keys = server[user].keys /\ ~server'[user].stale
      /\ \A a \in Account : a # user => server'[a] = server[a]
  BY <1>1 DEF AccountInv, AccountTypes, ResetSenderKeys
<1>5. AccountTypes'
  BY <1>1, <1>2, <1>3, <1>4, AccountFacts DEF AccountInv, AccountTypes
<1>6. Owners'
  BY <1>1, <1>2, <1>3, <1>4, AccountFacts DEF AccountInv, AccountTypes, Owners, Before, After
<1>7. Stores'
  BY <1>1, <1>2, <1>3, <1>4, AccountFacts DEF AccountInv, AccountTypes, Owners, Stores, Before, After
<1>8. Published'
  BY <1>1, <1>2, <1>3, <1>4, AccountFacts DEF AccountInv, AccountTypes, Published, Before, After
<1>9. Agreeing'
  BY <1>1, <1>2, <1>3, <1>4, AccountFacts DEF AccountInv, AccountTypes, Owners, Stores, Agreeing, Before, After
<1> QED
  BY <1>5, <1>6, <1>7, <1>8, <1>9 DEF AccountInv

LEMMA CompareKeysInv ==
  ASSUME AccountInv, CompareKeys
  PROVE  AccountInv'
<1>1. /\ login \in Logins /\ login.pc \in {"compare"} /\ login.account \in Account /\ login.keys \in Keys
      /\ user \in {None, login.account} /\ mem.account \in {None, login.account}
  BY AccountFacts DEF AccountInv, Owners, After, CompareKeys
<1>2. /\ UNCHANGED <<user, mem, disk, server, loads, leaving, world>>
      /\ login' = IF Mine = None THEN Idle ELSE [login EXCEPT !.pc = "ask", !.keys = Mine]
  BY DEF CompareKeys, keystore
<1>3. /\ Mine \in Keys
      /\ Mine = IF user # None /\ mem.account = user THEN mem.keys ELSE None
  BY <1>1, AccountFacts DEF AccountInv, Mine, Keys
<1>4. Mine # None => login' \in Logins /\ login'.pc = "ask" /\ login'.account = login.account /\ login'.keys = Mine
  BY <1>1, <1>2, <1>3, MovedKeys DEF After
<1>5. AccountTypes'
  BY <1>1, <1>2, <1>3, <1>4, AccountFacts DEF AccountInv, AccountTypes
<1>6. Owners'
  BY <1>1, <1>2, <1>3, <1>4, AccountFacts DEF AccountInv, AccountTypes, Owners, Before, After
<1>7. Stores'
  BY <1>1, <1>2, <1>3, <1>4, AccountFacts DEF AccountInv, AccountTypes, Owners, Stores, Before, After
<1>8. Published'
  BY <1>1, <1>2, <1>3, <1>4, AccountFacts DEF AccountInv, AccountTypes, Published, Before, After
<1>9. Agreeing'
  BY <1>1, <1>2, <1>3, <1>4, AccountFacts DEF AccountInv, AccountTypes, Owners, Stores, Agreeing, Before, After
<1> QED
  BY <1>5, <1>6, <1>7, <1>8, <1>9 DEF AccountInv

LEMMA ComparedInv ==
  ASSUME AccountInv, Compared
  PROVE  AccountInv'
<1>1. /\ login \in Logins /\ login.pc \in {"ask"} /\ login.account \in Account /\ login.keys \in Keys
      /\ user \in {None, login.account} /\ mem.account \in {None, login.account}
      /\ user = login.account
  BY AccountFacts DEF AccountInv, Owners, After, Compared
<1>2. /\ UNCHANGED <<user, mem, disk, server, loads, leaving, world>>
      /\ login' = IF server[user].keys = login.keys THEN Idle ELSE [login EXCEPT !.pc = "put again"]
  BY DEF Compared, keystore
<1>3. server[user].keys # login.keys =>
        login' \in Logins /\ login'.pc = "put again" /\ login'.account = login.account /\ login'.keys = login.keys
  BY <1>1, <1>2, Moved DEF After
<1>4. AccountTypes'
  BY <1>1, <1>2, <1>3, AccountFacts DEF AccountInv, AccountTypes
<1>5. Owners'
  BY <1>1, <1>2, <1>3, AccountFacts DEF AccountInv, AccountTypes, Owners, Before, After
<1>6. Stores'
  BY <1>1, <1>2, <1>3, AccountFacts DEF AccountInv, AccountTypes, Owners, Stores, Before, After
<1>7. Published'
  BY <1>1, <1>2, <1>3, AccountFacts DEF AccountInv, AccountTypes, Published, Before, After
<1>8. Agreeing'
  BY <1>1, <1>2, <1>3, AccountFacts DEF AccountInv, AccountTypes, Owners, Stores, Agreeing, Before, After
<1> QED
  BY <1>4, <1>5, <1>6, <1>7, <1>8 DEF AccountInv

LEMMA RequestFailsInv ==
  ASSUME AccountInv, RequestFails
  PROVE  AccountInv'
<1>1. /\ login \in Logins /\ login.pc \in {"put", "reset", "ask", "put again", "reset again"} /\ login.account \in Account /\ login.keys \in Keys
      /\ user \in {None, login.account} /\ mem.account \in {None, login.account}
  BY AccountFacts DEF AccountInv, Owners, After, RequestFails
<1>2. /\ UNCHANGED <<user, mem, disk, server, loads, leaving>>
      /\ login' = IF login.pc \in {"put", "reset"} THEN [login EXCEPT !.pc = "compare"] ELSE Idle
  BY DEF RequestFails, keystore
<1>3. login.pc \in {"put", "reset"} =>
        login' \in Logins /\ login'.pc = "compare" /\ login'.account = login.account /\ login'.keys = login.keys
  BY <1>1, <1>2, Moved DEF After
<1>4. /\ world' \in Worlds /\ world'.gone = world.gone
      /\ world'.missed = IF login.pc \in {"reset", "reset again"} THEN world.missed \cup {login.account} ELSE world.missed
      /\ user = None \/ login.pc # "put" => world'.fault
      /\ user # None /\ login.pc = "put" => world'.fault = world.fault
  <2>1. login # Idle
    BY <1>1, AccountFacts DEF AccountInv
  <2>2. CASE user = None
    BY <1>1, <2>1, <2>2, MissedWorld DEF RequestFails, AccountInv
  <2>3. CASE user # None /\ login.pc = "put"
    BY <2>3, ActWorld DEF RequestFails, AccountInv, SameWorld
  <2>4. CASE user # None /\ login.pc # "put"
    <3>1. Missed(world) \in Worlds /\ world' = [Missed(world) EXCEPT !.acts = Missed(world).acts + 1]
      BY <2>4, MissedWorld DEF RequestFails, Acts, AccountInv
    <3>2. Missed(world).acts + 1 \in Nat
      BY <3>1 DEF Worlds
    <3>3. world' \in Worlds /\ world'.gone = Missed(world).gone /\ world'.missed = Missed(world).missed /\ world'.fault = Missed(world).fault
      BY <3>1, <3>2 DEF Worlds
    <3> QED
      BY <1>1, <2>1, <2>4, <3>3, MissedWorld DEF AccountInv
  <2> QED
    BY <2>2, <2>3, <2>4
<1>5. AccountTypes'
  BY <1>1, <1>2, <1>3, <1>4, AccountFacts DEF AccountInv, AccountTypes
<1>6. Owners'
  BY <1>1, <1>2, <1>3, <1>4, AccountFacts DEF AccountInv, AccountTypes, Owners, Before, After
<1>7. Stores'
  BY <1>1, <1>2, <1>3, <1>4, AccountFacts DEF AccountInv, AccountTypes, Owners, Stores, Before, After
<1>8. Published'
  BY <1>1, <1>2, <1>3, <1>4, AccountFacts DEF AccountInv, AccountTypes, Published, Before, After
<1>9. Agreeing'
  BY <1>1, <1>2, <1>3, <1>4, AccountFacts DEF AccountInv, AccountTypes, Owners, Stores, Agreeing, Before, After
<1> QED
  BY <1>5, <1>6, <1>7, <1>8, <1>9 DEF AccountInv

LEMMA HydratedInv ==
  ASSUME AccountInv, NEW l \in loads, Hydrated(l)
  PROVE  AccountInv'
<1>1. /\ l \in Loads /\ l.account \in Account /\ l.read \in BOOLEAN /\ mem.account \in {None, l.account}
  BY DEF AccountInv, AccountTypes, Owners, Loads
<1>2. /\ UNCHANGED <<user, disk, server, login, leaving, world>> /\ loads' = loads \ {l}
      /\ mem' = IF l.read THEN Loaded(l.account) ELSE mem
  BY DEF Hydrated
<1>3. /\ mem' \in [account : Account \cup {None}, keys : Keys] /\ mem'.account = mem.account
      /\ mem'.keys = IF l.read /\ disk[l.account] # None THEN disk[l.account] ELSE mem.keys
  BY <1>1, <1>2 DEF AccountInv, AccountTypes, Loaded
<1>4. AccountTypes'
  BY <1>1, <1>2, <1>3, AccountFacts DEF AccountInv, AccountTypes, Keys, Before, After
<1>5. Owners'
  BY <1>1, <1>2, <1>3, AccountFacts DEF AccountInv, AccountTypes, Owners, Keys, Before, After
<1>6. Stores'
  BY <1>1, <1>2, <1>3, AccountFacts DEF AccountInv, AccountTypes, Owners, Stores, Keys, Before, After
<1>7. Published'
  BY <1>1, <1>2, <1>3, AccountFacts DEF AccountInv, AccountTypes, Published, Keys, Before, After
<1>8. Agreeing'
  <2>1. mem'.keys # mem.keys => l.read /\ mem'.keys = disk[l.account] /\ disk[l.account] # None
    BY <1>3
  <2>2. user # None => mem.account = user /\ l.account = user
    BY <1>1, AccountFacts DEF AccountInv, Owners
  <2>3. ASSUME ~world.fault PROVE login.pc = "store" => server[login.account].keys = login.keys
    BY <2>3 DEF AccountInv, Agreeing
  <2>4. ASSUME ~world.fault, user # None, login = Idle
        PROVE  /\ disk[user] # None /\ server[user].keys = disk[user]
               /\ mem'.keys = None => \E k \in loads' : k.read
    <3>1. disk[user] # None /\ server[user].keys = disk[user] /\ (mem.keys = None => \E k \in loads : k.read)
      BY <2>4 DEF AccountInv, Agreeing
    <3>2. mem'.keys = None => mem.keys = None /\ ~l.read
      BY <1>3, <2>2, <2>4, <3>1
    <3> QED
      BY <1>2, <3>1, <3>2
  <2>5. ASSUME ~world.fault, user # None, login.pc \in After \ {"load", "make"}
        PROVE  mem'.keys # None /\ (login.pc # "compare" => mem'.keys = login.keys)
    <3>1. mem.keys # None /\ (login.pc # "compare" => mem.keys = login.keys)
      BY <2>5 DEF AccountInv, Agreeing
    <3>2. mem'.keys # mem.keys => mem'.keys = disk[user] /\ disk[user] # None
      BY <2>1, <2>2, <2>5
    <3>3. CASE mem'.keys = mem.keys
      BY <3>1, <3>3
    <3>4. CASE mem'.keys # mem.keys
      <4>1. user = login.account
        BY <2>2, <2>5 DEF AccountInv, Owners
      <4>2. login.pc \notin {"store", "save"}
        BY <3>2, <3>4, <4>1 DEF AccountInv, Stores
      <4>3. mem.keys = disk[user]
        BY <2>2, <2>5, <3>1, <4>2 DEF AccountInv, Stores
      <4> QED
        BY <3>2, <3>4, <4>3
    <3> QED
      BY <3>3, <3>4
  <2>6. ASSUME ~world.fault, user # None, login.pc = "reset again" PROVE server[user].keys = login.keys
    BY <2>6 DEF AccountInv, Agreeing
  <2> QED
    BY <1>2, <2>3, <2>4, <2>5, <2>6 DEF Agreeing
<1> QED
  BY <1>4, <1>5, <1>6, <1>7, <1>8 DEF AccountInv

\* What happens on other devices, and the end of the account on this one.
LEMMA OtherDeviceInv ==
  ASSUME AccountInv, NEW a \in Account, OtherDevice(a)
  PROVE  AccountInv'
<1>1. /\ UNCHANGED <<user, mem, disk, login, loads, leaving>> /\ server[a].keys # None
      /\ server' = [server EXCEPT ![a] = [keys |-> Fresh, stale |-> FALSE]]
  BY DEF OtherDevice
<1>2. /\ Fresh \in Nat /\ Fresh \in Keys /\ Fresh # None
      /\ world \in Worlds /\ world.acts + 1 \in Nat
  BY AccountFacts DEF AccountInv, AccountTypes, Fresh, Keys, Worlds
<1>3. /\ world' \in Worlds /\ world'.gone = world.gone /\ world'.missed = world.missed
      /\ world'.fault <=> world.fault \/ user = a \/ (login # Idle /\ login.account = a)
    <2> DEFINE f == world.fault \/ user = a \/ (login # Idle /\ login.account = a)
  <2>1. world' = [[world EXCEPT !.made = Fresh, !.fault = f] EXCEPT !.acts = @ + 1] /\ f \in BOOLEAN
    BY DEF OtherDevice, Acts
  <2> HIDE DEF f, Fresh
  <2>2. /\ world' \in Worlds /\ world'.gone = world.gone /\ world'.missed = world.missed
        /\ world'.fault = f
    BY <1>2, <2>1 DEF Worlds
  <2> QED
    BY <2>2 DEF f
<1>4. /\ server' \in [Account -> [keys : Keys, stale : BOOLEAN]] /\ server'[a].keys # None /\ ~server'[a].stale
      /\ \A b \in Account : b # a => server'[b] = server[b]
    <2> HIDE DEF Fresh
  <2> QED
    BY <1>1, <1>2 DEF AccountInv, AccountTypes
<1>5. AccountTypes'
  BY <1>1, <1>2, <1>3, <1>4, AccountFacts DEF AccountInv, AccountTypes
<1>6. Owners'
  BY <1>1, <1>2, <1>3, <1>4, AccountFacts DEF AccountInv, AccountTypes, Owners, Before, After
<1>7. Stores'
  BY <1>1, <1>2, <1>3, <1>4, AccountFacts DEF AccountInv, AccountTypes, Owners, Stores, Before, After
<1>8. Published'
  BY <1>1, <1>2, <1>3, <1>4, AccountFacts DEF AccountInv, AccountTypes, Published, Before, After
<1>9. Agreeing'
  BY <1>1, <1>2, <1>3, <1>4, AccountFacts DEF AccountInv, AccountTypes, Owners, Stores, Agreeing, Before, After
<1> QED
  BY <1>5, <1>6, <1>7, <1>8, <1>9 DEF AccountInv

LEMMA LeaveInv ==
  ASSUME AccountInv, NEW how \in {"logout", "delete"}, Leave(how)
  PROVE  AccountInv'
<1>1. /\ UNCHANGED <<user, mem, disk, server, login, loads>> /\ leaving' = [pc |-> how] /\ user # None
  BY DEF Leave, OnProfile, keystore
<1>2. SameWorld
  BY ActWorld DEF AccountInv, Leave
<1>3. AccountTypes'
  BY <1>1, <1>2, AccountFacts DEF AccountInv, AccountTypes, SameWorld, Before, After
<1>4. Owners'
  BY <1>1, <1>2, AccountFacts DEF AccountInv, AccountTypes, Owners, SameWorld, Before, After
<1>5. Stores'
  BY <1>1, <1>2, AccountFacts DEF AccountInv, AccountTypes, Owners, Stores, SameWorld, Before, After
<1>6. Published'
  BY <1>1, <1>2, AccountFacts DEF AccountInv, AccountTypes, Published, SameWorld, Before, After
<1>7. Agreeing'
  BY <1>1, <1>2, AccountFacts DEF AccountInv, AccountTypes, Owners, Stores, Agreeing, SameWorld, Before, After
<1> QED
  BY <1>3, <1>4, <1>5, <1>6, <1>7 DEF AccountInv

LEMMA SignsOut ==
  ASSUME AccountTypes, SignOut
  PROVE  /\ user' = None /\ leaving' = Idle /\ loads' \subseteq Loads
         /\ \A l \in loads' : \E k \in loads : l.account = k.account
<1>1. loads' = {[l EXCEPT !.live = FALSE] : l \in loads}
  BY DEF SignOut
<1>2. \A l \in loads : LET k == [l EXCEPT !.live = FALSE] IN k \in Loads /\ k.account = l.account
  BY DEF AccountTypes, Loads
<1> QED
  BY <1>1, <1>2 DEF SignOut

LEMMA LoggedOutInv ==
  ASSUME AccountInv, LoggedOut
  PROVE  AccountInv'
<1>1. UNCHANGED <<mem, disk, server, login, world>>
  BY DEF LoggedOut, keystore
<1>2. /\ user' = None /\ leaving' = Idle /\ loads' \subseteq Loads
      /\ \A l \in loads' : \E k \in loads : l.account = k.account
  BY SignsOut DEF AccountInv, LoggedOut
<1>3. login.pc \in Before => loads' = {}
  BY <1>2 DEF AccountInv, Owners
<1>4. AccountTypes'
  BY <1>1, <1>2, <1>3, AccountFacts DEF AccountInv, AccountTypes
<1>5. Owners'
  BY <1>1, <1>2, <1>3, AccountFacts DEF AccountInv, AccountTypes, Owners, Before, After
<1>6. Stores'
  BY <1>1, <1>2, <1>3, AccountFacts DEF AccountInv, AccountTypes, Owners, Stores, Before, After
<1>7. Published'
  BY <1>1, <1>2, <1>3, AccountFacts DEF AccountInv, AccountTypes, Published, Before, After
<1>8. Agreeing'
  BY <1>1, <1>2, <1>3, AccountFacts DEF AccountInv, AccountTypes, Owners, Stores, Agreeing, Before, After
<1> QED
  BY <1>4, <1>5, <1>6, <1>7, <1>8 DEF AccountInv

LEMMA DeletedInv ==
  ASSUME AccountInv, Deleted
  PROVE  AccountInv'
<1>1. /\ user \in Account /\ login' = login /\ mem' = [account |-> None, keys |-> None]
      /\ server' = [server EXCEPT ![user] = [keys |-> None, stale |-> FALSE]]
      /\ disk' = [disk EXCEPT ![user] = None] /\ world' = [world EXCEPT !.gone = world.gone \cup {user}]
  BY DEF AccountInv, AccountTypes, Deleted, Nobody, Unregistered
<1>2. /\ user' = None /\ leaving' = Idle /\ loads' \subseteq Loads
      /\ \A l \in loads' : \E k \in loads : l.account = k.account
  BY SignsOut DEF AccountInv, Deleted
<1>3. login.pc \notin Before
  BY <1>1, AccountFacts DEF AccountInv, Owners
<1>4. /\ world' \in Worlds /\ world'.gone = world.gone \cup {user} /\ world'.missed = world.missed /\ world'.fault = world.fault
  BY <1>1 DEF AccountInv, AccountTypes, Worlds
<1>5. /\ server' \in [Account -> [keys : Keys, stale : BOOLEAN]] /\ ~server'[user].stale
      /\ disk' \in [Account -> Keys] /\ disk'[user] = None
      /\ \A b \in Account : b # user => server'[b] = server[b] /\ disk'[b] = disk[b]
  BY <1>1, AccountFacts DEF AccountInv, AccountTypes, Keys
<1>6. login.pc \in After => login.account = user
  BY <1>1, AccountFacts DEF AccountInv, Owners
<1>7. AccountTypes'
  BY <1>1, <1>2, <1>3, <1>4, <1>5, <1>6, AccountFacts DEF AccountInv, AccountTypes
<1>8. Owners'
  BY <1>1, <1>2, <1>3, <1>4, <1>5, <1>6, AccountFacts DEF AccountInv, AccountTypes, Owners, Before, After
<1>9. Stores'
  BY <1>1, <1>2, <1>3, <1>4, <1>5, <1>6, AccountFacts DEF AccountInv, AccountTypes, Owners, Stores, Before, After
<1>10. Published'
  BY <1>1, <1>2, <1>3, <1>4, <1>5, <1>6, AccountFacts DEF AccountInv, AccountTypes, Published, Before, After
<1>11. Agreeing'
  BY <1>1, <1>2, <1>3, <1>4, <1>5, <1>6, AccountFacts DEF AccountInv, AccountTypes, Owners, Stores, Agreeing, Before, After
<1> QED
  BY <1>7, <1>8, <1>9, <1>10, <1>11 DEF AccountInv

LEMMA NotDeletedInv ==
  ASSUME AccountInv, NotDeleted
  PROVE  AccountInv'
<1>1. /\ UNCHANGED <<user, mem, disk, server, login, loads, world>> /\ leaving' = Idle
  BY DEF NotDeleted, keystore
<1>2. AccountTypes'
  BY <1>1, AccountFacts DEF AccountInv, AccountTypes
<1>3. Owners'
  BY <1>1, AccountFacts DEF AccountInv, AccountTypes, Owners, Before, After
<1>4. Stores'
  BY <1>1, AccountFacts DEF AccountInv, AccountTypes, Owners, Stores, Before, After
<1>5. Published'
  BY <1>1, AccountFacts DEF AccountInv, AccountTypes, Published, Before, After
<1>6. Agreeing'
  BY <1>1, AccountFacts DEF AccountInv, AccountTypes, Owners, Stores, Agreeing, Before, After
<1> QED
  BY <1>2, <1>3, <1>4, <1>5, <1>6 DEF AccountInv

LEMMA TokenRefreshedInv ==
  ASSUME AccountInv, TokenRefreshed
  PROVE  AccountInv'
<1>1. /\ user \in Account /\ UNCHANGED <<user, disk, server, login, leaving>> /\ mem.account = user
  BY DEF AccountInv, AccountTypes, Owners, TokenRefreshed
<1>2. mem' = mem
  BY <1>1 DEF AccountInv, AccountTypes, TokenRefreshed, Claim
<1>3. SameWorld
  BY ActWorld DEF AccountInv, TokenRefreshed
<1>4. /\ loads' \subseteq Loads
      /\ \A l \in loads' : l.account = user \/ \E k \in loads : l.account = k.account
      /\ (\E l \in loads : l.read) => \E l \in loads' : l.read
  BY <1>1, Hydrates DEF AccountInv, TokenRefreshed
<1>5. AccountTypes'
  BY <1>1, <1>2, <1>3, <1>4, AccountFacts DEF AccountInv, AccountTypes, SameWorld, Before, After
<1>6. Owners'
  <2>1. user # None
    BY <1>1, AccountFacts DEF AccountInv
  <2>2. \A l \in loads' : mem'.account \in {None, l.account}
    <3>1. \A k \in loads : mem.account \in {None, k.account}
      BY DEF AccountInv, Owners
    <3> QED
      BY <1>1, <1>2, <1>4, <3>1
  <2> QED
    BY <1>1, <1>2, <2>1, <2>2 DEF AccountInv, Owners
<1>7. Stores'
  BY <1>1, <1>2, <1>3, <1>4, AccountFacts DEF AccountInv, AccountTypes, Owners, Stores, SameWorld, Before, After
<1>8. Published'
  BY <1>1, <1>2, <1>3, <1>4, AccountFacts DEF AccountInv, AccountTypes, Published, SameWorld, Before, After
<1>9. Agreeing'
  BY <1>1, <1>2, <1>3, <1>4, AccountFacts DEF AccountInv, AccountTypes, Owners, Stores, Agreeing, SameWorld, Before, After
<1> QED
  BY <1>5, <1>6, <1>7, <1>8, <1>9 DEF AccountInv

LEMMA ReloadInv ==
  ASSUME AccountInv, Reload
  PROVE  AccountInv'
<1>1. /\ UNCHANGED <<user, disk>> /\ login' = Idle /\ leaving' = Idle /\ mem' = [account |-> user, keys |-> None]
      /\ loads' = IF user = None THEN {} ELSE {[account |-> user, live |-> TRUE, read |-> TRUE]}
      /\ server' = IF login.pc = "register" THEN [server EXCEPT ![login.account].keys = login.keys] ELSE server
  BY DEF Reload
<1>2. /\ world' \in Worlds /\ world'.gone = world.gone
      /\ world'.fault <=> world.fault \/ login # Idle
      /\ world'.missed = IF login.pc \in {"reset", "reset again"} THEN world.missed \cup {login.account} ELSE world.missed
    <2>1. Missed(world) \in Worlds /\ world' = [[Missed(world) EXCEPT !.due = FALSE] EXCEPT !.acts = @ + 1]
    BY MissedWorld DEF AccountInv, Reload, Acts
  <2>2. Missed(world).acts + 1 \in Nat
    BY <2>1 DEF Worlds
  <2>3. world' \in Worlds /\ world'.gone = Missed(world).gone /\ world'.missed = Missed(world).missed /\ world'.fault = Missed(world).fault
    BY <2>1, <2>2 DEF Worlds
  <2> QED
    BY <2>3, MissedWorld DEF AccountInv
<1>3. /\ server' \in [Account -> [keys : Keys, stale : BOOLEAN]]
      /\ \A a \in Account : server'[a].stale = server[a].stale /\ (server[a].keys # None => server'[a].keys # None)
      /\ login.pc # "register" => server' = server
      /\ login.pc = "register" => user = None
    <2>1. CASE login.pc = "register"
    BY <1>1, <2>1, AccountFacts DEF AccountInv, AccountTypes, Owners, Stores, Before
  <2>2. CASE login.pc # "register"
    BY <1>1, <2>2 DEF AccountInv, AccountTypes
  <2> QED
    BY <2>1, <2>2
<1>4. loads' \subseteq Loads /\ (user # None => \E l \in loads' : l.read) /\ \A l \in loads' : l.account = user
    <2>1. CASE user = None
    BY <1>1, <2>1
  <2>2. CASE user # None
    <3>1. user \in Account /\ loads' = {[account |-> user, live |-> TRUE, read |-> TRUE]}
      BY <1>1, <2>2 DEF AccountInv, AccountTypes
    <3> QED
      BY <3>1 DEF Loads
  <2> QED
    BY <2>1, <2>2
<1>5. mem' \in [account : Account \cup {None}, keys : Keys]
  BY <1>1, AccountFacts DEF AccountInv, AccountTypes, Keys
<1>6. AccountTypes'
  BY <1>1, <1>2, <1>3, <1>4, <1>5, AccountFacts DEF AccountInv, AccountTypes
<1>7. Owners'
  BY <1>1, <1>2, <1>3, <1>4, <1>5, AccountFacts DEF AccountInv, AccountTypes, Owners, Before, After
<1>8. Stores'
  BY <1>1, <1>2, <1>3, <1>4, <1>5, AccountFacts DEF AccountInv, AccountTypes, Owners, Stores, Before, After
<1>9. Published'
  BY <1>1, <1>2, <1>3, <1>4, <1>5, AccountFacts DEF AccountInv, AccountTypes, Published, Before, After
<1>10. Agreeing'
  BY <1>1, <1>2, <1>3, <1>4, <1>5, AccountFacts DEF AccountInv, AccountTypes, Owners, Stores, Agreeing, Before, After
<1> QED
  BY <1>6, <1>7, <1>8, <1>9, <1>10 DEF AccountInv

\* The password and the background leave the account alone.
LEMMA ProtectionCalm ==
  ASSUME AccountTypes, Protection
  PROVE  SameWorld /\ UNCHANGED <<user, mem, disk, server, login, loads, leaving>>
<1>1. world \in Worlds /\ world.due \in BOOLEAN
  BY DEF AccountTypes, Worlds
<1>2. ASSUME NEW due \in BOOLEAN, world' = [world EXCEPT !.due = due]  PROVE SameWorld
  BY <1>1, <1>2 DEF SameWorld, Worlds
<1>3. world' = world => SameWorld
  BY <1>1 DEF SameWorld
<1>4. ASSUME NEW op, NEW p, Start(op, p)
      PROVE  SameWorld /\ UNCHANGED <<user, mem, disk, server, login, loads, leaving>>
  BY <1>4, ActWorld DEF Start, keystore
<1>5. ASSUME Derived
      PROVE  SameWorld /\ UNCHANGED <<user, mem, disk, server, login, loads, leaving>>
  <2> DEFINE fits == Head(deriving).verifier = Head(deriving).password
  <2>1. UNCHANGED <<user, mem, disk, server, login, loads, leaving>>
    BY <1>5 DEF Derived, keystore
  <2>2. \/ world' = world
        \/ world' = [world EXCEPT !.due = FALSE]
        \/ world' = [world EXCEPT !.due = world.due /\ ~fits]
    BY <1>5 DEF Derived
  <2>3. (world.due /\ ~fits) \in BOOLEAN
    BY <1>1
  <2> HIDE DEF fits
  <2> QED
    BY <1>2, <1>3, <2>1, <2>2, <2>3
<1>6. ASSUME LockNow \/ Hide
      PROVE  SameWorld /\ UNCHANGED <<user, mem, disk, server, login, loads, leaving>>
  BY <1>6, ActWorld DEF LockNow, Hide, keystore
<1>7. ASSUME CancelPrompt \/ Reveal \/ TimePasses \/ LockTimer
      PROVE  SameWorld /\ UNCHANGED <<user, mem, disk, server, login, loads, leaving>>
  BY <1>3, <1>7 DEF CancelPrompt, Reveal, TimePasses, LockTimer, keystore
<1>8. ASSUME Show
      PROVE  SameWorld /\ UNCHANGED <<user, mem, disk, server, login, loads, leaving>>
  <2>1. world' = [world EXCEPT !.due = world.due \/ away = "long"] /\ UNCHANGED <<user, mem, disk, server, login, loads, leaving>>
    BY <1>8 DEF Show, keystore
  <2>2. (world.due \/ away = "long") \in BOOLEAN
    BY <1>1
  <2> QED
    BY <1>2, <2>1, <2>2
<1> QED
  BY <1>4, <1>5, <1>6, <1>7, <1>8 DEF Protection

LEMMA AccountStep ==
  ASSUME AccountInv, [Next]_vars
  PROVE  AccountInv'
<1>1. CASE SigningIn
  <2>1. ASSUME NEW a \in Account, Submit("login", a) \/ Submit("register", a)  PROVE AccountInv'
    BY <2>1, SubmitInv
  <2>2. ASSUME NEW l \in loads, Hydrated(l)  PROVE AccountInv'
    BY <2>2, HydratedInv
  <2> QED
    BY <1>1, <2>1, <2>2, RegisteredInv, StoredInv, NeedsCodeInv, SignedInInv, RefusedInv, LoadKeysInv, MakeKeysInv,
       SaveKeysInv, PutKeysInv, ResetSenderKeysInv, CompareKeysInv, ComparedInv, RequestFailsInv DEF SigningIn
<1>2. CASE Device
  <2>1. ASSUME NEW a \in Account, OtherDevice(a)  PROVE AccountInv'
    BY <2>1, OtherDeviceInv
  <2>2. ASSUME Leave("logout") \/ Leave("delete")  PROVE AccountInv'
    BY <2>2, LeaveInv
  <2>3. ASSUME ClearCache  PROVE AccountInv'
    <3>1. SameWorld
      BY <2>3, ActWorld DEF AccountInv, ClearCache
    <3>2. UNCHANGED <<user, mem, disk, server, login, loads, leaving>>
      BY <2>3 DEF ClearCache, keystore
    <3> QED
      BY <3>1, <3>2, AccountCalm
  <2> QED
    BY <1>2, <2>1, <2>2, <2>3, LoggedOutInv, DeletedInv, NotDeletedInv, TokenRefreshedInv, ReloadInv DEF Device
<1>3. CASE Protection
  BY <1>3, ProtectionCalm, AccountCalm DEF AccountInv
<1>4. CASE UNCHANGED vars
  <2>1. SameWorld
    BY <1>4 DEF vars, SameWorld, AccountInv, AccountTypes
  <2>2. UNCHANGED <<user, mem, disk, server, login, loads, leaving>>
    BY <1>4 DEF vars, keystore
  <2> QED
    BY <2>1, <2>2, AccountCalm
<1> QED
  BY <1>1, <1>2, <1>3, <1>4 DEF Next

LEMMA AccountStart == Init => AccountInv
<1> SUFFICES ASSUME Init  PROVE AccountInv
  OBVIOUS
<1>1. /\ user = None /\ loads = {} /\ login = [pc |-> "idle"] /\ leaving = [pc |-> "idle"]
      /\ mem = [account |-> None, keys |-> None]
      /\ disk = [a \in Account |-> None] /\ server = [a \in Account |-> [keys |-> None, stale |-> FALSE]]
      /\ world = [made |-> 0, acts |-> 0, fault |-> FALSE, due |-> FALSE, gone |-> {}, missed |-> {}]
  BY DEF Init, Idle, Nobody, Unregistered
<1>2. login = Idle /\ login.pc = "idle"
  BY <1>1 DEF Idle
<1>3. mem \in [account : Account \cup {None}, keys : Keys] /\ disk \in [Account -> Keys]
  BY <1>1 DEF Keys
<1>4. server \in [Account -> [keys : Keys, stale : BOOLEAN]] /\ \A a \in Account : ~server[a].stale
  BY <1>1 DEF Keys
<1>5. world \in Worlds
  BY <1>1 DEF Worlds
<1>6. AccountTypes
  BY <1>1, <1>2, <1>3, <1>4, <1>5 DEF AccountTypes, Idle
<1>7. Owners /\ Stores /\ Published
  BY <1>1, <1>2, <1>4, AccountAssumption DEF Owners, Stores, Published, Before, After
<1>8. Agreeing
  BY <1>1, <1>2 DEF Agreeing, After
<1> QED
  BY <1>6, <1>7, <1>8 DEF AccountInv

LEMMA AccountAlways == Spec => []AccountInv
BY AccountStart, AccountStep, PTL DEF Spec

\* A sign-in that came to its end without a fault leaves the device with keys that are
\* in its store and are the published ones, whichever of the two tasks of setAuth was
\* faster and whichever account was signed in before (Login.tsx, App.tsx, keystore.ts).
THEOREM SignInAgrees == Spec => []LoginAgrees
<1>1. AccountInv => LoginAgrees
  <2> SUFFICES ASSUME AccountInv, user # None, login = Idle, loads = {}, ~world.fault
               PROVE  /\ Mine # None /\ Mine = disk[user]
                      /\ server[user].keys = Mine
                      /\ server[user].stale => user \in world.missed
    BY DEF LoginAgrees
  <2>1. user \in Account /\ login.pc = "idle" /\ mem.account = user
    BY AccountFacts DEF AccountInv, AccountTypes, Owners
  <2>2. disk[user] # None /\ server[user].keys = disk[user] /\ mem.keys # None
    BY DEF AccountInv, Agreeing
  <2>3. mem.keys = disk[user]
    BY <2>1, <2>2, AccountFacts DEF AccountInv, Stores
  <2>4. server[user].stale => user \in world.missed
    BY <2>1 DEF AccountInv, Published
  <2> QED
    BY <2>1, <2>2, <2>3, <2>4 DEF Mine
<1> QED
  BY <1>1, AccountAlways, PTL

\* Identity keys once stored stay until the account is deleted: a sign-in never makes
\* or stores keys for an account that has some in the store, whatever overlaps with it.
THEOREM IdentityIsKept == Spec => KeepsIdentity
<1> DEFINE KeysKept == \A a \in Account : disk[a] # None /\ disk'[a] # disk[a] => a \in world'.gone
<1>1. AccountInv /\ [Next]_vars => KeysKept
  <2> SUFFICES ASSUME AccountInv, [Next]_vars, NEW a \in Account, disk[a] # None, disk'[a] # disk[a]
               PROVE  a \in world'.gone
    OBVIOUS
  <2>1. CASE Stored
    <3>1. login \in Logins /\ login.account \in Account /\ disk[login.account] = None
      BY <2>1, AccountFacts DEF AccountInv, Stored, Stores
    <3>2. disk' = [disk EXCEPT ![login.account] = login.keys]
      BY <2>1 DEF Stored
    <3> QED
      BY <3>1, <3>2 DEF AccountInv, AccountTypes
  <2>2. CASE SaveKeys
    <3>1. login \in Logins /\ login.account \in Account /\ disk[login.account] = None
      BY <2>2, AccountFacts DEF AccountInv, SaveKeys, Stores
    <3>2. disk' = [disk EXCEPT ![login.account] = login.keys]
      BY <2>2 DEF SaveKeys
    <3> QED
      BY <3>1, <3>2 DEF AccountInv, AccountTypes
  <2>3. CASE Deleted
    <3>1. /\ user \in Account /\ disk' = [disk EXCEPT ![user] = None]
          /\ world' = [world EXCEPT !.gone = world.gone \cup {user}] /\ world \in Worlds
      BY <2>3 DEF Deleted, AccountInv, AccountTypes
    <3>2. a = user
      BY <3>1 DEF AccountInv, AccountTypes
    <3>3. world'.gone = world.gone \cup {user}
      BY <3>1 DEF Worlds
    <3> QED
      BY <3>2, <3>3
  <2>4. CASE ~(Stored \/ SaveKeys \/ Deleted)
    <3>1. CASE SigningIn
      BY <2>4, <3>1 DEF SigningIn, Submit, Registered, NeedsCode, SignedIn, Refused, LoadKeys, MakeKeys, PutKeys,
         ResetSenderKeys, CompareKeys, Compared, RequestFails, Hydrated, keystore
    <3>2. CASE Device
      BY <2>4, <3>2 DEF Device, OtherDevice, Leave, LoggedOut, NotDeleted, ClearCache, TokenRefreshed, Reload, keystore
    <3>3. CASE Protection
      BY <3>3, ProtectionCalm DEF AccountInv
    <3>4. CASE UNCHANGED vars
      BY <3>4 DEF vars, keystore
    <3> QED
      BY <3>1, <3>2, <3>3, <3>4 DEF Next
  <2> QED
    BY <2>1, <2>2, <2>3, <2>4
<1>2. AccountInv /\ [Next]_vars => [KeysKept]_vars
  BY <1>1
<1> HIDE DEF KeysKept
<1>3. []AccountInv /\ [][Next]_vars => [][KeysKept]_vars
  BY <1>2, PTL
<1>4. [][KeysKept]_vars => KeepsIdentity
  BY DEF KeysKept, KeepsIdentity
<1> QED
  BY <1>3, <1>4, AccountAlways, PTL DEF Spec

-----------------------------------------------------------------------------
(* The presentation password.                                                *)

\* A step that starts or ends no derivation: it may lock, and nothing else.
LEMMA PasswordCalm ==
  ASSUME PasswordInv, password' = password \/ password' = None, plain' = plain \/ plain' = FALSE,
         UNCHANGED <<settings, deriving>>, prompt' \in BOOLEAN, world'.due = world.due
  PROVE  PasswordInv'
<1>1. PasswordTypes'
  BY DEF PasswordInv, PasswordTypes
<1> QED
  BY <1>1 DEF PasswordInv, PasswordTypes

\* Signing in, signing out and what other devices do leave open what an absence made due.
LEMMA DueKept ==
  ASSUME AccountTypes, SigningIn \/ Device, ~Reload
  PROVE  world'.due = world.due
<1>1. world \in Worlds
  BY DEF AccountTypes
<1>2. ASSUME NEW w \in Worlds, w.due = world.due, Acts(w)  PROVE world'.due = world.due
  BY <1>2 DEF Acts, Worlds
<1>3. Act => world'.due = world.due
  BY <1>1, <1>2 DEF Act
<1>4. Missed(world) \in Worlds /\ Missed(world).due = world.due
  <2>1. Missed(world).due = world.due
    BY <1>1 DEF Missed, Worlds
  <2> QED
    BY <2>1, MissedWorld
<1>5. Fresh \in Nat
  BY AccountFacts DEF Fresh
<1>6. ASSUME NEW a \in Account, NEW kind \in {"login", "register"}, Submit(kind, a)  PROVE world'.due = world.due
  <2>1. CASE kind = "register"
    <3>1. Acts([world EXCEPT !.made = Fresh, !.fault = FALSE])
      BY <1>6, <2>1 DEF Submit
    <3> HIDE DEF Fresh
    <3>2. [world EXCEPT !.made = Fresh, !.fault = FALSE] \in Worlds /\ [world EXCEPT !.made = Fresh, !.fault = FALSE].due = world.due
      BY <1>1, <1>5 DEF Worlds
    <3> QED
      BY <1>2, <3>1, <3>2
  <2>2. CASE kind # "register"
    <3>1. Acts([world EXCEPT !.fault = FALSE])
      BY <1>6, <2>2 DEF Submit
    <3>2. [world EXCEPT !.fault = FALSE] \in Worlds /\ [world EXCEPT !.fault = FALSE].due = world.due
      BY <1>1 DEF Worlds
    <3> QED
      BY <1>2, <3>1, <3>2
  <2> QED
    BY <2>1, <2>2
<1>7. ASSUME RequestFails  PROVE world'.due = world.due
  BY <1>2, <1>3, <1>4, <1>7 DEF RequestFails
<1>8. ASSUME MakeKeys  PROVE world'.due = world.due
  <2>1. world' = world \/ world' = [world EXCEPT !.made = Fresh]
    BY <1>8 DEF MakeKeys
  <2> QED
    BY <1>1, <2>1 DEF Worlds
<1>9. ASSUME NEW a \in Account, OtherDevice(a)  PROVE world'.due = world.due
  <2> DEFINE f == world.fault \/ user = a \/ (login # Idle /\ login.account = a)
  <2>1. Acts([world EXCEPT !.made = Fresh, !.fault = f]) /\ f \in BOOLEAN
    BY <1>9 DEF OtherDevice
  <2> HIDE DEF Fresh, f
  <2>2. [world EXCEPT !.made = Fresh, !.fault = f] \in Worlds /\ [world EXCEPT !.made = Fresh, !.fault = f].due = world.due
    BY <1>1, <1>5, <2>1 DEF Worlds
  <2> QED
    BY <1>2, <2>1, <2>2
<1>10. ASSUME Deleted  PROVE world'.due = world.due
  BY <1>1, <1>10 DEF Deleted, Worlds
<1>11. CASE SigningIn
  <2>1. CASE \E a \in Account : Submit("login", a) \/ Submit("register", a)
    BY <1>6, <2>1
  <2>2. CASE Refused
    BY <1>3, <2>2 DEF Refused
  <2> QED
    BY <1>7, <1>8, <1>11, <2>1, <2>2 DEF SigningIn, Registered, Stored, NeedsCode, SignedIn, LoadKeys, SaveKeys,
       PutKeys, ResetSenderKeys, CompareKeys, Compared, Hydrated
<1>12. CASE Device
  BY <1>3, <1>9, <1>10, <1>12 DEF Device, Leave, LoggedOut, NotDeleted, ClearCache, TokenRefreshed
<1> QED
  BY <1>11, <1>12

\* A derivation starts.
LEMMA StartInv ==
  ASSUME AccountTypes, PasswordInv, NEW op \in {"enable", "unlock", "disable"}, NEW p \in Password, Start(op, p)
  PROVE  PasswordInv'
<1> DEFINE d == [op |-> op, password |-> p, verifier |-> settings.verifier, asked |-> prompt]
<1>1. /\ op = "enable" <=> ~settings.enabled
      /\ \A i \in DOMAIN deriving : deriving[i].op # "enable"
      /\ deriving' = Append(deriving, d) /\ UNCHANGED <<settings, password, plain>>
  BY DEF Start
<1>2. world'.due = world.due
  BY ActWorld DEF Start
<1>3. deriving \in Seq(Derivations) /\ d \in Derivations /\ d.op = op /\ d.verifier = settings.verifier /\ prompt' \in BOOLEAN
  BY DEF PasswordInv, PasswordTypes, Derivations, Start
<1> HIDE DEF d
<1>4. /\ deriving' \in Seq(Derivations) /\ Len(deriving) \in Nat /\ Len(deriving') = Len(deriving) + 1
      /\ \A i \in 1..Len(deriving) : deriving'[i] = deriving[i]
      /\ deriving'[Len(deriving) + 1] = d
  BY <1>1, <1>3, AppendProperties, LenProperties
<1>5. DOMAIN deriving = 1..Len(deriving)
  BY <1>3
<1>6. PasswordTypes'
  BY <1>1, <1>3, <1>4 DEF PasswordInv, PasswordTypes
<1>7. ASSUME NEW i \in 1..Len(deriving')
      PROVE  /\ settings'.enabled => deriving'[i].op # "enable" /\ deriving'[i].verifier = settings'.verifier
             /\ deriving'[i].op = "enable" => i = Len(deriving')
  <2>1. CASE i = Len(deriving) + 1
    BY <1>1, <1>3, <1>4, <2>1
  <2>2. CASE i # Len(deriving) + 1
    <3>1. i \in 1..Len(deriving) /\ deriving'[i] = deriving[i]
      BY <1>4, <2>2
    <3> QED
      BY <1>1, <1>5, <3>1 DEF PasswordInv
  <2> QED
    BY <2>1, <2>2
<1> QED
  BY <1>1, <1>2, <1>6, <1>7 DEF PasswordInv

\* A derivation ends.
LEMMA DerivedInv ==
  ASSUME AccountTypes, PasswordInv, Derived
  PROVE  PasswordInv'
<1> DEFINE d == Head(deriving)
           fits == d.verifier = d.password
<1>1. /\ deriving \in Seq(Derivations) /\ deriving # << >> /\ d \in Derivations /\ d = deriving[1]
      /\ Len(deriving) \in Nat /\ Len(deriving) > 0
  BY HeadTailProperties, LenProperties, EmptySeq DEF PasswordInv, PasswordTypes, Derived
<1>2. /\ deriving' \in Seq(Derivations) /\ Len(deriving') = Len(deriving) - 1
      /\ \A i \in 1..Len(deriving') : deriving'[i] = deriving[i + 1]
  BY <1>1, HeadTailProperties DEF Derived
<1>3. d.password \in Password /\ d.op \in {"enable", "unlock", "disable"}
  BY <1>1 DEF Derivations
<1>4. /\ settings.enabled => d.op # "enable" /\ d.verifier = settings.verifier
      /\ d.op = "enable" => Len(deriving) = 1
  <2>1. 1 \in 1..Len(deriving) /\ d = deriving[1]
    BY <1>1
  <2> HIDE DEF d
  <2> QED
    BY <2>1 DEF PasswordInv
<1>5. \A i \in 1..Len(deriving') :
        /\ settings.enabled => deriving'[i].op # "enable" /\ deriving'[i].verifier = settings.verifier
        /\ deriving'[i].op = "enable" => i = Len(deriving')
  <2> SUFFICES ASSUME NEW i \in 1..Len(deriving')
               PROVE  /\ settings.enabled => deriving'[i].op # "enable" /\ deriving'[i].verifier = settings.verifier
                      /\ deriving'[i].op = "enable" => i = Len(deriving')
    OBVIOUS
  <2>1. i + 1 \in 1..Len(deriving) /\ deriving'[i] = deriving[i + 1] /\ (i + 1 = Len(deriving) => i = Len(deriving'))
    BY <1>1, <1>2
  <2> QED
    BY <2>1 DEF PasswordInv
<1>6. world \in Worlds
  BY DEF AccountTypes
<1>7. CASE /\ d.op = "enable"
           /\ password' = d.password
           /\ settings' = [enabled |-> TRUE, verifier |-> d.password]
           /\ world' = [world EXCEPT !.due = FALSE]
           /\ UNCHANGED <<plain, prompt>>
  <2>1. 1..Len(deriving') = {} /\ ~world'.due
    BY <1>1, <1>2, <1>4, <1>6, <1>7 DEF Worlds
  <2>2. PasswordTypes'
    BY <1>2, <1>3, <1>7 DEF PasswordInv, PasswordTypes
  <2> QED
    BY <1>7, <2>1, <2>2 DEF PasswordInv
<1>8. CASE /\ d.op = "disable" /\ fits
           /\ Locks
           /\ settings' = [enabled |-> FALSE, verifier |-> None]
           /\ UNCHANGED <<prompt, world>>
  <2>1. PasswordTypes'
    BY <1>2, <1>8 DEF PasswordInv, PasswordTypes, Locks
  <2> QED
    BY <1>5, <1>8, <2>1 DEF PasswordInv, Locks
<1>9. CASE /\ d.op = "unlock" \/ (d.op = "disable" /\ ~fits)
           /\ Tried(d)
           /\ prompt' = (prompt /\ ~(fits /\ d.asked))
           /\ world' = [world EXCEPT !.due = @ /\ ~fits]
           /\ UNCHANGED <<settings, plain>>
  <2>1. prompt' \in BOOLEAN /\ (world'.due => world.due /\ ~fits)
    BY <1>6, <1>9 DEF Worlds
  <2>2. password' = IF fits THEN d.password ELSE None
    BY <1>9 DEF Tried
  <2>3. PasswordTypes'
    BY <1>2, <1>3, <1>9, <2>1, <2>2 DEF PasswordInv, PasswordTypes
  <2>4. settings'.enabled /\ password' # None => password' = settings'.verifier
    BY <1>4, <1>9, <2>2
  <2>5. world'.due => password' = None /\ ~plain'
    BY <1>9, <2>1, <2>2 DEF PasswordInv
  <2> QED
    BY <1>5, <1>9, <2>3, <2>4, <2>5 DEF PasswordInv
<1> QED
  BY <1>7, <1>8, <1>9 DEF Derived

LEMMA PasswordStep ==
  ASSUME AccountInv, PasswordInv, [Next]_vars
  PROVE  PasswordInv'
<1>1. AccountTypes /\ world \in Worlds /\ prompt \in BOOLEAN
  BY DEF AccountInv, AccountTypes, PasswordInv, PasswordTypes
<1>2. CASE Reload
  <2>1. /\ password' = None /\ deriving' = << >> /\ prompt' = FALSE /\ plain' = FALSE /\ settings' = settings
    BY <1>2 DEF Reload
  <2>2. deriving' \in Seq(Derivations) /\ Len(deriving') = 0
    BY <2>1, EmptySeq
  <2>3. PasswordTypes'
    BY <2>1, <2>2 DEF PasswordInv, PasswordTypes
  <2>4. 1..0 = {}
    OBVIOUS
  <2> QED
    BY <2>1, <2>2, <2>3, <2>4 DEF PasswordInv
<1>3. CASE (SigningIn \/ Device) /\ ~Reload
  <2>1. world'.due = world.due
    BY <1>1, <1>3, DueKept
  <2>2. /\ password' = password \/ password' = None
        /\ plain' = plain \/ plain' = FALSE
        /\ UNCHANGED <<settings, deriving>>
        /\ prompt' \in BOOLEAN
    <3>1. CASE SigningIn
      BY <1>1, <3>1 DEF SigningIn, Submit, Registered, Stored, NeedsCode, SignedIn, Refused, LoadKeys, MakeKeys, SaveKeys, PutKeys,
         ResetSenderKeys, CompareKeys, Compared, RequestFails, Hydrated, Hydrate, secrets
    <3>2. CASE Device
      BY <1>1, <1>3, <3>2 DEF Device, OtherDevice, Leave, LoggedOut, Deleted, NotDeleted, ClearCache, TokenRefreshed, Hydrate, SignOut, secrets
    <3> QED
      BY <1>3, <3>1, <3>2
  <2> QED
    BY <2>1, <2>2, PasswordCalm
<1>4. CASE Protection
  <2>1. ASSUME NEW op \in {"enable", "unlock", "disable"}, NEW p \in Password, Start(op, p)  PROVE PasswordInv'
    BY <1>1, <2>1, StartInv
  <2>2. ASSUME Derived  PROVE PasswordInv'
    BY <1>1, <2>2, DerivedInv
  <2>3. ASSUME LockNow \/ CancelPrompt \/ Reveal \/ Hide \/ TimePasses \/ LockTimer  PROVE PasswordInv'
    <3>1. world'.due = world.due
      BY <1>1, <2>3, ActWorld DEF LockNow, CancelPrompt, Reveal, Hide, TimePasses, LockTimer
    <3>2. CASE Reveal
      <4>1. password # None /\ plain' = TRUE /\ UNCHANGED <<settings, password, deriving, prompt>>
        BY <3>2 DEF Reveal
      <4>2. PasswordTypes'
        BY <4>1 DEF PasswordInv, PasswordTypes
      <4> QED
        BY <3>1, <4>1, <4>2 DEF PasswordInv
    <3>3. CASE LockNow \/ CancelPrompt \/ Hide \/ TimePasses \/ LockTimer
      <4>1. /\ password' = password \/ password' = None
            /\ plain' = plain \/ plain' = FALSE
            /\ UNCHANGED <<settings, deriving>>
            /\ prompt' \in BOOLEAN
        BY <1>1, <3>3 DEF LockNow, CancelPrompt, Hide, TimePasses, LockTimer, Locks, secrets
      <4> QED
        BY <3>1, <4>1, PasswordCalm
    <3> QED
      BY <2>3, <3>2, <3>3
  <2>4. ASSUME Show  PROVE PasswordInv'
    <3>1. /\ IF away = "long" THEN Locks ELSE UNCHANGED <<password, plain>>
          /\ UNCHANGED <<settings, deriving, prompt>> /\ world' = [world EXCEPT !.due = @ \/ away = "long"]
      BY <2>4 DEF Show
    <3>2. world'.due => world.due \/ away = "long"
      BY <1>1, <3>1 DEF Worlds
    <3>3. password' \in {password, None} /\ plain' \in {plain, FALSE} /\ (away = "long" => password' = None /\ ~plain')
      BY <3>1 DEF Locks
    <3>4. PasswordTypes'
      BY <3>1, <3>3 DEF PasswordInv, PasswordTypes
    <3> QED
      BY <3>1, <3>2, <3>3, <3>4 DEF PasswordInv
  <2> QED
    BY <1>4, <2>1, <2>2, <2>3, <2>4 DEF Protection
<1>5. CASE UNCHANGED vars
  BY <1>1, <1>5, PasswordCalm DEF vars, secrets
<1> QED
  BY <1>2, <1>3, <1>4, <1>5 DEF Next

\* The password in memory is always the one that the verifier of the settings accepts,
\* however unlocking, enabling and disabling overlap, and after a long absence neither
\* it nor the text it protects is there until it is typed again (presentationCrypto.ts).
THEOREM PasswordIsHeld == Spec => []PasswordHeld
<1>1. Init => PasswordInv
  <2> SUFFICES ASSUME Init  PROVE PasswordInv
    OBVIOUS
  <2>1. /\ settings = [enabled |-> FALSE, verifier |-> None] /\ password = None /\ deriving = << >>
        /\ prompt = FALSE /\ plain = FALSE
    BY DEF Init
  <2>2. deriving \in Seq(Derivations) /\ Len(deriving) = 0 /\ 1..0 = {}
    BY <2>1, EmptySeq
  <2> QED
    BY <2>1, <2>2 DEF PasswordInv, PasswordTypes
<1>2. PasswordInv => PasswordHeld
  BY DEF PasswordInv, PasswordHeld
<1> QED
  BY <1>1, <1>2, AccountAlways, PasswordStep, PTL DEF Spec

-----------------------------------------------------------------------------
(* The proxies.                                                              *)

\* The route that the store stands for.
Wanted == IF activeProxyId = Direct THEN Unrouted ELSE Entry(activeProxyId)

Routes == [id : ProxyId \cup {Direct}, address : Address \cup {Direct}]
Badges == [badge : {"untested", "testing", "tested"}, via : ProxyId \cup {Direct}]
Tests  == [n : Nat, id : ProxyId, waits : BOOLEAN, via : ProxyId \cup {Direct}]
Switches == [acts : Nat, made : Nat, failed : BOOLEAN, alone : BOOLEAN]

ProxyTypes ==
  /\ DOMAIN proxyList \subseteq ProxyId /\ proxyList \in [DOMAIN proxyList -> Address]
  /\ \A id \in DOMAIN proxyList : id <= switches.made
  /\ activeProxyId \in DOMAIN proxyList \cup {Direct}
  /\ form = << >> \/ form = <<Direct>> \/ \E id \in ProxyId : form = <<id>>
  /\ latency \in [ProxyId -> Badges]
  /\ tests \subseteq Tests
  /\ calls \in Seq(Routes) /\ route \in Routes
  /\ switches \in Switches

\* The last call of the plugin, or the route when all of them succeeded, is what is wanted.
Routed ==
  /\ calls # << >> => calls[Len(calls)] = Wanted
  /\ calls = << >> /\ ~switches.failed => route = Wanted
  /\ switches.alone /\ calls = << >> => ~switches.failed

\* What a test that was never disturbed measures, and shows.
Measured ==
  switches.alone =>
    /\ \A t \in tests : t.id = activeProxyId /\ ~t.waits => t.via = activeProxyId
    /\ activeProxyId # Direct /\ latency[activeProxyId].badge = "tested"
         => latency[activeProxyId].via = activeProxyId

ProxyInv == ProxyTypes /\ Routed /\ Measured

LEMMA ProxyFacts ==
  ASSUME ProxyTypes
  PROVE  /\ Direct \notin ProxyId /\ ProxyId \subseteq Nat
         /\ activeProxyId \in ProxyId \cup {Direct}
         /\ Wanted \in Routes /\ Wanted.id = activeProxyId
         /\ Unrouted \in Routes /\ Unrouted.id = Direct
         /\ \A id \in DOMAIN proxyList : Entry(id) \in Routes /\ Entry(id).id = id
         /\ switches \in Switches
<1>1. Direct \notin ProxyId /\ ProxyId \subseteq Nat
  BY ProxyAssumption DEF ProxyId
<1>2. activeProxyId \in ProxyId \cup {Direct} /\ (activeProxyId # Direct => activeProxyId \in DOMAIN proxyList)
  BY DEF ProxyTypes
<1>3. \A id \in DOMAIN proxyList : Entry(id) \in Routes /\ Entry(id).id = id
  BY DEF ProxyTypes, Entry, Routes
<1>4. Unrouted \in Routes /\ Unrouted.id = Direct
  BY DEF Unrouted, Routes
<1>5. switches \in Switches
  BY DEF ProxyTypes
<1> QED
  BY <1>1, <1>2, <1>3, <1>4, <1>5 DEF Wanted

\* A call is appended; the first call is carried out.
LEMMA CallLast ==
  ASSUME NEW s \in Seq(Routes), NEW r \in Routes
  PROVE  Append(s, r) \in Seq(Routes) /\ Append(s, r) # << >> /\ Append(s, r)[Len(Append(s, r))] = r
BY AppendProperties, LenProperties, EmptySeq

LEMMA CallFirst ==
  ASSUME NEW s \in Seq(Routes), s # << >>
  PROVE  /\ Head(s) \in Routes /\ Tail(s) \in Seq(Routes)
         /\ Tail(s) = << >> => Head(s) = s[Len(s)]
         /\ Tail(s) # << >> => Tail(s)[Len(Tail(s))] = s[Len(s)]
<1>1. /\ Head(s) = s[1] /\ Head(s) \in Routes /\ Tail(s) \in Seq(Routes)
      /\ Len(s) \in Nat /\ Len(s) > 0 /\ Len(Tail(s)) = Len(s) - 1
      /\ \A i \in 1..Len(Tail(s)) : Tail(s)[i] = s[i + 1]
  BY HeadTailProperties, LenProperties, EmptySeq
<1>2. ASSUME Tail(s) = << >>  PROVE Len(s) = 1
  <2> DEFINE r == Tail(s)
             n == Len(s)
  <2>1. r \in Seq(Routes) /\ r = << >> /\ n \in Nat /\ Len(r) = n - 1
    BY <1>1, <1>2
  <2> HIDE DEF r, n
  <2>2. Len(r) = 0
    BY <2>1, EmptySeq
  <2>3. n = 1
    BY <2>1, <2>2
  <2> QED
    BY <2>3 DEF n
<1>3. ASSUME Tail(s) # << >>  PROVE Len(Tail(s)) \in 1..Len(Tail(s)) /\ Len(Tail(s)) + 1 = Len(s)
  BY <1>1, <1>3, EmptySeq
<1> QED
  BY <1>1, <1>2, <1>3

LEMMA ActSwitches ==
  ASSUME switches \in Switches, ProxyAct
  PROVE  /\ switches' \in Switches /\ switches'.made = switches.made
         /\ switches'.failed = switches.failed /\ switches'.alone = switches.alone
BY DEF ProxyAct, Switches

\* What is wanted and what is asked of the plugin stay: the pages that only look.
LEMMA Looks ==
  ASSUME ProxyInv, UNCHANGED <<proxyList, activeProxyId, calls, route, switches>>
  PROVE  Routed' /\ Wanted' = Wanted
BY DEF ProxyInv, Routed, Wanted, Entry

LEMMA Opened ==
  ASSUME ProxyInv, NEW p, OnPage(p)
  PROVE  /\ tests' \subseteq Tests /\ latency' \in [ProxyId -> Badges] /\ form' = << >>
         /\ tests' = {} /\ \A id \in ProxyId : latency'[id].badge # "tested"
<1>1. Untested \in Badges /\ Untested.badge # "tested"
  BY DEF Untested, Badges
<1> QED
  BY <1>1 DEF OnPage

LEMMA TurnInv ==
  ASSUME ProxyInv, NEW p, Turn(p)
  PROVE  ProxyInv'
<1>1. UNCHANGED <<proxyList, activeProxyId, calls, route, switches>>
  BY DEF Turn, network
<1>2. /\ tests' \subseteq Tests /\ latency' \in [ProxyId -> Badges] /\ form' = << >>
      /\ tests' = {} /\ \A id \in ProxyId : latency'[id].badge # "tested"
  BY Opened DEF Turn
<1>3. ProxyTypes'
  BY <1>1, <1>2 DEF ProxyInv, ProxyTypes
<1>4. Measured'
  BY <1>1, <1>2, ProxyFacts DEF ProxyInv, Measured
<1> QED
  BY <1>1, <1>3, <1>4, Looks DEF ProxyInv

LEMMA FormInv ==
  ASSUME ProxyInv, OpenAdd \/ Cancel \/ \E id \in ProxyId : OpenEdit(id)
  PROVE  ProxyInv'
<1>1. UNCHANGED <<proxyList, activeProxyId, calls, route, switches, latency, tests>>
  BY DEF OpenAdd, Cancel, OpenEdit, network
<1>2. form' = << >> \/ form' = <<Direct>> \/ \E id \in ProxyId : form' = <<id>>
  BY DEF OpenAdd, Cancel, OpenEdit
<1>3. ProxyTypes'
  BY <1>1, <1>2 DEF ProxyInv, ProxyTypes
<1>4. Measured'
  BY <1>1 DEF ProxyInv, Measured
<1> QED
  BY <1>1, <1>3, <1>4, Looks DEF ProxyInv

\* The form is saved: a proxy is added, or the edited one is applied if it is active.
LEMMA SaveInv ==
  ASSUME ProxyInv, NEW a \in Address, Save(a)
  PROVE  ProxyInv'
<1>1. UNCHANGED <<activeProxyId, latency, tests, route>> /\ form' = << >>
  BY DEF Save
<1>2. /\ switches' \in Switches /\ switches.made <= switches'.made
      /\ switches'.failed = switches.failed /\ switches'.alone = switches.alone
      /\ form = <<Direct>> => switches'.made = switches.made + 1
  <2>1. switches \in Switches /\ switches.acts + 1 \in Nat /\ switches.made + 1 \in Nat
    BY ProxyFacts DEF ProxyInv, Switches
  <2>2. CASE form = <<Direct>>
    <3>1. switches' = [switches EXCEPT !.acts = switches.acts + 1, !.made = switches.made + 1]
      BY <2>2 DEF Save
    <3>2. /\ switches' \in Switches /\ switches'.made = switches.made + 1
          /\ switches'.failed = switches.failed /\ switches'.alone = switches.alone
      BY <2>1, <3>1 DEF Switches
    <3>3. switches.made \in Nat
      BY <2>1 DEF Switches
    <3> QED
      BY <3>2, <3>3
  <2>3. CASE form # <<Direct>>
    <3>1. switches' = [switches EXCEPT !.acts = switches.acts + 1]
      BY <2>3 DEF Save
    <3> QED
      BY <2>1, <2>3, <3>1 DEF Switches
  <2> QED
    BY <2>2, <2>3
<1>3. CASE form = <<Direct>> /\ Cardinality(DOMAIN proxyList) < ProxyLimit
  <2> DEFINE new == switches.made + 1
  <2>1. /\ proxyList' = [i \in DOMAIN proxyList \cup {new} |-> IF i = new THEN a ELSE proxyList[i]]
        /\ calls' = calls /\ switches.made < MaxProxies
    BY <1>3 DEF Save, addProxy
  <2>2. new \in ProxyId /\ new \notin DOMAIN proxyList /\ new # Direct
    BY <2>1, ProxyAssumption, ProxyFacts DEF ProxyInv, ProxyTypes, ProxyId, Switches
  <2> HIDE DEF new
  <2>3. /\ DOMAIN proxyList' = DOMAIN proxyList \cup {new}
        /\ proxyList' \in [DOMAIN proxyList' -> Address]
        /\ \A i \in DOMAIN proxyList : proxyList'[i] = proxyList[i]
    BY <2>1, <2>2 DEF ProxyInv, ProxyTypes
  <2>4. \A id \in DOMAIN proxyList' : id <= switches'.made
    <3>1. switches'.made = new /\ switches.made \in Nat /\ new = switches.made + 1
      BY <1>2, <1>3, ProxyFacts DEF ProxyInv, Switches, new
    <3> QED
      BY <2>3, <3>1, ProxyFacts DEF ProxyInv, ProxyTypes
  <2>5. ProxyTypes'
    BY <1>1, <1>2, <2>1, <2>2, <2>3, <2>4 DEF ProxyInv, ProxyTypes
  <2>6. Wanted' = Wanted
    BY <1>1, <2>3 DEF ProxyInv, ProxyTypes, Wanted, Entry
  <2>7. Routed' /\ Measured'
    BY <1>1, <1>2, <2>1, <2>6 DEF ProxyInv, Routed, Measured
  <2> QED
    BY <2>5, <2>7 DEF ProxyInv
<1>4. CASE form = <<Direct>> /\ ~(Cardinality(DOMAIN proxyList) < ProxyLimit)
  <2>1. proxyList' = proxyList /\ calls' = calls
    BY <1>4 DEF Save, addProxy
  <2>2. \A id \in DOMAIN proxyList' : id <= switches'.made
    BY <1>2, <2>1, ProxyFacts DEF ProxyInv, ProxyTypes, Switches
  <2>3. ProxyTypes'
    BY <1>1, <1>2, <2>1, <2>2 DEF ProxyInv, ProxyTypes
  <2>4. Routed' /\ Measured'
    BY <1>1, <1>2, <2>1 DEF ProxyInv, Routed, Measured, Wanted, Entry
  <2> QED
    BY <2>3, <2>4 DEF ProxyInv
<1>5. CASE form # <<Direct>>
  <2>1. PICK id \in ProxyId : form = <<id>>
    BY <1>5 DEF ProxyInv, ProxyTypes, Save
  <2>2. /\ proxyList' = [i \in DOMAIN proxyList |-> IF i = id THEN a ELSE proxyList[i]]
        /\ IF activeProxyId = id THEN calls' = Append(calls, [id |-> id, address |-> a]) ELSE calls' = calls
    BY <1>5, <2>1 DEF Save, updateProxy, Call
  <2>3. /\ DOMAIN proxyList' = DOMAIN proxyList /\ proxyList' \in [DOMAIN proxyList' -> Address]
        /\ \A i \in DOMAIN proxyList : proxyList'[i] = IF i = id THEN a ELSE proxyList[i]
    BY <2>2 DEF ProxyInv, ProxyTypes
  <2>4. \A i \in DOMAIN proxyList' : i <= switches'.made
    BY <1>2, <2>3, ProxyFacts DEF ProxyInv, ProxyTypes, Switches
  <2>5. CASE activeProxyId = id
    <3>1. id # Direct /\ id \in DOMAIN proxyList
      BY <2>5, ProxyFacts DEF ProxyInv, ProxyTypes
    <3>2. Wanted' = [id |-> id, address |-> a] /\ Wanted' \in Routes
      BY <1>1, <2>3, <2>5, <3>1 DEF Wanted, Entry, Routes
    <3>3. calls' \in Seq(Routes) /\ calls' # << >> /\ calls'[Len(calls')] = Wanted'
      BY <2>2, <2>5, <3>2, CallLast DEF ProxyInv, ProxyTypes
    <3>4. ProxyTypes'
      BY <1>1, <1>2, <2>3, <2>4, <3>3 DEF ProxyInv, ProxyTypes
    <3>5. Routed'
      BY <3>3 DEF Routed
    <3>6. Measured'
      BY <1>1, <1>2 DEF ProxyInv, Measured
    <3> QED
      BY <3>4, <3>5, <3>6 DEF ProxyInv
  <2>6. CASE activeProxyId # id
    <3>1. Wanted' = Wanted /\ calls' = calls
      BY <1>1, <2>2, <2>3, <2>6 DEF ProxyInv, ProxyTypes, Wanted, Entry
    <3>2. ProxyTypes'
      BY <1>1, <1>2, <2>3, <2>4, <3>1 DEF ProxyInv, ProxyTypes
    <3>3. Routed' /\ Measured'
      BY <1>1, <1>2, <3>1 DEF ProxyInv, Routed, Measured
    <3> QED
      BY <3>2, <3>3 DEF ProxyInv
  <2> QED
    BY <2>5, <2>6
<1> QED
  BY <1>3, <1>4, <1>5

\* No proxy is active any more.
LEMMA TurnedOff ==
  ASSUME ProxyInv, activeProxyId' = Direct, calls' = Append(calls, Unrouted), ProxyAct,
         UNCHANGED <<tests, route>>, latency' \in [ProxyId -> Badges],
         form' = form, DOMAIN proxyList' \subseteq DOMAIN proxyList,
         proxyList' \in [DOMAIN proxyList' -> Address]
  PROVE  ProxyInv'
<1>1. /\ switches' \in Switches /\ switches'.made = switches.made
      /\ switches'.failed = switches.failed /\ switches'.alone = switches.alone
  BY ActSwitches, ProxyFacts DEF ProxyInv
<1>2. calls' \in Seq(Routes) /\ calls' # << >> /\ calls'[Len(calls')] = Unrouted
  BY CallLast, ProxyFacts DEF ProxyInv, ProxyTypes
<1>3. Wanted' = Unrouted
  BY DEF Wanted
<1>4. ProxyTypes'
  BY <1>1, <1>2 DEF ProxyInv, ProxyTypes
<1>5. Routed'
  BY <1>2, <1>3 DEF Routed
<1>6. \A t \in tests : t.id \in ProxyId
  BY DEF ProxyInv, ProxyTypes, Tests
<1>7. Measured'
  BY <1>6, ProxyFacts DEF ProxyInv, Measured
<1> QED
  BY <1>4, <1>5, <1>7 DEF ProxyInv

LEMMA DeleteInv ==
  ASSUME ProxyInv, NEW id \in ProxyId, Delete(id)
  PROVE  ProxyInv'
<1>1. /\ proxyList' = [i \in DOMAIN proxyList \ {id} |-> proxyList[i]] /\ ProxyAct
      /\ UNCHANGED <<form, latency, tests, route>>
      /\ IF activeProxyId = id THEN activeProxyId' = Direct /\ calls' = Append(calls, Unrouted)
                               ELSE UNCHANGED <<activeProxyId, calls>>
  BY DEF Delete, removeProxy, Call, view
<1>2. /\ DOMAIN proxyList' = DOMAIN proxyList \ {id} /\ proxyList' \in [DOMAIN proxyList' -> Address]
      /\ \A i \in DOMAIN proxyList \ {id} : proxyList'[i] = proxyList[i]
  BY <1>1 DEF ProxyInv, ProxyTypes
<1>3. CASE activeProxyId = id
  BY <1>1, <1>2, <1>3, TurnedOff DEF ProxyInv, ProxyTypes
<1>4. CASE activeProxyId # id
  <2>1. /\ switches' \in Switches /\ switches'.made = switches.made
        /\ switches'.failed = switches.failed /\ switches'.alone = switches.alone
    BY <1>1, ActSwitches, ProxyFacts DEF ProxyInv
  <2>2. Wanted' = Wanted
    BY <1>1, <1>2, <1>4 DEF ProxyInv, ProxyTypes, Wanted, Entry
  <2>3. ProxyTypes'
    BY <1>1, <1>2, <1>4, <2>1 DEF ProxyInv, ProxyTypes
  <2>4. Routed' /\ Measured'
    BY <1>1, <1>4, <2>1, <2>2 DEF ProxyInv, Routed, Measured
  <2> QED
    BY <2>3, <2>4 DEF ProxyInv
<1> QED
  BY <1>3, <1>4

LEMMA OffInv ==
  ASSUME ProxyInv, GoDirect \/ \E id \in ProxyId : TurnOff(id)
  PROVE  ProxyInv'
<1>1. Untested \in Badges
  BY DEF Untested, Badges
<1>2. /\ activeProxyId' = Direct /\ calls' = Append(calls, Unrouted) /\ ProxyAct
      /\ UNCHANGED <<proxyList, tests, form, route>>
      /\ latency' = latency \/ \E id \in ProxyId : latency' = [latency EXCEPT ![id] = Untested]
  BY DEF GoDirect, TurnOff, setActiveProxy, Call, view
<1>3. latency' \in [ProxyId -> Badges]
  BY <1>1, <1>2 DEF ProxyInv, ProxyTypes
<1> QED
  BY <1>2, <1>3, TurnedOff DEF ProxyInv, ProxyTypes

\* Another proxy becomes active and is tested.
LEMMA TurnOnInv ==
  ASSUME ProxyInv, NEW id \in ProxyId, TurnOn(id)
  PROVE  ProxyInv'
<1> DEFINE t0 == [n |-> switches.acts, id |-> id, waits |-> TRUE, via |-> Direct]
           testing == [badge |-> "testing", via |-> Direct]
           alone == tests = {}
<1>1. /\ id \in DOMAIN proxyList /\ activeProxyId' = id /\ calls' = Append(calls, Entry(id))
      /\ latency' = [latency EXCEPT ![id] = testing] /\ tests' = tests \cup {t0}
      /\ UNCHANGED <<proxyList, form, route>>
      /\ switches' = [switches EXCEPT !.acts = @ + 1, !.alone = alone]
  BY ProxyFacts DEF ProxyInv, TurnOn, setActiveProxy, Test, Call
<1>2. switches \in Switches /\ switches.acts + 1 \in Nat /\ alone \in BOOLEAN
  BY ProxyFacts DEF ProxyInv, Switches
<1>3. t0 \in Tests /\ t0.waits
  BY <1>2 DEF Tests, Switches
<1>4. testing \in Badges /\ testing.badge # "tested"
  BY DEF Badges
<1>5. alone => tests = {}
  OBVIOUS
<1> HIDE DEF t0, testing, alone
<1>6. latency' \in [ProxyId -> Badges] /\ latency'[id].badge # "tested"
  BY <1>1, <1>4 DEF ProxyInv, ProxyTypes
<1>7. switches' \in Switches /\ switches'.made = switches.made /\ switches'.alone = alone
  BY <1>1, <1>2 DEF Switches
<1>8. Entry(id) \in Routes /\ id # Direct
  BY <1>1, ProxyFacts DEF ProxyInv
<1>9. calls' \in Seq(Routes) /\ calls' # << >> /\ calls'[Len(calls')] = Entry(id)
  BY <1>1, <1>8, CallLast DEF ProxyInv, ProxyTypes
<1>10. Wanted' = Entry(id)
  BY <1>1, <1>8 DEF Wanted, Entry
<1>11. ProxyTypes'
  BY <1>1, <1>3, <1>6, <1>9, <1>7 DEF ProxyInv, ProxyTypes
<1>12. Routed'
  BY <1>9, <1>10 DEF Routed
<1>13. Measured'
  BY <1>1, <1>3, <1>5, <1>6, <1>7 DEF Measured
<1> QED
  BY <1>11, <1>12, <1>13 DEF ProxyInv

LEMMA RetestInv ==
  ASSUME ProxyInv, NEW id \in ProxyId, Retest(id)
  PROVE  ProxyInv'
<1> DEFINE t0 == [n |-> switches.acts, id |-> id, waits |-> FALSE, via |-> route.id]
           testing == [badge |-> "testing", via |-> Direct]
           alone == switches.alone /\ tests = {} /\ calls = << >>
<1>1. /\ activeProxyId = id /\ id # Direct
      /\ latency' = [latency EXCEPT ![id] = testing] /\ tests' = tests \cup {t0}
      /\ UNCHANGED <<proxyList, activeProxyId, form, calls, route>>
      /\ switches' = [switches EXCEPT !.acts = @ + 1, !.alone = alone]
  BY DEF Retest, Test, network
<1>2. switches \in Switches /\ alone \in BOOLEAN /\ switches.acts + 1 \in Nat
  BY ProxyFacts DEF ProxyInv, Switches
<1>3. t0 \in Tests /\ t0.via = route.id
  BY <1>2 DEF ProxyInv, ProxyTypes, Tests, Switches, Routes
<1>4. testing \in Badges /\ testing.badge # "tested"
  BY DEF Badges
<1>5. alone => route.id = id
  BY <1>1, ProxyFacts DEF ProxyInv, Routed
<1>6. alone => switches.alone /\ tests = {}
  OBVIOUS
<1> HIDE DEF t0, testing, alone
<1>7. /\ switches' \in Switches /\ switches'.made = switches.made /\ switches'.failed = switches.failed
      /\ switches'.alone = alone
  BY <1>1, <1>2 DEF Switches
<1>8. latency' \in [ProxyId -> Badges] /\ latency'[id].badge # "tested"
  BY <1>1, <1>4 DEF ProxyInv, ProxyTypes
<1>9. ProxyTypes'
  BY <1>1, <1>3, <1>7, <1>8 DEF ProxyInv, ProxyTypes
<1>10. Routed'
  BY <1>1, <1>6, <1>7 DEF ProxyInv, Routed, Wanted, Entry
<1>11. Measured'
  BY <1>1, <1>3, <1>5, <1>6, <1>7, <1>8 DEF Measured
<1> QED
  BY <1>9, <1>10, <1>11 DEF ProxyInv

LEMMA MeasureInv ==
  ASSUME ProxyInv, NEW t \in tests, Measure(t)
  PROVE  ProxyInv'
<1> DEFINE t1 == [t EXCEPT !.waits = FALSE, !.via = route.id]
<1>1. /\ UNCHANGED <<proxyList, activeProxyId, calls, route, switches, form, latency>>
      /\ tests' = (tests \ {t}) \cup {t1} /\ calls = << >>
  BY DEF Measure, network
<1>2. t1 \in Tests /\ t1.via = route.id
  BY DEF ProxyInv, ProxyTypes, Tests, Routes
<1>3. switches.alone => route.id = activeProxyId
  BY <1>1, ProxyFacts DEF ProxyInv, Routed
<1> HIDE DEF t1
<1>4. ProxyTypes'
  BY <1>1, <1>2 DEF ProxyInv, ProxyTypes
<1>5. Measured'
  BY <1>1, <1>2, <1>3 DEF ProxyInv, Measured
<1> QED
  BY <1>1, <1>4, <1>5, Looks DEF ProxyInv

LEMMA TestedInv ==
  ASSUME ProxyInv, NEW t \in tests, Tested(t)
  PROVE  ProxyInv'
<1> DEFINE shown == [badge |-> "tested", via |-> t.via]
<1>1. /\ UNCHANGED <<proxyList, activeProxyId, calls, route, switches, form>>
      /\ tests' = tests \ {t} /\ latency' = [latency EXCEPT ![t.id] = shown] /\ ~t.waits
  BY DEF Tested, network
<1>2. shown \in Badges /\ shown.via = t.via /\ t.id \in ProxyId
  BY DEF ProxyInv, ProxyTypes, Tests, Badges
<1> HIDE DEF shown
<1>3. /\ latency' \in [ProxyId -> Badges] /\ latency'[t.id].via = t.via
      /\ \A id \in ProxyId : id # t.id => latency'[id] = latency[id]
  BY <1>1, <1>2 DEF ProxyInv, ProxyTypes
<1>4. ProxyTypes'
  BY <1>1, <1>3 DEF ProxyInv, ProxyTypes
<1>5. Measured'
  BY <1>1, <1>3, ProxyFacts DEF ProxyInv, Measured
<1> QED
  BY <1>1, <1>4, <1>5, Looks DEF ProxyInv

\* The plugin carries out a call, or fails; the application starts again.
LEMMA PluginInv ==
  ASSUME ProxyInv, Applied \/ NotApplied
  PROVE  ProxyInv'
<1>1. /\ calls # << >> /\ calls' = Tail(calls)
      /\ UNCHANGED <<proxyList, activeProxyId, form, latency, tests>>
  BY DEF Applied, NotApplied, view
<1>2. /\ Head(calls) \in Routes /\ Tail(calls) \in Seq(Routes)
      /\ Tail(calls) = << >> => Head(calls) = calls[Len(calls)]
      /\ Tail(calls) # << >> => Tail(calls)[Len(Tail(calls))] = calls[Len(calls)]
  BY <1>1, CallFirst DEF ProxyInv, ProxyTypes
<1>3. calls[Len(calls)] = Wanted /\ Wanted' = Wanted
  BY <1>1 DEF ProxyInv, Routed, Wanted, Entry
<1>4. /\ switches' \in Switches /\ switches'.made = switches.made
      /\ switches'.alone => switches.alone
      /\ \/ route' = Head(calls) /\ ~switches'.failed
         \/ route' = route /\ switches'.failed /\ ~switches'.alone
  <2>1. switches \in Switches /\ switches.acts + 1 \in Nat
    BY ProxyFacts DEF ProxyInv, Switches
  <2>2. CASE Applied
    <3>1. route' = Head(calls) /\ switches' = [switches EXCEPT !.failed = FALSE]
      BY <2>2 DEF Applied
    <3> QED
      BY <2>1, <3>1 DEF Switches
  <2>3. CASE NotApplied
    <3>1. route' = route /\ switches' = [switches EXCEPT !.acts = switches.acts + 1, !.failed = TRUE, !.alone = FALSE]
      BY <2>3 DEF NotApplied
    <3> QED
      BY <2>1, <3>1 DEF Switches
  <2> QED
    BY <2>2, <2>3
<1>5. ProxyTypes'
  BY <1>1, <1>2, <1>4 DEF ProxyInv, ProxyTypes
<1>6. Routed'
  BY <1>1, <1>2, <1>3, <1>4 DEF Routed
<1>7. Measured'
  BY <1>1, <1>4 DEF ProxyInv, Measured
<1> QED
  BY <1>5, <1>6, <1>7 DEF ProxyInv

\* The call at the start of the application.
LEMMA Starts ==
  ASSUME ProxyTypes
  PROVE  LET c == AtStart(proxyList, activeProxyId) IN
         /\ c \in Seq(Routes)
         /\ c # << >> => c[Len(c)] = Wanted
         /\ c = << >> => Wanted = Unrouted
<1>1. CASE activeProxyId \in DOMAIN proxyList
  <2>1. activeProxyId # Direct /\ Entry(activeProxyId) \in Routes
    BY <1>1, ProxyFacts DEF ProxyTypes
  <2>2. AtStart(proxyList, activeProxyId) = <<Entry(activeProxyId)>> /\ Wanted = Entry(activeProxyId)
    BY <1>1, <2>1 DEF AtStart, Entry, Wanted
  <2>3. <<Entry(activeProxyId)>> \in Seq(Routes) /\ Len(<<Entry(activeProxyId)>>) = 1
    BY <2>1
  <2> QED
    BY <2>2, <2>3
<1>2. CASE activeProxyId \notin DOMAIN proxyList
  BY <1>2, EmptySeq DEF ProxyTypes, AtStart, Wanted
<1> QED
  BY <1>1, <1>2

LEMMA RestartInv ==
  ASSUME ProxyInv, Restart
  PROVE  ProxyInv'
<1>1. /\ UNCHANGED <<proxyList, activeProxyId>> /\ calls' = AtStart(proxyList, activeProxyId) /\ route' = Unrouted
      /\ OnPage("none") /\ switches' = [switches EXCEPT !.acts = @ + 1, !.failed = FALSE]
  BY DEF Restart
<1>2. switches' \in Switches /\ switches'.made = switches.made /\ ~switches'.failed
  <2>1. switches \in Switches /\ switches.acts + 1 \in Nat
    BY ProxyFacts DEF ProxyInv, Switches
  <2> QED
    BY <1>1, <2>1 DEF Switches
<1>3. /\ tests' \subseteq Tests /\ latency' \in [ProxyId -> Badges] /\ form' = << >>
      /\ tests' = {} /\ \A id \in ProxyId : latency'[id].badge # "tested"
  BY <1>1, Opened
<1>4. /\ calls' \in Seq(Routes) /\ (calls' # << >> => calls'[Len(calls')] = Wanted)
      /\ calls' = << >> => Wanted = Unrouted
  BY <1>1, Starts DEF ProxyInv
<1>5. Wanted' = Wanted /\ Unrouted \in Routes
  BY <1>1, ProxyFacts DEF ProxyInv, Wanted, Entry
<1>6. ProxyTypes'
  BY <1>1, <1>2, <1>3, <1>4, <1>5 DEF ProxyInv, ProxyTypes
<1>7. Routed'
  BY <1>1, <1>2, <1>4, <1>5 DEF Routed
<1>8. Measured'
  BY <1>1, <1>3, ProxyFacts DEF ProxyInv, Measured
<1> QED
  BY <1>6, <1>7, <1>8 DEF ProxyInv

LEMMA ProxyStart == ProxyInit => ProxyInv
<1> SUFFICES ASSUME ProxyInit  PROVE ProxyInv
  OBVIOUS
<1>1. PICK old \in SUBSET {1} :
        /\ proxyList \in [old -> Address] /\ activeProxyId \in old \cup {Direct}
        /\ calls = AtStart(proxyList, activeProxyId) /\ route = Unrouted
        /\ form = << >> /\ tests = {} /\ latency = [id \in ProxyId |-> Untested]
        /\ switches = [acts |-> 0, made |-> Cardinality(old), failed |-> FALSE, alone |-> TRUE]
  BY DEF ProxyInit
<1>2. old = {} \/ old = {1}
  BY <1>1
<1>3. Cardinality(old) \in Nat /\ \A id \in old : id <= Cardinality(old)
  <2>1. CASE old = {}
    BY <2>1, FS_EmptySet
  <2>2. CASE old = {1}
    <3>1. Cardinality({1}) = 1
      BY FS_Singleton
    <3> QED
      BY <2>2, <3>1
  <2> QED
    BY <1>2, <2>1, <2>2
<1>4. 1 \in ProxyId
  BY ProxyAssumption DEF ProxyId
<1>5. /\ switches \in Switches /\ switches.made = Cardinality(old) /\ ~switches.failed
  BY <1>1, <1>3 DEF Switches
<1>6. Untested \in Badges /\ Untested.badge # "tested" /\ Unrouted \in Routes
  BY DEF Untested, Badges, Unrouted, Routes
<1>7. DOMAIN proxyList = old /\ DOMAIN proxyList \subseteq ProxyId
  BY <1>1, <1>2, <1>4
<1>8. /\ calls \in Seq(Routes) /\ (calls # << >> => calls[Len(calls)] = Wanted)
      /\ calls = << >> => Wanted = Unrouted
  <2>1. CASE activeProxyId \in old
    <3>1. activeProxyId # Direct /\ Entry(activeProxyId) \in Routes
      BY <1>1, <1>7, <2>1, ProxyAssumption DEF ProxyId, Entry, Routes
    <3>2. calls = <<Entry(activeProxyId)>> /\ Wanted = Entry(activeProxyId)
      BY <1>1, <1>7, <2>1, <3>1 DEF AtStart, Entry, Wanted
    <3> QED
      BY <3>1, <3>2
  <2>2. CASE activeProxyId \notin old
    BY <1>1, <1>7, <2>2, EmptySeq DEF AtStart, Wanted
  <2> QED
    BY <2>1, <2>2
<1>9. ProxyTypes
  BY <1>1, <1>3, <1>5, <1>6, <1>7, <1>8 DEF ProxyTypes
<1>10. Routed
  BY <1>1, <1>5, <1>8 DEF Routed
<1>11. Measured
  BY <1>1, <1>6, <1>9, ProxyFacts DEF Measured
<1> QED
  BY <1>9, <1>10, <1>11 DEF ProxyInv

LEMMA ProxyStep ==
  ASSUME ProxyInv, [ProxyNext]_proxyVars
  PROVE  ProxyInv'
<1>1. CASE UNCHANGED proxyVars
  BY <1>1 DEF proxyVars, network, view, ProxyInv, ProxyTypes, Routed, Measured, Wanted, Entry
<1>2. CASE ProxyNext
  BY <1>2, TurnInv, FormInv, OffInv, PluginInv, RestartInv, DeleteInv, TurnOnInv, RetestInv, SaveInv,
     MeasureInv, TestedInv DEF ProxyNext
<1> QED
  BY <1>1, <1>2

\* When the plugin has carried out its calls the WebView uses the proxy that is shown as
\* active, as last edited, however adding, editing, removing, switching, failures and
\* restarts overlap, and an undisturbed latency was measured through it (store/index.ts).
THEOREM ActiveIsUsed == ProxySpec => []ShownIsUsed
<1>1. ProxyInv => ShownIsUsed
  BY DEF ProxyInv, Routed, Measured, Wanted, ShownIsUsed
<1> QED
  BY <1>1, ProxyStart, ProxyStep, PTL DEF ProxySpec
-----------------------------------------------------------------------------
(* The invariant of the chat page.                                         *)

Known == Kept \cup dropped
Read(m) == m \in dropped \/ (m \in Kept /\ rows[m].read)

\* An entry belongs to its chat and says of its message what the server knows.
EntryFits(c, e) ==
  /\ e.m \in Incoming => Home[e.m] = c /\ ~e.tagged
  /\ e.m \in Own => e.m \in DOMAIN own /\ own[e.m].c = c
  /\ ~e.tagged => e.key = "server" /\ e.status \in {"none", "sent"}
  /\ e.read => Read(e.m)
  /\ e.status = "sent" => e.m \in Known
  /\ e.status = "failed" => e.m \notin Known \cup outbox
  /\ e.key = "server" => e.m \in Known /\ e.status # "queued"
  /\ e.key = "client" => e.status \in {"queued", "failed"}
StoreFits == \A c \in Chats : \A e \in store[c] : EntryFits(c, e)
PageFits(l) == \A e \in l.page : EntryFits(l.c, e) /\ ~e.tagged
PagesFit == \A l \in fetches : PageFits(l)

\* A frame says of its message what the server knows.
FrameFits(f) ==
  /\ f.m \in Own => f.m \in DOMAIN own
  /\ IF f.t = "failed" THEN f.m \in Own \ Known ELSE f.m \in Known
  /\ f.t = "read" => f.read
  /\ f.read => Read(f.m)
FramesFit ==
  /\ \A i \in DOMAIN wire : FrameFits(wire[i])
  /\ \A i \in DOMAIN queue : FrameFits(queue[i]) /\ IsMessage(queue[i])

\* A message is pushed as new once, before it is replayed.
Behind(f, g) == g.t = "message" => ~(IsMessage(f) /\ f.m = g.m)
NewOnce ==
  /\ \A i, j \in DOMAIN wire : i < j => Behind(wire[i], wire[j])
  /\ \A i, j \in DOMAIN queue : i < j => Behind(queue[i], queue[j])
  /\ \A i \in DOMAIN queue, j \in DOMAIN wire : Behind(queue[i], wire[j])

QuoteFits(q, c) == q = Nothing \/ Home[q] = c
WritingFits ==
  /\ Own \cap Known \subseteq DOMAIN own
  /\ \A m \in DOMAIN own : QuoteFits(own[m].quote, own[m].c)
  /\ screen.reply # Nothing => Mounted
  /\ Mounted => QuoteFits(screen.reply, screen.route.c)
  /\ \A s \in sends : s.m \notin DOMAIN own /\ QuoteFits(s.quote, s.c)
  /\ \A s, t \in sends : s.m = t.m => s = t
  /\ upload # Nothing =>
       /\ QuoteFits(upload.quote, upload.c) /\ upload.left # << >> /\ IsInjective(upload.left)
       /\ \A i \in DOMAIN upload.left : upload.left[i] \notin DOMAIN own \cup {s.m : s \in sends}

\* What a badge may have counted: messages that are not on their way any more, and are in the
\* store unless they expired.
Coming(m) == \/ \E i \in DOMAIN wire : wire[i].t = "message" /\ wire[i].m = m
             \/ \E i \in DOMAIN queue : queue[i].t = "message" /\ queue[i].m = m
Countable(c) == {m \in Incoming \cap Known : /\ Home[m] = c /\ m \notin seen \ aged /\ ~Coming(m)
                                             /\ m \in aged \/ Found(c, m) # {}}
BadgesFit ==
  /\ IsFiniteSet(Known)
  /\ \A m \in seen \ aged : m \in Incoming /\ Found(Home[m], m) # {}
  /\ \A c \in Chats : /\ On(c) => unread[c] = 0
                      /\ unread[c] <= Cardinality(Countable(c))

\* A private chat shows the client id of a message in one entry only: its ack settles that one.
Lone == \A c \in Private : \A e, f \in store[c] : e.tagged /\ f.tagged /\ e.m = f.m => e = f

\* An entry that is still queued after the answer: beside it its group shows what the server has.
Queueing(e) == e.key = "client" /\ e.status = "queued"
Settles == \A c \in Chats : \A e \in store[c] :
  Queueing(e) /\ e.m \notin outbox => c \in Group /\ Found(c, e.m) # {}

ChatInv == /\ ChatTypeOK /\ StoreFits /\ PagesFit /\ FramesFit /\ NewOnce
           /\ WritingFits /\ BadgesFit /\ ReadMeansSeen /\ Lone /\ Settles

-----------------------------------------------------------------------------
(* What the operators of the chat page do to its state.                    *)

ServerTypes == /\ Kept \subseteq Message /\ rows \in [Kept -> [read : BOOLEAN]]
               /\ dropped \subseteq Message /\ aged \subseteq Message /\ seen \subseteq Message /\ Kept \cap dropped = {}
StoreTypes == store \in [Chats -> SUBSET ChatEntry] /\ unread \in [Chats -> Nat]
LoadTypes == fetches \subseteq [c : Chats, step : {"asked", "answered"}, page : SUBSET ChatEntry]
Upload == [c : Chats, quote : Incoming \cup {Nothing}, left : Seq(Picture), mounted : BOOLEAN]
WritingTypes == /\ DOMAIN own \subseteq Own /\ own \in [DOMAIN own -> [c : Chats, quote : Incoming \cup {Nothing}]]
                /\ sends \subseteq Send /\ outbox \subseteq DOMAIN own /\ last \in Own \cup {Nothing}
                /\ upload \in Upload \cup {Nothing}
                /\ \A s, t \in sends : s # t => s.mounted # t.mounted
NetTypes == /\ up \in BOOLEAN /\ wire \in Seq(Frame) /\ queue \in Seq(Frame)
            /\ budget \in [loads : 0 .. MaxLoads, events : 0 .. MaxEvents]
ScreenType == screen \in [route : Route, reply : Incoming \cup {Nothing}]

LEMMA ChatTypes ==
  ChatTypeOK <=> ServerTypes /\ StoreTypes /\ LoadTypes /\ WritingTypes /\ NetTypes /\ ScreenType
BY DEF ChatTypeOK, ServerTypes, StoreTypes, LoadTypes, WritingTypes, NetTypes, ScreenType, Upload

LEMMA ChatTypesNext ==
  ChatTypeOK' <=> ServerTypes' /\ StoreTypes' /\ LoadTypes' /\ WritingTypes' /\ NetTypes' /\ ScreenType'
BY DEF ChatTypeOK, ServerTypes, StoreTypes, LoadTypes, WritingTypes, NetTypes, ScreenType, Upload, Kept

LEMMA RouteFacts ==
  ASSUME ScreenType
  PROVE  /\ screen.route \in Route /\ screen.reply \in Incoming \cup {Nothing}
         /\ Mounted => screen.route.c \in Chats
         /\ screen.route.kind # "chats" => screen.route.c \in Chats
BY DEF ScreenType, Route, Mounted

\* The display of a store changes no row but for being read, and only rows that are shown.
LEMMA DisplayFacts ==
  ASSUME ServerTypes, NEW r \in Route, NEW s \in [Chats -> SUBSET ChatEntry], Display(r, s, rows)
  PROVE  /\ store' = s /\ Kept' = Kept
         /\ rows' \in [Kept -> [read : BOOLEAN]]
         /\ \A m \in Kept : rows[m].read => rows'[m].read
         /\ \A m \in Kept : rows'[m].read /\ ~rows[m].read => m \in seen'
         /\ seen \subseteq seen' /\ seen' \subseteq Message
         /\ \A m \in seen' \ seen : r.kind = "chat" /\ m \in Incoming /\ \E e \in s[r.c] : e.m = m
         /\ r.kind = "chat" => r.c \in Chats /\ \A e \in s[r.c] : e.m \in Incoming => e.m \in seen'
<1>1. r.kind = "chat" => r.c \in Chats
  BY DEF Route
<1>2. r.kind = "chat" => \A e \in s[r.c] : e.m \in Message
  BY <1>1 DEF ChatEntry
<1>3. seen' = IF r.kind = "chat" THEN seen \cup ({e.m : e \in s[r.c]} \cap Incoming) ELSE seen
  BY DEF Display
<1>4. rows' = [m \in DOMAIN rows |-> [read |-> rows[m].read \/ m \in Receipts(r, s)]]
  BY DEF Display
<1>5. \A m \in Receipts(r, s) : r.kind = "chat" /\ m \in Incoming /\ \E e \in s[r.c] : e.m = m
  BY DEF Receipts
<1>6. \A m \in Receipts(r, s) : m \in seen'
  BY <1>3, <1>5
<1>7. Kept' = Kept /\ \A m \in Kept : rows'[m].read <=> (rows[m].read \/ m \in Receipts(r, s))
  BY <1>4 DEF Kept
<1>8. rows' \in [Kept -> [read : BOOLEAN]]
  <2> DEFINE b(m) == rows[m].read \/ m \in Receipts(r, s)
  <2>1. \A m \in Kept : b(m) \in BOOLEAN
    OBVIOUS
  <2> QED
    BY <1>4, <2>1 DEF Kept
<1>9. seen \subseteq seen' /\ seen' \subseteq Message
  BY <1>2, <1>3 DEF ServerTypes
<1>10. \A m \in seen' \ seen : r.kind = "chat" /\ m \in Incoming /\ \E e \in s[r.c] : e.m = m
  BY <1>3
<1>11. r.kind = "chat" => \A e \in s[r.c] : e.m \in Incoming => e.m \in seen'
  BY <1>3
<1>12. store' = s
  BY DEF Display
<1> QED
  BY <1>1, <1>6, <1>7, <1>8, <1>9, <1>10, <1>11, <1>12

LEMMA ChangedEntry ==
  ASSUME NEW e \in ChatEntry, NEW key \in {"server", "client"}, NEW status \in {"none", "queued", "sent", "failed"}, NEW read \in BOOLEAN,
         NEW tagged \in BOOLEAN
  PROVE  /\ [e EXCEPT !.key = key, !.status = status] \in ChatEntry
         /\ [e EXCEPT !.key = key, !.status = status, !.read = read] \in ChatEntry
         /\ [e EXCEPT !.status = status] \in ChatEntry
         /\ [e EXCEPT !.read = read] \in ChatEntry
         /\ [e EXCEPT !.tagged = tagged] \in ChatEntry
BY DEF ChatEntry

\* The fields of a changed entry.
LEMMA ChangedFields ==
  ASSUME NEW e \in ChatEntry, NEW key, NEW status, NEW read, NEW tagged
  PROVE  /\ LET f == [e EXCEPT !.key = key, !.status = status]
            IN  f.m = e.m /\ f.key = key /\ f.tagged = e.tagged /\ f.status = status /\ f.read = e.read
         /\ LET f == [e EXCEPT !.key = key, !.status = status, !.read = read]
            IN  f.m = e.m /\ f.key = key /\ f.tagged = e.tagged /\ f.status = status /\ f.read = read
         /\ LET f == [e EXCEPT !.status = status]
            IN  f.m = e.m /\ f.key = e.key /\ f.tagged = e.tagged /\ f.status = status /\ f.read = e.read
         /\ LET f == [e EXCEPT !.read = read]
            IN  f.m = e.m /\ f.key = e.key /\ f.tagged = e.tagged /\ f.status = e.status /\ f.read = read
         /\ LET f == [e EXCEPT !.tagged = tagged]
            IN  f.m = e.m /\ f.key = e.key /\ f.tagged = tagged /\ f.status = e.status /\ f.read = e.read
BY DEF ChatEntry

LEMMA SetStoreTypes ==
  ASSUME StoreTypes, NEW c \in Chats, NEW es \in SUBSET ChatEntry
  PROVE  /\ SetStore(c, es) \in [Chats -> SUBSET ChatEntry]
         /\ SetStore(c, es)[c] = es
         /\ \A d \in Chats : d # c => SetStore(c, es)[d] = store[d]
BY DEF SetStore, StoreTypes

LEMMA MergedTypes ==
  ASSUME StoreTypes, LoadTypes, NEW l \in fetches
  PROVE  l.c \in Chats /\ l.page \in SUBSET ChatEntry /\ Merged(l, store[l.c]) \in SUBSET ChatEntry
BY DEF StoreTypes, LoadTypes, Merged

LEMMA BooleanMember ==
  ASSUME NEW x, NEW S
  PROVE  \E b \in BOOLEAN : b = (x \in S)
<1>1. (x \in S) \in BOOLEAN
  OBVIOUS
<1> QED
  BY <1>1

LEMMA AddMessageTypes ==
  ASSUME StoreTypes, NEW c \in Chats, NEW f \in Frame
  PROVE  AddMessage(c, f) \in SUBSET ChatEntry
<1>1. f.read \in BOOLEAN /\ f.m \in Message /\ store[c] \in SUBSET ChatEntry
  BY DEF Frame, StoreTypes
<1>2. Received(f) \in ChatEntry
  <2>1. (f.m \in Own) \in BOOLEAN
    OBVIOUS
  <2> QED
    BY <1>1, <2>1 DEF Received, ChatEntry
<1>3. \A e \in store[c] : [e EXCEPT !.key = "server", !.status = "sent", !.read = f.read] \in ChatEntry
  BY <1>1, ChangedEntry
<1>4. PICK b \in BOOLEAN : b = (f.m \in Own)
  BY BooleanMember
<1>5. \A e \in store[c] : [e EXCEPT !.tagged = b] \in ChatEntry
  BY <1>1, ChangedEntry
<1>6. \A e \in store[c] : [e EXCEPT !.tagged = f.m \in Own] \in ChatEntry
  BY <1>4, <1>5
<1>7. c \in Private \cup Group
  BY DEF Chats
<1> QED
  BY <1>1, <1>2, <1>3, <1>6, <1>7 DEF AddMessage

LEMMA DoneFields ==
  ASSUME NEW e \in ChatEntry
  PROVE  /\ Done(e) \in ChatEntry
         /\ Done(e).m = e.m /\ Done(e).key = "server" /\ Done(e).tagged = e.tagged /\ Done(e).status = "sent" /\ Done(e).read = e.read
<1>1. Done(e) \in ChatEntry
  BY DEF Done, ChatEntry
<1>2. Done(e).m = e.m /\ Done(e).key = "server" /\ Done(e).tagged = e.tagged /\ Done(e).status = "sent" /\ Done(e).read = e.read
  BY ChangedFields DEF Done
<1> QED
  BY <1>1, <1>2

\* What an ack leaves of an entry.
Acked(m, e, d) == /\ e.m = d.m /\ e.tagged = d.tagged /\ e.read = d.read
                  /\ \/ e.key = d.key /\ e.status = d.status
                     \/ d.m = m /\ e.key = "server" /\ e.status = "sent"

LEMMA PendingEntries ==
  ASSUME NEW c, NEW m, store[c] \in SUBSET ChatEntry
  PROVE  /\ ByPending(c, m) \in SUBSET ChatEntry
         /\ \A e \in ByPending(c, m) : \E d \in store[c] : Acked(m, e, d)
         /\ \A d \in store[c] : \E e \in ByPending(c, m) : Acked(m, e, d)
<1>1. \A d \in store[c] : d \in ChatEntry /\ Acked(m, d, d) /\ Done(d) \in ChatEntry /\ (d.m = m => Acked(m, Done(d), d))
  BY DoneFields DEF Acked
<1>2. CASE last = m
  BY <1>1, <1>2 DEF ByPending
<1>3. CASE last # m
  BY <1>1, <1>3 DEF ByPending
<1> QED
  BY <1>2, <1>3

\* The entries after an ack are those before it, and each stays.
LEMMA SettledEntries ==
  ASSUME NEW c, NEW m, store[c] \in SUBSET ChatEntry, NEW new \in Settled(c, m)
  PROVE  /\ new \in SUBSET ChatEntry
         /\ \A e \in new : \E d \in store[c] : Acked(m, e, d)
         /\ \A d \in store[c] : \E e \in new : Acked(m, e, d)
<1> DEFINE es == ByPending(c, m)
           ns == {e \in es : e.m = m /\ \E d \in es : d.m = m /\ d.tagged /\ d.key = e.key}
<1>1. /\ es \in SUBSET ChatEntry
      /\ \A e \in es : \E d \in store[c] : Acked(m, e, d)
      /\ \A d \in store[c] : \E e \in es : Acked(m, e, d)
  BY PendingEntries
<1>2. Settled(c, m) = IF ns = {} THEN {es} ELSE {(es \ {e}) \cup {Done(e)} : e \in ns}
  BY DEF Settled
<1> HIDE DEF es
<1>3. CASE ns = {}
  BY <1>1, <1>2, <1>3
<1>4. CASE ns # {}
  <2>1. PICK e \in ns : new = (es \ {e}) \cup {Done(e)}
    BY <1>2, <1>4
  <2>2. e \in es /\ e.m = m
    OBVIOUS
  <2>3. Done(e) \in ChatEntry /\ Acked(m, Done(e), e)
    BY <1>1, <2>2, DoneFields DEF Acked
  <2>4. \A x, y, z : Acked(m, x, y) /\ Acked(m, y, z) => Acked(m, x, z)
    BY DEF Acked
  <2>5. ASSUME NEW x \in new
        PROVE  \E d \in store[c] : Acked(m, x, d)
    <3>1. \E y \in es : x = y \/ Acked(m, x, y)
      BY <2>1, <2>2, <2>3
    <3> QED
      BY <1>1, <2>4, <3>1
  <2>6. ASSUME NEW d \in store[c]
        PROVE  \E x \in new : Acked(m, x, d)
    <3>1. PICK y \in es : Acked(m, y, d)
      BY <1>1
    <3>2. y \in new \/ y = e
      BY <2>1
    <3> QED
      BY <2>1, <2>3, <2>4, <3>1, <3>2
  <2> QED
    BY <1>1, <2>1, <2>3, <2>5, <2>6
<1> QED
  BY <1>3, <1>4

\* An ack keeps the client id of the message in one entry.
LEMMA SettledLone ==
  ASSUME NEW c, NEW m, store[c] \in SUBSET ChatEntry, NEW new \in Settled(c, m),
         \A x, y \in store[c] : x.tagged /\ y.tagged /\ x.m = y.m => x = y
  PROVE  \A x, y \in new : x.tagged /\ y.tagged /\ x.m = y.m => x = y
<1> DEFINE es == ByPending(c, m)
           ns == {e \in es : e.m = m /\ \E d \in es : d.m = m /\ d.tagged /\ d.key = e.key}
           pending(e) == IF last = m /\ e.m = m /\ e.key = "client" THEN Done(e) ELSE e
<1>1. \A e \in store[c] : pending(e) \in ChatEntry /\ pending(e).m = e.m /\ pending(e).tagged = e.tagged
  BY DoneFields
<1>2. es = {pending(e) : e \in store[c]}
  BY DEF ByPending
<1> HIDE DEF pending
<1>3. es \subseteq ChatEntry /\ \A x, y \in es : x.tagged /\ y.tagged /\ x.m = y.m => x = y
  BY <1>1, <1>2
<1>4. Settled(c, m) = IF ns = {} THEN {es} ELSE {(es \ {e}) \cup {Done(e)} : e \in ns}
  BY DEF Settled
<1> HIDE DEF es
<1>5. CASE ns = {}
  BY <1>3, <1>4, <1>5
<1>6. CASE ns # {}
  <2>1. PICK e \in ns : new = (es \ {e}) \cup {Done(e)}
    BY <1>4, <1>6
  <2>2. e \in es /\ Done(e).m = e.m /\ Done(e).tagged = e.tagged
    BY <1>3, DoneFields
  <2> QED
    BY <1>3, <2>1, <2>2
<1> QED
  BY <1>5, <1>6

\* A queued entry that an ack leaves: the ack went to one with the server's id.
LEMMA SettledFound ==
  ASSUME NEW c, NEW m, store[c] \in SUBSET ChatEntry, NEW new \in Settled(c, m),
         \A d \in store[c] : d.key = "client" => d.tagged,
         NEW e \in new, e.m = m, Queueing(e)
  PROVE  /\ \E x \in new : x.m = m /\ x.key = "server"
         /\ ~\A x, y \in store[c] : x.tagged /\ y.tagged /\ x.m = y.m => x = y
<1> DEFINE es == ByPending(c, m)
           ns == {x \in es : x.m = m /\ \E d \in es : d.m = m /\ d.tagged /\ d.key = x.key}
<1>1. Settled(c, m) = IF ns = {} THEN {es} ELSE {(es \ {x}) \cup {Done(x)} : x \in ns}
  BY DEF Settled
<1>2. \A x \in es : x \in ChatEntry
  BY PendingEntries
<1>3. \A x \in es : x \in store[c] \/ (x.m = m /\ x.key = "server" /\ last = m)
  BY DoneFields DEF ByPending
<1>4. \A x \in es : x.key = "client" => x \in store[c] /\ x.tagged
  BY <1>3
<1>5. last = m => \A x \in es : ~(x.m = m /\ x.key = "client")
  BY DoneFields DEF ByPending
<1> HIDE DEF es
<1>6. \A x \in ns : Done(x).m = m /\ Done(x).key = "server"
  BY <1>2, DoneFields
<1>7. e \in es
  BY <1>1, <1>6 DEF Queueing
<1>8. last # m /\ e \in store[c] /\ e.tagged /\ e \in ns
  BY <1>4, <1>5, <1>7 DEF Queueing
<1>9. PICK x \in ns : new = (es \ {x}) \cup {Done(x)}
  BY <1>1, <1>8
<1>10. x # e
  BY <1>6, <1>9 DEF Queueing
<1>11. PICK d \in es : d.m = m /\ d.tagged /\ d.key = x.key
  OBVIOUS
<1>12. x \in store[c] /\ d \in store[c]
  BY <1>3, <1>8, <1>11
<1>13. ~\A y, z \in store[c] : y.tagged /\ z.tagged /\ y.m = z.m => y = z
  <2>1. CASE x.key = "client"
    <3>1. x.tagged /\ x.m = m
      BY <1>4, <2>1
    <3> QED
      BY <1>8, <1>10, <1>12, <3>1
  <2>2. CASE x.key # "client"
    <3>1. d # e
      BY <1>11, <2>2 DEF Queueing
    <3> QED
      BY <1>8, <1>11, <1>12, <3>1
  <2> QED
    BY <2>1, <2>2
<1> QED
  BY <1>6, <1>9, <1>13

LEMMA LoadMessagesTypes ==
  ASSUME NetTypes, LoadTypes, NEW c \in Chats, LoadMessages(c)
  PROVE  /\ budget' \in [loads : 0 .. MaxLoads, events : 0 .. MaxEvents]
         /\ LoadTypes'
BY ChatAssumption DEF LoadMessages, NetTypes, LoadTypes

-----------------------------------------------------------------------------
(* Types.                                                                  *)

LEMMA FrameTypes ==
  ASSUME NetTypes
  PROVE  /\ wire # << >> => Head(wire) \in Frame /\ Tail(wire) \in Seq(Frame)
         /\ queue # << >> => Head(queue) \in Frame /\ Tail(queue) \in Seq(Frame)
BY DEF NetTypes

LEMMA PushTypes ==
  ASSUME NetTypes, NEW t \in {"message", "replay", "ack", "failed", "read"}, NEW m \in Message, NEW read \in BOOLEAN,
         Push(t, m, read)
  PROVE  wire' \in Seq(Frame)
BY DEF NetTypes, Push, Frame

LEMMA EventTypes ==
  ASSUME NetTypes, Event
  PROVE  budget' \in [loads : 0 .. MaxLoads, events : 0 .. MaxEvents]
BY ChatAssumption DEF NetTypes, Event

LEMMA ServerCalm ==
  ASSUME ServerTypes, UNCHANGED <<rows, dropped, aged, seen>>
  PROVE  ServerTypes'
BY DEF ServerTypes, Kept

LEMMA StoreCalm ==
  ASSUME StoreTypes, UNCHANGED <<store, unread>>
  PROVE  StoreTypes'
BY DEF StoreTypes

LEMMA WritingCalm ==
  ASSUME WritingTypes, UNCHANGED <<own, sends, upload, outbox, last>>
  PROVE  WritingTypes'
BY DEF WritingTypes

LEMMA NetCalm ==
  ASSUME NetTypes, UNCHANGED <<up, wire, queue, budget>>
  PROVE  NetTypes'
BY DEF NetTypes

LEMMA LoadCalm ==
  ASSUME LoadTypes, fetches' \subseteq fetches
  PROVE  LoadTypes'
BY DEF LoadTypes

LEMMA ScreenCalm ==
  ASSUME ScreenType, UNCHANGED screen
  PROVE  ScreenType'
BY DEF ScreenType

\* A store of entries is displayed.
LEMMA ShowTypes ==
  ASSUME ServerTypes, StoreTypes, ScreenType, NEW s \in [Chats -> SUBSET ChatEntry], ShowStore(s), UNCHANGED <<dropped, aged>>
  PROVE  ServerTypes' /\ store' \in [Chats -> SUBSET ChatEntry]
<1>1. screen.route \in Route /\ Display(screen.route, s, rows)
  BY RouteFacts DEF ShowStore
<1> QED
  BY <1>1, DisplayFacts DEF ServerTypes

LEMMA OpenChatTypes ==
  ASSUME ChatTypeOK, NEW c \in Chats, OpenChat(c)
  PROVE  ChatTypeOK'
<1>1. ServerTypes /\ StoreTypes /\ LoadTypes /\ WritingTypes /\ NetTypes /\ ScreenType
  BY ChatTypes
<1> DEFINE r == [kind |-> "chat", c |-> c]
<1>2. r \in Route /\ Display(r, store, rows) /\ LoadMessages(c) /\ store \in [Chats -> SUBSET ChatEntry]
  BY <1>1 DEF Route, OpenChat, StoreTypes
<1>3. screen' = [route |-> r, reply |-> Nothing]
  BY DEF OpenChat
<1>4. ScreenType'
  BY <1>2, <1>3 DEF ScreenType
<1> HIDE DEF r
<1>5. ServerTypes' /\ store' = store
  BY <1>1, <1>2, DisplayFacts DEF ServerTypes, OpenChat
<1>6. StoreTypes'
  BY <1>1, <1>5 DEF StoreTypes, OpenChat
<1>7. LoadTypes' /\ NetTypes'
  BY <1>1, <1>2, LoadMessagesTypes DEF OpenChat, NetTypes
<1>8. WritingTypes'
  BY <1>1, WritingCalm DEF OpenChat, writing
<1> QED
  BY <1>4, <1>5, <1>6, <1>7, <1>8, ChatTypesNext

LEMMA LeaveTypes ==
  ASSUME ChatTypeOK, NEW r \in Route, LeaveTo(r)
  PROVE  ChatTypeOK'
<1>1. ServerTypes /\ StoreTypes /\ LoadTypes /\ WritingTypes /\ NetTypes /\ ScreenType
  BY ChatTypes
<1>2. ScreenType'
  BY DEF ScreenType, LeaveTo
<1>3. \A s \in sends : s.mounted /\ s \in Send
  BY <1>1 DEF LeaveTo, Abandoned, WritingTypes, Send
<1>4. \A s, t \in sends : s = t
  BY <1>1, <1>3 DEF WritingTypes
<1>5. sends' \subseteq Send /\ \A s, t \in sends' : s = t
  BY <1>3, <1>4 DEF LeaveTo, Send
<1>6. upload' \in Upload \cup {Nothing}
  <2>1. CASE upload = Nothing
    BY <2>1 DEF LeaveTo
  <2>2. CASE upload # Nothing
    <3>1. upload \in Upload
      BY <1>1, <2>2 DEF WritingTypes
    <3>2. [upload EXCEPT !.mounted = FALSE] \in Upload
      BY <3>1 DEF Upload
    <3> QED
      BY <2>2, <3>2 DEF LeaveTo
  <2> QED
    BY <2>1, <2>2
<1>7. WritingTypes'
  BY <1>1, <1>5, <1>6 DEF WritingTypes, LeaveTo
<1>8. ServerTypes' /\ StoreTypes' /\ LoadTypes' /\ NetTypes'
  BY <1>1, ServerCalm, StoreCalm, LoadCalm, NetCalm DEF LeaveTo, serverVars, net
<1> QED
  BY <1>2, <1>7, <1>8, ChatTypesNext

LEMMA AnswerHistoryTypes ==
  ASSUME ChatTypeOK, NEW l \in fetches, AnswerHistory(l)
  PROVE  ChatTypeOK'
<1>1. ServerTypes /\ StoreTypes /\ LoadTypes /\ WritingTypes /\ NetTypes /\ ScreenType
  BY ChatTypes
<1> DEFINE expired == {m \in Kept \cap aged : ChatOf(m) = l.c}
           left == Kept \ expired
           history == {HistoryRow(m) : m \in {k \in left : ChatOf(k) = l.c}}
<1>2. \A m \in Kept : HistoryRow(m) \in ChatEntry
  BY <1>1 DEF ServerTypes, HistoryRow, ChatEntry
<1>3. history \subseteq ChatEntry
  BY <1>2
<1>4. rows' = [m \in left |-> rows[m]] /\ dropped' = dropped \cup expired
  BY DEF AnswerHistory
<1>5. ServerTypes'
  BY <1>1, <1>4 DEF ServerTypes, Kept, AnswerHistory
<1>6. fetches' = (fetches \ {l}) \cup {[l EXCEPT !.step = "answered", !.page = history]}
  BY DEF AnswerHistory
<1> HIDE DEF history
<1>7. [l EXCEPT !.step = "answered", !.page = history] \in [c : Chats, step : {"asked", "answered"}, page : SUBSET ChatEntry]
  BY <1>1, <1>3 DEF LoadTypes
<1>8. LoadTypes'
  BY <1>1, <1>6, <1>7 DEF LoadTypes
<1>9. StoreTypes' /\ WritingTypes' /\ NetTypes' /\ ScreenType'
  BY <1>1, StoreCalm, WritingCalm, NetCalm, ScreenCalm DEF AnswerHistory, writing, net
<1> QED
  BY <1>5, <1>8, <1>9, ChatTypesNext

LEMMA ReceiveTypes ==
  ASSUME ChatTypeOK, FramesFit, Receive
  PROVE  ChatTypeOK'
<1>1. ServerTypes /\ StoreTypes /\ LoadTypes /\ WritingTypes /\ NetTypes /\ ScreenType
  BY ChatTypes
<1> DEFINE f == Head(queue)
           c == ChatOf(f.m)
<1>2. queue # << >> /\ f \in Frame /\ Tail(queue) \in Seq(Frame)
  BY <1>1, FrameTypes DEF Receive
<1>3. FrameFits(f)
  BY <1>1, <1>2 DEF FramesFit, NetTypes
<1>4. c \in Chats
  BY <1>1, <1>2, <1>3, ChatAssumption DEF FrameFits, ChatOf, WritingTypes, Frame, Message
<1>5. AddMessage(c, f) \in SUBSET ChatEntry
  BY <1>1, <1>2, <1>4, AddMessageTypes
<1>6. SetStore(c, AddMessage(c, f)) \in [Chats -> SUBSET ChatEntry]
  BY <1>1, <1>4, <1>5, SetStoreTypes
<1>7. NetTypes' /\ LoadTypes' /\ WritingTypes' /\ ScreenType'
  BY <1>1, <1>2, LoadCalm, WritingCalm, ScreenCalm DEF Receive, NetTypes, writing
<1>8. CASE f.t = "replay" /\ f.m \in aged
  BY <1>1, <1>7, <1>8, ServerCalm, StoreCalm, ChatTypesNext DEF Receive
<1>9. CASE ~(f.t = "replay" /\ f.m \in aged)
  <2>1. /\ ShowStore(SetStore(c, AddMessage(c, f))) /\ UNCHANGED <<dropped, aged>>
        /\ unread' = [unread EXCEPT ![c] = @ + (IF Counted(c, f.m) THEN 1 ELSE 0)]
    BY <1>9 DEF Receive
  <2> HIDE DEF c, f
  <2>2. ServerTypes' /\ store' \in [Chats -> SUBSET ChatEntry]
    BY <1>1, <1>6, <2>1, ShowTypes
  <2>3. unread' \in [Chats -> Nat]
    BY <1>1, <1>4, <2>1 DEF StoreTypes
  <2> QED
    BY <1>7, <2>2, <2>3, ChatTypesNext DEF StoreTypes
<1> QED
  BY <1>8, <1>9

LEMMA AnswerTypes ==
  ASSUME ChatTypeOK, FramesFit, NEW m \in Own, ReceiveAck(m) \/ ReceiveFailed(m) \/ ReceiveRead(m)
  PROVE  ChatTypeOK'
<1>1. ServerTypes /\ StoreTypes /\ LoadTypes /\ WritingTypes /\ NetTypes /\ ScreenType
  BY ChatTypes
<1>2. wire # << >> /\ Tail(wire) \in Seq(Frame) /\ wire' = Tail(wire) /\ UNCHANGED <<up, queue, budget>>
  BY <1>1, FrameTypes DEF ReceiveAck, ReceiveFailed, ReceiveRead, Handled
<1>3. ServerTypes' /\ NetTypes' /\ LoadTypes' /\ ScreenType'
  BY <1>1, <1>2, ServerCalm, LoadCalm, ScreenCalm DEF ReceiveAck, ReceiveFailed, ReceiveRead, NetTypes, serverVars
<1>4. WritingTypes'
  BY <1>1 DEF ReceiveAck, ReceiveFailed, ReceiveRead, WritingTypes, writing
<1>5. unread' = unread /\ \A c \in Chats : store[c] \subseteq ChatEntry
  BY <1>1 DEF ReceiveAck, ReceiveFailed, ReceiveRead, StoreTypes
<1>6. CASE ReceiveAck(m)
  <2>1. FrameFits(Head(wire)) /\ Head(wire).m = m
    BY <1>1, <1>2, <1>6 DEF FramesFit, NetTypes, ReceiveAck, Handled
  <2>2. own[m].c \in Chats
    BY <1>1, <2>1 DEF FrameFits, WritingTypes
  <2>3. PICK es \in Settled(own[m].c, m) : store' = SetStore(own[m].c, es)
    BY <1>6 DEF ReceiveAck
  <2>4. es \in SUBSET ChatEntry
    BY <1>5, <2>2, SettledEntries
  <2>5. StoreTypes'
    BY <1>1, <1>5, <2>2, <2>3, <2>4, SetStoreTypes DEF StoreTypes
  <2> QED
    BY <1>3, <1>4, <2>5, ChatTypesNext
<1>7. CASE ReceiveFailed(m)
  <2> DEFINE es == {IF e \in Optimistic(own[m].c, m) THEN [e EXCEPT !.status = "failed"] ELSE e : e \in store[own[m].c]}
  <2>1. FrameFits(Head(wire)) /\ Head(wire).m = m
    BY <1>1, <1>2, <1>7 DEF FramesFit, NetTypes, ReceiveFailed, Handled
  <2>2. m \in DOMAIN own /\ own[m].c \in Chats
    BY <1>1, <2>1 DEF FrameFits, WritingTypes
  <2>3. \A e \in store[own[m].c] : [e EXCEPT !.status = "failed"] \in ChatEntry
    BY <1>5, <2>2, ChangedEntry
  <2>4. es \subseteq ChatEntry
    BY <1>5, <2>2, <2>3
  <2>5. store' = [store EXCEPT ![own[m].c] = es]
    BY <1>7 DEF ReceiveFailed
  <2> HIDE DEF es
  <2>6. StoreTypes'
    BY <1>1, <1>5, <2>2, <2>4, <2>5 DEF StoreTypes
  <2> QED
    BY <1>3, <1>4, <2>6, ChatTypesNext
<1>8. CASE ReceiveRead(m)
  <2> DEFINE es(c) == {IF e \in Found(c, m) THEN [e EXCEPT !.read = TRUE] ELSE e : e \in store[c]}
  <2>1. \A c \in Chats : \A e \in store[c] : [e EXCEPT !.read = TRUE] \in ChatEntry
    BY <1>5, ChangedEntry
  <2>2. \A c \in Chats : es(c) \subseteq ChatEntry
    BY <1>5, <2>1
  <2>3. store' = [c \in Chats |-> es(c)]
    BY <1>8 DEF ReceiveRead
  <2> HIDE DEF es
  <2>4. StoreTypes'
    BY <1>1, <1>5, <2>2, <2>3 DEF StoreTypes
  <2> QED
    BY <1>3, <1>4, <2>4, ChatTypesNext
<1> QED
  BY <1>6, <1>7, <1>8

LEMMA EncryptedTypes ==
  ASSUME ChatTypeOK, NEW s \in sends, Encrypted(s)
  PROVE  ChatTypeOK'
<1>1. ServerTypes /\ StoreTypes /\ LoadTypes /\ WritingTypes /\ NetTypes /\ ScreenType
  BY ChatTypes
<1>2. s \in Send /\ s.m \in Own /\ s.c \in Chats /\ s.quote \in Incoming \cup {Nothing}
  BY <1>1 DEF WritingTypes, Send
<1>3. Queued(s.m) \in ChatEntry
  BY <1>2 DEF Queued, ChatEntry, Message
<1>4. store[s.c] \cup {Queued(s.m)} \in SUBSET ChatEntry
  BY <1>1, <1>2, <1>3 DEF StoreTypes
<1>5. SetStore(s.c, store[s.c] \cup {Queued(s.m)}) \in [Chats -> SUBSET ChatEntry]
  BY <1>1, <1>2, <1>4, SetStoreTypes
<1>6. ServerTypes' /\ store' \in [Chats -> SUBSET ChatEntry]
  BY <1>1, <1>5, ShowTypes DEF Encrypted
<1>7. StoreTypes' /\ NetTypes' /\ LoadTypes'
  BY <1>1, <1>6, NetCalm, LoadCalm DEF Encrypted, StoreTypes, net
<1>8. ScreenType'
  BY <1>1 DEF Encrypted, ScreenType
<1>9. own' \in [DOMAIN own \cup {s.m} -> [c : Chats, quote : Incoming \cup {Nothing}]]
  BY <1>1, <1>2 DEF Encrypted, WritingTypes
<1>10. WritingTypes'
  BY <1>1, <1>2, <1>9 DEF Encrypted, WritingTypes
<1> QED
  BY <1>6, <1>7, <1>8, <1>10, ChatTypesNext

LEMMA NextImageTypes ==
  ASSUME WritingTypes, upload # Nothing, upload.left # << >>, NextImage
  PROVE  upload' \in Upload \cup {Nothing} /\ Head(upload.left) \in Picture
<1>1. upload \in Upload
  BY DEF WritingTypes
<1>2. upload.left \in Seq(Picture) /\ Head(upload.left) \in Picture /\ Tail(upload.left) \in Seq(Picture)
  BY <1>1 DEF Upload
<1>3. [upload EXCEPT !.left = Tail(@)] \in Upload
  BY <1>1, <1>2 DEF Upload
<1> QED
  BY <1>2, <1>3 DEF NextImage

LEMMA UploadTypes ==
  ASSUME ChatTypeOK, WritingFits, Uploaded \/ UploadFails
  PROVE  ChatTypeOK'
<1>1. ServerTypes /\ StoreTypes /\ LoadTypes /\ WritingTypes /\ NetTypes /\ ScreenType
  BY ChatTypes
<1>2. upload \in Upload /\ upload' \in Upload \cup {Nothing} /\ Head(upload.left) \in Picture
  BY <1>1, NextImageTypes DEF Uploaded, UploadFails, WritingFits, WritingTypes
<1>3. ServerTypes' /\ StoreTypes' /\ LoadTypes' /\ ScreenType'
  BY <1>1, ServerCalm, StoreCalm, LoadCalm, ScreenCalm DEF Uploaded, UploadFails, serverVars
<1>4. NetTypes'
  BY <1>1, EventTypes DEF Uploaded, UploadFails, NetTypes, net
<1>5. CASE UNCHANGED <<sends, last>>
  BY <1>1, <1>2, <1>3, <1>4, <1>5, ChatTypesNext DEF Uploaded, UploadFails, WritingTypes
<1>6. CASE Uploaded /\ ~Sending(upload.mounted)
  <2> DEFINE new == [m |-> Head(upload.left), c |-> upload.c, quote |-> upload.quote, mounted |-> upload.mounted]
  <2>1. new \in Send /\ new.mounted = upload.mounted
    BY <1>2 DEF Upload, Send, Own
  <2>2. sends' = sends \cup {new} /\ UNCHANGED <<own, outbox>> /\ last' \in Own
    BY <1>2, <1>6 DEF Uploaded, Compose, Own
  <2> HIDE DEF new
  <2>3. \A t \in sends : t.mounted # new.mounted
    BY <1>6, <2>1 DEF Sending
  <2>4. WritingTypes'
    BY <1>1, <1>2, <2>1, <2>2, <2>3 DEF WritingTypes
  <2> QED
    BY <1>3, <1>4, <2>4, ChatTypesNext
<1> QED
  BY <1>5, <1>6 DEF Uploaded, UploadFails

LEMMA PickTypes ==
  ASSUME NEW ms \in Picks
  PROVE  ms \in Seq(Picture) /\ ms # << >> /\ IsInjective(ms)
BY ChatAssumption DEF Picks, SeqOf

LEMMA SendTypes ==
  ASSUME ChatTypeOK, NEW m \in Text, SendText(m)
  PROVE  ChatTypeOK'
<1>1. ServerTypes /\ StoreTypes /\ LoadTypes /\ WritingTypes /\ NetTypes /\ ScreenType
  BY ChatTypes
<1> DEFINE new == [m |-> m, c |-> screen.route.c, quote |-> screen.reply, mounted |-> TRUE]
<1>2. new \in Send /\ new.mounted
  BY <1>1, RouteFacts DEF SendText, Send, Own
<1>3. sends' = sends \cup {new} /\ UNCHANGED <<own, outbox, upload>> /\ last' \in Own
  BY DEF SendText, Compose, Own
<1> HIDE DEF new
<1>4. \A t \in sends : ~t.mounted /\ t.mounted \in BOOLEAN
  BY <1>1 DEF SendText, Sending, WritingTypes, Send
<1>5. WritingTypes'
  BY <1>1, <1>2, <1>3, <1>4 DEF WritingTypes
<1> QED
  BY <1>1, <1>5, ServerCalm, StoreCalm, LoadCalm, NetCalm, ScreenCalm, ChatTypesNext DEF SendText, serverVars, net

LEMMA ChatTypesKept ==
  ASSUME ChatInv, ChatNext
  PROVE  ChatTypeOK'
<1>1. ServerTypes /\ StoreTypes /\ LoadTypes /\ WritingTypes /\ NetTypes /\ ScreenType
  BY ChatTypes DEF ChatInv
<1>2. ChatTypeOK /\ FramesFit /\ WritingFits
  BY DEF ChatInv
<1>3. CASE \E c \in Chats : OpenChat(c)
  BY <1>2, <1>3, OpenChatTypes
<1>4. CASE GoBack \/ OpenAbout
  BY <1>1, <1>2, <1>4, RouteFacts, LeaveTypes DEF GoBack, OpenAbout, LeaveTo, Route
<1>5. CASE ReloadHistory
  <2>1. screen.route.c \in Chats /\ LoadMessages(screen.route.c)
    BY <1>1, <1>5, RouteFacts DEF ReloadHistory
  <2>2. LoadTypes' /\ NetTypes'
    BY <1>1, <1>5, <2>1, LoadMessagesTypes DEF ReloadHistory, NetTypes
  <2> QED
    BY <1>1, <1>5, <2>2, ServerCalm, StoreCalm, WritingCalm, ScreenCalm, ChatTypesNext DEF ReloadHistory, serverVars, writing
<1>6. CASE (\E m \in Incoming : ReplyTo(m)) \/ CancelReply
  <2>1. ScreenType'
    BY <1>1, <1>6 DEF ReplyTo, CancelReply, ScreenType
  <2> QED
    BY <1>1, <1>6, <2>1, ServerCalm, StoreCalm, LoadCalm, WritingCalm, NetCalm, ChatTypesNext DEF ReplyTo, CancelReply, serverVars, writing, net
<1>7. CASE \E m \in Text : SendText(m)
  BY <1>2, <1>7, SendTypes
<1>8. CASE \E ms \in Picks : PickFiles(ms)
  <2>1. PICK ms \in Picks : PickFiles(ms)
    BY <1>8
  <2>2. upload' \in Upload
    BY <1>1, <2>1, PickTypes, RouteFacts DEF PickFiles, Upload
  <2>3. WritingTypes'
    BY <1>1, <2>1, <2>2 DEF PickFiles, WritingTypes
  <2> QED
    BY <1>1, <2>1, <2>3, ServerCalm, StoreCalm, LoadCalm, NetCalm, ScreenCalm, ChatTypesNext DEF PickFiles, serverVars, net
<1>9. CASE \E l \in fetches : MergeHistory(l)
  <2>1. PICK l \in fetches : MergeHistory(l)
    BY <1>9
  <2>2. SetStore(l.c, Merged(l, store[l.c])) \in [Chats -> SUBSET ChatEntry]
    BY <1>1, MergedTypes, SetStoreTypes
  <2>3. ServerTypes' /\ StoreTypes'
    BY <1>1, <2>1, <2>2, ShowTypes DEF MergeHistory, StoreTypes
  <2> QED
    BY <1>1, <2>1, <2>3, LoadCalm, WritingCalm, NetCalm, ScreenCalm, ChatTypesNext DEF MergeHistory, writing, net
<1>10. CASE \E l \in fetches : LoadFails(l)
  <2>1. NetTypes'
    BY <1>1, <1>10, EventTypes DEF LoadFails, NetTypes
  <2> QED
    BY <1>1, <1>10, <2>1, ServerCalm, StoreCalm, LoadCalm, WritingCalm, ScreenCalm, ChatTypesNext DEF LoadFails, serverVars, writing
<1>11. CASE EnqueueSequenced
  <2>1. NetTypes'
    BY <1>1, <1>11, FrameTypes DEF EnqueueSequenced, NetTypes
  <2> QED
    BY <1>1, <1>11, <2>1, ServerCalm, StoreCalm, LoadCalm, WritingCalm, ScreenCalm, ChatTypesNext DEF EnqueueSequenced, serverVars, writing
<1>12. CASE Receive
  BY <1>2, <1>12, ReceiveTypes
<1>13. CASE \E m \in Own : ReceiveAck(m) \/ ReceiveFailed(m) \/ ReceiveRead(m)
  BY <1>2, <1>13, AnswerTypes
<1>14. CASE \E s \in sends : Encrypted(s)
  BY <1>2, <1>14, EncryptedTypes
<1>15. CASE \E s \in sends : SendFails(s)
  <2>1. NetTypes' /\ WritingTypes'
    BY <1>1, <1>15, EventTypes DEF SendFails, NetTypes, WritingTypes
  <2> QED
    BY <1>1, <1>15, <2>1, ServerCalm, StoreCalm, LoadCalm, ScreenCalm, ChatTypesNext DEF SendFails, serverVars
<1>16. CASE Uploaded \/ UploadFails
  BY <1>2, <1>16, UploadTypes
<1>17. CASE Cleanup
  <2> DEFINE s == [c \in Chats |-> IF c \in Timed THEN {e \in store[c] : e.m \notin aged} ELSE store[c]]
  <2>1. s \in [Chats -> SUBSET ChatEntry] /\ ShowStore(s)
    BY <1>1, <1>17 DEF StoreTypes, Cleanup
  <2> HIDE DEF s
  <2>2. ServerTypes' /\ StoreTypes'
    BY <1>1, <1>17, <2>1, ShowTypes DEF Cleanup, StoreTypes
  <2> QED
    BY <1>1, <1>17, <2>2, LoadCalm, WritingCalm, NetCalm, ScreenCalm, ChatTypesNext DEF Cleanup, writing, net
<1>18. CASE \E l \in fetches : AnswerHistory(l)
  BY <1>2, <1>18, AnswerHistoryTypes
<1>19. ASSUME NEW m \in Message, OthersSend(m) \/ StoreOwn(m) \/ PeerReads(m), UNCHANGED up
       PROVE  ChatTypeOK'
  <2>1. rows' = [k \in Kept \cup {m} |-> IF k = m THEN [read |-> FALSE] ELSE rows[k]] \/ PeerReads(m)
    BY <1>19 DEF OthersSend, StoreOwn, NewRow
  <2>2. m \notin dropped
    BY <1>1, <1>19 DEF OthersSend, StoreOwn, PeerReads, ServerTypes
  <2>3. ServerTypes'
    <3>1. CASE rows' = [k \in Kept \cup {m} |-> IF k = m THEN [read |-> FALSE] ELSE rows[k]]
      <4>1. rows' \in [Kept \cup {m} -> [read : BOOLEAN]]
        BY <1>1, <3>1 DEF ServerTypes
      <4> QED
        BY <1>1, <1>19, <2>2, <4>1 DEF OthersSend, StoreOwn, PeerReads, ServerTypes, Kept
    <3>2. CASE PeerReads(m)
      BY <1>1, <3>2 DEF PeerReads, ServerTypes, Kept
    <3> QED
      BY <2>1, <3>1, <3>2
  <2>4. wire' \in Seq(Frame)
    BY <1>1, <1>19, PushTypes DEF OthersSend, StoreOwn, PeerReads, NetTypes, net
  <2>5. NetTypes'
    BY <1>1, <1>19, <2>4, EventTypes DEF OthersSend, StoreOwn, PeerReads, NetTypes, net
  <2> QED
    BY <1>1, <1>19, <2>3, <2>5, StoreCalm, LoadCalm, WritingCalm, ScreenCalm, ChatTypesNext DEF OthersSend, StoreOwn, PeerReads, writing
<1>20. ASSUME NEW m \in Message, AckOwn(m) \/ RefuseOwn(m) \/ Replay(m)
       PROVE  ChatTypeOK'
  <2>1. m \in Kept => rows[m].read \in BOOLEAN
    BY <1>1 DEF ServerTypes
  <2>2. wire' \in Seq(Frame)
    BY <1>1, <1>20, <2>1, PushTypes DEF AckOwn, RefuseOwn, Replay
  <2>3. NetTypes'
    BY <1>1, <1>20, <2>2, EventTypes DEF AckOwn, RefuseOwn, Replay, NetTypes
  <2> QED
    BY <1>1, <1>20, <2>3, ServerCalm, StoreCalm, LoadCalm, WritingCalm, ScreenCalm, ChatTypesNext DEF AckOwn, RefuseOwn, Replay, serverVars, writing
<1>21. CASE \E m \in Message : Expire(m)
  <2>1. ServerTypes' /\ NetTypes'
    BY <1>1, <1>21, EventTypes DEF Expire, ServerTypes, NetTypes, Kept
  <2> QED
    BY <1>1, <1>21, <2>1, StoreCalm, LoadCalm, WritingCalm, ScreenCalm, ChatTypesNext DEF Expire, writing
<1>22. CASE Disconnect \/ Connect
  <2> << >> \in Seq(Frame)
    OBVIOUS
  <2>1. NetTypes'
    BY <1>1, <1>22, EventTypes DEF Disconnect, Connect, NetTypes
  <2> QED
    BY <1>1, <1>22, <2>1, ServerCalm, StoreCalm, LoadCalm, WritingCalm, ScreenCalm, ChatTypesNext DEF Disconnect, Connect, serverVars, writing
<1>23. \A m \in Message : OthersSend(m) \/ StoreOwn(m) \/ PeerReads(m) => UNCHANGED up
  BY DEF OthersSend, StoreOwn, PeerReads, net
<1>24. Incoming \subseteq Message /\ Own \subseteq Message
  BY DEF Message
<1> QED
  BY <1>3, <1>4, <1>5, <1>6, <1>7, <1>8, <1>9, <1>10, <1>11, <1>12, <1>13, <1>14, <1>15, <1>16, <1>17, <1>18,
     <1>19, <1>20, <1>21, <1>22, <1>23, <1>24 DEF ChatNext, User, Client, Server, Environment

-----------------------------------------------------------------------------
(* Entries stay true.                                                      *)

\* Nothing an entry or a frame speaks of changes, but for messages that are read.
Still == /\ Known' = Known /\ own' = own /\ outbox' = outbox
         /\ \A m \in Known : Read(m) => Read(m)'

\* All entries of the store and of the history pages stay true.
EntriesStay == \A c, e : EntryFits(c, e) => EntryFits(c, e)'

LEMMA StillEntries ==
  ASSUME Still
  PROVE  EntriesStay
BY DEF Still, EntriesStay, EntryFits, Read, Known

LEMMA StillFrame ==
  ASSUME Still, NEW f, FrameFits(f)
  PROVE  FrameFits(f)'
BY DEF Still, FrameFits, Read, Known

LEMMA CalmStill ==
  ASSUME UNCHANGED <<rows, dropped, own, outbox>>
  PROVE  Still
BY DEF Still, Known, Kept, Read

LEMMA ShowStill ==
  ASSUME ServerTypes, NEW r \in Route, NEW s \in [Chats -> SUBSET ChatEntry], Display(r, s, rows),
         UNCHANGED <<dropped, own, outbox>>
  PROVE  Still
BY DisplayFacts DEF Still, Known, Read

LEMMA HistoryStill ==
  ASSUME ServerTypes, NEW l, AnswerHistory(l)
  PROVE  Still
BY DEF Still, Known, Kept, Read, AnswerHistory, writing

LEMMA PeerStill ==
  ASSUME ServerTypes, NEW m, PeerReads(m)
  PROVE  Still
BY DEF Still, Known, Kept, Read, PeerReads, writing, ServerTypes

LEMMA NewRowFacts ==
  ASSUME NEW m, m \notin Known, NewRow(m), UNCHANGED dropped
  PROVE  /\ Known' = Known \cup {m} /\ Kept' = Kept \cup {m}
         /\ \A k \in Known : Read(k) <=> Read(k)'
         /\ \A k \in Kept : rows'[k] = rows[k]
         /\ ~rows'[m].read
BY DEF Known, Kept, Read, NewRow

LEMMA NewRowEntries ==
  ASSUME NEW m, m \notin Known, NewRow(m), m \in Incoming \cup outbox, UNCHANGED <<dropped, own, outbox>>
  PROVE  EntriesStay
<1> SUFFICES ASSUME NEW c, NEW e, EntryFits(c, e)
             PROVE  EntryFits(c, e)'
  BY DEF EntriesStay
<1>1. /\ Known' = Known \cup {m} /\ \A k \in Known : Read(k) <=> Read(k)'
  BY NewRowFacts
<1>2. e.read => Read(e.m)'
  BY <1>1 DEF EntryFits, Read, Known
<1>3. e.status = "failed" => e.m # m
  BY DEF EntryFits
<1> QED
  BY <1>1, <1>2, <1>3 DEF EntryFits

LEMMA StoreStays ==
  ASSUME EntriesStay, StoreFits, UNCHANGED store
  PROVE  StoreFits'
BY DEF EntriesStay, StoreFits

LEMMA PagesStay ==
  ASSUME EntriesStay, PagesFit, NEW F, F \subseteq fetches
  PROVE  \A l \in F : PageFits(l)'
BY DEF EntriesStay, PagesFit, PageFits

LEMMA FewerPages ==
  ASSUME EntriesStay, PagesFit, fetches' \subseteq fetches
  PROVE  PagesFit'
BY PagesStay DEF PagesFit

LEMMA LoadPages ==
  ASSUME EntriesStay, PagesFit, NEW c, LoadMessages(c)
  PROVE  PagesFit'
BY PagesStay DEF PagesFit, PageFits, LoadMessages

\* The entry that an ack or the message itself settles.
LEMMA SettledFits ==
  ASSUME NEW c, NEW e \in ChatEntry, EntryFits(c, e), e.tagged, e.m \in Known
  PROVE  /\ EntryFits(c, [e EXCEPT !.key = "server", !.status = "sent"])
         /\ \A read \in BOOLEAN : (read => Read(e.m)) => EntryFits(c, [e EXCEPT !.key = "server", !.status = "sent", !.read = read])
<1>1. EntryFits(c, [e EXCEPT !.key = "server", !.status = "sent"])
  BY ChangedFields DEF EntryFits
<1>2. ASSUME NEW read \in BOOLEAN, read => Read(e.m)
      PROVE  EntryFits(c, [e EXCEPT !.key = "server", !.status = "sent", !.read = read])
  BY <1>2, ChangedFields DEF EntryFits
<1> QED
  BY <1>1, <1>2

LEMMA ReadFits ==
  ASSUME NEW c, NEW e \in ChatEntry, EntryFits(c, e), Read(e.m)
  PROVE  EntryFits(c, [e EXCEPT !.read = TRUE])
<1>1. TRUE \in BOOLEAN
  OBVIOUS
<1> QED
  BY <1>1, ChangedFields DEF EntryFits

LEMMA MergedFits ==
  ASSUME StoreTypes, LoadTypes, StoreFits, PagesFit, NEW l \in fetches
  PROVE  \A e \in Merged(l, store[l.c]) : EntryFits(l.c, e)
BY MergedTypes DEF StoreFits, PagesFit, PageFits, Merged

LEMMA AddedFits ==
  ASSUME StoreTypes, StoreFits, NEW f \in Frame, FrameFits(f), IsMessage(f), ChatOf(f.m) \in Chats
  PROVE  \A e \in AddMessage(ChatOf(f.m), f) : EntryFits(ChatOf(f.m), e)
<1> DEFINE c == ChatOf(f.m)
<1>1. f.m \in Message /\ f.read \in BOOLEAN /\ f.m \in Known /\ (f.read => Read(f.m)) /\ store[c] \subseteq ChatEntry
  BY DEF Frame, FrameFits, IsMessage, StoreTypes
<1>2. \A e \in store[c] : EntryFits(c, e)
  BY DEF StoreFits
<1>3. EntryFits(c, Received(f))
  BY <1>1, ChatAssumption DEF Received, EntryFits, ChatOf, FrameFits, Message
<1>4. \A e \in Optimistic(c, f.m) : EntryFits(c, [e EXCEPT !.key = "server", !.status = "sent", !.read = f.read])
  BY <1>1, <1>2, SettledFits DEF Optimistic
<1>5. PICK b \in BOOLEAN : b = (f.m \in Own)
  BY BooleanMember
<1>6. ASSUME NEW e \in Found(c, f.m)
      PROVE  EntryFits(c, [e EXCEPT !.tagged = b])
  <2>1. e \in ChatEntry /\ EntryFits(c, e) /\ e.m = f.m /\ e.key = "server"
    BY <1>1, <1>2, <1>6 DEF Found
  <2>2. PICK d : d = [e EXCEPT !.tagged = b]
    OBVIOUS
  <2>3. d.m = e.m /\ d.key = e.key /\ d.tagged = b /\ d.status = e.status /\ d.read = e.read
    BY <2>1, <2>2, ChangedFields
  <2>4. ~b => ~e.tagged
    BY <1>1, <1>5, <2>1 DEF EntryFits, Message
  <2>5. b => e.m \notin Incoming
    BY <1>5, <2>1, ChatAssumption
  <2>6. EntryFits(c, d)
    BY <2>1, <2>3, <2>4, <2>5 DEF EntryFits
  <2> QED
    BY <2>2, <2>6
<1>7. \A e \in Found(c, f.m) : EntryFits(c, [e EXCEPT !.tagged = f.m \in Own])
  BY <1>5, <1>6
<1>8. c \in Private \cup Group
  BY DEF Chats
<1> QED
  BY <1>2, <1>3, <1>4, <1>7, <1>8 DEF AddMessage

LEMMA HistoryRowFits ==
  ASSUME WritingTypes, ServerTypes, WritingFits, NEW m \in Kept
  PROVE  EntryFits(ChatOf(m), HistoryRow(m)) /\ ~HistoryRow(m).tagged
<1>1. m \in Message /\ m \in Known /\ (m \in Own => m \in DOMAIN own)
  BY DEF ServerTypes, Known, WritingFits
<1> QED
  BY <1>1, ChatAssumption DEF EntryFits, HistoryRow, ChatOf, Read, Message

\* An own message was answered: what entries say stays true.
LEMMA AnsweredEntry ==
  ASSUME NEW m, outbox' = outbox \ {m}, UNCHANGED <<rows, dropped, own>>, NEW c, NEW e, EntryFits(c, e)
  PROVE  EntryFits(c, e)'
BY DEF EntryFits, Read, Known, Kept

LEMMA FirstFrame ==
  ASSUME NetTypes, FramesFit, NEW t, NEW m, Handled(t, m)
  PROVE  /\ Head(wire) \in Frame /\ FrameFits(Head(wire)) /\ Head(wire).t = t /\ Head(wire).m = m
         /\ wire # << >> /\ wire' = Tail(wire) /\ UNCHANGED <<up, queue, budget>>
BY FrameTypes DEF NetTypes, FramesFit, Handled

LEMMA AckFacts ==
  ASSUME ChatInv, NEW m \in Own, ReceiveAck(m)
  PROVE  /\ m \in Known /\ own[m].c \in Chats
         /\ outbox' = outbox \ {m} /\ UNCHANGED <<rows, dropped, own, fetches>>
         /\ store \in [Chats -> SUBSET ChatEntry]
         /\ \E es \in Settled(own[m].c, m) : /\ es \in SUBSET ChatEntry /\ store'[own[m].c] = es
                                              /\ \A d \in Chats : d # own[m].c => store'[d] = store[d]
<1>1. StoreTypes /\ NetTypes /\ WritingTypes /\ FramesFit
  BY ChatTypes DEF ChatInv
<1>2. m \in Known /\ own[m].c \in Chats
  BY <1>1, FirstFrame DEF ReceiveAck, FrameFits, WritingTypes
<1>3. outbox' = outbox \ {m} /\ UNCHANGED <<rows, dropped, own, fetches>> /\ store \in [Chats -> SUBSET ChatEntry]
  BY <1>1 DEF ReceiveAck, serverVars, StoreTypes
<1>4. PICK es \in Settled(own[m].c, m) : store' = SetStore(own[m].c, es)
  BY DEF ReceiveAck
<1>5. es \in SUBSET ChatEntry
  BY <1>2, <1>3, SettledEntries
<1>6. store'[own[m].c] = es /\ \A d \in Chats : d # own[m].c => store'[d] = store[d]
  BY <1>1, <1>2, <1>4, <1>5, SetStoreTypes
<1> QED
  BY <1>2, <1>3, <1>5, <1>6

LEMMA AckFits ==
  ASSUME ChatInv, NEW m \in Own, ReceiveAck(m)
  PROVE  StoreFits' /\ PagesFit'
<1>1. StoreFits /\ PagesFit
  BY DEF ChatInv
<1>2. /\ m \in Known /\ own[m].c \in Chats
      /\ outbox' = outbox \ {m} /\ UNCHANGED <<rows, dropped, own, fetches>>
      /\ store \in [Chats -> SUBSET ChatEntry]
  BY AckFacts
<1>3. PICK es \in Settled(own[m].c, m) : store'[own[m].c] = es /\ \A d \in Chats : d # own[m].c => store'[d] = store[d]
  BY AckFacts
<1>4. ASSUME NEW e \in es
      PROVE  EntryFits(own[m].c, e)
  <2>1. PICK d \in store[own[m].c] : Acked(m, e, d)
    BY <1>2, <1>4, SettledEntries
  <2>2. EntryFits(own[m].c, d)
    BY <1>1, <1>2 DEF StoreFits
  <2>3. CASE e.key = d.key /\ e.status = d.status
    BY <2>1, <2>2, <2>3 DEF Acked, EntryFits
  <2>4. CASE d.m = m /\ e.key = "server" /\ e.status = "sent"
    BY <1>2, <2>1, <2>2, <2>4 DEF Acked, EntryFits
  <2> QED
    BY <2>1, <2>3, <2>4 DEF Acked
<1>5. \A c \in Chats : \A e \in store'[c] : EntryFits(c, e)
  BY <1>1, <1>3, <1>4 DEF StoreFits
<1>6. StoreFits'
  BY <1>2, <1>5, AnsweredEntry DEF StoreFits
<1>7. PagesFit'
  BY <1>1, <1>2, AnsweredEntry DEF PagesFit, PageFits
<1> QED
  BY <1>6, <1>7

LEMMA FailedFits ==
  ASSUME ChatInv, NEW m \in Own, ReceiveFailed(m)
  PROVE  StoreFits' /\ PagesFit'
<1>1. StoreTypes /\ NetTypes /\ WritingTypes /\ FramesFit /\ StoreFits /\ PagesFit
  BY ChatTypes DEF ChatInv
<1> DEFINE c == own[m].c
           es == {IF e \in Optimistic(c, m) THEN [e EXCEPT !.status = "failed"] ELSE e : e \in store[c]}
<1>2. m \notin Known /\ m \in DOMAIN own /\ c \in Chats
  BY <1>1, FirstFrame DEF ReceiveFailed, FrameFits, WritingTypes
<1>3. outbox' = outbox \ {m} /\ UNCHANGED <<rows, dropped, own, fetches>> /\ store' = [store EXCEPT ![c] = es]
  BY DEF ReceiveFailed, serverVars
<1>4. Known' = Known
  BY <1>3 DEF Known, Kept
<1>5. ASSUME NEW e \in es
      PROVE  EntryFits(c, e)'
  <2>1. PICK d \in store[c] : e = IF d \in Optimistic(c, m) THEN [d EXCEPT !.status = "failed"] ELSE d
    BY <1>5
  <2>2. d \in ChatEntry /\ EntryFits(c, d)
    BY <1>1, <1>2 DEF StoreTypes, StoreFits
  <2>3. CASE d \in Optimistic(c, m)
    <3>1. d.tagged /\ d.m = m
      BY <2>3 DEF Optimistic
    <3>2. e.m = m /\ e.tagged /\ e.status = "failed" /\ e.read = d.read /\ e.key = d.key
      BY <2>1, <2>2, <2>3, <3>1, ChangedFields
    <3>3. ~d.read /\ d.key # "server"
      BY <1>2, <2>2, <3>1 DEF EntryFits, Read, Known
    <3> QED
      BY <1>2, <1>3, <1>4, <3>2, <3>3, ChatAssumption DEF EntryFits
  <2>4. CASE d \notin Optimistic(c, m)
    BY <1>3, <2>1, <2>2, <2>4, AnsweredEntry
  <2> QED
    BY <2>3, <2>4
<1>6. ASSUME NEW d \in Chats, d # c, NEW e \in store[d]
      PROVE  EntryFits(d, e)'
  <2>1. EntryFits(d, e)
    BY <1>1 DEF StoreFits
  <2> QED
    BY <1>3, <2>1, AnsweredEntry
<1> HIDE DEF es
<1>7. StoreFits'
  BY <1>1, <1>2, <1>3, <1>5, <1>6 DEF StoreTypes, StoreFits
<1>8. PagesFit'
  BY <1>1, <1>3, AnsweredEntry DEF PagesFit, PageFits
<1> QED
  BY <1>7, <1>8

LEMMA ReadReceiptFits ==
  ASSUME ChatInv, NEW m \in Own, ReceiveRead(m)
  PROVE  StoreFits' /\ PagesFit'
<1>1. StoreTypes /\ NetTypes /\ FramesFit /\ StoreFits /\ PagesFit
  BY ChatTypes DEF ChatInv
<1>2. Read(m)
  BY <1>1, FirstFrame DEF ReceiveRead, FrameFits
<1>3. EntriesStay /\ fetches' = fetches
  BY CalmStill, StillEntries DEF ReceiveRead, serverVars, writing
<1>4. store' = [c \in Chats |-> {IF e \in Found(c, m) THEN [e EXCEPT !.read = TRUE] ELSE e : e \in store[c]}]
  BY DEF ReceiveRead
<1>5. ASSUME NEW c \in Chats, NEW e \in store'[c]
      PROVE  EntryFits(c, e)'
  <2>1. PICK d \in store[c] : e = IF d \in Found(c, m) THEN [d EXCEPT !.read = TRUE] ELSE d
    BY <1>4, <1>5
  <2>2. d \in ChatEntry /\ EntryFits(c, d)
    BY <1>1 DEF StoreTypes, StoreFits
  <2>3. EntryFits(c, e)
    BY <1>2, <2>1, <2>2, ReadFits DEF Found
  <2> QED
    BY <1>3, <2>3 DEF EntriesStay
<1> QED
  BY <1>1, <1>3, <1>5, FewerPages DEF StoreFits

LEMMA EncryptedFits ==
  ASSUME ChatInv, NEW s \in sends, Encrypted(s)
  PROVE  StoreFits' /\ PagesFit'
<1>1. /\ ServerTypes /\ StoreTypes /\ WritingTypes /\ ScreenType /\ LoadTypes /\ StoreFits /\ PagesFit
      /\ s \in Send /\ s.m \in Own /\ s.c \in Chats /\ s.m \notin DOMAIN own
  BY ChatTypes DEF ChatInv, WritingTypes, WritingFits, Send
<1> DEFINE new == SetStore(s.c, store[s.c] \cup {Queued(s.m)})
<1>2. Queued(s.m) \in ChatEntry
  BY <1>1 DEF Queued, ChatEntry, Message
<1>3. store[s.c] \cup {Queued(s.m)} \in SUBSET ChatEntry
  BY <1>1, <1>2 DEF StoreTypes
<1>4. /\ new \in [Chats -> SUBSET ChatEntry]
      /\ new[s.c] = store[s.c] \cup {Queued(s.m)} /\ \A d \in Chats : d # s.c => new[d] = store[d]
  BY <1>1, <1>3, SetStoreTypes
<1>5. screen.route \in Route /\ Display(screen.route, new, rows)
  BY <1>1, RouteFacts DEF Encrypted, ShowStore
<1>6. /\ own' = [m \in DOMAIN own \cup {s.m} |-> IF m = s.m THEN [c |-> s.c, quote |-> s.quote] ELSE own[m]]
      /\ outbox' = outbox \cup {s.m} /\ UNCHANGED <<dropped, fetches>>
  BY DEF Encrypted
<1> HIDE DEF new
<1>7. store' = new /\ Known' = Known /\ \A m \in Known : Read(m) => Read(m)'
  BY <1>1, <1>4, <1>5, <1>6, DisplayFacts DEF Known, Read
<1>8. EntriesStay
  <2> SUFFICES ASSUME NEW c, NEW e, EntryFits(c, e)
               PROVE  EntryFits(c, e)'
    BY DEF EntriesStay
  <2>1. CASE e.m \in Own
    <3>1. e.m \in DOMAIN own /\ e.m # s.m
      BY <1>1, <2>1 DEF EntryFits
    <3>2. e.m \in DOMAIN own' /\ own'[e.m] = own[e.m]
      BY <1>6, <3>1
    <3> QED
      BY <1>6, <1>7, <3>1, <3>2 DEF EntryFits, Read, Known
  <2>2. CASE e.m \notin Own
    BY <1>1, <1>6, <1>7, <2>2 DEF EntryFits, Read, Known
  <2> QED
    BY <2>1, <2>2
<1>9. EntryFits(s.c, Queued(s.m))'
  BY <1>1, <1>6, ChatAssumption DEF EntryFits, Queued
<1>10. StoreFits'
  BY <1>1, <1>4, <1>7, <1>8, <1>9 DEF StoreFits, EntriesStay
<1> QED
  BY <1>1, <1>6, <1>8, <1>10, FewerPages

LEMMA ShownFits ==
  ASSUME ServerTypes, ScreenType, StoreFits, PagesFit, NEW s \in [Chats -> SUBSET ChatEntry], ShowStore(s),
         UNCHANGED <<dropped, own, outbox>>, fetches' \subseteq fetches,
         \A c \in Chats : \A e \in s[c] : EntryFits(c, e)
  PROVE  StoreFits' /\ PagesFit'
<1>1. screen.route \in Route /\ Display(screen.route, s, rows)
  BY RouteFacts DEF ShowStore
<1>2. EntriesStay /\ store' = s
  BY <1>1, ShowStill, StillEntries, DisplayFacts
<1> QED
  BY <1>2, FewerPages DEF StoreFits, EntriesStay

LEMMA ReceiveFits ==
  ASSUME ChatInv, Receive
  PROVE  StoreFits' /\ PagesFit'
<1>1. /\ ServerTypes /\ StoreTypes /\ LoadTypes /\ WritingTypes /\ NetTypes /\ ScreenType
      /\ FramesFit /\ StoreFits /\ PagesFit
  BY ChatTypes DEF ChatInv
<1> DEFINE f == Head(queue)
           c == ChatOf(f.m)
           s == SetStore(c, AddMessage(c, f))
<1>2. queue # << >> /\ f \in Frame
  BY <1>1, FrameTypes DEF Receive
<1>3. FrameFits(f) /\ IsMessage(f)
  BY <1>1, <1>2 DEF FramesFit, NetTypes
<1>4. c \in Chats
  BY <1>1, <1>2, <1>3, ChatAssumption DEF FrameFits, ChatOf, WritingTypes, Frame, Message
<1>5. UNCHANGED <<dropped, own, outbox, fetches>>
  BY DEF Receive, writing
<1>6. CASE f.t = "replay" /\ f.m \in aged
  <2>1. EntriesStay /\ UNCHANGED store
    BY <1>5, <1>6, CalmStill, StillEntries DEF Receive
  <2> QED
    BY <1>1, <1>5, <2>1, StoreStays, FewerPages
<1>7. CASE ~(f.t = "replay" /\ f.m \in aged)
  <2>1. ShowStore(s)
    BY <1>7 DEF Receive
  <2>2. AddMessage(c, f) \in SUBSET ChatEntry /\ \A e \in AddMessage(c, f) : EntryFits(c, e)
    BY <1>1, <1>2, <1>3, <1>4, AddMessageTypes, AddedFits
  <2>3. s \in [Chats -> SUBSET ChatEntry] /\ \A d \in Chats : \A e \in s[d] : EntryFits(d, e)
    BY <1>1, <1>4, <2>2, SetStoreTypes DEF StoreFits
  <2> HIDE DEF s
  <2> QED
    BY <1>1, <1>5, <2>1, <2>3, ShownFits
<1> QED
  BY <1>6, <1>7

LEMMA AnswerHistoryFits ==
  ASSUME ChatInv, NEW l \in fetches, AnswerHistory(l)
  PROVE  StoreFits' /\ PagesFit'
<1>1. ServerTypes /\ LoadTypes /\ WritingTypes /\ WritingFits /\ StoreFits /\ PagesFit
  BY ChatTypes DEF ChatInv
<1>2. EntriesStay /\ UNCHANGED store
  BY <1>1, HistoryStill, StillEntries DEF AnswerHistory
<1>3. StoreFits'
  BY <1>1, <1>2, StoreStays
<1> DEFINE left == Kept \ {m \in Kept \cap aged : ChatOf(m) = l.c}
           history == {HistoryRow(m) : m \in {k \in left : ChatOf(k) = l.c}}
<1>4. PICK new : new = [l EXCEPT !.step = "answered", !.page = history] /\ fetches' = (fetches \ {l}) \cup {new}
  BY DEF AnswerHistory
<1>5. \A e \in history : EntryFits(l.c, e) /\ ~e.tagged
  BY <1>1, HistoryRowFits
<1> HIDE DEF history
<1>6. new.c = l.c /\ new.page = history
  BY <1>1, <1>4 DEF LoadTypes
<1>7. \A k \in fetches \ {l} : PageFits(k)'
  BY <1>1, <1>2, PagesStay
<1>8. PageFits(new)'
  BY <1>2, <1>5, <1>6 DEF PageFits, EntriesStay
<1> QED
  BY <1>3, <1>4, <1>7, <1>8 DEF PagesFit

LEMMA EntriesKept ==
  ASSUME ChatInv, ChatNext
  PROVE  StoreFits' /\ PagesFit'
<1>1. /\ ServerTypes /\ StoreTypes /\ LoadTypes /\ WritingTypes /\ NetTypes /\ ScreenType
      /\ WritingFits /\ StoreFits /\ PagesFit
  BY ChatTypes DEF ChatInv
<1>2. CASE UNCHANGED <<rows, dropped, own, outbox, store>> /\ fetches' \subseteq fetches
  BY <1>1, <1>2, CalmStill, StillEntries, StoreStays, FewerPages
<1>3. CASE GoBack \/ OpenAbout \/ (\E m \in Incoming : ReplyTo(m)) \/ CancelReply \/ (\E m \in Text : SendText(m))
        \/ (\E ms \in Picks : PickFiles(ms)) \/ (\E s \in sends : SendFails(s)) \/ Uploaded \/ UploadFails
        \/ EnqueueSequenced \/ (\E l \in fetches : LoadFails(l)) \/ (\E m \in Own : AckOwn(m) \/ RefuseOwn(m))
        \/ (\E m \in Message : Replay(m) \/ Expire(m)) \/ Disconnect \/ Connect
  BY <1>2, <1>3 DEF GoBack, OpenAbout, LeaveTo, ReplyTo, CancelReply, SendText, PickFiles, SendFails, Uploaded, UploadFails,
     EnqueueSequenced, LoadFails, AckOwn, RefuseOwn, Replay, Expire, Disconnect, Connect, serverVars, writing
<1>4. CASE \E c \in Chats : OpenChat(c)
  <2>1. PICK c \in Chats : OpenChat(c)
    BY <1>4
  <2>2. /\ [kind |-> "chat", c |-> c] \in Route /\ store \in [Chats -> SUBSET ChatEntry]
        /\ Display([kind |-> "chat", c |-> c], store, rows) /\ UNCHANGED <<dropped, own, outbox>> /\ LoadMessages(c)
    BY <1>1, <2>1 DEF OpenChat, Route, StoreTypes, writing
  <2>3. EntriesStay /\ UNCHANGED store
    BY <1>1, <2>2, ShowStill, StillEntries, DisplayFacts
  <2> QED
    BY <1>1, <2>2, <2>3, StoreStays, LoadPages
<1>5. CASE ReloadHistory
  <2>1. EntriesStay /\ UNCHANGED store /\ LoadMessages(screen.route.c)
    BY <1>5, CalmStill, StillEntries DEF ReloadHistory, serverVars, writing
  <2> QED
    BY <1>1, <2>1, StoreStays, LoadPages
<1>6. CASE \E l \in fetches : MergeHistory(l)
  <2>1. PICK l \in fetches : MergeHistory(l)
    BY <1>6
  <2> DEFINE s == SetStore(l.c, Merged(l, store[l.c]))
  <2>2. s \in [Chats -> SUBSET ChatEntry] /\ \A d \in Chats : \A e \in s[d] : EntryFits(d, e)
    BY <1>1, MergedTypes, MergedFits, SetStoreTypes DEF StoreFits
  <2>3. ShowStore(s) /\ UNCHANGED <<dropped, own, outbox>> /\ fetches' \subseteq fetches
    BY <2>1 DEF MergeHistory, writing
  <2> HIDE DEF s
  <2> QED
    BY <1>1, <2>2, <2>3, ShownFits
<1>7. CASE Cleanup
  <2> DEFINE s == [c \in Chats |-> IF c \in Timed THEN {e \in store[c] : e.m \notin aged} ELSE store[c]]
  <2>1. s \in [Chats -> SUBSET ChatEntry] /\ \A d \in Chats : \A e \in s[d] : EntryFits(d, e)
    BY <1>1 DEF StoreTypes, StoreFits
  <2>2. ShowStore(s) /\ UNCHANGED <<dropped, own, outbox>> /\ fetches' \subseteq fetches
    BY <1>7 DEF Cleanup, writing
  <2> HIDE DEF s
  <2> QED
    BY <1>1, <2>1, <2>2, ShownFits
<1>8. CASE Receive
  BY <1>8, ReceiveFits
<1>9. CASE \E m \in Own : ReceiveAck(m) \/ ReceiveFailed(m) \/ ReceiveRead(m)
  BY <1>9, AckFits, FailedFits, ReadReceiptFits
<1>10. CASE \E s \in sends : Encrypted(s)
  BY <1>10, EncryptedFits
<1>11. CASE \E l \in fetches : AnswerHistory(l)
  BY <1>11, AnswerHistoryFits
<1>12. CASE (\E m \in Incoming : OthersSend(m)) \/ (\E m \in Own : StoreOwn(m))
  <2>1. PICK m : m \notin Known /\ NewRow(m) /\ m \in Incoming \cup outbox /\ UNCHANGED <<dropped, own, outbox, store, fetches>>
    BY <1>12 DEF OthersSend, StoreOwn, Known, Waiting, writing
  <2>2. EntriesStay
    BY <2>1, NewRowEntries
  <2> QED
    BY <1>1, <2>1, <2>2, StoreStays, FewerPages
<1>13. CASE \E m \in Own : PeerReads(m)
  <2>1. EntriesStay /\ UNCHANGED <<store, fetches>>
    BY <1>1, <1>13, PeerStill, StillEntries DEF PeerReads
  <2> QED
    BY <1>1, <2>1, StoreStays, FewerPages
<1> QED
  BY <1>3, <1>4, <1>5, <1>6, <1>7, <1>8, <1>9, <1>10, <1>11, <1>12, <1>13 DEF ChatNext, User, Client, Server, Environment

-----------------------------------------------------------------------------
(* Frames stay true, and a message is new once.                            *)

FramesStay == \A f : FrameFits(f) => FrameFits(f)'

LEMMA StillFrames ==
  ASSUME Still
  PROVE  FramesStay
BY StillFrame DEF FramesStay

LEMMA TailIndex ==
  ASSUME NEW S, NEW q \in Seq(S), q # << >>
  PROVE  /\ Head(q) = q[1] /\ 1 \in DOMAIN q
         /\ \A i \in DOMAIN Tail(q) : i \in Nat /\ i + 1 \in DOMAIN q /\ Tail(q)[i] = q[i + 1]
OBVIOUS

LEMMA AppendIndex ==
  ASSUME NEW S, NEW q \in Seq(S), NEW f \in S
  PROVE  \A i \in DOMAIN Append(q, f) : \/ i \in DOMAIN q /\ Append(q, f)[i] = q[i]
                                        \/ i = Len(q) + 1 /\ Append(q, f)[i] = f
OBVIOUS

\* No frame comes, but some are gone.
LEMMA FewerFrames ==
  ASSUME NetTypes, FramesFit, FramesStay,
         wire' = wire \/ (wire # << >> /\ wire' = Tail(wire)) \/ wire' = << >>,
         queue' = queue \/ (queue # << >> /\ queue' = Tail(queue))
  PROVE  FramesFit'
<1>1. wire \in Seq(Frame) /\ queue \in Seq(Frame)
  BY DEF NetTypes
<1>2. \A i \in DOMAIN wire' : FrameFits(wire'[i])
  BY <1>1, TailIndex DEF FramesFit
<1>3. \A i \in DOMAIN queue' : FrameFits(queue'[i]) /\ IsMessage(queue'[i])
  BY <1>1, TailIndex DEF FramesFit
<1> QED
  BY <1>2, <1>3 DEF FramesFit, FramesStay

LEMMA PushedFrames ==
  ASSUME NetTypes, FramesFit, FramesStay, NEW t \in {"message", "replay", "ack", "failed", "read"}, NEW m \in Message,
         NEW read \in BOOLEAN, Push(t, m, read), UNCHANGED queue, FrameFits([t |-> t, m |-> m, read |-> read])'
  PROVE  FramesFit'
<1>1. PICK f : f = [t |-> t, m |-> m, read |-> read]
  OBVIOUS
<1>2. wire \in Seq(Frame) /\ f \in Frame /\ wire' = Append(wire, f)
  BY <1>1 DEF NetTypes, Frame, Push
<1>3. FrameFits(f)'
  BY <1>1
<1>4. ASSUME NEW i \in DOMAIN wire'
      PROVE  \E g : g = wire'[i] /\ FrameFits(g)'
  <2>1. (i \in DOMAIN wire /\ wire'[i] = wire[i]) \/ wire'[i] = f
    BY <1>2, <1>4, AppendIndex
  <2> QED
    BY <1>3, <2>1 DEF FramesFit, FramesStay
<1> QED
  BY <1>4 DEF FramesFit, FramesStay

LEMMA EnqueuedFrames ==
  ASSUME NetTypes, FramesFit, FramesStay, EnqueueSequenced
  PROVE  FramesFit'
<1>1. wire \in Seq(Frame) /\ queue \in Seq(Frame) /\ wire # << >> /\ Head(wire) \in Frame
  BY FrameTypes DEF NetTypes, EnqueueSequenced
<1>2. wire' = Tail(wire) /\ queue' = Append(queue, Head(wire)) /\ IsMessage(Head(wire))
  BY DEF EnqueueSequenced
<1>3. FrameFits(Head(wire))
  BY <1>1, TailIndex DEF FramesFit
<1>4. \A i \in DOMAIN wire' : FrameFits(wire'[i])
  BY <1>1, <1>2, TailIndex DEF FramesFit
<1>5. \A i \in DOMAIN queue' : FrameFits(queue'[i]) /\ IsMessage(queue'[i])
  BY <1>1, <1>2, <1>3, AppendIndex DEF FramesFit
<1> QED
  BY <1>4, <1>5 DEF FramesFit, FramesStay

LEMMA FramesKept ==
  ASSUME ChatInv, ChatNext
  PROVE  FramesFit'
<1>1. ServerTypes /\ StoreTypes /\ LoadTypes /\ WritingTypes /\ NetTypes /\ ScreenType /\ FramesFit /\ WritingFits
  BY ChatTypes DEF ChatInv
<1>2. CASE UNCHANGED <<rows, dropped, own, outbox, wire, queue>>
  BY <1>1, <1>2, CalmStill, StillFrames, FewerFrames
<1>3. CASE GoBack \/ OpenAbout \/ (\E m \in Incoming : ReplyTo(m)) \/ CancelReply \/ (\E m \in Text : SendText(m))
        \/ (\E ms \in Picks : PickFiles(ms)) \/ (\E s \in sends : SendFails(s)) \/ Uploaded \/ UploadFails \/ ReloadHistory
        \/ (\E l \in fetches : LoadFails(l)) \/ (\E m \in Message : Expire(m)) \/ Connect
  BY <1>2, <1>3 DEF GoBack, OpenAbout, LeaveTo, ReplyTo, CancelReply, SendText, PickFiles, SendFails, Uploaded, UploadFails,
     ReloadHistory, LoadFails, Expire, Connect, serverVars, writing, net
<1>4. ASSUME NEW r \in Route, NEW s \in [Chats -> SUBSET ChatEntry], Display(r, s, rows), UNCHANGED <<dropped, own, outbox, wire>>,
             queue' = queue \/ (queue # << >> /\ queue' = Tail(queue))
      PROVE  FramesFit'
  BY <1>1, <1>4, ShowStill, StillFrames, FewerFrames
<1>5. CASE \E c \in Chats : OpenChat(c)
  <2>1. PICK c \in Chats : OpenChat(c)
    BY <1>5
  <2>2. /\ [kind |-> "chat", c |-> c] \in Route /\ store \in [Chats -> SUBSET ChatEntry]
        /\ Display([kind |-> "chat", c |-> c], store, rows) /\ UNCHANGED <<dropped, own, outbox, wire, queue>>
    BY <1>1, <2>1 DEF OpenChat, Route, StoreTypes, writing
  <2> QED
    BY <1>4, <2>2
<1>6. screen.route \in Route
  BY <1>1, RouteFacts
<1>7. CASE \E l \in fetches : MergeHistory(l)
  <2>1. PICK l \in fetches : MergeHistory(l)
    BY <1>7
  <2> DEFINE s == SetStore(l.c, Merged(l, store[l.c]))
  <2>2. s \in [Chats -> SUBSET ChatEntry]
    BY <1>1, MergedTypes, SetStoreTypes
  <2>3. Display(screen.route, s, rows) /\ UNCHANGED <<dropped, own, outbox, wire, queue>>
    BY <2>1 DEF MergeHistory, ShowStore, writing, net
  <2> QED
    BY <1>4, <1>6, <2>2, <2>3
<1>8. CASE Cleanup
  <2> DEFINE s == [c \in Chats |-> IF c \in Timed THEN {e \in store[c] : e.m \notin aged} ELSE store[c]]
  <2>1. s \in [Chats -> SUBSET ChatEntry]
    BY <1>1 DEF StoreTypes
  <2>2. Display(screen.route, s, rows) /\ UNCHANGED <<dropped, own, outbox, wire, queue>>
    BY <1>8 DEF Cleanup, ShowStore, writing, net
  <2> QED
    BY <1>4, <1>6, <2>1, <2>2
<1>9. CASE Receive
  <2> DEFINE f == Head(queue)
             c == ChatOf(f.m)
             s == SetStore(c, AddMessage(c, f))
  <2>1. queue # << >> /\ queue' = Tail(queue) /\ UNCHANGED <<dropped, own, outbox, wire>>
    BY <1>9 DEF Receive, writing
  <2>2. f \in Frame /\ FrameFits(f)
    BY <1>1, <2>1, FrameTypes DEF FramesFit, NetTypes
  <2>3. c \in Chats
    BY <1>1, <2>2, ChatAssumption DEF FrameFits, ChatOf, WritingTypes, Frame, Message
  <2>4. CASE UNCHANGED rows
    BY <1>1, <2>1, <2>4, CalmStill, StillFrames, FewerFrames
  <2>5. CASE Display(screen.route, s, rows)
    <3>1. s \in [Chats -> SUBSET ChatEntry]
      BY <1>1, <2>2, <2>3, AddMessageTypes, SetStoreTypes
    <3> QED
      BY <1>4, <1>6, <2>1, <2>5, <3>1
  <2> QED
    BY <1>9, <2>4, <2>5 DEF Receive, ShowStore
<1>10. CASE \E m \in Own : ReceiveAck(m) \/ ReceiveFailed(m) \/ ReceiveRead(m)
  <2>1. wire # << >> /\ wire' = Tail(wire) /\ UNCHANGED <<rows, dropped, own, queue>>
    BY <1>10 DEF ReceiveAck, ReceiveFailed, ReceiveRead, Handled, serverVars, writing
  <2>2. FramesStay
    BY <2>1 DEF FramesStay, FrameFits, Read, Known, Kept
  <2> QED
    BY <1>1, <2>1, <2>2, FewerFrames
<1>11. CASE \E s \in sends : Encrypted(s)
  <2>1. PICK s \in sends : Encrypted(s)
    BY <1>11
  <2>2. s.m \in Own /\ s.c \in Chats
    BY <1>1 DEF WritingTypes, Send
  <2> DEFINE new == SetStore(s.c, store[s.c] \cup {Queued(s.m)})
  <2>3. Queued(s.m) \in ChatEntry /\ store[s.c] \in SUBSET ChatEntry
    BY <1>1, <2>2 DEF StoreTypes, Queued, ChatEntry, Message
  <2>4. new \in [Chats -> SUBSET ChatEntry]
    BY <1>1, <2>2, <2>3, SetStoreTypes
  <2>5. /\ Display(screen.route, new, rows) /\ UNCHANGED <<dropped, wire, queue>>
        /\ DOMAIN own' = DOMAIN own \cup {s.m}
    BY <2>1 DEF Encrypted, ShowStore, net
  <2> HIDE DEF new
  <2>6. Known' = Known /\ \A m \in Known : Read(m) => Read(m)'
    BY <1>1, <1>6, <2>4, <2>5, DisplayFacts DEF Known, Read
  <2>7. FramesStay
    BY <2>5, <2>6 DEF FramesStay, FrameFits, Read, Known
  <2> QED
    BY <1>1, <2>5, <2>7, FewerFrames
<1>12. CASE \E l \in fetches : AnswerHistory(l)
  <2>1. FramesStay
    BY <1>1, <1>12, HistoryStill, StillFrames
  <2> QED
    BY <1>1, <1>12, <2>1, FewerFrames DEF AnswerHistory, net
<1>13. CASE EnqueueSequenced
  <2>1. FramesStay
    BY <1>13, CalmStill, StillFrames DEF EnqueueSequenced, serverVars, writing
  <2> QED
    BY <1>1, <1>13, <2>1, EnqueuedFrames
<1>14. CASE Disconnect
  <2>1. FramesStay
    BY <1>14, CalmStill, StillFrames DEF Disconnect, serverVars, writing
  <2> QED
    BY <1>1, <1>14, <2>1, FewerFrames DEF Disconnect
<1>15. CASE \E m \in Incoming : OthersSend(m)
  <2>1. PICK m \in Incoming : OthersSend(m)
    BY <1>15
  <2>2. m \notin Known /\ NewRow(m) /\ UNCHANGED <<dropped, own, queue>> /\ m \in Message /\ m \notin Own
    BY <2>1, ChatAssumption DEF OthersSend, Known, writing, Message
  <2>3. Known' = Known \cup {m} /\ \A k \in Known : Read(k) <=> Read(k)'
    BY <2>2, NewRowFacts
  <2>4. FramesStay
    BY <2>2, <2>3 DEF FramesStay, FrameFits, Read, Known
  <2>5. CASE up
    <3>1. Push("message", m, FALSE) /\ FALSE \in BOOLEAN
      BY <2>1, <2>5 DEF OthersSend
    <3>2. FrameFits([t |-> "message", m |-> m, read |-> FALSE])'
      BY <2>2, <2>3 DEF FrameFits
    <3> QED
      BY <1>1, <2>2, <2>4, <3>1, <3>2, PushedFrames
  <2>6. CASE ~up
    BY <1>1, <2>1, <2>2, <2>4, <2>6, FewerFrames DEF OthersSend
  <2> QED
    BY <2>5, <2>6
<1>16. CASE \E m \in Own : StoreOwn(m)
  <2>1. PICK m \in Own : StoreOwn(m)
    BY <1>16
  <2>2. m \notin Known /\ NewRow(m) /\ UNCHANGED <<dropped, own, wire, queue>>
    BY <2>1 DEF StoreOwn, Known, writing, net
  <2>3. Known' = Known \cup {m} /\ \A k \in Known : Read(k) <=> Read(k)'
    BY <2>2, NewRowFacts
  <2>4. ASSUME NEW f, FrameFits(f), ~(f.t = "failed" /\ f.m = m)
        PROVE  FrameFits(f)'
    BY <2>2, <2>3, <2>4 DEF FrameFits, Read, Known
  <2>5. \A i \in DOMAIN wire : ~(wire[i].t = "failed" /\ wire[i].m = m)
    BY <2>1 DEF StoreOwn, Waiting
  <2>6. \A i \in DOMAIN queue : ~(queue[i].t = "failed" /\ queue[i].m = m)
    BY <1>1 DEF FramesFit, IsMessage
  <2> QED
    BY <1>1, <2>2, <2>4, <2>5, <2>6 DEF FramesFit
<1>17. ASSUME NEW m \in Own, AckOwn(m) \/ RefuseOwn(m) PROVE FramesFit'
  <2>1. UNCHANGED <<rows, dropped, own, outbox, queue>> /\ m \in Message /\ FALSE \in BOOLEAN /\ m \in DOMAIN own
    BY <1>1, <1>17 DEF AckOwn, RefuseOwn, Waiting, WritingTypes, serverVars, writing, Message
  <2>2. FramesStay /\ Known' = Known
    BY <2>1, CalmStill, StillFrames DEF Still
  <2>3. CASE AckOwn(m)
    <3>1. FrameFits([t |-> "ack", m |-> m, read |-> FALSE])'
      BY <2>1, <2>2, <2>3 DEF FrameFits, AckOwn, Known
    <3> QED
      BY <1>1, <2>1, <2>2, <2>3, <3>1, PushedFrames DEF AckOwn
  <2>4. CASE RefuseOwn(m)
    <3>1. FrameFits([t |-> "failed", m |-> m, read |-> FALSE])'
      BY <2>1, <2>2, <2>4 DEF FrameFits, RefuseOwn, Known
    <3> QED
      BY <1>1, <2>1, <2>2, <2>4, <3>1, PushedFrames DEF RefuseOwn
  <2> QED
    BY <1>17, <2>3, <2>4
<1>18. CASE \E m \in Message : Replay(m)
  <2>1. PICK m \in Message : Replay(m)
    BY <1>18
  <2>2. UNCHANGED <<rows, dropped, own, outbox, queue>> /\ m \in Kept /\ rows[m].read \in BOOLEAN /\ Push("replay", m, rows[m].read)
    BY <1>1, <2>1 DEF Replay, ServerTypes, serverVars, writing
  <2>3. FramesStay
    BY <2>2, CalmStill, StillFrames
  <2>4. PICK read \in BOOLEAN : read = rows[m].read
    BY <2>2
  <2>5. FrameFits([t |-> "replay", m |-> m, read |-> read])'
    BY <1>1, <2>2, <2>4 DEF FrameFits, Known, Kept, Read, WritingFits
  <2> QED
    BY <1>1, <2>2, <2>3, <2>4, <2>5, PushedFrames
<1>19. CASE \E m \in Own : PeerReads(m)
  <2>1. PICK m \in Own : PeerReads(m)
    BY <1>19
  <2>2. /\ UNCHANGED <<dropped, own, queue>> /\ m \in Kept /\ m \in Message /\ TRUE \in BOOLEAN
        /\ rows' = [rows EXCEPT ![m].read = TRUE]
    BY <1>1, <2>1 DEF PeerReads, writing, Message
  <2>3. FramesStay
    BY <1>1, <2>1, PeerStill, StillFrames
  <2>4. m \in Kept' /\ rows'[m].read
    BY <1>1, <2>2 DEF Kept, ServerTypes
  <2>5. FrameFits([t |-> "read", m |-> m, read |-> TRUE])'
    BY <1>1, <2>2, <2>4 DEF FrameFits, Known, Read, WritingFits
  <2>6. CASE up
    BY <1>1, <2>1, <2>2, <2>3, <2>5, <2>6, PushedFrames DEF PeerReads
  <2>7. CASE ~up
    BY <1>1, <2>1, <2>2, <2>3, <2>7, FewerFrames DEF PeerReads
  <2> QED
    BY <2>6, <2>7
<1> QED
  BY <1>3, <1>5, <1>7, <1>8, <1>9, <1>10, <1>11, <1>12, <1>13, <1>14, <1>15, <1>16, <1>17, <1>18, <1>19
     DEF ChatNext, User, Client, Server, Environment

Ordered(q) == \A i, j \in DOMAIN q : i < j => Behind(q[i], q[j])

LEMMA TailOrdered ==
  ASSUME NEW q \in Seq(Frame), q # << >>, Ordered(q)
  PROVE  Ordered(Tail(q)) /\ \A j \in DOMAIN Tail(q) : Behind(Head(q), Tail(q)[j])
<1>1. /\ Head(q) = q[1] /\ 1 \in DOMAIN q
      /\ \A i \in DOMAIN Tail(q) : i \in Nat \ {0} /\ i + 1 \in DOMAIN q /\ Tail(q)[i] = q[i + 1]
  BY TailIndex
<1>2. \A j \in DOMAIN Tail(q) : Behind(Head(q), Tail(q)[j])
  BY <1>1 DEF Ordered
<1>3. \A i, j \in DOMAIN Tail(q) : i < j => i + 1 < j + 1
  BY <1>1
<1>4. Ordered(Tail(q))
  BY <1>1, <1>3 DEF Ordered
<1> QED
  BY <1>2, <1>4

LEMMA AppendOrdered ==
  ASSUME NEW q \in Seq(Frame), NEW f \in Frame, Ordered(q), \A i \in DOMAIN q : Behind(q[i], f)
  PROVE  Ordered(Append(q, f))
<1>1. \A i \in DOMAIN Append(q, f) : \/ i \in DOMAIN q /\ i \in 1 .. Len(q) /\ Append(q, f)[i] = q[i]
                                     \/ i = Len(q) + 1 /\ Append(q, f)[i] = f
  BY AppendIndex
<1> SUFFICES ASSUME NEW i \in DOMAIN Append(q, f), NEW j \in DOMAIN Append(q, f), i < j
             PROVE  Behind(Append(q, f)[i], Append(q, f)[j])
  BY DEF Ordered
<1>2. i \in DOMAIN q /\ Append(q, f)[i] = q[i]
  BY <1>1
<1>3. CASE j \in DOMAIN q /\ Append(q, f)[j] = q[j]
  BY <1>2, <1>3 DEF Ordered
<1>4. CASE Append(q, f)[j] = f
  BY <1>2, <1>4
<1> QED
  BY <1>1, <1>3, <1>4

LEMMA NewOnceParts ==
  /\ NewOnce <=> Ordered(wire) /\ Ordered(queue) /\ \A i \in DOMAIN queue, j \in DOMAIN wire : Behind(queue[i], wire[j])
  /\ NewOnce' <=> Ordered(wire') /\ Ordered(queue') /\ \A i \in DOMAIN queue', j \in DOMAIN wire' : Behind(queue'[i], wire'[j])
BY DEF NewOnce, Ordered, Behind, IsMessage

LEMMA NewOnceKept ==
  ASSUME ChatInv, ChatNext
  PROVE  NewOnce'
<1>1. /\ wire \in Seq(Frame) /\ queue \in Seq(Frame) /\ Ordered(wire) /\ Ordered(queue)
      /\ \A i \in DOMAIN queue, j \in DOMAIN wire : Behind(queue[i], wire[j])
      /\ NetTypes /\ ServerTypes /\ FramesFit
  BY ChatTypes, NewOnceParts DEF ChatInv, NetTypes
<1>2. CASE UNCHANGED <<wire, queue>>
  BY <1>1, <1>2, NewOnceParts
<1>3. CASE wire # << >> /\ wire' = Tail(wire) /\ queue' = queue
  <2>1. \A j \in DOMAIN wire' : j + 1 \in DOMAIN wire /\ wire'[j] = wire[j + 1]
    BY <1>1, <1>3, TailIndex
  <2> QED
    BY <1>1, <1>3, <2>1, TailOrdered, NewOnceParts
<1>4. CASE queue # << >> /\ queue' = Tail(queue) /\ wire' = wire
  <2>1. \A j \in DOMAIN queue' : j + 1 \in DOMAIN queue /\ queue'[j] = queue[j + 1]
    BY <1>1, <1>4, TailIndex
  <2> QED
    BY <1>1, <1>4, <2>1, TailOrdered, NewOnceParts
<1>5. CASE Disconnect
  <2>1. wire' = << >> /\ queue' = queue
    BY <1>5 DEF Disconnect
  <2>2. Ordered(wire') /\ DOMAIN wire' = {}
    BY <2>1 DEF Ordered
  <2> QED
    BY <1>1, <2>1, <2>2, NewOnceParts
<1>6. CASE EnqueueSequenced
  <2>1. wire # << >> /\ wire' = Tail(wire) /\ queue' = Append(queue, Head(wire)) /\ Head(wire) \in Frame
    BY <1>1, <1>6, FrameTypes DEF EnqueueSequenced
  <2>2. \A j \in DOMAIN wire' : j + 1 \in DOMAIN wire /\ wire'[j] = wire[j + 1]
    BY <1>1, <2>1, TailIndex
  <2>3. Head(wire) = wire[1] /\ 1 \in DOMAIN wire
    BY <1>1, <2>1, TailIndex
  <2>4. Ordered(wire') /\ \A j \in DOMAIN wire' : Behind(Head(wire), wire'[j])
    BY <1>1, <2>1, TailOrdered
  <2>5. Ordered(queue')
    BY <1>1, <2>1, <2>3, AppendOrdered
  <2>6. \A i \in DOMAIN queue' : (i \in DOMAIN queue /\ queue'[i] = queue[i]) \/ queue'[i] = Head(wire)
    BY <1>1, <2>1, AppendIndex
  <2> QED
    BY <1>1, <2>2, <2>4, <2>5, <2>6, NewOnceParts
<1>7. ASSUME NEW t \in {"message", "replay", "ack", "failed", "read"}, NEW m \in Message, NEW read \in BOOLEAN,
             Push(t, m, read), UNCHANGED queue, t = "message" => m \notin Known
      PROVE  NewOnce'
  <2>1. PICK f : f = [t |-> t, m |-> m, read |-> read]
    OBVIOUS
  <2>2. f \in Frame /\ wire' = Append(wire, f) /\ f.t = t /\ f.m = m
    BY <1>7, <2>1 DEF Frame, Push
  <2>3. \A i \in DOMAIN wire : Behind(wire[i], f)
    BY <1>1, <1>7, <2>2 DEF Behind, FramesFit, FrameFits, IsMessage
  <2>4. \A i \in DOMAIN queue : Behind(queue[i], f)
    BY <1>1, <1>7, <2>2 DEF Behind, FramesFit, FrameFits, IsMessage
  <2>5. Ordered(wire')
    BY <1>1, <2>2, <2>3, AppendOrdered
  <2>6. \A j \in DOMAIN wire' : (j \in DOMAIN wire /\ wire'[j] = wire[j]) \/ wire'[j] = f
    BY <1>1, <2>2, AppendIndex
  <2> QED
    BY <1>1, <1>7, <2>4, <2>5, <2>6, NewOnceParts
<1>8. CASE (\E m \in Incoming : OthersSend(m)) \/ (\E m \in Own : PeerReads(m) \/ AckOwn(m) \/ RefuseOwn(m)) \/ (\E m \in Message : Replay(m))
  <2>1. UNCHANGED queue
    BY <1>8 DEF OthersSend, PeerReads, AckOwn, RefuseOwn, Replay
  <2>2. \A m \in Message : m \in Kept => rows[m].read \in BOOLEAN
    BY <1>1 DEF ServerTypes
  <2>3. UNCHANGED wire \/ \E t \in {"message", "replay", "ack", "failed", "read"}, m \in Message, read \in BOOLEAN :
                               Push(t, m, read) /\ (t = "message" => m \notin Known)
    BY <1>8, <2>2 DEF OthersSend, PeerReads, AckOwn, RefuseOwn, Replay, Message, Known
  <2> QED
    BY <1>2, <1>7, <2>1, <2>3
<1>9. CASE Receive \/ \E m \in Own : ReceiveAck(m) \/ ReceiveFailed(m) \/ ReceiveRead(m)
  BY <1>3, <1>4, <1>9 DEF Receive, ReceiveAck, ReceiveFailed, ReceiveRead, Handled
<1>10. CASE GoBack \/ OpenAbout \/ (\E m \in Incoming : ReplyTo(m)) \/ CancelReply \/ (\E m \in Text : SendText(m))
        \/ (\E ms \in Picks : PickFiles(ms)) \/ (\E s \in sends : SendFails(s) \/ Encrypted(s)) \/ Uploaded \/ UploadFails
        \/ ReloadHistory \/ (\E l \in fetches : LoadFails(l) \/ MergeHistory(l) \/ AnswerHistory(l))
        \/ (\E m \in Message : Expire(m)) \/ Connect \/ Cleanup \/ (\E c \in Chats : OpenChat(c)) \/ (\E m \in Own : StoreOwn(m))
  BY <1>2, <1>10 DEF GoBack, OpenAbout, LeaveTo, ReplyTo, CancelReply, SendText, PickFiles, SendFails, Encrypted, Uploaded,
     UploadFails, ReloadHistory, LoadFails, MergeHistory, AnswerHistory, Expire, Connect, Cleanup, OpenChat, StoreOwn, net
<1> QED
  BY <1>5, <1>6, <1>8, <1>9, <1>10 DEF ChatNext, User, Client, Server, Environment

-----------------------------------------------------------------------------
(* What the user writes stays in its chat.                                 *)

\* The server only adds to what it knows: a message of another, or one of the outbox.
LEMMA KnownGrows ==
  ASSUME ChatNext
  PROVE  \/ Known' = Known
         \/ \E m \in Incoming \cup outbox : m \notin Known /\ NewRow(m) /\ UNCHANGED <<dropped, outbox, own, seen, aged, store, queue>>
                                             /\ (m \in Incoming => OthersSend(m) \/ m \in outbox)
<1>1. ASSUME NEW r, NEW s, Display(r, s, rows), UNCHANGED dropped
      PROVE  Known' = Known
  BY <1>1 DEF Display, Known, Kept
<1>2. CASE (\E c \in Chats : OpenChat(c)) \/ (\E l \in fetches : MergeHistory(l)) \/ Cleanup \/ Receive \/ (\E s \in sends : Encrypted(s))
  <2>1. UNCHANGED dropped
    BY <1>2 DEF OpenChat, MergeHistory, Cleanup, Receive, Encrypted
  <2>2. UNCHANGED rows \/ \E r, s : Display(r, s, rows)
    BY <1>2 DEF OpenChat, MergeHistory, Cleanup, Receive, Encrypted, ShowStore
  <2> QED
    BY <1>1, <2>1, <2>2 DEF Known, Kept
<1>3. CASE \E l \in fetches : AnswerHistory(l)
  BY <1>3 DEF AnswerHistory, Known, Kept
<1>4. CASE (\E m \in Incoming : OthersSend(m)) \/ (\E m \in Own : StoreOwn(m))
  BY <1>4 DEF OthersSend, StoreOwn, Waiting, Known, writing, net
<1>5. CASE \E m \in Own : PeerReads(m)
  BY <1>5 DEF PeerReads, Known, Kept
<1>6. CASE UNCHANGED <<rows, dropped>>
  BY <1>6 DEF Known, Kept
<1>7. CASE GoBack \/ OpenAbout \/ (\E m \in Incoming : ReplyTo(m)) \/ CancelReply \/ (\E m \in Text : SendText(m))
        \/ (\E ms \in Picks : PickFiles(ms)) \/ (\E s \in sends : SendFails(s)) \/ Uploaded \/ UploadFails \/ ReloadHistory
        \/ EnqueueSequenced \/ (\E m \in Own : ReceiveAck(m) \/ ReceiveFailed(m) \/ ReceiveRead(m) \/ AckOwn(m) \/ RefuseOwn(m))
        \/ (\E l \in fetches : LoadFails(l)) \/ (\E m \in Message : Expire(m) \/ Replay(m)) \/ Connect \/ Disconnect
  BY <1>6, <1>7 DEF GoBack, OpenAbout, LeaveTo, ReplyTo, CancelReply, SendText, PickFiles, SendFails, Uploaded, UploadFails,
     ReloadHistory, EnqueueSequenced, ReceiveAck, ReceiveFailed, ReceiveRead, AckOwn, RefuseOwn, LoadFails, Expire, Replay,
     Connect, Disconnect, serverVars
<1> QED
  BY <1>2, <1>3, <1>4, <1>5, <1>7 DEF ChatNext, User, Client, Server, Environment

OwnStored == Own \cap Known \subseteq DOMAIN own
RepliesFit == /\ \A m \in DOMAIN own : QuoteFits(own[m].quote, own[m].c)
              /\ screen.reply # Nothing => Mounted
              /\ Mounted => QuoteFits(screen.reply, screen.route.c)
SendsFit == /\ \A s \in sends : s.m \notin DOMAIN own /\ QuoteFits(s.quote, s.c)
            /\ \A s, t \in sends : s.m = t.m => s = t
UploadFits == upload # Nothing =>
       /\ QuoteFits(upload.quote, upload.c) /\ upload.left # << >> /\ IsInjective(upload.left)
       /\ \A i \in DOMAIN upload.left : upload.left[i] \notin DOMAIN own \cup {s.m : s \in sends}

LEMMA WritingParts ==
  /\ WritingFits <=> OwnStored /\ RepliesFit /\ SendsFit /\ UploadFits
  /\ WritingFits' <=> OwnStored' /\ RepliesFit' /\ SendsFit' /\ UploadFits'
BY DEF WritingFits, OwnStored, RepliesFit, SendsFit, UploadFits, QuoteFits, Mounted, IsInjective, Known, Kept

LEMMA OwnStoredKept ==
  ASSUME ChatInv, ChatNext
  PROVE  OwnStored'
<1>1. OwnStored /\ outbox \subseteq DOMAIN own
  BY WritingParts, ChatTypes DEF ChatInv, WritingTypes
<1>2. DOMAIN own \subseteq DOMAIN own'
  <2>1. UNCHANGED own \/ \E s \in sends : Encrypted(s)
    BY DEF ChatNext, User, Client, Server, Environment, OpenChat, GoBack, OpenAbout, LeaveTo, ReplyTo, CancelReply, SendText,
       PickFiles, SendFails, Uploaded, UploadFails, ReloadHistory, EnqueueSequenced, Receive, ReceiveAck, ReceiveFailed,
       ReceiveRead, AckOwn, RefuseOwn, LoadFails, MergeHistory, AnswerHistory, Cleanup, Expire, Replay, OthersSend, StoreOwn,
       PeerReads, Connect, Disconnect, writing
  <2> QED
    BY <2>1 DEF Encrypted
<1>3. CASE Known' = Known
  BY <1>1, <1>2, <1>3 DEF OwnStored
<1>4. CASE \E m \in Incoming \cup outbox : m \notin Known /\ NewRow(m) /\ UNCHANGED dropped
  BY <1>1, <1>2, <1>4, NewRowFacts, ChatAssumption DEF OwnStored
<1> QED
  BY <1>3, <1>4, KnownGrows

LEMMA NextImageFits ==
  ASSUME WritingTypes, UploadFits, upload # Nothing, NextImage, UNCHANGED own, NEW S,
         \A m \in S : m \in {s.m : s \in sends} \/ m = Head(upload.left), {s.m : s \in sends'} \subseteq S
  PROVE  UploadFits'
<1> SUFFICES ASSUME upload' # Nothing
             PROVE  /\ QuoteFits(upload'.quote, upload'.c) /\ upload'.left # << >> /\ IsInjective(upload'.left)
                    /\ \A i \in DOMAIN upload'.left : upload'.left[i] \notin DOMAIN own \cup {s.m : s \in sends'}
  BY DEF UploadFits, QuoteFits, IsInjective
<1> DEFINE q == upload.left
<1>1. upload \in Upload /\ q \in Seq(Picture) /\ q # << >>
  BY DEF WritingTypes, Upload, UploadFits
<1>2. upload' = [upload EXCEPT !.left = Tail(q)] /\ Len(q) # 1
  BY DEF NextImage
<1>3. upload'.left = Tail(q) /\ upload'.quote = upload.quote /\ upload'.c = upload.c
  BY <1>1, <1>2 DEF Upload
<1>4. Tail(q) # << >>
  <2>1. Len(q) \in Nat /\ Len(q) # 0 /\ Len(Tail(q)) = Len(q) - 1
    BY <1>1
  <2>2. Len(Tail(q)) # 0 /\ Len(<< >>) = 0
    BY <1>2, <2>1
  <2> QED
    BY <2>2
<1>5. /\ Head(q) = q[1] /\ 1 \in DOMAIN q
      /\ \A i \in DOMAIN Tail(q) : i \in Nat /\ i # 0 /\ i + 1 # 1 /\ i + 1 \in DOMAIN q /\ Tail(q)[i] = q[i + 1]
  BY <1>1, TailIndex
<1>6. \A i, j \in DOMAIN q : q[i] = q[j] => i = j
  BY DEF UploadFits, IsInjective
<1>7. IsInjective(Tail(q))
  BY <1>5, <1>6 DEF IsInjective
<1>8. \A i \in DOMAIN Tail(q) : Tail(q)[i] \notin DOMAIN own \cup {s.m : s \in sends} /\ Tail(q)[i] # Head(q)
  BY <1>5, <1>6 DEF UploadFits
<1>9. QuoteFits(upload.quote, upload.c)
  BY DEF UploadFits
<1> QED
  BY <1>3, <1>4, <1>7, <1>8, <1>9

LEMMA WritingKept ==
  ASSUME ChatInv, ChatNext
  PROVE  RepliesFit' /\ SendsFit' /\ UploadFits'
<1>1. WritingTypes /\ ScreenType /\ RepliesFit /\ SendsFit /\ UploadFits /\ StoreFits
  BY WritingParts, ChatTypes DEF ChatInv
<1>2. UNCHANGED <<own, screen>> => RepliesFit'
  BY <1>1 DEF RepliesFit, QuoteFits, Mounted
<1>3. UNCHANGED <<own, sends>> => SendsFit'
  BY <1>1 DEF SendsFit, QuoteFits
<1>4. UNCHANGED <<own, sends, upload>> => UploadFits'
  BY <1>1 DEF UploadFits, QuoteFits
<1>5. CASE (\E c \in Chats : OpenChat(c)) \/ CancelReply
  <2>1. UNCHANGED <<own, sends, upload>>
    BY <1>5 DEF OpenChat, CancelReply, writing
  <2>2. screen'.reply = Nothing
    <3>1. CASE \E c \in Chats : OpenChat(c)
      BY <3>1 DEF OpenChat
    <3>2. CASE CancelReply
      BY <1>1, <3>2 DEF CancelReply, ScreenType
    <3> QED
      BY <1>5, <3>1, <3>2
  <2> QED
    BY <1>1, <1>3, <1>4, <2>1, <2>2 DEF RepliesFit, QuoteFits
<1>6. CASE \E r \in Route : LeaveTo(r)
  <2> DEFINE left(s) == [s EXCEPT !.mounted = FALSE]
  <2>1. /\ UNCHANGED own /\ screen'.reply = Nothing /\ sends' = {left(s) : s \in sends}
        /\ upload' = IF upload = Nothing THEN Nothing ELSE left(upload)
    BY <1>6 DEF LeaveTo
  <2>2. \A s \in sends : left(s).m = s.m /\ left(s).c = s.c /\ left(s).quote = s.quote
    BY <1>1 DEF WritingTypes, Send
  <2>3. upload # Nothing => left(upload).quote = upload.quote /\ left(upload).c = upload.c /\ left(upload).left = upload.left
    BY <1>1 DEF WritingTypes, Upload
  <2> HIDE DEF left
  <2>4. RepliesFit'
    BY <1>1, <2>1 DEF RepliesFit, QuoteFits
  <2>5. SendsFit'
    BY <1>1, <2>1, <2>2 DEF SendsFit, QuoteFits
  <2>6. {s.m : s \in sends'} = {s.m : s \in sends}
    BY <2>1, <2>2
  <2>7. ASSUME upload = Nothing
        PROVE  UploadFits'
    BY <2>1, <2>7 DEF UploadFits
  <2>8. ASSUME upload # Nothing
        PROVE  UploadFits'
    <3>1. upload'.quote = upload.quote /\ upload'.c = upload.c /\ upload'.left = upload.left
      BY <2>1, <2>3, <2>8
    <3> QED
      BY <1>1, <2>1, <2>6, <2>8, <3>1 DEF UploadFits, QuoteFits, IsInjective
  <2> QED
    BY <2>4, <2>5, <2>7, <2>8
<1>7. CASE \E m \in Incoming : ReplyTo(m)
  <2>1. PICK m \in Incoming : ReplyTo(m)
    BY <1>7
  <2>2. Mounted /\ m \in Shown(screen.route.c) /\ screen' = [screen EXCEPT !.reply = m] /\ UNCHANGED <<own, sends, upload>>
    BY <2>1 DEF ReplyTo, writing
  <2>3. screen.route.c \in Chats
    BY <1>1, <2>2, RouteFacts
  <2>4. Home[m] = screen.route.c
    BY <1>1, <2>2, <2>3 DEF Shown, StoreFits, EntryFits
  <2>5. screen'.route = screen.route /\ screen'.reply = m
    BY <1>1, <2>2 DEF ScreenType
  <2> QED
    BY <1>1, <1>3, <1>4, <2>2, <2>4, <2>5 DEF RepliesFit, QuoteFits, Mounted
<1>8. CASE \E m \in Text : SendText(m)
  <2>1. PICK m \in Text : SendText(m)
    BY <1>8
  <2>2. PICK new : new = [m |-> m, c |-> screen.route.c, quote |-> screen.reply, mounted |-> TRUE]
    OBVIOUS
  <2>3. sends' = sends \cup {new} /\ UNCHANGED <<own, upload, screen>> /\ Mounted
    BY <2>1, <2>2 DEF SendText, Compose
  <2>4. m \notin DOMAIN own /\ m \notin {s.m : s \in sends} /\ m \notin Uploading
    BY <2>1 DEF SendText, Unwritten
  <2>5. new.m = m /\ QuoteFits(new.quote, new.c)
    BY <1>1, <2>2, <2>3 DEF RepliesFit
  <2>6. SendsFit'
    BY <1>1, <2>3, <2>4, <2>5 DEF SendsFit, QuoteFits
  <2>7. upload # Nothing => \A i \in DOMAIN upload.left : upload.left[i] # m
    BY <2>4 DEF Uploading, ToSet
  <2>8. UploadFits'
    BY <1>1, <2>3, <2>5, <2>7 DEF UploadFits, QuoteFits
  <2> QED
    BY <1>2, <2>3, <2>6, <2>8
<1>9. CASE \E s \in sends : Encrypted(s)
  <2>1. PICK s \in sends : Encrypted(s)
    BY <1>9
  <2>2. /\ sends' = sends \ {s} /\ UNCHANGED upload
        /\ own' = [m \in DOMAIN own \cup {s.m} |-> IF m = s.m THEN [c |-> s.c, quote |-> s.quote] ELSE own[m]]
        /\ screen' = IF s.mounted THEN [screen EXCEPT !.reply = Nothing] ELSE screen
    BY <2>1 DEF Encrypted
  <2>3. QuoteFits(s.quote, s.c)
    BY <1>1 DEF SendsFit
  <2>4. screen'.route = screen.route /\ screen'.reply \in {Nothing, screen.reply}
    BY <1>1, <2>2 DEF ScreenType
  <2>5. \A m \in DOMAIN own' : QuoteFits(own'[m].quote, own'[m].c)
    BY <1>1, <2>2, <2>3 DEF RepliesFit
  <2>6. RepliesFit'
    BY <1>1, <2>4, <2>5 DEF RepliesFit, QuoteFits, Mounted
  <2>7. SendsFit'
    BY <1>1, <2>2 DEF SendsFit, QuoteFits
  <2>8. UploadFits'
    BY <1>1, <2>2 DEF UploadFits, QuoteFits
  <2> QED
    BY <2>6, <2>7, <2>8
<1>10. CASE \E s \in sends : SendFails(s)
  <2>1. sends' \subseteq sends /\ UNCHANGED <<own, screen, upload>>
    BY <1>10 DEF SendFails
  <2> QED
    BY <1>1, <1>2, <2>1 DEF SendsFit, UploadFits, QuoteFits
<1>11. CASE \E ms \in Picks : PickFiles(ms)
  <2>1. PICK ms \in Picks : PickFiles(ms)
    BY <1>11
  <2>2. ms # << >> /\ IsInjective(ms) /\ Mounted /\ UNCHANGED <<own, sends, screen>>
    BY <2>1, PickTypes DEF PickFiles
  <2>3. upload' = [c |-> screen.route.c, quote |-> screen.reply, left |-> ms, mounted |-> TRUE]
    BY <2>1 DEF PickFiles
  <2>4. \A i \in DOMAIN ms : ms[i] \notin DOMAIN own \cup {s.m : s \in sends}
    BY <2>1 DEF PickFiles, Unwritten, ToSet
  <2>5. QuoteFits(screen.reply, screen.route.c)
    BY <1>1, <2>2 DEF RepliesFit
  <2>6. UploadFits'
    BY <2>2, <2>3, <2>4, <2>5 DEF UploadFits, QuoteFits
  <2> QED
    BY <1>2, <1>3, <2>2, <2>6
<1>12. CASE Uploaded \/ UploadFails
  <2>1. upload # Nothing /\ NextImage /\ UNCHANGED <<own, screen>>
    BY <1>12 DEF Uploaded, UploadFails
  <2>2. CASE UNCHANGED sends
    BY <1>1, <1>2, <1>3, <2>1, <2>2, NextImageFits
  <2>3. CASE Uploaded /\ ~Sending(upload.mounted)
    <3>1. PICK new : new = [m |-> Head(upload.left), c |-> upload.c, quote |-> upload.quote, mounted |-> upload.mounted]
      OBVIOUS
    <3>2. sends' = sends \cup {new} /\ new.m = Head(upload.left) /\ new.quote = upload.quote /\ new.c = upload.c
      BY <2>3, <3>1 DEF Uploaded, Compose
    <3>3. Head(upload.left) \notin DOMAIN own \cup {s.m : s \in sends} /\ QuoteFits(upload.quote, upload.c)
      <4>1. upload.left \in Seq(Picture) /\ upload.left # << >>
        BY <1>1, <2>1 DEF WritingTypes, Upload, UploadFits
      <4>2. Head(upload.left) = upload.left[1] /\ 1 \in DOMAIN upload.left
        BY <4>1, TailIndex
      <4> QED
        BY <1>1, <2>1, <4>2 DEF UploadFits
    <3>4. SendsFit'
      BY <1>1, <2>1, <3>2, <3>3 DEF SendsFit, QuoteFits
    <3>5. UploadFits'
      <4> DEFINE S == {s.m : s \in sends} \cup {Head(upload.left)}
      <4>1. {s.m : s \in sends'} \subseteq S /\ \A m \in S : m \in {s.m : s \in sends} \/ m = Head(upload.left)
        BY <3>2
      <4> HIDE DEF S
      <4> QED
        BY <1>1, <2>1, <4>1, NextImageFits
    <3> QED
      BY <1>2, <2>1, <3>4, <3>5
  <2> QED
    BY <1>12, <2>2, <2>3 DEF Uploaded, UploadFails
<1>13. CASE GoBack \/ OpenAbout
  <2>1. \E r \in Route : LeaveTo(r)
    BY <1>1, <1>13, RouteFacts DEF GoBack, OpenAbout, LeaveTo, Route
  <2> QED
    BY <1>6, <2>1
<1>14. CASE ReloadHistory \/ EnqueueSequenced \/ Receive \/ (\E m \in Own : ReceiveAck(m) \/ ReceiveFailed(m) \/ ReceiveRead(m))
         \/ (\E m \in Own : AckOwn(m) \/ RefuseOwn(m) \/ StoreOwn(m) \/ PeerReads(m)) \/ (\E m \in Incoming : OthersSend(m))
         \/ (\E l \in fetches : LoadFails(l) \/ MergeHistory(l) \/ AnswerHistory(l)) \/ Cleanup
         \/ (\E m \in Message : Expire(m) \/ Replay(m)) \/ Connect \/ Disconnect
  <2>1. UNCHANGED <<own, screen, sends, upload>>
    BY <1>14 DEF ReloadHistory, EnqueueSequenced, Receive, ReceiveAck, ReceiveFailed, ReceiveRead, AckOwn, RefuseOwn,
       StoreOwn, PeerReads, OthersSend, LoadFails, MergeHistory, AnswerHistory, Cleanup, Expire, Replay, Connect, Disconnect, writing
  <2> QED
    BY <1>2, <1>3, <1>4, <2>1
<1> QED
  BY <1>5, <1>7, <1>8, <1>9, <1>10, <1>11, <1>12, <1>13, <1>14 DEF ChatNext, User, Client, Server, Environment

-----------------------------------------------------------------------------
(* Rows that were read, and what the page has shown.                       *)

Showing == (\E c \in Chats : OpenChat(c)) \/ (\E l \in fetches : MergeHistory(l)) \/ Cleanup \/ Receive
             \/ (\E s \in sends : Encrypted(s))

\* These steps display a store, or a replay is skipped.
LEMMA ShowingFacts ==
  ASSUME ChatInv, ChatNext, Showing
  PROVE  /\ UNCHANGED <<dropped, aged>>
         /\ \/ UNCHANGED <<rows, store, seen>>
            \/ \E r \in Route : r = screen'.route /\ store' \in [Chats -> SUBSET ChatEntry] /\ Display(r, store', rows)
<1>1. ScreenType /\ StoreTypes' /\ ScreenType'
  BY ChatTypesKept, ChatTypesNext, ChatTypes DEF ChatInv
<1>2. store' \in [Chats -> SUBSET ChatEntry]
  BY <1>1 DEF StoreTypes
<1>3. screen'.route \in Route
  BY <1>1 DEF ScreenType
<1>4. UNCHANGED <<dropped, aged>>
  BY DEF Showing, OpenChat, MergeHistory, Cleanup, Receive, Encrypted
<1>5. CASE \E c \in Chats : OpenChat(c)
  <2>1. PICK c \in Chats : OpenChat(c)
    BY <1>5
  <2>2. screen'.route = [kind |-> "chat", c |-> c] /\ Display([kind |-> "chat", c |-> c], store, rows)
    BY <2>1 DEF OpenChat
  <2>3. store' = store
    BY <2>2 DEF Display
  <2> QED
    BY <1>2, <1>3, <1>4, <2>2, <2>3
<1>6. ASSUME NEW s, ShowStore(s), screen'.route = screen.route
      PROVE  \E r \in Route : r = screen'.route /\ store' \in [Chats -> SUBSET ChatEntry] /\ Display(r, store', rows)
  <2>1. Display(screen.route, s, rows) /\ store' = s
    BY <1>6 DEF ShowStore, Display
  <2> QED
    BY <1>2, <1>3, <1>6, <2>1
<1>7. CASE \E s \in sends : Encrypted(s)
  <2>1. PICK s \in sends : Encrypted(s)
    BY <1>7
  <2>2. screen'.route = screen.route
    BY <1>1, <2>1 DEF Encrypted, ScreenType
  <2> QED
    BY <1>4, <1>6, <2>1, <2>2 DEF Encrypted
<1>8. CASE (\E l \in fetches : MergeHistory(l)) \/ Cleanup \/ Receive
  <2>1. UNCHANGED screen
    BY <1>8 DEF MergeHistory, Cleanup, Receive
  <2>2. UNCHANGED <<rows, store, seen>> \/ \E s : ShowStore(s)
    BY <1>8 DEF MergeHistory, Cleanup, Receive
  <2> QED
    BY <1>4, <1>6, <2>1, <2>2
<1> QED
  BY <1>5, <1>7, <1>8 DEF Showing

\* The other steps change neither what was seen nor the rows, but for AnswerHistory, new rows and own messages.
LEMMA OtherRows ==
  ASSUME ChatNext, ~Showing
  PROVE  /\ UNCHANGED seen
         /\ \/ UNCHANGED rows
            \/ \E l \in fetches : AnswerHistory(l)
            \/ \E m : m \notin Known /\ NewRow(m) /\ UNCHANGED dropped
            \/ \E m \in Own : PeerReads(m)
BY DEF Showing, ChatNext, User, Client, Server, Environment, GoBack, OpenAbout, LeaveTo, ReplyTo, CancelReply, SendText, PickFiles,
   SendFails, Uploaded, UploadFails, ReloadHistory, EnqueueSequenced, ReceiveAck, ReceiveFailed, ReceiveRead, AckOwn,
   RefuseOwn, StoreOwn, PeerReads, OthersSend, LoadFails, AnswerHistory, Expire, Replay, Connect, Disconnect, serverVars, Known

LEMMA SeenStays ==
  ASSUME ChatInv, ChatNext
  PROVE  /\ seen \subseteq seen' /\ aged \subseteq aged'
         /\ \A m \in seen' \ seen : m \in Incoming /\ On(Home[m])' /\ Found(Home[m], m)' # {}
<1>1. aged \subseteq aged'
  BY DEF ChatNext, User, Client, Server, Environment, OpenChat, GoBack, OpenAbout, LeaveTo, ReplyTo, CancelReply, SendText, PickFiles,
     SendFails, Encrypted, Uploaded, UploadFails, ReloadHistory, EnqueueSequenced, Receive, ReceiveAck, ReceiveFailed, ReceiveRead,
     AckOwn, RefuseOwn, StoreOwn, PeerReads, OthersSend, LoadFails, MergeHistory, AnswerHistory, Cleanup, Expire, Replay, Connect,
     Disconnect, serverVars
<1>2. CASE UNCHANGED seen
  BY <1>1, <1>2
<1>3. CASE Showing /\ ~UNCHANGED <<rows, store, seen>>
  <2>1. PICK r \in Route : r = screen'.route /\ store' \in [Chats -> SUBSET ChatEntry] /\ Display(r, store', rows)
    BY <1>3, ShowingFacts
  <2>2. PICK s \in [Chats -> SUBSET ChatEntry] : s = store' /\ Display(r, s, rows)
    BY <2>1
  <2>3. /\ seen \subseteq seen'
        /\ \A m \in seen' \ seen : r.kind = "chat" /\ m \in Incoming /\ \E e \in s[r.c] : e.m = m
        /\ r.kind = "chat" => r.c \in Chats
    BY <2>2, DisplayFacts, ChatTypes DEF ChatInv
  <2>4. ASSUME NEW m \in seen' \ seen
        PROVE  On(Home[m])' /\ Found(Home[m], m)' # {}
    <3>1. PICK e \in store'[r.c] : e.m = m
      BY <2>2, <2>3, <2>4
    <3>2. EntryFits(r.c, e)'
      BY <2>3, <2>4, <3>1, EntriesKept DEF StoreFits
    <3>3. m \in Incoming /\ Home[m] = r.c /\ e.key = "server"
      BY <2>3, <2>4, <3>1, <3>2 DEF EntryFits
    <3>4. screen'.route = [kind |-> "chat", c |-> r.c]
      BY <2>1, <2>3, <2>4 DEF Route
    <3> QED
      BY <3>1, <3>3, <3>4 DEF On, Found
  <2> QED
    BY <1>1, <2>3, <2>4
<1> QED
  BY <1>2, <1>3, OtherRows

LEMMA ReadMeansSeenKept ==
  ASSUME ChatInv, ChatNext
  PROVE  ReadMeansSeen'
<1>1. ServerTypes /\ ReadMeansSeen
  BY ChatTypes DEF ChatInv
<1>2. seen \subseteq seen'
  BY SeenStays
<1> SUFFICES ASSUME NEW m \in Kept' \cap Incoming, rows'[m].read
             PROVE  m \in seen'
  BY DEF ReadMeansSeen, Kept
<1>3. CASE UNCHANGED rows
  BY <1>1, <1>2, <1>3 DEF ReadMeansSeen, Kept
<1>4. CASE \E l \in fetches : AnswerHistory(l)
  BY <1>1, <1>2, <1>4 DEF ReadMeansSeen, Kept, AnswerHistory
<1>5. CASE \E k : k \notin Known /\ NewRow(k) /\ UNCHANGED dropped
  BY <1>1, <1>2, <1>5, NewRowFacts DEF ReadMeansSeen
<1>6. CASE \E k \in Own : PeerReads(k)
  BY <1>1, <1>2, <1>6, ChatAssumption DEF ReadMeansSeen, Kept, PeerReads
<1>7. CASE Showing /\ ~UNCHANGED rows
  <2>1. PICK r \in Route : r = screen'.route /\ store' \in [Chats -> SUBSET ChatEntry] /\ Display(r, store', rows)
    BY <1>7, ShowingFacts
  <2>2. PICK s \in [Chats -> SUBSET ChatEntry] : s = store' /\ Display(r, s, rows)
    BY <2>1
  <2>3. Kept' = Kept /\ \A k \in Kept : rows'[k].read /\ ~rows[k].read => k \in seen'
    BY <1>1, <2>2, DisplayFacts
  <2> QED
    BY <1>1, <1>2, <2>3 DEF ReadMeansSeen
<1> QED
  BY <1>3, <1>4, <1>5, <1>6, <1>7, OtherRows

-----------------------------------------------------------------------------
(* What a chat shows stays there.                                          *)

\* An entry of the same message, which has the server's id if this one has it.
Follows(d, e) == d.m = e.m /\ (e.key = "server" => d.key = "server")

LEMMA AddMessageShows ==
  ASSUME StoreTypes, NEW c \in Chats, NEW f \in Frame, NEW e \in store[c]
  PROVE  \E d \in AddMessage(c, f) : Follows(d, e)
<1>1. e \in ChatEntry
  BY DEF StoreTypes
<1>2. [e EXCEPT !.key = "server", !.status = "sent", !.read = f.read].m = e.m
  BY <1>1, ChangedFields
<1>3. [e EXCEPT !.key = "server", !.status = "sent", !.read = f.read].key = "server"
  BY <1>1, ChangedFields
<1>4. PICK b : b = (f.m \in Own)
  OBVIOUS
<1>5. [e EXCEPT !.tagged = b].m = e.m /\ [e EXCEPT !.tagged = b].key = e.key
  BY <1>1, ChangedFields
<1>6. [e EXCEPT !.tagged = f.m \in Own].m = e.m /\ [e EXCEPT !.tagged = f.m \in Own].key = e.key
  BY <1>4, <1>5
<1>7. c \in Private \cup Group
  BY DEF Chats
<1> QED
  BY <1>2, <1>3, <1>6, <1>7 DEF AddMessage, Follows

\* A step takes an entry only when its message expired, and then all entries of the message.
LEMMA EntryStays ==
  ASSUME ChatInv, ChatNext, NEW c \in Chats, NEW e \in store[c], e.m \notin aged \/ \E x \in store'[c] : x.m = e.m
  PROVE  \E d \in store'[c] : Follows(d, e)
<1>1. StoreTypes /\ LoadTypes /\ NetTypes /\ WritingTypes /\ FramesFit /\ e \in ChatEntry
  BY ChatTypes DEF ChatInv, StoreTypes
<1>2. CASE UNCHANGED store
  BY <1>2 DEF Follows
<1>3. ASSUME NEW s, ShowStore(s) PROVE store' = s
  BY <1>3 DEF ShowStore, Display
<1>4. CASE \E l \in fetches : MergeHistory(l)
  <2>1. PICK l \in fetches : MergeHistory(l)
    BY <1>4
  <2>2. store' = SetStore(l.c, Merged(l, store[l.c])) /\ l.c \in Chats /\ Merged(l, store[l.c]) \in SUBSET ChatEntry
    BY <1>1, <1>3, <2>1, MergedTypes DEF MergeHistory
  <2>3. CASE c = l.c
    <3>1. store'[c] = Merged(l, store[c])
      BY <1>1, <2>2, <2>3, SetStoreTypes
    <3>2. CASE e.key = "server" /\ e.m \in {p.m : p \in l.page}
      <4>1. PICK p \in l.page : p.m = e.m
        BY <3>2
      <4>2. p.key = "server"
        BY <4>1 DEF ChatInv, PagesFit, PageFits, EntryFits
      <4> QED
        BY <3>1, <4>1, <4>2 DEF Merged, Follows
    <3>3. CASE ~(e.key = "server" /\ e.m \in {p.m : p \in l.page})
      BY <3>1, <3>3 DEF Merged, Follows
    <3> QED
      BY <3>2, <3>3
  <2>4. CASE c # l.c
    BY <1>1, <2>2, <2>4, SetStoreTypes DEF Follows
  <2> QED
    BY <2>3, <2>4
<1>5. CASE Cleanup
  <2>1. store'[c] = IF c \in Timed THEN {x \in store[c] : x.m \notin aged} ELSE store[c]
    BY <1>3, <1>5 DEF Cleanup
  <2> QED
    BY <2>1 DEF Follows
<1>6. CASE Receive
  <2> DEFINE f == Head(queue)
             a == ChatOf(f.m)
  <2>1. queue # << >> /\ f \in Frame
    BY <1>1, <1>6, FrameTypes DEF Receive
  <2>2. FrameFits(f)
    BY <1>1, <2>1 DEF FramesFit, NetTypes
  <2>3. a \in Chats
    BY <1>1, <2>1, <2>2, ChatAssumption DEF FrameFits, ChatOf, WritingTypes, Frame, Message
  <2>4. AddMessage(a, f) \in SUBSET ChatEntry
    BY <1>1, <2>1, <2>3, AddMessageTypes
  <2>5. store' = SetStore(a, AddMessage(a, f)) \/ UNCHANGED store
    BY <1>3, <1>6 DEF Receive
  <2> HIDE DEF f, a
  <2>6. CASE store' = SetStore(a, AddMessage(a, f)) /\ c = a
    BY <1>1, <2>1, <2>3, <2>4, <2>6, SetStoreTypes, AddMessageShows
  <2>7. CASE store' = SetStore(a, AddMessage(a, f)) /\ c # a
    BY <1>1, <2>1, <2>3, <2>4, <2>7, SetStoreTypes DEF Follows
  <2> QED
    BY <1>2, <2>5, <2>6, <2>7
<1>7. CASE \E m \in Own : ReceiveAck(m)
  <2>1. PICK m \in Own : ReceiveAck(m)
    BY <1>7
  <2>2. PICK es \in Settled(own[m].c, m) : store'[own[m].c] = es /\ \A d \in Chats : d # own[m].c => store'[d] = store[d]
    BY <2>1, AckFacts
  <2>3. CASE c = own[m].c
    <3>1. store[c] \in SUBSET ChatEntry
      BY <1>1 DEF StoreTypes
    <3>2. PICK d \in es : Acked(m, d, e)
      BY <2>2, <2>3, <3>1, SettledEntries
    <3> QED
      BY <2>2, <2>3, <3>2 DEF Acked, Follows
  <2>4. CASE c # own[m].c
    BY <2>2, <2>4 DEF Follows
  <2> QED
    BY <2>3, <2>4
<1>8. CASE \E m \in Own : ReceiveFailed(m)
  <2>1. PICK m \in Own : ReceiveFailed(m)
    BY <1>8
  <2>2. store' = [store EXCEPT ![own[m].c] = {IF x \in Optimistic(own[m].c, m) THEN [x EXCEPT !.status = "failed"] ELSE x : x \in @}]
    BY <2>1 DEF ReceiveFailed
  <2>3. [e EXCEPT !.status = "failed"].m = e.m /\ [e EXCEPT !.status = "failed"].key = e.key
    BY <1>1, ChangedFields
  <2>4. CASE c = own[m].c
    <3>1. store'[c] = {IF x \in Optimistic(c, m) THEN [x EXCEPT !.status = "failed"] ELSE x : x \in store[c]}
      BY <1>1, <2>2, <2>4 DEF StoreTypes
    <3> QED
      BY <2>3, <3>1 DEF Follows
  <2>5. CASE c # own[m].c
    <3>1. store'[c] = store[c]
      BY <1>1, <2>2, <2>5 DEF StoreTypes
    <3> QED
      BY <3>1 DEF Follows
  <2> QED
    BY <2>4, <2>5
<1>9. CASE \E m \in Own : ReceiveRead(m)
  <2>1. PICK m \in Own : ReceiveRead(m)
    BY <1>9
  <2>2. store'[c] = {IF x \in Found(c, m) THEN [x EXCEPT !.read = TRUE] ELSE x : x \in store[c]}
    BY <2>1 DEF ReceiveRead
  <2>3. [e EXCEPT !.read = TRUE].m = e.m /\ [e EXCEPT !.read = TRUE].key = e.key
    BY <1>1, ChangedFields
  <2> QED
    BY <2>2, <2>3 DEF Follows
<1>10. CASE \E s \in sends : Encrypted(s)
  <2>1. PICK s \in sends : Encrypted(s)
    BY <1>10
  <2>2. s.m \in Own /\ s.c \in Chats
    BY <1>1 DEF WritingTypes, Send
  <2>3. Queued(s.m) \in ChatEntry /\ store[s.c] \in SUBSET ChatEntry
    BY <1>1, <2>2 DEF StoreTypes, Queued, ChatEntry, Message
  <2>4. store' = SetStore(s.c, store[s.c] \cup {Queued(s.m)})
    BY <1>3, <2>1 DEF Encrypted
  <2>5. store[c] \subseteq store'[c]
    BY <1>1, <2>2, <2>3, <2>4, SetStoreTypes
  <2> QED
    BY <2>5 DEF Follows
<1>11. CASE (\E d \in Chats : OpenChat(d)) \/ GoBack \/ OpenAbout \/ ReloadHistory \/ (\E m \in Incoming : ReplyTo(m) \/ OthersSend(m))
         \/ CancelReply \/ (\E m \in Text : SendText(m)) \/ (\E ms \in Picks : PickFiles(ms)) \/ (\E s \in sends : SendFails(s))
         \/ Uploaded \/ UploadFails \/ EnqueueSequenced \/ (\E l \in fetches : LoadFails(l) \/ AnswerHistory(l))
         \/ (\E m \in Own : AckOwn(m) \/ RefuseOwn(m) \/ StoreOwn(m) \/ PeerReads(m)) \/ (\E m \in Message : Replay(m) \/ Expire(m))
         \/ Connect \/ Disconnect
  <2>1. UNCHANGED store
    BY <1>11 DEF OpenChat, Display, GoBack, OpenAbout, LeaveTo, ReloadHistory, ReplyTo, OthersSend, CancelReply, SendText, PickFiles,
       SendFails, Uploaded, UploadFails, EnqueueSequenced, LoadFails, AnswerHistory, AckOwn, RefuseOwn, StoreOwn, PeerReads, Replay,
       Expire, Connect, Disconnect
  <2> QED
    BY <1>2, <2>1
<1> QED
  BY <1>4, <1>5, <1>6, <1>7, <1>8, <1>9, <1>10, <1>11 DEF ChatNext, User, Client, Server, Environment

LEMMA FoundStays ==
  ASSUME ChatInv, ChatNext, NEW c \in Chats, NEW m, m \notin aged \/ (\E x \in store'[c] : x.m = m), Found(c, m) # {}
  PROVE  Found(c, m)' # {}
<1>1. PICK e \in store[c] : e.m = m /\ e.key = "server"
  BY DEF Found
<1>2. PICK d \in store'[c] : Follows(d, e)
  BY <1>1, EntryStays
<1> QED
  BY <1>1, <1>2 DEF Found, Follows

-----------------------------------------------------------------------------
(* Answers.                                                                *)

\* The steps that change the store.
LEMMA StoringSteps ==
  ASSUME ChatNext
  PROVE  \/ UNCHANGED <<store, outbox>>
         \/ (\E l \in fetches : MergeHistory(l)) \/ Cleanup \/ Receive \/ (\E s \in sends : Encrypted(s))
         \/ \E m \in Own : ReceiveAck(m) \/ ReceiveFailed(m) \/ ReceiveRead(m)
BY DEF ChatNext, User, Client, Server, Environment, OpenChat, Display, GoBack, OpenAbout, LeaveTo, ReloadHistory, ReplyTo, OthersSend,
   CancelReply, SendText, PickFiles, SendFails, Uploaded, UploadFails, EnqueueSequenced, LoadFails, AnswerHistory, AckOwn, RefuseOwn,
   StoreOwn, PeerReads, Replay, Expire, Connect, Disconnect, writing

LEMMA ReceivedStore ==
  ASSUME ChatInv, Receive, NEW f, f = Head(queue)
  PROVE  /\ f \in Frame /\ ChatOf(f.m) \in Chats /\ UNCHANGED outbox
         /\ \/ UNCHANGED store
            \/ /\ store'[ChatOf(f.m)] = AddMessage(ChatOf(f.m), f)
               /\ \A d \in Chats : d # ChatOf(f.m) => store'[d] = store[d]
<1>1. StoreTypes /\ NetTypes /\ WritingTypes /\ FramesFit
  BY ChatTypes DEF ChatInv
<1>2. queue # << >> /\ f \in Frame /\ f = queue[1] /\ 1 \in DOMAIN queue
  BY <1>1, FrameTypes, TailIndex DEF Receive, NetTypes
<1>3. ChatOf(f.m) \in Chats
  BY <1>1, <1>2, ChatAssumption DEF FramesFit, FrameFits, ChatOf, WritingTypes, Frame, Message
<1>4. AddMessage(ChatOf(f.m), f) \in SUBSET ChatEntry
  BY <1>1, <1>2, <1>3, AddMessageTypes
<1>5. UNCHANGED store \/ store' = SetStore(ChatOf(f.m), AddMessage(ChatOf(f.m), f))
  BY DEF Receive, ShowStore, Display
<1> QED
  BY <1>1, <1>2, <1>3, <1>4, <1>5, SetStoreTypes DEF Receive, writing

LEMMA MergedStore ==
  ASSUME ChatInv, NEW l \in fetches, MergeHistory(l)
  PROVE  /\ UNCHANGED outbox
         /\ \A c \in Chats : \A e \in store'[c] : e \in store[c] \/ (~e.tagged /\ e.key = "server")
<1>1. StoreTypes /\ LoadTypes /\ PagesFit
  BY ChatTypes DEF ChatInv
<1>2. store' = SetStore(l.c, Merged(l, store[l.c])) /\ UNCHANGED outbox
  BY DEF MergeHistory, ShowStore, Display, writing
<1>3. \A e \in l.page : ~e.tagged /\ e.key = "server"
  BY <1>1 DEF PagesFit, PageFits, EntryFits
<1>4. \A e \in Merged(l, store[l.c]) : e \in store[l.c] \/ (~e.tagged /\ e.key = "server")
  BY <1>3 DEF Merged
<1>5. l.c \in Chats /\ Merged(l, store[l.c]) \in SUBSET ChatEntry
  BY <1>1, MergedTypes
<1>6. store'[l.c] = Merged(l, store[l.c]) /\ \A d \in Chats : d # l.c => store'[d] = store[d]
  BY <1>1, <1>2, <1>5, SetStoreTypes
<1> QED
  BY <1>2, <1>4, <1>6

LEMMA CleanedStore ==
  ASSUME Cleanup
  PROVE  UNCHANGED outbox /\ \A c \in Chats : store'[c] \subseteq store[c]
BY DEF Cleanup, ShowStore, Display, writing

LEMMA EncryptedStore ==
  ASSUME ChatInv, NEW s \in sends, Encrypted(s)
  PROVE  /\ s.m \in Own /\ s.m \notin DOMAIN own /\ outbox' = outbox \cup {s.m}
         /\ \A c \in Chats : store'[c] \subseteq store[c] \cup {Queued(s.m)}
         /\ \A c \in Chats : \A e \in store[c] : e.m # s.m
<1>1. StoreTypes /\ WritingTypes /\ StoreFits /\ WritingFits /\ s \in Send /\ s.m \in Own /\ s.c \in Chats
  BY ChatTypes DEF ChatInv, WritingTypes, Send
<1>2. s.m \notin DOMAIN own
  BY <1>1 DEF WritingFits
<1>3. Queued(s.m) \in ChatEntry /\ store[s.c] \in SUBSET ChatEntry
  BY <1>1 DEF StoreTypes, Queued, ChatEntry, Message
<1>4. store' = SetStore(s.c, store[s.c] \cup {Queued(s.m)}) /\ outbox' = outbox \cup {s.m}
  BY DEF Encrypted, ShowStore, Display
<1>5. \A c \in Chats : store'[c] \subseteq store[c] \cup {Queued(s.m)}
  BY <1>1, <1>3, <1>4, SetStoreTypes
<1>6. \A c \in Chats : \A e \in store[c] : e.m # s.m
  BY <1>1, <1>2 DEF StoreFits, EntryFits
<1> QED
  BY <1>1, <1>2, <1>4, <1>5, <1>6

\* What a refusal, a receipt and the message itself make of an entry.
RefusedEntry(c, m, e) == IF e \in Optimistic(c, m) THEN [e EXCEPT !.status = "failed"] ELSE e
ReadEntry(c, m, e) == IF e \in Found(c, m) THEN [e EXCEPT !.read = TRUE] ELSE e
ReconciledEntry(c, f, e) == IF e \in Optimistic(c, f.m) THEN [e EXCEPT !.key = "server", !.status = "sent", !.read = f.read] ELSE e

LEMMA MarkFields ==
  ASSUME NEW e \in ChatEntry, NEW c, NEW m, NEW f
  PROVE  /\ RefusedEntry(c, m, e).m = e.m /\ RefusedEntry(c, m, e).tagged = e.tagged /\ RefusedEntry(c, m, e).key = e.key
         /\ RefusedEntry(c, m, e).status = IF e \in Optimistic(c, m) THEN "failed" ELSE e.status
         /\ ReadEntry(c, m, e).m = e.m /\ ReadEntry(c, m, e).tagged = e.tagged /\ ReadEntry(c, m, e).key = e.key
         /\ ReadEntry(c, m, e).status = e.status
         /\ ReconciledEntry(c, f, e).m = e.m /\ ReconciledEntry(c, f, e).tagged = e.tagged
         /\ e \in Optimistic(c, f.m) => ReconciledEntry(c, f, e).key = "server"
<1>1. PICK t : t = TRUE
  OBVIOUS
<1>2. [e EXCEPT !.read = t].m = e.m /\ [e EXCEPT !.read = t].tagged = e.tagged /\ [e EXCEPT !.read = t].key = e.key
      /\ [e EXCEPT !.read = t].status = e.status
  BY ChangedFields
<1>3. /\ ReadEntry(c, m, e).m = e.m /\ ReadEntry(c, m, e).tagged = e.tagged /\ ReadEntry(c, m, e).key = e.key
      /\ ReadEntry(c, m, e).status = e.status
  BY <1>1, <1>2 DEF ReadEntry
<1>4. /\ RefusedEntry(c, m, e).m = e.m /\ RefusedEntry(c, m, e).tagged = e.tagged /\ RefusedEntry(c, m, e).key = e.key
      /\ RefusedEntry(c, m, e).status = IF e \in Optimistic(c, m) THEN "failed" ELSE e.status
  BY ChangedFields DEF RefusedEntry
<1>5. /\ ReconciledEntry(c, f, e).m = e.m /\ ReconciledEntry(c, f, e).tagged = e.tagged
      /\ e \in Optimistic(c, f.m) => ReconciledEntry(c, f, e).key = "server"
  BY ChangedFields DEF ReconciledEntry
<1> QED
  BY <1>3, <1>4, <1>5

LEMMA MarkedStore ==
  ASSUME ChatInv, NEW m \in Own
  PROVE  /\ ReceiveFailed(m) => /\ own[m].c \in Chats /\ outbox' = outbox \ {m}
                                /\ store'[own[m].c] = {RefusedEntry(own[m].c, m, e) : e \in store[own[m].c]}
                                /\ \A d \in Chats : d # own[m].c => store'[d] = store[d]
         /\ ReceiveRead(m) => UNCHANGED outbox /\ \A c \in Chats : store'[c] = {ReadEntry(c, m, e) : e \in store[c]}
<1>1. StoreTypes /\ NetTypes /\ WritingTypes /\ FramesFit
  BY ChatTypes DEF ChatInv
<1>2. ReceiveFailed(m) => own[m].c \in Chats
  BY <1>1, FirstFrame DEF ReceiveFailed, FrameFits, WritingTypes
<1>3. ReceiveFailed(m) => /\ outbox' = outbox \ {m}
                          /\ store' = [store EXCEPT ![own[m].c] = {RefusedEntry(own[m].c, m, e) : e \in @}]
  BY DEF ReceiveFailed, RefusedEntry
<1>4. ReceiveRead(m) => UNCHANGED outbox /\ store' = [c \in Chats |-> {ReadEntry(c, m, e) : e \in store[c]}]
  BY DEF ReceiveRead, ReadEntry, writing
<1> QED
  BY <1>1, <1>2, <1>3, <1>4 DEF StoreTypes

\* In a private chat the id a message got leaves the other entries of it alone.
LEMMA LoneKept ==
  ASSUME ChatInv, ChatNext
  PROVE  Lone'
<1> SUFFICES ASSUME NEW c \in Private, NEW e \in store'[c], NEW f \in store'[c], e.tagged, f.tagged, e.m = f.m
             PROVE  e = f
  BY DEF Lone
<1>1. c \in Chats /\ c \notin Group /\ store[c] \subseteq ChatEntry
  BY ChatTypes, ChatAssumption DEF ChatInv, StoreTypes, Chats
<1>2. \A x, y \in store[c] : x.tagged /\ y.tagged /\ x.m = y.m => x = y
  BY DEF ChatInv, Lone
<1>3. CASE e \in store[c] /\ f \in store[c]
  BY <1>2, <1>3
<1>4. CASE \E l \in fetches : MergeHistory(l)
  BY <1>1, <1>3, <1>4, MergedStore
<1>5. CASE Cleanup
  BY <1>1, <1>3, <1>5, CleanedStore
<1>6. CASE Receive
  <2>1. PICK g : g = Head(queue)
    OBVIOUS
  <2>2. CASE store'[c] = store[c]
    BY <1>3, <2>2
  <2>3. CASE store'[c] = AddMessage(c, g) /\ IsNew(c, g.m)
    <3>1. store'[c] = store[c] \cup {Received(g)} /\ Received(g).m = g.m
      BY <2>3 DEF AddMessage, IsNew, Received
    <3>2. \A x \in store[c] : x.tagged => x.m # g.m
      BY <2>3 DEF IsNew, Optimistic
    <3> QED
      BY <1>2, <3>1, <3>2
  <2>4. CASE store'[c] = AddMessage(c, g) /\ ~IsNew(c, g.m) /\ Found(c, g.m) = {}
    <3>1. store'[c] = {ReconciledEntry(c, g, x) : x \in store[c]}
      BY <2>4 DEF AddMessage, ReconciledEntry
    <3>2. PICK x \in store[c], y \in store[c] : e = ReconciledEntry(c, g, x) /\ f = ReconciledEntry(c, g, y)
      BY <3>1
    <3>3. x.m = e.m /\ y.m = f.m /\ x.tagged /\ y.tagged
      BY <1>1, <3>2, MarkFields
    <3> QED
      BY <1>2, <3>2, <3>3
  <2>5. CASE store'[c] = AddMessage(c, g) /\ Found(c, g.m) # {}
    BY <1>1, <1>3, <2>5 DEF AddMessage, IsNew
  <2> QED
    BY <1>1, <1>6, <2>1, <2>2, <2>3, <2>4, <2>5, ReceivedStore
<1>7. CASE \E s \in sends : Encrypted(s)
  <2>1. PICK s \in sends : Encrypted(s)
    BY <1>7
  <2>2. Queued(s.m).m = s.m
    BY DEF Queued
  <2> QED
    BY <1>1, <1>2, <2>1, <2>2, EncryptedStore
<1>8. CASE \E m \in Own : ReceiveAck(m)
  <2>1. PICK m \in Own : ReceiveAck(m)
    BY <1>8
  <2>2. PICK new \in Settled(own[m].c, m) : store'[own[m].c] = new /\ \A d \in Chats : d # own[m].c => store'[d] = store[d]
    BY <2>1, AckFacts
  <2>3. CASE c = own[m].c
    BY <1>1, <1>2, <2>2, <2>3, SettledLone
  <2> QED
    BY <1>1, <1>3, <2>2, <2>3
<1>9. CASE \E m \in Own : ReceiveFailed(m)
  <2>1. PICK m \in Own : ReceiveFailed(m)
    BY <1>9
  <2>2. CASE c = own[m].c
    <3>1. PICK x \in store[c], y \in store[c] : e = RefusedEntry(c, m, x) /\ f = RefusedEntry(c, m, y)
      BY <2>1, <2>2, MarkedStore
    <3>2. x.m = e.m /\ y.m = f.m /\ x.tagged /\ y.tagged
      BY <1>1, <3>1, MarkFields
    <3> QED
      BY <1>2, <3>1, <3>2
  <2> QED
    BY <1>1, <1>3, <2>1, <2>2, MarkedStore
<1>10. CASE \E m \in Own : ReceiveRead(m)
  <2>1. PICK m \in Own : ReceiveRead(m)
    BY <1>10
  <2>2. PICK x \in store[c], y \in store[c] : e = ReadEntry(c, m, x) /\ f = ReadEntry(c, m, y)
    BY <1>1, <2>1, MarkedStore
  <2>3. x.m = e.m /\ y.m = f.m /\ x.tagged /\ y.tagged
    BY <1>1, <2>2, MarkFields
  <2> QED
    BY <1>2, <2>2, <2>3
<1> QED
  BY <1>3, <1>4, <1>5, <1>6, <1>7, <1>8, <1>9, <1>10, StoringSteps

\* Only an entry beside which its group shows the message stays queued after the answer.
LEMMA SettlesKept ==
  ASSUME ChatInv, ChatNext
  PROVE  Settles'
<1> SUFFICES ASSUME NEW c \in Chats, NEW e \in store'[c], Queueing(e), e.m \notin outbox'
             PROVE  c \in Group /\ Found(c, e.m)' # {}
  BY DEF Settles, Queueing
<1>1. store[c] \subseteq ChatEntry /\ StoreFits /\ Settles /\ Lone
  BY ChatTypes DEF ChatInv, StoreTypes
<1>2. ASSUME NEW d \in store[c], d.m = e.m, Queueing(d), d.m \notin outbox
      PROVE  c \in Group /\ Found(c, e.m)' # {}
  <2>1. c \in Group /\ Found(c, d.m) # {}
    BY <1>1, <1>2 DEF Settles
  <2> QED
    BY <1>2, <2>1, FoundStays
<1>3. CASE \E l \in fetches : MergeHistory(l)
  BY <1>2, <1>3, MergedStore DEF Queueing
<1>4. CASE Cleanup
  BY <1>2, <1>4, CleanedStore
<1>5. CASE Receive
  <2>1. PICK g : g = Head(queue)
    OBVIOUS
  <2>2. UNCHANGED outbox /\ (store'[c] = store[c] \/ store'[c] = AddMessage(c, g))
    BY <1>5, <2>1, ReceivedStore
  <2>3. CASE e \in store[c]
    BY <1>2, <2>2, <2>3
  <2>4. CASE store'[c] = AddMessage(c, g) /\ e \notin store[c]
    <3>1. PICK b : b = (g.m \in Own)
      OBVIOUS
    <3>2. \/ \E d \in Found(c, g.m) : e = [d EXCEPT !.tagged = g.m \in Own]
          \/ e = Received(g)
          \/ \E d \in Optimistic(c, g.m) : e = ReconciledEntry(c, g, d)
      <4>1. CASE Found(c, g.m) # {}
        <5>1. c \in Group
          BY <2>4, <4>1 DEF AddMessage, IsNew, Chats
        <5>2. c \notin Private /\ ~IsNew(c, g.m)
          BY <4>1, <5>1, ChatAssumption DEF IsNew
        <5>3. e \in {IF x \in Found(c, g.m) THEN [x EXCEPT !.tagged = g.m \in Own] ELSE x : x \in store[c]}
          BY <2>4, <4>1, <5>1, <5>2 DEF AddMessage
        <5> QED
          BY <2>4, <5>3
      <4>2. CASE IsNew(c, g.m)
        BY <2>4, <4>2 DEF AddMessage, IsNew
      <4>3. CASE Found(c, g.m) = {} /\ ~IsNew(c, g.m)
        <5>1. store'[c] = {ReconciledEntry(c, g, x) : x \in store[c]}
          BY <2>4, <4>3 DEF AddMessage, ReconciledEntry
        <5> QED
          BY <2>4, <5>1 DEF ReconciledEntry
      <4> QED
        BY <4>1, <4>2, <4>3
    <3>3. \A d \in Found(c, g.m) : [d EXCEPT !.tagged = g.m \in Own].key = "server"
      <4>1. \A d \in Found(c, g.m) : [d EXCEPT !.tagged = b].key = "server"
        BY <1>1, ChangedFields DEF Found
      <4> QED
        BY <3>1, <4>1
    <3>4. \A d \in Optimistic(c, g.m) : ReconciledEntry(c, g, d).key = "server"
      BY <1>1, MarkFields DEF Optimistic
    <3> QED
      <4>1. Received(g).key = "server"
        BY DEF Received
      <4>2. e.key = "server"
        BY <3>2, <3>3, <3>4, <4>1
      <4> QED
        BY <4>2 DEF Queueing
  <2> QED
    BY <2>2, <2>3, <2>4
<1>6. CASE \E s \in sends : Encrypted(s)
  <2>1. PICK s \in sends : Encrypted(s)
    BY <1>6
  <2>2. Queued(s.m).m = s.m
    BY DEF Queued
  <2> QED
    BY <1>2, <2>1, <2>2, EncryptedStore
<1>7. CASE \E m \in Own : ReceiveAck(m)
  <2>1. PICK m \in Own : ReceiveAck(m)
    BY <1>7
  <2>2. PICK new \in Settled(own[m].c, m) : store'[own[m].c] = new /\ \A d \in Chats : d # own[m].c => store'[d] = store[d]
    BY <2>1, AckFacts
  <2>3. outbox' = outbox \ {m}
    BY <2>1, AckFacts
  <2>4. ASSUME e.m # m
        PROVE  c \in Group /\ Found(c, e.m)' # {}
    <3>1. CASE c = own[m].c
      <4>1. PICK d \in store[c] : Acked(m, e, d)
        BY <1>1, <2>2, <3>1, SettledEntries
      <4>2. d.m = e.m /\ Queueing(d)
        BY <2>4, <4>1 DEF Acked, Queueing
      <4> QED
        BY <1>2, <2>3, <2>4, <4>2
    <3>2. CASE c # own[m].c
      BY <1>2, <2>2, <2>3, <2>4, <3>2
    <3> QED
      BY <3>1, <3>2
  <2>5. ASSUME e.m = m
        PROVE  c \in Group /\ Found(c, e.m)' # {}
    <3>1. c = own[m].c
      BY <2>1, <2>5, AckFits, AckFacts DEF StoreFits, EntryFits
    <3>2. \A d \in store[c] : d.key = "client" => d.tagged
      BY <1>1 DEF StoreFits, EntryFits
    <3>3. Found(c, m)' # {} /\ c \notin Private
      BY <1>1, <2>2, <2>5, <3>1, <3>2, SettledFound DEF Found, Lone
    <3> QED
      BY <2>5, <3>3 DEF Chats
  <2> QED
    BY <2>4, <2>5
<1>8. CASE \E m \in Own : ReceiveFailed(m)
  <2>1. PICK m \in Own : ReceiveFailed(m)
    BY <1>8
  <2>2. outbox' = outbox \ {m}
    BY <2>1, MarkedStore
  <2>3. PICK d \in store[c] : (c = own[m].c /\ e = RefusedEntry(c, m, d)) \/ (c # own[m].c /\ e = d)
    BY <2>1, MarkedStore
  <2>4. d.m = e.m /\ Queueing(d) /\ ~(c = own[m].c /\ d \in Optimistic(c, m))
    BY <1>1, <2>3, MarkFields DEF Queueing
  <2>5. EntryFits(c, d)
    BY <1>1 DEF StoreFits
  <2>6. d.m # m
    BY <2>4, <2>5 DEF EntryFits, Optimistic, Queueing
  <2> QED
    BY <1>2, <2>2, <2>4, <2>6
<1>9. CASE \E m \in Own : ReceiveRead(m)
  <2>1. PICK m \in Own : ReceiveRead(m)
    BY <1>9
  <2>2. PICK d \in store[c] : e = ReadEntry(c, m, d)
    BY <2>1, MarkedStore
  <2>3. d.m = e.m /\ Queueing(d)
    BY <1>1, <2>2, MarkFields DEF Queueing
  <2> QED
    BY <1>2, <2>1, <2>3, MarkedStore
<1>10. CASE UNCHANGED <<store, outbox>>
  BY <1>2, <1>10
<1> QED
  BY <1>3, <1>4, <1>5, <1>6, <1>7, <1>8, <1>9, <1>10, StoringSteps

-----------------------------------------------------------------------------
(* Badges.                                                                 *)

LEMMA ComingStays ==
  ASSUME ChatInv, ChatNext, NEW m \in Known, Coming(m)'
  PROVE  Coming(m)
<1>1. NetTypes /\ wire \in Seq(Frame) /\ queue \in Seq(Frame)
  BY ChatTypes DEF ChatInv, NetTypes
<1>2. CASE UNCHANGED <<wire, queue>>
  BY <1>2 DEF Coming
<1>3. CASE wire # << >> /\ wire' = Tail(wire) /\ queue' = queue
  <2>1. \A i \in DOMAIN wire' : i + 1 \in DOMAIN wire /\ wire'[i] = wire[i + 1]
    BY <1>1, <1>3, TailIndex
  <2> QED
    BY <1>3, <2>1 DEF Coming
<1>4. CASE queue # << >> /\ queue' = Tail(queue) /\ wire' = wire
  <2>1. \A i \in DOMAIN queue' : i + 1 \in DOMAIN queue /\ queue'[i] = queue[i + 1]
    BY <1>1, <1>4, TailIndex
  <2> QED
    BY <1>4, <2>1 DEF Coming
<1>5. CASE Disconnect
  <2>1. DOMAIN wire' = {} /\ queue' = queue
    BY <1>5 DEF Disconnect
  <2> QED
    BY <2>1 DEF Coming
<1>6. CASE EnqueueSequenced
  <2>1. wire # << >> /\ wire' = Tail(wire) /\ queue' = Append(queue, Head(wire)) /\ Head(wire) \in Frame
    BY <1>1, <1>6, FrameTypes DEF EnqueueSequenced
  <2>2. /\ \A i \in DOMAIN wire' : i + 1 \in DOMAIN wire /\ wire'[i] = wire[i + 1]
        /\ Head(wire) = wire[1] /\ 1 \in DOMAIN wire
    BY <1>1, <2>1, TailIndex
  <2>3. \A i \in DOMAIN queue' : (i \in DOMAIN queue /\ queue'[i] = queue[i]) \/ queue'[i] = Head(wire)
    BY <1>1, <2>1, AppendIndex
  <2> QED
    BY <2>2, <2>3 DEF Coming
<1>7. ASSUME NEW t \in {"message", "replay", "ack", "failed", "read"}, NEW k \in Message, NEW read \in BOOLEAN,
             Push(t, k, read), UNCHANGED queue, t = "message" => k \notin Known
      PROVE  Coming(m)
  <2>1. PICK f : f = [t |-> t, m |-> k, read |-> read]
    OBVIOUS
  <2>2. f \in Frame /\ wire' = Append(wire, f) /\ f.t = t /\ f.m = k
    BY <1>7, <2>1 DEF Frame, Push
  <2>3. \A j \in DOMAIN wire' : (j \in DOMAIN wire /\ wire'[j] = wire[j]) \/ wire'[j] = f
    BY <1>1, <2>2, AppendIndex
  <2> QED
    BY <1>7, <2>2, <2>3 DEF Coming
<1>8. CASE (\E k \in Incoming : OthersSend(k)) \/ (\E k \in Own : PeerReads(k) \/ AckOwn(k) \/ RefuseOwn(k)) \/ (\E k \in Message : Replay(k))
  <2>1. UNCHANGED queue
    BY <1>8 DEF OthersSend, PeerReads, AckOwn, RefuseOwn, Replay
  <2>2. \A k \in Message : k \in Kept => rows[k].read \in BOOLEAN
    BY ChatTypes DEF ServerTypes, ChatInv
  <2>3. UNCHANGED wire \/ \E t \in {"message", "replay", "ack", "failed", "read"}, k \in Message, read \in BOOLEAN :
                               Push(t, k, read) /\ (t = "message" => k \notin Known)
    BY <1>8, <2>2 DEF OthersSend, PeerReads, AckOwn, RefuseOwn, Replay, Message, Known
  <2> QED
    BY <1>2, <1>7, <2>1, <2>3
<1>9. CASE Receive \/ \E k \in Own : ReceiveAck(k) \/ ReceiveFailed(k) \/ ReceiveRead(k)
  BY <1>3, <1>4, <1>9 DEF Receive, ReceiveAck, ReceiveFailed, ReceiveRead, Handled
<1>10. CASE GoBack \/ OpenAbout \/ (\E k \in Incoming : ReplyTo(k)) \/ CancelReply \/ (\E k \in Text : SendText(k))
        \/ (\E ms \in Picks : PickFiles(ms)) \/ (\E s \in sends : SendFails(s) \/ Encrypted(s)) \/ Uploaded \/ UploadFails
        \/ ReloadHistory \/ (\E l \in fetches : LoadFails(l) \/ MergeHistory(l) \/ AnswerHistory(l))
        \/ (\E k \in Message : Expire(k)) \/ Connect \/ Cleanup \/ (\E c \in Chats : OpenChat(c)) \/ (\E k \in Own : StoreOwn(k))
  BY <1>2, <1>10 DEF GoBack, OpenAbout, LeaveTo, ReplyTo, CancelReply, SendText, PickFiles, SendFails, Encrypted, Uploaded,
     UploadFails, ReloadHistory, LoadFails, MergeHistory, AnswerHistory, Expire, Connect, Cleanup, OpenChat, StoreOwn, net
<1> QED
  BY <1>5, <1>6, <1>8, <1>9, <1>10 DEF ChatNext, User, Client, Server, Environment

LEMMA FiniteKnown ==
  ASSUME ChatInv, ChatNext
  PROVE  Known \subseteq Known' /\ IsFiniteSet(Known)'
<1>1. IsFiniteSet(Known)
  BY DEF ChatInv, BadgesFit
<1>2. CASE Known' = Known
  BY <1>1, <1>2
<1>3. CASE \E m \in Incoming \cup outbox : m \notin Known /\ NewRow(m) /\ UNCHANGED dropped
  <2>1. PICK m : Known' = Known \cup {m}
    BY <1>3, NewRowFacts
  <2>2. IsFiniteSet(Known \cup {m})
    BY <1>1, FS_AddElement
  <2> QED
    BY <2>1, <2>2
<1> QED
  BY <1>2, <1>3, KnownGrows

LEMMA CountableFinite ==
  ASSUME NEW known, known = Known', IsFiniteSet(known), NEW c, NEW S, S \subseteq Countable(c)'
  PROVE  IsFiniteSet(S) /\ Cardinality(S) <= Cardinality(Countable(c)') /\ Cardinality(Countable(c)') \in Nat
<1>1. Countable(c)' \subseteq known
  BY DEF Countable
<1> QED
  BY <1>1, FS_Subset, FS_CardinalityType

\* What a badge may count of a chat that is not on the screen stays so.
LEMMA CountableStays ==
  ASSUME ChatInv, ChatNext, NEW c \in Chats, ~On(c)'
  PROVE  Countable(c) \subseteq Countable(c)'
<1> SUFFICES ASSUME NEW m \in Countable(c)
             PROVE  m \in Countable(c)'
  OBVIOUS
<1>1. m \in Incoming \cap Known /\ Home[m] = c /\ m \notin seen \ aged /\ ~Coming(m) /\ (m \in aged \/ Found(c, m) # {})
  BY DEF Countable
<1>2. m \in Known' /\ ~Coming(m)'
  BY <1>1, FiniteKnown, ComingStays
<1>3. m \notin seen' \ aged'
  BY <1>1, SeenStays
<1>4. m \in aged' \/ Found(c, m)' # {}
  BY <1>1, SeenStays, FoundStays
<1> QED
  BY <1>1, <1>2, <1>3, <1>4 DEF Countable

\* The badge of a chat whose messages are not counted in this step.
LEMMA BadgeStays ==
  ASSUME ChatInv, ChatNext, NEW c \in Chats, unread'[c] = unread[c] \/ unread'[c] = 0, On(c)' => unread'[c] = 0
  PROVE  unread'[c] <= Cardinality(Countable(c)')
<1>1. PICK known : known = Known' /\ IsFiniteSet(known)
  BY FiniteKnown
<1>2. CASE unread'[c] = 0
  <2>1. {} \subseteq Countable(c)'
    OBVIOUS
  <2>2. Cardinality(Countable(c)') \in Nat
    BY <1>1, <2>1, CountableFinite
  <2> QED
    BY <1>2, <2>2
<1>3. CASE unread'[c] # 0
  <2>1. ~On(c)' /\ unread'[c] = unread[c]
    BY <1>3
  <2>2. Countable(c) \subseteq Countable(c)'
    BY <2>1, CountableStays
  <2>3. PICK S : S = Countable(c)
    OBVIOUS
  <2>4. IsFiniteSet(S) /\ Cardinality(S) <= Cardinality(Countable(c)') /\ Cardinality(Countable(c)') \in Nat
    BY <1>1, <2>2, <2>3, CountableFinite
  <2>5. unread[c] <= Cardinality(S) /\ Cardinality(S) \in Nat /\ unread[c] \in Nat
    BY <2>3, <2>4, FS_CardinalityType, ChatTypes DEF ChatInv, BadgesFit, StoreTypes
  <2> QED
    BY <2>1, <2>4, <2>5
<1> QED
  BY <1>2, <1>3

\* The message that is counted: it was not countable before and is now.
LEMMA CountedFacts ==
  ASSUME ChatInv, ChatNext, Receive, NEW m, NEW c \in Chats, m = Head(queue).m, c = ChatOf(m), Counted(c, m),
         ~(Head(queue).t = "replay" /\ m \in aged), ~On(c)'
  PROVE  m \notin Countable(c) /\ m \in Countable(c)'
<1> DEFINE f == Head(queue)
<1>1. StoreTypes /\ NetTypes /\ queue \in Seq(Frame) /\ queue # << >> /\ f \in Frame
  BY ChatTypes, FrameTypes DEF ChatInv, NetTypes, Receive
<1>2. f = queue[1] /\ 1 \in DOMAIN queue /\ \A i \in DOMAIN Tail(queue) : i + 1 \in DOMAIN queue /\ Tail(queue)[i] = queue[i + 1]
  BY <1>1, TailIndex
<1>3. FrameFits(f) /\ IsMessage(f)
  BY <1>2 DEF ChatInv, FramesFit
<1>4. m \in Incoming /\ Home[m] = c /\ Found(c, m) = {} /\ Optimistic(c, m) = {}
  BY DEF Counted, IsNew, ChatOf
<1>5. m \in Known /\ m \in Known'
  BY <1>3, FiniteKnown DEF FrameFits, IsMessage
<1>6. m \notin Countable(c)
  <2>1. CASE f.t = "message"
    BY <1>2, <2>1 DEF Countable, Coming
  <2>2. CASE f.t = "replay"
    BY <1>4, <2>2 DEF Countable
  <2> QED
    BY <1>3, <2>1, <2>2 DEF IsMessage
<1>7. m \notin seen' \ aged'
  BY <1>4, SeenStays DEF ChatInv, BadgesFit
<1>8. ~Coming(m)'
  <2>1. \A g : Behind(f, g) => ~(g.t = "message" /\ g.m = m)
    BY <1>3 DEF Behind
  <2>2. \A j \in DOMAIN Tail(queue) : Behind(f, Tail(queue)[j])
    BY <1>1, TailOrdered, NewOnceParts DEF ChatInv
  <2>3. \A j \in DOMAIN wire : Behind(f, wire[j])
    BY <1>2, NewOnceParts DEF ChatInv
  <2>4. queue' = Tail(queue) /\ wire' = wire
    BY DEF Receive
  <2> QED
    BY <2>1, <2>2, <2>3, <2>4 DEF Coming
<1>9. Found(c, m)' # {}
  <2>1. ShowStore(SetStore(c, AddMessage(c, f)))
    BY DEF Receive
  <2>2. AddMessage(c, f) = store[c] \cup {Received(f)}
    BY <1>4 DEF AddMessage, IsNew
  <2>3. AddMessage(c, f) \in SUBSET ChatEntry
    BY <1>1, AddMessageTypes
  <2>4. store' = SetStore(c, AddMessage(c, f))
    BY <2>1 DEF ShowStore, Display
  <2>5. Received(f) \in store'[c]
    BY <1>1, <2>2, <2>3, <2>4, SetStoreTypes
  <2>6. Received(f).m = m /\ Received(f).key = "server"
    BY DEF Received
  <2> QED
    BY <2>5, <2>6 DEF Found
<1> QED
  BY <1>4, <1>5, <1>6, <1>7, <1>8, <1>9 DEF Countable

\* Only opening a chat puts it on the screen.
LEMMA OnStays ==
  ASSUME ChatInv, ChatNext, NEW c \in Chats, On(c)', ~On(c)
  PROVE  OpenChat(c)
<1>1. ScreenType
  BY ChatTypes DEF ChatInv
<1>2. screen'.route # screen.route /\ screen'.route.kind = "chat" /\ screen'.route.c = c
  BY DEF On
<1>3. CASE \E d \in Chats : OpenChat(d)
  <2>1. PICK d \in Chats : OpenChat(d)
    BY <1>3
  <2>2. screen'.route.c = d
    BY <2>1 DEF OpenChat
  <2>3. d = c
    BY <1>2, <2>2
  <2> QED
    BY <2>1, <2>3
<1>4. CASE GoBack \/ OpenAbout
  BY <1>2, <1>4 DEF GoBack, OpenAbout, LeaveTo
<1>5. CASE (\E m \in Incoming : ReplyTo(m)) \/ CancelReply \/ (\E s \in sends : Encrypted(s))
  <2>1. screen'.route = screen.route
    BY <1>1, <1>5 DEF ReplyTo, CancelReply, Encrypted, ScreenType
  <2> QED
    BY <1>2, <2>1
<1>6. CASE UNCHANGED screen
  BY <1>2, <1>6
<1>7. ~(\E d \in Chats : OpenChat(d)) /\ ~GoBack /\ ~OpenAbout /\ ~(\E m \in Incoming : ReplyTo(m)) /\ ~CancelReply
        /\ ~(\E s \in sends : Encrypted(s)) => UNCHANGED screen
  BY DEF ChatNext, User, Client, Server, Environment, ReloadHistory, OthersSend, SendText, PickFiles, SendFails, Uploaded, UploadFails,
     EnqueueSequenced, Receive, ReceiveAck, ReceiveFailed, ReceiveRead, LoadFails, MergeHistory, AnswerHistory, Cleanup, AckOwn,
     RefuseOwn, StoreOwn, PeerReads, Replay, Expire, Connect, Disconnect
<1> QED
  BY <1>3, <1>4, <1>5, <1>6, <1>7

LEMMA BadgesKept ==
  ASSUME ChatInv, ChatNext
  PROVE  BadgesFit'
<1>1. StoreTypes /\ BadgesFit
  BY ChatTypes DEF ChatInv
<1>2. IsFiniteSet(Known)'
  BY FiniteKnown
<1>3. \A m \in seen' \ aged' : m \in Incoming /\ Found(Home[m], m)' # {}
  BY <1>1, SeenStays, FoundStays, ChatAssumption DEF BadgesFit
<1>4. ASSUME NEW c \in Chats
      PROVE  (On(c)' => unread'[c] = 0) /\ unread'[c] <= Cardinality(Countable(c)')
  <2>1. unread[c] \in Nat /\ (On(c) => unread[c] = 0)
    BY <1>1 DEF StoreTypes, BadgesFit
  <2>2. CASE UNCHANGED unread /\ ~OpenChat(c)
    BY <2>1, <2>2, OnStays, BadgeStays
  <2>3. CASE \E d \in Chats : OpenChat(d)
    <3>1. PICK d \in Chats : OpenChat(d)
      BY <2>3
    <3>2. unread' = [unread EXCEPT ![d] = 0] /\ screen'.route = [kind |-> "chat", c |-> d]
      BY <3>1 DEF OpenChat
    <3>3. CASE c = d
      <4>1. unread'[c] = 0
        BY <1>1, <3>2, <3>3 DEF StoreTypes
      <4> QED
        BY <4>1, BadgeStays
    <3>4. CASE c # d
      <4>1. unread'[c] = unread[c] /\ ~On(c)'
        BY <1>1, <3>2, <3>4 DEF StoreTypes, On
      <4> QED
        BY <4>1, BadgeStays
    <3> QED
      BY <3>3, <3>4
  <2>4. CASE Receive
    <3> DEFINE f == Head(queue)
               a == ChatOf(f.m)
    <3>1. UNCHANGED screen
      BY <2>4 DEF Receive
    <3>2. On(c)' <=> On(c)
      BY <3>1 DEF On
    <3>3. CASE unread'[c] = unread[c]
      BY <2>1, <3>2, <3>3, BadgeStays
    <3>4. CASE unread'[c] # unread[c]
      <4>1. ~(f.t = "replay" /\ f.m \in aged) /\ unread' = [unread EXCEPT ![a] = @ + (IF Counted(a, f.m) THEN 1 ELSE 0)]
        BY <2>4, <3>4 DEF Receive
      <4>2. c = a /\ Counted(c, f.m) /\ unread'[c] = unread[c] + 1
        BY <1>1, <2>1, <3>4, <4>1 DEF StoreTypes
      <4>3. ~On(c) /\ ~On(c)'
        BY <3>2, <4>2 DEF Counted, On
      <4>4. f.m \notin Countable(c) /\ f.m \in Countable(c)'
        BY <2>4, <4>1, <4>2, <4>3, CountedFacts
      <4>5. Countable(c) \subseteq Countable(c)'
        BY <4>3, CountableStays
      <4>6. PICK known : known = Known' /\ IsFiniteSet(known)
        BY <1>2
      <4>7. PICK S : S = Countable(c)
        OBVIOUS
      <4>8. IsFiniteSet(S) /\ Cardinality(Countable(c)') \in Nat
        BY <4>5, <4>6, <4>7, CountableFinite
      <4>9. PICK T : T = S \cup {f.m}
        OBVIOUS
      <4>10. Cardinality(T) = Cardinality(S) + 1
        BY <4>4, <4>7, <4>8, <4>9, FS_AddElement
      <4>11. Cardinality(T) <= Cardinality(Countable(c)')
        BY <4>4, <4>5, <4>6, <4>7, <4>9, CountableFinite
      <4>12. unread[c] <= Cardinality(S) /\ Cardinality(S) \in Nat
        BY <1>1, <4>7, <4>8, FS_CardinalityType DEF BadgesFit
      <4> QED
        BY <2>1, <4>2, <4>3, <4>8, <4>10, <4>11, <4>12
    <3> QED
      BY <3>3, <3>4
  <2>5. ~(\E d \in Chats : OpenChat(d)) /\ ~Receive => UNCHANGED unread
    BY DEF ChatNext, User, Client, Server, Environment, GoBack, OpenAbout, LeaveTo, ReplyTo, CancelReply, ReloadHistory, OthersSend,
       SendText, PickFiles, SendFails, Encrypted, Uploaded, UploadFails, EnqueueSequenced, ReceiveAck, ReceiveFailed, ReceiveRead,
       LoadFails, MergeHistory, AnswerHistory, Cleanup, AckOwn, RefuseOwn, StoreOwn, PeerReads, Replay, Expire, Connect, Disconnect
  <2> QED
    BY <2>2, <2>3, <2>4, <2>5
<1> QED
  BY <1>2, <1>3, <1>4 DEF BadgesFit

-----------------------------------------------------------------------------
(* The theorems of the chat page.                                          *)

LEMMA ChatCalm ==
  ASSUME ChatInv, UNCHANGED chatVars
  PROVE  ChatInv'
<1>1. UNCHANGED <<rows, dropped, aged, own, store, unread, screen, fetches, sends, upload, outbox, last, up, wire, queue, budget, seen>>
  BY DEF chatVars, serverVars, writing, net
<1>2. ServerTypes /\ StoreTypes /\ LoadTypes /\ WritingTypes /\ NetTypes /\ ScreenType
  BY ChatTypes DEF ChatInv
<1>3. ChatTypeOK'
  BY <1>1, <1>2, ServerCalm, StoreCalm, LoadCalm, WritingCalm, NetCalm, ScreenCalm, ChatTypesNext
<1>4. EntriesStay /\ FramesStay /\ Known' = Known /\ Kept' = Kept
  BY <1>1, CalmStill, StillEntries, StillFrames DEF Still, Kept
<1>5. StoreFits' /\ PagesFit'
  BY <1>1, <1>4, StoreStays, FewerPages DEF ChatInv
<1>6. FramesFit' /\ NewOnce'
  BY <1>1, <1>2, <1>4, FewerFrames, NewOnceParts DEF ChatInv
<1>7. WritingFits'
  BY <1>1, <1>4 DEF ChatInv, WritingFits, QuoteFits, Mounted
<1>8. \A c, m : Found(c, m)' = Found(c, m) /\ (On(c)' <=> On(c)) /\ (Coming(m)' <=> Coming(m))
  BY <1>1 DEF Found, On, Coming
<1>9. \A c : Countable(c)' = Countable(c)
  BY <1>1, <1>4, <1>8 DEF Countable
<1>10. BadgesFit'
  BY <1>1, <1>4, <1>8, <1>9 DEF ChatInv, BadgesFit
<1>11. ReadMeansSeen'
  BY <1>1, <1>4 DEF ChatInv, ReadMeansSeen
<1>12. Lone' /\ Settles'
  BY <1>1 DEF ChatInv, Lone, Settles, Found
<1> QED
  BY <1>3, <1>5, <1>6, <1>7, <1>10, <1>11, <1>12 DEF ChatInv

LEMMA ChatInvInit == ChatInit => ChatInv
<1> SUFFICES ASSUME ChatInit
             PROVE  ChatInv
  OBVIOUS
<1>1. Known = {} /\ Kept = {} /\ rows = << >> /\ DOMAIN own = {} /\ wire = << >> /\ queue = << >> /\ DOMAIN wire = {} /\ DOMAIN queue = {}
  BY DEF ChatInit, Known, Kept
<1>2. ServerTypes
  BY <1>1 DEF ChatInit, ServerTypes
<1>3. StoreTypes /\ LoadTypes
  BY DEF ChatInit, StoreTypes, LoadTypes
<1>4. WritingTypes
  BY <1>1 DEF ChatInit, WritingTypes
<1>5. NetTypes
  BY <1>1, ChatAssumption DEF ChatInit, NetTypes
<1>6. ScreenType
  BY DEF ChatInit, ScreenType, Route
<1>7. StoreFits /\ PagesFit
  BY DEF ChatInit, StoreFits, PagesFit
<1>8. FramesFit /\ NewOnce
  BY <1>1 DEF FramesFit, NewOnce
<1>9. WritingFits
  BY <1>1 DEF ChatInit, WritingFits, Mounted
<1>10. BadgesFit
  <2>1. \A c \in Chats : Countable(c) = {} /\ ~On(c) /\ unread[c] = 0
    BY <1>1 DEF ChatInit, Countable, On
  <2>2. IsFiniteSet({}) /\ Cardinality({}) = 0
    BY FS_EmptySet
  <2>3. \A c \in Chats : Cardinality(Countable(c)) = 0
    BY <2>1, <2>2
  <2>4. seen = {}
    BY DEF ChatInit
  <2> QED
    BY <1>1, <2>1, <2>2, <2>3, <2>4 DEF BadgesFit
<1>11. ReadMeansSeen
  BY <1>1 DEF ReadMeansSeen
<1>12. Lone /\ Settles
  BY DEF ChatInit, Lone, Settles, Chats
<1> QED
  BY <1>2, <1>3, <1>4, <1>5, <1>6, <1>7, <1>8, <1>9, <1>10, <1>11, <1>12, ChatTypes DEF ChatInv

LEMMA ChatInvNext == ChatInv /\ [ChatNext]_chatVars => ChatInv'
<1> SUFFICES ASSUME ChatInv, [ChatNext]_chatVars
             PROVE  ChatInv'
  OBVIOUS
<1>1. CASE ChatNext
  <2>1. WritingFits'
    BY <1>1, OwnStoredKept, WritingKept, WritingParts
  <2> QED
    BY <1>1, <2>1, ChatTypesKept, EntriesKept, FramesKept, NewOnceKept, BadgesKept, ReadMeansSeenKept, LoneKept, SettlesKept
       DEF ChatInv
<1>2. CASE UNCHANGED chatVars
  BY <1>2, ChatCalm
<1> QED
  BY <1>1, <1>2

LEMMA ChatAlways == ChatSpec => []ChatInv
BY ChatInvInit, ChatInvNext, PTL DEF ChatSpec

\* The chat page and what is behind it keep their types.
THEOREM ChatTypesAlways == ChatSpec => []ChatTypeOK
BY ChatAlways, PTL DEF ChatInv

\* A badge counts messages that exist, each once, and none the user has had on the screen,
\* whatever is replayed, loaded, expired or opened while messages are being decrypted.
THEOREM BadgesAreHonest == ChatSpec => []BadgeHonest
<1>1. ChatInv => BadgeHonest
  <2> SUFFICES ASSUME ChatInv, NEW c \in Chats
               PROVE  /\ On(c) => unread[c] = 0
                      /\ unread[c] <= Cardinality({m \in Incoming \cap (Kept \cup dropped) : Home[m] = c /\ m \notin seen \ aged})
    BY DEF BadgeHonest
  <2> DEFINE T == {m \in Incoming \cap (Kept \cup dropped) : Home[m] = c /\ m \notin seen \ aged}
  <2>1. /\ IsFiniteSet(Known) /\ On(c) => unread[c] = 0
    BY DEF ChatInv, BadgesFit
  <2>2. Countable(c) \subseteq T /\ T \subseteq Known
    BY DEF Countable, Known
  <2>3. IsFiniteSet(T)
    BY <2>1, <2>2, FS_Subset DEF ChatInv, BadgesFit
  <2>4. Cardinality(Countable(c)) <= Cardinality(T) /\ IsFiniteSet(Countable(c))
    BY <2>2, <2>3, FS_Subset
  <2>5. Cardinality(T) \in Nat /\ Cardinality(Countable(c)) \in Nat
    BY <2>3, <2>4, FS_CardinalityType
  <2>6. unread[c] \in Nat /\ unread[c] <= Cardinality(Countable(c)) /\ (On(c) => unread[c] = 0)
    BY ChatTypes DEF ChatInv, BadgesFit, StoreTypes
  <2> QED
    BY <2>4, <2>5, <2>6
<1> QED
  BY <1>1, ChatAlways, PTL

\* The server says a message was read only if it was on the reader's screen.
THEOREM ReadIsSeen == ChatSpec => []ReadMeansSeen
BY ChatAlways, PTL DEF ChatInv

\* The ticks of own messages are so and their quotes are of their chat.
THEOREM TicksTellTheTruth == ChatSpec => []TicksAreTrue
<1>1. ChatInv => TicksAreTrue
  BY DEF ChatInv, TicksAreTrue, StoreFits, EntryFits, WritingFits, QuoteFits, Known, Read
<1> QED
  BY <1>1, ChatAlways, PTL

\* Once the answer to a message was handled, none of its entries in a private chat waits for it, and
\* in a group only one beside which the chat shows the message as the server has it.
THEOREM AnswersSettle == ChatSpec => []AnswerSettles
<1>1. ChatInv => AnswerSettles
  <2> SUFFICES ASSUME ChatInv, NEW c \in Chats, NEW e \in store[c], e.m \in Own \ outbox
               PROVE  \/ e.status # "queued" /\ (e.key = "client" => e.status = "failed")
                      \/ c \in Group /\ Found(c, e.m) # {}
    BY DEF AnswerSettles
  <2>1. EntryFits(c, e) /\ e.key \in {"server", "client"}
    BY ChatTypes DEF ChatInv, StoreFits, StoreTypes, ChatEntry
  <2>2. CASE Queueing(e)
    BY <2>2 DEF ChatInv, Settles
  <2>3. CASE ~Queueing(e)
    BY <2>1, <2>3 DEF EntryFits, Queueing
  <2> QED
    BY <2>2, <2>3
<1> QED
  BY <1>1, ChatAlways, PTL

\* No step takes what a chat shows but for what expired: neither a history page that was read
\* before a message came, nor the handling of a frame.
THEOREM ChatsKeepWhatTheyShow == ChatSpec => ShownStays
<1> DEFINE Stays == \A c \in Chats : Shown(c) \ aged \subseteq Shown(c)'
<1>1. ChatInv /\ [ChatNext]_chatVars => [Stays]_chatVars
  <2> SUFFICES ASSUME ChatInv, ChatNext, NEW c \in Chats, NEW e \in store[c], e.m \notin aged
               PROVE  \E d \in store'[c] : d.m = e.m
    BY DEF Shown
  <2> QED
    BY EntryStays DEF Follows
<1> HIDE DEF Stays
<1>2. []ChatInv /\ [][ChatNext]_chatVars => [][Stays]_chatVars
  BY <1>1, PTL
<1>3. [][Stays]_chatVars => ShownStays
  BY DEF Stays, ShownStays
<1> QED
  BY <1>2, <1>3, ChatAlways, PTL DEF ChatSpec
==============================================================================
