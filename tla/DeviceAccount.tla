--------------------------- MODULE DeviceAccount ---------------------------
(***************************************************************************)
(* The account on one device: signing in, registering and signing out, the *)
(* identity keys in memory, in the browser's store and on the server, and  *)
(* the password that protects the messages (client/src/pages/Login.tsx,    *)
(* App.tsx, pages/Profile.tsx, crypto/keystore.ts,                         *)
(* crypto/presentationCrypto.ts).                                          *)
(*                                                                         *)
(* setAuth starts two tasks that use the same keystore: the rest of the    *)
(* login handler and the hydration effect of App.  Requests are answered   *)
(* or fail; the page may be reloaded between any two steps.  Three things  *)
(* are assumed: nobody signs in again before the requests of the earlier   *)
(* sign-in have ended, a key derivation ends before the application was    *)
(* away for the five minutes that lock it, and nobody answers another      *)
(* password dialog while a password is being set.                          *)
(***************************************************************************)
EXTENDS Naturals, Sequences, FiniteSets, SequencesExt

CONSTANTS Account, Password, None,
          MaxActs  \* bound on everything the user, the network and other devices do

ASSUME AccountAssumption == None \notin Account \cup Password \cup Nat /\ MaxActs \in Nat

VARIABLES
  user,     \* whose token and user the local storage holds
  mem,      \* keystore: memAccount and memKeys
  disk,     \* identity keys in the browser's store, for each account
  server,   \* for each account: its published keys, sender keys sealed to older ones
  login,    \* handleSubmit or handle2fa under way
  loads,    \* hydration effects under way
  hydrated, \* hydratedAccount
  leaving,  \* handleLogout or handleDeleteAccount under way
  settings, \* of the presentation password: enabled and the password the verifier accepts
  password, \* the password in memory
  deriving, \* unlocks, enablings and disablings under way, in order
  prompt,   \* the unlock dialog at startup
  plain,    \* the store holds the text of protected messages
  away,     \* how long the application has been in the background
  world     \* keys made, acts so far, and what the properties ask about

keystore == <<mem, disk, server>>
secrets == <<settings, password, deriving, plain, away>>
vars == <<user, keystore, login, loads, hydrated, leaving, secrets, prompt, world>>

Idle == [pc |-> "idle"]
Nobody == [account |-> None, keys |-> None]
Unregistered == [keys |-> None, stale |-> FALSE]

Init == /\ user = None /\ mem = Nobody /\ disk = [a \in Account |-> None]
        /\ server = [a \in Account |-> Unregistered]
        /\ login = Idle /\ loads = {} /\ hydrated = None /\ leaving = Idle
        /\ settings = [enabled |-> FALSE, verifier |-> None]
        /\ password = None /\ deriving = << >> /\ prompt = FALSE /\ plain = FALSE
        /\ away = "no"
        /\ world = [made |-> 0, acts |-> 0, fault |-> FALSE, due |-> FALSE, gone |-> {}, missed |-> {}]

-----------------------------------------------------------------------------
(* The keystore.                                                           *)

Acts(w) == w.acts < MaxActs /\ world' = [w EXCEPT !.acts = @ + 1]
Act == Acts(world)
\* A fault at the end of the handler; the reset of the sender keys is never sent again.
Missed(w) == [w EXCEPT !.fault = @ \/ login # Idle,
                       !.missed = IF login.pc \in {"reset", "reset again"}
                                  THEN @ \cup {login.account} ELSE @]
Fresh == world.made + 1

\* getKeys: the keys in memory, if they are those of the signed-in account.
Mine == IF user # None /\ mem.account = user THEN mem.keys ELSE None

\* The synchronous part of loadFromIndexedDB.
Claim(a) == IF mem.account = a /\ mem.keys # None THEN mem ELSE [account |-> a, keys |-> None]
\* What it does when the store has answered: memAccount is not looked at again.
Loaded(a) == IF disk[a] # None THEN [mem EXCEPT !.keys = disk[a]] ELSE mem

\* The effect of App on a new token or user: it cancels the earlier one,
\* claims the keystore and forgets the presentation password without an event.
Hydrate(a) == /\ loads' = {[l EXCEPT !.live = FALSE] : l \in loads}
                            \cup {[account |-> a, live |-> TRUE, read |-> mem.account # a \/ mem.keys = None]}
              /\ prompt' = FALSE /\ password' = None
              /\ UNCHANGED <<settings, deriving, plain, away>>

\* The effect ends: the three parts of the state are there.
Hydrated(l) == /\ l \in loads
               /\ loads' = loads \ {l}
               /\ mem' = IF l.read THEN Loaded(l.account) ELSE mem
               /\ IF l.live THEN /\ hydrated' = l.account
                                 /\ prompt' = (settings.enabled /\ password = None)
                            ELSE UNCHANGED <<hydrated, prompt>>
               /\ UNCHANGED <<user, disk, server, login, leaving, secrets, world>>

-----------------------------------------------------------------------------
(* Signing in.                                                             *)

\* The form is shown, and its button enabled.
OnLogin == user = None /\ login = Idle /\ loads = {} /\ leaving = Idle

Submit(kind, a) == /\ OnLogin
                   /\ a \notin world.gone
                   /\ IF kind = "register"
                      THEN /\ server[a].keys = None
                           /\ Acts([world EXCEPT !.made = Fresh, !.fault = FALSE])
                           /\ login' = [pc |-> kind, account |-> a, keys |-> Fresh]
                      ELSE /\ server[a].keys # None
                           /\ Acts([world EXCEPT !.fault = FALSE])
                           /\ login' = [pc |-> kind, account |-> a, keys |-> None]
                   /\ UNCHANGED <<user, keystore, loads, hydrated, leaving, secrets, prompt>>

\* The keys of a registration are published with it and stored afterwards.
Registered == /\ login.pc = "register"
              /\ server' = [server EXCEPT ![login.account].keys = login.keys]
              /\ mem' = [account |-> login.account, keys |-> login.keys]
              /\ login' = [login EXCEPT !.pc = "store"]
              /\ UNCHANGED <<user, disk, loads, hydrated, leaving, secrets, prompt, world>>
Stored == /\ login.pc = "store"
          /\ disk' = [disk EXCEPT ![login.account] = login.keys]
          /\ user' = login.account /\ login' = Idle
          /\ Hydrate(login.account)
          /\ UNCHANGED <<mem, server, hydrated, leaving, world>>

\* The answer to the password, or to the code of the second factor.
NeedsCode == /\ login.pc = "login"
             /\ login' = [login EXCEPT !.pc = "code"]
             /\ UNCHANGED <<user, keystore, loads, hydrated, leaving, secrets, prompt, world>>
\* Mutant: keys that are not in memory are made anew.
SignedIn_Makes == /\ login.pc \in {"login", "code"}
                  /\ user' = login.account
                  /\ mem' = Claim(login.account)
                  /\ login' = [login EXCEPT !.pc = IF mem'.keys # None THEN "compare" ELSE "make"]
                  /\ Hydrate(login.account)
                  /\ UNCHANGED <<disk, server, hydrated, leaving, world>>
\* setAuth, then the first part of ensureKeysExist.
SignedIn == /\ login.pc \in {"login", "code"}
            /\ user' = login.account
            /\ mem' = Claim(login.account)
            /\ login' = [login EXCEPT !.pc = IF mem'.keys # None THEN "compare" ELSE "load"]
            /\ Hydrate(login.account)
            /\ UNCHANGED <<disk, server, hydrated, leaving, world>>
\* The password is refused, the name is taken, or there is no network.
Refused == /\ login.pc \in {"register", "login", "code"}
           /\ login' = IF login.pc = "code" THEN login ELSE Idle
           /\ Act
           /\ UNCHANGED <<user, keystore, loads, hydrated, leaving, secrets, prompt>>

\* ensureKeysExist: the keys in the store, or new ones for the account of the moment.
LoadKeys == /\ login.pc = "load"
            /\ mem' = Loaded(login.account)
            /\ login' = [login EXCEPT !.pc = IF mem'.keys # None THEN "compare" ELSE "make"]
            /\ UNCHANGED <<user, disk, server, loads, hydrated, leaving, secrets, prompt, world>>
MakeKeys == /\ login.pc = "make"
            /\ IF user = None
               THEN login' = [login EXCEPT !.pc = "compare"] /\ UNCHANGED <<mem, world>>
               ELSE /\ mem' = [account |-> user, keys |-> Fresh]
                    /\ login' = [login EXCEPT !.pc = "save", !.keys = Fresh]
                    /\ world' = [world EXCEPT !.made = Fresh]
            /\ UNCHANGED <<user, disk, server, loads, hydrated, leaving, secrets, prompt>>
SaveKeys == /\ login.pc = "save"
            /\ disk' = [disk EXCEPT ![login.account] = login.keys]
            /\ login' = [login EXCEPT !.pc = "put"]
            /\ UNCHANGED <<user, mem, server, loads, hydrated, leaving, secrets, prompt, world>>

\* PUT /api/users/keys, then POST reset-sender-keys, for the account whose token is held.
PutKeys == /\ login.pc \in {"put", "put again"}
           /\ user # None
           /\ server' = [server EXCEPT ![user] = [keys |-> login.keys, stale |-> TRUE]]
           /\ login' = [login EXCEPT !.pc = IF @ = "put" THEN "reset" ELSE "reset again"]
           /\ UNCHANGED <<user, mem, disk, loads, hydrated, leaving, secrets, prompt, world>>
ResetSenderKeys == /\ login.pc \in {"reset", "reset again"}
                   /\ user # None
                   /\ server' = [server EXCEPT ![user].stale = FALSE]
                   /\ login' = IF login.pc = "reset" THEN [login EXCEPT !.pc = "compare"] ELSE Idle
                   /\ UNCHANGED <<user, mem, disk, loads, hydrated, leaving, secrets, prompt, world>>
\* Mutant: the keys are not compared with the published ones.
CompareKeys_Trusts == /\ login.pc = "compare"
                      /\ login' = Idle
                      /\ UNCHANGED <<user, keystore, loads, hydrated, leaving, secrets, prompt, world>>
\* checkKeyConsistency: a device without keys, or with the published ones, is done.
CompareKeys == /\ login.pc = "compare"
               /\ login' = IF Mine = None THEN Idle ELSE [login EXCEPT !.pc = "ask", !.keys = Mine]
               /\ UNCHANGED <<user, keystore, loads, hydrated, leaving, secrets, prompt, world>>
Compared == /\ login.pc = "ask"
            /\ user # None
            /\ login' = IF server[user].keys = login.keys THEN Idle ELSE [login EXCEPT !.pc = "put again"]
            /\ UNCHANGED <<user, keystore, loads, hydrated, leaving, secrets, prompt, world>>

\* A request fails: the first upload is followed by the comparison, anything
\* later ends the handler.  Both functions only log.
RequestFails == /\ login.pc \in {"put", "reset", "ask", "put again", "reset again"}
                /\ login' = IF login.pc \in {"put", "reset"} THEN [login EXCEPT !.pc = "compare"] ELSE Idle
                /\ IF user = None THEN world' = Missed(world)
                   ELSE IF login.pc = "put" THEN Act ELSE Acts(Missed(world))
                /\ UNCHANGED <<user, keystore, loads, hydrated, leaving, secrets, prompt>>

\* Another device of the account signs in without its keys and publishes new ones.
OtherDevice(a) == /\ server[a].keys # None
                  /\ Acts([world EXCEPT !.made = Fresh, !.fault = @ \/ user = a \/ (login # Idle /\ login.account = a)])
                  /\ server' = [server EXCEPT ![a] = [keys |-> Fresh, stale |-> FALSE]]
                  /\ UNCHANGED <<user, mem, disk, login, loads, hydrated, leaving, secrets, prompt>>

-----------------------------------------------------------------------------
(* Signing out, deleting the account, clearing the cache, reloading.       *)

OnProfile == user # None /\ hydrated = user /\ ~prompt /\ away = "no"

Leave(how) == /\ OnProfile /\ leaving = Idle
              /\ leaving' = [pc |-> how]
              /\ Act
              /\ UNCHANGED <<user, keystore, login, loads, hydrated, secrets, prompt>>

\* logout of the store: the effect of App forgets the hydrated account.
SignOut == /\ user' = None /\ hydrated' = None /\ leaving' = Idle
           /\ loads' = {[l EXCEPT !.live = FALSE] : l \in loads}
           /\ prompt' = FALSE /\ plain' = FALSE

\* The session was revoked, or could not be: the identity keys are kept.
LoggedOut == /\ leaving.pc = "logout"
             /\ SignOut
             /\ UNCHANGED <<keystore, login, settings, password, deriving, away, world>>
\* The server has deleted the account: clearKeys, then logout.
Deleted == /\ leaving.pc = "delete" /\ user # None
           /\ server' = [server EXCEPT ![user] = Unregistered]
           /\ mem' = Nobody
           /\ disk' = [disk EXCEPT ![user] = None]
           /\ world' = [world EXCEPT !.gone = @ \cup {user}]
           /\ SignOut
           /\ UNCHANGED <<login, settings, password, deriving, away>>
NotDeleted == /\ leaving.pc = "delete"
              /\ leaving' = Idle
              /\ UNCHANGED <<user, keystore, login, loads, hydrated, secrets, prompt, world>>

ClearCache == /\ OnProfile /\ plain
              /\ plain' = FALSE /\ Act
              /\ UNCHANGED <<user, keystore, login, loads, hydrated, leaving, settings, password, deriving, away, prompt>>

\* The access token is refreshed: App hydrates again.
TokenRefreshed == /\ user # None /\ hydrated = user
                  /\ Act
                  /\ mem' = Claim(user)
                  /\ Hydrate(user)
                  /\ UNCHANGED <<user, disk, server, login, hydrated, leaving>>

\* The page is loaded anew: a registration may have reached the server.
Reload == /\ Acts([Missed(world) EXCEPT !.due = FALSE])
          /\ server' = IF login.pc = "register"
                       THEN [server EXCEPT ![login.account].keys = login.keys] ELSE server
          /\ mem' = [account |-> user, keys |-> None]
          /\ login' = Idle /\ leaving' = Idle /\ hydrated' = None
          /\ loads' = IF user = None THEN {} ELSE {[account |-> user, live |-> TRUE, read |-> TRUE]}
          /\ password' = None /\ deriving' = << >> /\ prompt' = FALSE /\ plain' = FALSE /\ away' = "no"
          /\ UNCHANGED <<user, disk, settings>>

-----------------------------------------------------------------------------
(* The presentation password.                                              *)

\* lockPresentationCrypto and the listener of App.
Locks == password' = None /\ plain' = FALSE

\* presentationUnlockBusy: the dialog at startup waits for its answer.
Busy == \E i \in DOMAIN deriving : deriving[i].asked
\* The settings page starts an operation with the password that was typed;
\* the dialog at startup only unlocks.
Start(op, p) == /\ user # None /\ hydrated = user /\ away = "no"
                /\ prompt => op = "unlock" /\ ~Busy
                /\ op = "enable" <=> ~settings.enabled
                /\ op = "unlock" => password = None
                /\ \A i \in DOMAIN deriving : deriving[i].op # "enable"
                /\ Act
                /\ deriving' = Append(deriving, [op |-> op, password |-> p, verifier |-> settings.verifier, asked |-> prompt])
                /\ UNCHANGED <<user, keystore, login, loads, hydrated, leaving, settings, password, plain, away, prompt>>

\* Mutant: the candidate is kept before it is checked.
Tried_Keeps(d) == password' = d.password
\* unlockPresentationCrypto: a wrong password locks, without the event.
Tried(d) == password' = IF d.verifier = d.password THEN d.password ELSE None

\* The key is derived.
Derived == /\ deriving # << >>
           /\ LET d == Head(deriving)
                  fits == d.verifier = d.password
              IN \/ /\ d.op = "enable"
                    /\ password' = d.password
                    /\ settings' = [enabled |-> TRUE, verifier |-> d.password]
                    /\ world' = [world EXCEPT !.due = FALSE]
                    /\ UNCHANGED <<plain, prompt>>
                 \/ /\ d.op = "disable" /\ fits
                    /\ Locks
                    /\ settings' = [enabled |-> FALSE, verifier |-> None]
                    /\ UNCHANGED <<prompt, world>>
                 \/ /\ d.op = "unlock" \/ (d.op = "disable" /\ ~fits)
                    /\ Tried(d)
                    /\ prompt' = (prompt /\ ~(fits /\ d.asked))
                    /\ world' = [world EXCEPT !.due = @ /\ ~fits]
                    /\ UNCHANGED <<settings, plain>>
           /\ deriving' = Tail(deriving)
           /\ UNCHANGED <<user, keystore, login, loads, hydrated, leaving, away>>

LockNow == /\ OnProfile /\ settings.enabled /\ password # None
           /\ Act /\ Locks
           /\ UNCHANGED <<user, keystore, login, loads, hydrated, leaving, settings, deriving, away, prompt>>
CancelPrompt == /\ prompt /\ ~Busy
                /\ prompt' = FALSE
                /\ UNCHANGED <<user, keystore, login, loads, hydrated, leaving, secrets, world>>

\* A chat decrypts a protected message.
Reveal == /\ user # None /\ hydrated = user /\ password # None /\ settings.enabled /\ ~plain
          /\ plain' = TRUE
          /\ UNCHANGED <<user, keystore, login, loads, hydrated, leaving, settings, password, deriving, away, prompt, world>>

\* handlePresentationAppState: the timer of the background may be suspended.
Hide == /\ away = "no"
        /\ away' = "short" /\ Act
        /\ UNCHANGED <<user, keystore, login, loads, hydrated, leaving, settings, password, deriving, plain, prompt>>
TimePasses == /\ away = "short" /\ deriving = << >>
              /\ away' = "long"
              /\ UNCHANGED <<user, keystore, login, loads, hydrated, leaving, settings, password, deriving, plain, prompt, world>>
LockTimer == /\ away = "long"
             /\ Locks
             /\ UNCHANGED <<user, keystore, login, loads, hydrated, leaving, settings, deriving, away, prompt, world>>
Show == /\ away # "no"
        /\ away' = "no"
        /\ IF away = "long" THEN Locks ELSE UNCHANGED <<password, plain>>
        /\ world' = [world EXCEPT !.due = @ \/ away = "long"]
        /\ UNCHANGED <<user, keystore, login, loads, hydrated, leaving, settings, deriving, prompt>>

-----------------------------------------------------------------------------
SigningIn == \/ \E a \in Account : Submit("login", a) \/ Submit("register", a)
             \/ Registered \/ Stored \/ NeedsCode \/ SignedIn \/ Refused
             \/ LoadKeys \/ MakeKeys \/ SaveKeys
             \/ PutKeys \/ ResetSenderKeys \/ CompareKeys \/ Compared \/ RequestFails
             \/ \E l \in loads : Hydrated(l)
Device == \/ \E a \in Account : OtherDevice(a)
          \/ Leave("logout") \/ Leave("delete") \/ LoggedOut \/ Deleted \/ NotDeleted
          \/ ClearCache \/ TokenRefreshed \/ Reload
Protection == \/ \E op \in {"enable", "unlock", "disable"}, p \in Password : Start(op, p)
              \/ Derived \/ LockNow \/ CancelPrompt \/ Reveal
              \/ Hide \/ TimePasses \/ LockTimer \/ Show

Next == SigningIn \/ Device \/ Protection
Spec == Init /\ [][Next]_vars

-----------------------------------------------------------------------------
(* Properties.                                                             *)

\* A sign-in whose comparison was answered leaves the device with keys that
\* are in its store and are the published ones, even when the first upload
\* failed, and with no sender key sealed to older ones unless the one request
\* that resets them was lost (ensureKeysExist, checkKeyConsistency).
LoginAgrees ==
  (user # None /\ login = Idle /\ loads = {} /\ ~world.fault)
    => /\ Mine # None /\ Mine = disk[user]
       /\ server[user].keys = Mine
       /\ server[user].stale => user \in world.missed

\* The identity keys in the store outlive every sign-out, reload and failed
\* request: only the deletion of the account removes them ("Preserve identity
\* keys (ik_pub/ik_priv) across logout/login cycles", Profile.tsx).
KeepsIdentity ==
  [][\A a \in Account : disk[a] # None /\ disk'[a] # disk[a] => a \in world'.gone]_vars

\* The password in memory is the one the verifier accepts, so that what is
\* sent can be opened again after a restart (enable, unlock and disable
\* overlap); and after an absence that is long enough neither it nor the text
\* it protects is there until it is typed again, whether or not the timer ran
\* in the background (handlePresentationAppState).
PasswordHeld ==
  /\ (settings.enabled /\ password # None) => password = settings.verifier
  /\ (world.due /\ away = "no") => password = None /\ ~plain
=============================================================================
