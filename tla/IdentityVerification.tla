------------------------ MODULE IdentityVerification ------------------------
(***************************************************************************)
(* Two contacts verify each other's identity with the password they share  *)
(* offline: the trust record each device keeps of the other, the signed    *)
(* proofs between them, the refresh of a profile page, and the revocation  *)
(* of trust when keys change (client/src/crypto/authenticatedMessaging.ts, *)
(* client/src/pages/UserProfile.tsx).                                      *)
(*                                                                         *)
(* The pair of identity and signing key of an account is its generation.   *)
(* A trust record is read and written in an encrypted browser store with   *)
(* awaits between: every read, and every write after a read, is a step.    *)
(* The server keeps every proof and delivers it in any order.              *)
(***************************************************************************)
EXTENDS Naturals, Sequences, FiniteSets

CONSTANTS alice, bob,
          Secret,      \* presentation passwords
          None,
          MaxStarts,   \* bound on explicit verifications
          MaxActs      \* bound on refreshes, openings, new keys, locks and lost sends

User == {alice, bob}
Peer(d) == CHOOSE u \in User : u # d

ASSUME VerificationAssumption == alice # bob /\ None \notin User /\ MaxStarts \in Nat /\ MaxActs \in Nat

VARIABLES
  key,       \* generation of the device's own keys
  published, \* generation the server has
  secret,    \* the password of the user
  unlocked,  \* isPresentationUnlocked
  trust,     \* the trust record of the other account
  log,       \* server: the proofs sent to the device, in order
  mail,      \* those of them to be decrypted
  queue,     \* the proof in receiveProof (proofQueue)
  inbox,     \* the live message in decryptSignedMessage
  starting,  \* startIdentityVerification under way
  refresh,   \* refreshContactVerification under way
  stale,     \* revoked records about to be written
  page,      \* the profile page: its status, the keys it was given, pending re-evaluations
  net        \* nonces used, starts and acts, and whether no fault happened

local == <<key, secret, unlocked>>
tasks == <<queue, inbox, starting, refresh>>
vars == <<local, published, trust, log, mail, tasks, stale, page, net>>

Idle == [pc |-> "idle"]
Status == {"verified", "unverified", "pending", "locked", "changed"}
\* nonce, received and ack are 0 when they are missing.
Trust == [pin : Nat, own : Nat, nonce : Nat, received : Nat, ack : BOOLEAN]
Proof == [key : Nat, for : Nat, nonce : Nat, ack : Nat, secret : Secret]
ASSUME RecordAssumption == None \notin Trust

Init == /\ key = [d \in User |-> 0] /\ published = key
        /\ secret \in [User -> Secret]
        /\ unlocked = [d \in User |-> TRUE]
        /\ trust = [d \in User |-> None]
        /\ log = [d \in User |-> << >>] /\ mail = [d \in User |-> {}]
        /\ queue = [d \in User |-> Idle] /\ inbox = queue /\ starting = queue /\ refresh = queue
        /\ stale = [d \in User |-> {}]
        /\ page = [d \in User |-> [status |-> "closed", peer |-> 0, cached |-> 0, again |-> FALSE, dirty |-> FALSE, throttled |-> FALSE]]
        /\ net = [nonces |-> 0, starts |-> 0, acts |-> 0, calm |-> TRUE]

-----------------------------------------------------------------------------
Act == net.acts < MaxActs /\ net' = [net EXCEPT !.acts = @ + 1]
Fault == net.acts < MaxActs /\ net' = [net EXCEPT !.acts = @ + 1, !.calm = FALSE]
Fresh == net.nonces + 1

NewTrust(d, k) == [pin |-> k, own |-> key[d], nonce |-> Fresh, received |-> 0, ack |-> FALSE]
Differs(d, k) == trust[d] # None /\ (trust[d].pin # k \/ trust[d].own # key[d])
Revoked(t) == [t EXCEPT !.ack = FALSE, !.received = 0]

\* identityVerified, for the keys of the peer.
Verified(d, k) == /\ trust[d] # None
                  /\ trust[d].own = key[d] /\ trust[d].pin = k
                  /\ trust[d].received # 0 /\ trust[d].ack

\* checkPeer and refreshIdentityTrust read the record, and write its revocation later.
Doubt(d) == stale' = [stale EXCEPT ![d] = @ \cup {Revoked(trust[d])}]
Trusting == UNCHANGED stale

\* Every saved record makes an open page look again, unless it is refreshing.
Dirtied(d) == IF page[d].status \in {"closed", "refreshing"} THEN page ELSE [page EXCEPT ![d].dirty = TRUE]
Save(d, t) == /\ trust' = [trust EXCEPT ![d] = t]
              /\ page' = Dirtied(d)

Closed(d) == [page EXCEPT ![d].status = "closed", ![d].again = FALSE, ![d].dirty = FALSE]
AtRest(d) == stale[d] = {} /\ \A t \in {queue, inbox, starting, refresh} : t[d] = Idle

SaveRevocation(d) == \E t \in stale[d] : /\ Save(d, t)
                                         /\ stale' = [stale EXCEPT ![d] = @ \ {t}]
                                         /\ UNCHANGED <<local, published, log, mail, tasks, net>>

\* refreshIdentityTrust: what it answers, and the revocation it may write.
Judged(d, k) == CASE Differs(d, k) -> "changed"
                  [] Verified(d, k) /\ ~Differs(d, k) -> "verified"
                  [] ~Verified(d, k) /\ ~Differs(d, k) /\ ~unlocked[d] -> "locked"
                  [] OTHER -> IF trust[d] = None THEN "unverified" ELSE "pending"
Judge(d, k) == IF Differs(d, k) /\ (trust[d].ack \/ trust[d].received # 0) THEN Doubt(d) ELSE Trusting

-----------------------------------------------------------------------------
(* Sending.  The proof is sealed for the keys the task was given, and needs the password;
   open: the chat is opened afterwards. *)

Sealed(d, k, nonce, ack) == [key |-> key[d], for |-> k, nonce |-> nonce, ack |-> ack, secret |-> secret[d]]

SendProof(d, k, nonce, ack, open) ==
  \/ /\ unlocked[d] /\ ~Differs(d, k) /\ Trusting
     /\ log' = [log EXCEPT ![Peer(d)] = Append(@, Sealed(d, k, nonce, ack))]
     /\ mail' = [mail EXCEPT ![Peer(d)] = @ \cup {Len(log[Peer(d)]) + 1}, ![d] = IF open THEN DOMAIN log[d] ELSE @]
     /\ UNCHANGED net
  \/ /\ unlocked[d] /\ Differs(d, k) /\ Doubt(d)
     /\ UNCHANGED <<log, mail, net>>
  \/ /\ ~unlocked[d] /\ Trusting            \* encryptIdentityText throws
     /\ UNCHANGED <<log, mail, net>>
  \/ /\ unlocked[d] /\ ~Differs(d, k)       \* no socket
     /\ Fault /\ Trusting
     /\ UNCHANGED <<log, mail>>

\* The button of the profile, which then opens the chat: its history is decrypted again.
StartIdentityVerification(d) ==
  /\ net.starts < MaxStarts /\ net' = [net EXCEPT !.starts = @ + 1]
  /\ page[d].status \notin {"closed", "refreshing"}
  /\ starting[d] = Idle /\ unlocked[d]
  /\ starting' = [starting EXCEPT ![d] = [pc |-> "got", peer |-> published[Peer(d)]]]
  /\ UNCHANGED <<local, published, trust, log, mail, queue, inbox, refresh, stale, page>>

SaveChallenge(d) ==
  LET k == starting[d].peer IN
  /\ starting[d].pc = "got"
  /\ Save(d, NewTrust(d, k))
  /\ starting' = [starting EXCEPT ![d] = [pc |-> "saved", peer |-> k, nonce |-> Fresh]]
  /\ net' = [net EXCEPT !.nonces = @ + 1]
  /\ UNCHANGED <<local, published, log, mail, queue, inbox, refresh, stale>>

SendChallenge(d) ==
  /\ starting[d].pc = "saved"
  /\ SendProof(d, starting[d].peer, starting[d].nonce, 0, TRUE)
  /\ starting' = [starting EXCEPT ![d] = Idle]
  /\ page' = IF log' = log THEN page ELSE Closed(d)
  /\ UNCHANGED <<local, published, trust, queue, inbox, refresh>>

\* Opening the chat decrypts its whole history: every proof is processed again.
OpenChat(d) ==
  /\ Act
  /\ mail' = [mail EXCEPT ![d] = DOMAIN log[d]]
  /\ UNCHANGED <<local, published, trust, log, tasks, stale, page>>

\* A private message is sealed with the keys in the list of friends: those of some earlier profile.
SendText(d) ==
  /\ Differs(d, page[d].cached) /\ Doubt(d)
  /\ net' = [net EXCEPT !.calm = FALSE]
  /\ UNCHANGED <<local, published, trust, log, mail, tasks, page>>

-----------------------------------------------------------------------------
(* Receiving. *)

\* decryptSignedMessage of a message that was pushed or is in an opened chat: it asks for the keys of
\* the sender, and checkPeer throws if they differ from the pin.
Open(d, i, k) == log[d][i].for = key[d] /\ ~Differs(d, k) /\ log[d][i].key = k
Check(d, i, k) == IF log[d][i].for = key[d] /\ Differs(d, k) THEN Doubt(d) ELSE Trusting
Decrypt(d) ==
  LET k == published[Peer(d)] IN
  /\ inbox[d] = Idle
  /\ \E i \in mail[d] :
       /\ \A j \in mail[d] : i <= j
       /\ mail' = [mail EXCEPT ![d] = @ \ {i}]
       /\ Check(d, i, k)
       /\ inbox' = [inbox EXCEPT ![d] = IF Open(d, i, k) /\ unlocked[d] THEN [pc |-> "queued", m |-> i, peer |-> k] ELSE Idle]
  /\ UNCHANGED <<local, published, trust, log, queue, starting, refresh, page, net>>

\* receiveProof, one at a time: the record is read ...
Genuine(d, p, k) == unlocked[d] /\ p.secret = secret[d] /\ p.key = k /\ p.for = key[d]
\* Mutant: any proof acknowledges.
After_AnyAck(base, p) == [base EXCEPT !.ack = TRUE, !.received = IF p.nonce # 0 THEN p.nonce ELSE @]
After(base, p) == [base EXCEPT !.ack = @ \/ p.ack = base.nonce, !.received = IF p.nonce # 0 THEN p.nonce ELSE @]

\* Mutant: a receipt is not answered.
Unanswered_Receipt(base, p) == p.nonce # 0 /\ base.received # p.nonce /\ p.ack # base.nonce
Unanswered(base, p) == p.nonce # 0 /\ base.received # p.nonce

ReadRecord(d, i, k, by) ==
  LET p == log[d][i]
      base == IF trust[d] = None THEN NewTrust(d, k) ELSE trust[d]
      value == After(base, p)
      reply == Unanswered(base, p)
  IN IF ~Genuine(d, p, k) \/ (value = trust[d] /\ ~reply)
       THEN queue' = queue /\ net' = net
       ELSE /\ queue' = [queue EXCEPT ![d] = [by |-> by, pc |-> IF value = trust[d] THEN "reply" ELSE "save", peer |-> k, value |-> value,
                                              reply |-> reply, only |-> p.ack = value.nonce, ack |-> p.nonce]]
            /\ net' = IF trust[d] = None THEN [net EXCEPT !.nonces = @ + 1] ELSE net

Receive(d) ==
  /\ queue[d] = Idle
  /\ inbox[d].pc = "queued"
  /\ ReadRecord(d, inbox[d].m, inbox[d].peer, "inbox")
  /\ inbox' = [inbox EXCEPT ![d] = Idle]
  /\ UNCHANGED <<local, published, trust, log, mail, starting, refresh, stale, page>>

\* ... and written, unless it is the same.
SaveRecord(d) ==
  /\ queue[d].pc = "save"
  /\ Save(d, queue[d].value)
  /\ queue' = [queue EXCEPT ![d] = IF queue[d].reply THEN [@ EXCEPT !.pc = "reply"] ELSE Idle]
  /\ UNCHANGED <<local, published, log, mail, inbox, starting, refresh, stale, net>>

Reply(d) ==
  LET q == queue[d] IN
  /\ q.pc = "reply"
  /\ SendProof(d, q.peer, IF q.only THEN 0 ELSE q.value.nonce, q.ack, FALSE)
  /\ queue' = [queue EXCEPT ![d] = Idle]
  /\ refresh' = IF q.by = "refresh" /\ log' = log THEN [refresh EXCEPT ![d].pc = "look"] ELSE refresh
  /\ UNCHANGED <<local, published, trust, inbox, starting, page>>

-----------------------------------------------------------------------------
(* The profile page and its refresh. *)

\* Opened, focused or shown again: it asks for the keys, and shares a job that is under way.  The
\* job ends at once if there is nothing to ask the history for.
Refreshing(d, status) == [page EXCEPT ![d].status = status, ![d].dirty = FALSE, ![d].again = FALSE,
                              ![d].peer = published[Peer(d)], ![d].cached = published[Peer(d)]]
Newest(s) == [i \in 1..Len(s) |-> Len(s) + 1 - i]
Begin(d) ==
  LET k == published[Peer(d)]  s == Judged(d, k)
      over == s \in {"changed", "locked"} \/ (s = "verified" /\ ~unlocked[d])
  IN IF refresh[d] # Idle
       THEN page' = Refreshing(d, "refreshing") /\ Trusting /\ UNCHANGED refresh
       ELSE /\ Judge(d, k)
            /\ page' = Refreshing(d, IF over THEN s ELSE "refreshing")
            /\ refresh' = IF over THEN refresh ELSE [refresh EXCEPT ![d] = [pc |-> "look", peer |-> k, todo |-> Newest(log[d])]]

Visit(d) ==
  /\ Act
  /\ page[d].status # "refreshing"
  /\ Begin(d)
  /\ UNCHANGED <<local, published, trust, log, mail, queue, inbox, starting>>

\* The job ends: a page that waits for it shows its answer.
End(d, status) ==
  /\ refresh' = [refresh EXCEPT ![d] = Idle]
  /\ page' = IF page[d].status = "refreshing" THEN [page EXCEPT ![d].status = status] ELSE page
Continue(d, job) == refresh' = [refresh EXCEPT ![d] = job] /\ UNCHANGED page

\* A receipt for this challenge, or a proof other than the one received.
Wanted(d, p) == trust[d] = None \/ p.ack = trust[d].nonce \/ (p.nonce # 0 /\ p.nonce # trust[d].received)

Look(d) ==
  LET j == refresh[d] IN
  /\ j.pc = "look" /\ j.todo # << >>
  /\ LET i == Head(j.todo) IN
     /\ Check(d, i, published[Peer(d)])
     /\ Continue(d, IF Open(d, i, published[Peer(d)]) /\ Wanted(d, log[d][i])
                      THEN [pc |-> "queued", peer |-> j.peer, todo |-> Tail(j.todo), m |-> i,
                            received |-> IF trust[d] = None THEN 0 ELSE trust[d].received]
                      ELSE [j EXCEPT !.todo = Tail(@)])
  /\ UNCHANGED <<local, published, trust, log, mail, queue, inbox, starting, net>>

Replay(d) ==
  LET j == refresh[d] IN
  /\ j.pc = "queued" /\ queue[d] = Idle
  /\ ReadRecord(d, j.m, j.peer, "refresh")
  /\ Continue(d, [j EXCEPT !.pc = IF Genuine(d, log[d][j.m], j.peer) THEN "replayed" ELSE "look"])
  /\ UNCHANGED <<local, published, trust, log, mail, inbox, starting, stale>>

Replayed(d) ==
  LET j == refresh[d]  s == Judged(d, j.peer)  n == log[d][j.m].nonce IN
  /\ j.pc = "replayed" /\ queue[d] = Idle
  /\ Judge(d, j.peer)
  /\ refresh' = [refresh EXCEPT ![d] =
       IF s \in {"changed", "verified", "locked"} THEN Idle
       ELSE IF n # 0 THEN [pc |-> "look", peer |-> j.peer, todo |-> << >>]
       ELSE [pc |-> "look", peer |-> j.peer, todo |-> j.todo]]
  /\ page' = [page EXCEPT ![d].throttled = @ \/ (n # 0 /\ j.received # n),
                          ![d].status = IF @ = "refreshing" /\ s \in {"changed", "verified", "locked"} THEN s ELSE @]
  /\ UNCHANGED <<local, published, trust, log, mail, queue, inbox, starting, net>>

\* Resume the challenge there is, or make one, unless a proof was sent in the last 30 seconds.
Rest(d) ==
  LET k == refresh[d].peer  s == Judged(d, k) IN
  /\ refresh[d].pc = "look" /\ refresh[d].todo = << >>
  /\ Judge(d, k)
  /\ \/ /\ s \in {"changed", "verified", "locked"} \/ page[d].throttled
        /\ End(d, s) /\ UNCHANGED net
     \/ /\ s = "pending"
        /\ Continue(d, [pc |-> "send", peer |-> k, value |-> trust[d]]) /\ UNCHANGED net
     \/ /\ s = "unverified"
        /\ Continue(d, [pc |-> "save", peer |-> k, value |-> NewTrust(d, k)])
        /\ net' = [net EXCEPT !.nonces = @ + 1]
  /\ UNCHANGED <<local, published, trust, log, mail, queue, inbox, starting>>

SaveNew(d) ==
  /\ refresh[d].pc = "save"
  /\ Save(d, refresh[d].value)
  /\ refresh' = [refresh EXCEPT ![d].pc = "send"]
  /\ UNCHANGED <<local, published, log, mail, queue, inbox, starting, stale, net>>

\* The challenge is sent again with what was received; a failed send ends the job with an error.
Resume(d) ==
  LET j == refresh[d] IN
  /\ j.pc = "send"
  /\ SendProof(d, j.peer, j.value.nonce, j.value.received, FALSE)
  /\ IF log' # log THEN /\ refresh' = [refresh EXCEPT ![d] = Idle]
                        /\ page' = [page EXCEPT ![d].throttled = TRUE,
                                                ![d].status = IF @ = "refreshing" THEN Judged(d, j.peer) ELSE @]
                   ELSE End(d, "error")
  /\ UNCHANGED <<local, published, trust, queue, inbox, starting>>

\* The password was locked or unlocked while the page refreshed.
RefreshAgain(d) ==
  /\ page[d].again /\ page[d].status # "refreshing"
  /\ Begin(d)
  /\ UNCHANGED <<local, published, trust, log, mail, queue, inbox, starting, net>>

\* onTrustChanged: the record changed under the open page.
TrustChanged(d) ==
  /\ page[d].dirty
  /\ Judge(d, page[d].peer)
  /\ page' = [page EXCEPT ![d].dirty = FALSE, ![d].status = Judged(d, page[d].peer)]
  /\ UNCHANGED <<local, published, trust, log, mail, tasks, net>>

-----------------------------------------------------------------------------
(* Keys and the password.  Signing in takes longer than to handle a proof that was decrypted. *)

Handled == \A d \in User : inbox[d] = Idle /\ queue[d] = Idle /\ refresh[d].pc # "queued"
\* Keys are random: those made by one more act are nobody's.
Generation == net.acts + 1

\* The user signs in on a new device, or with the browser's data cleared: new keys, and no record, no
\* password; the tasks of the old device have ended.
MakeKeys(d) ==
  /\ Fault
  /\ AtRest(d) /\ Handled
  /\ key' = [key EXCEPT ![d] = Generation]
  /\ trust' = [trust EXCEPT ![d] = None]
  /\ unlocked' = [unlocked EXCEPT ![d] = FALSE]
  /\ page' = [Closed(d) EXCEPT ![d].throttled = FALSE]
  /\ UNCHANGED <<secret, published, log, mail, tasks, stale>>

\* Another device of the account publishes keys of its own.
OtherDevice(d) ==
  /\ Fault /\ Handled
  /\ published' = [published EXCEPT ![d] = Generation]
  /\ UNCHANGED <<local, trust, log, mail, tasks, stale, page>>

\* ensureKeysExist, or checkKeyConsistency at a later login: the device's keys are the published ones.
PublishKeys(d) ==
  /\ published[d] # key[d] /\ Handled
  /\ published' = [published EXCEPT ![d] = key[d]]
  /\ UNCHANGED <<local, trust, log, mail, tasks, stale, page, net>>

\* An open page refreshes when the password is locked or unlocked.
\* Mutant: the page does not listen.
PasswordChanged_Unheard(d) == page
PasswordChanged(d) == IF page[d].status = "closed" THEN page ELSE [page EXCEPT ![d].again = TRUE]
LockOrUnlock(d) ==
  /\ IF unlocked[d] THEN Fault ELSE UNCHANGED net
  /\ unlocked' = [unlocked EXCEPT ![d] = ~@]
  /\ page' = PasswordChanged(d)
  /\ UNCHANGED <<key, secret, published, trust, log, mail, tasks, stale>>

-----------------------------------------------------------------------------
\* A record that was read is written in milliseconds: only the other writes of the device to its own
\* store come between, never a message or a user.
Writing(d) == queue[d].pc = "save" \/ stale[d] # {}
Write(d) == SaveRevocation(d) \/ SaveChallenge(d) \/ SaveRecord(d) \/ SaveNew(d)
Step(d) == \/ SendChallenge(d) \/ Decrypt(d) \/ Receive(d) \/ Reply(d)
           \/ Look(d) \/ Replay(d) \/ Replayed(d) \/ Rest(d) \/ Resume(d)
           \/ RefreshAgain(d) \/ TrustChanged(d) \/ PublishKeys(d)
Does(d) == \/ StartIdentityVerification(d) \/ OpenChat(d) \/ SendText(d) \/ Visit(d)
           \/ MakeKeys(d) \/ OtherDevice(d) \/ LockOrUnlock(d)
Next == \E d \in User : \/ Write(d) /\ (Writing(d) \/ \A u \in User : ~Writing(u))
                        \/ (\A u \in User : ~Writing(u)) /\ (Step(d) \/ Does(d))
Spec == Init /\ [][Next]_vars

-----------------------------------------------------------------------------
TypeOK ==
  /\ key \in [User -> Nat] /\ published \in [User -> Nat]
  /\ secret \in [User -> Secret] /\ unlocked \in [User -> BOOLEAN]
  /\ trust \in [User -> Trust \cup {None}]
  /\ log \in [User -> Seq(Proof)]
  /\ stale \in [User -> SUBSET Trust] /\ mail \in [User -> SUBSET Nat]
  /\ \A d \in User : mail[d] \subseteq DOMAIN log[d]

Sent(d) == {log[d][i] : i \in DOMAIN log[d]}
\* A device counts the keys it has pinned as verified only when the contact, with these keys and the
\* same password, made the proof it received and a receipt for its own challenge: identityVerified and
\* verifiedIdentity stand for both directions, whatever was replayed, delayed or revoked.
VerifiedIsMutual ==
  \A d \in User : trust[d] # None /\ Verified(d, trust[d].pin) =>
     LET from == {p \in Sent(d) : p.key = trust[d].pin /\ p.for = key[d] /\ p.secret = secret[d]} IN
     /\ \E p \in from : p.ack = trust[d].nonce
     /\ \E p \in from : p.nonce = trust[d].received

Quiet == \A d \in User : AtRest(d) /\ mail[d] = {} /\ key[d] = published[d] /\ ~page[d].dirty /\ ~page[d].again

\* An open profile does not say that the password is locked when it is not: unlocking it while the
\* page refreshes refreshes it again.
LockShown == \A d \in User : Quiet /\ page[d].status = "locked" => ~unlocked[d]

Shared == secret[alice] = secret[bob]
\* When no keys changed, nothing was locked or lost, and all is handled, a handshake that somebody
\* began, from either side, both at once or again, has made both verified.
Completes ==
  Quiet /\ Shared /\ net.calm /\ (\E d \in User : log[d] # << >>) =>
    \A d \in User : Verified(d, published[Peer(d)])
=============================================================================
