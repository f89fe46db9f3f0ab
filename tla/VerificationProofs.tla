------------------------- MODULE VerificationProofs -------------------------
(***************************************************************************)
(* Proofs about IdentityVerification, for any passwords and any number of  *)
(* starts and acts: the records and tasks of the devices are of their      *)
(* types, a verification is mutual, a page that says that the password is  *)
(* locked is right, and a handshake that nothing disturbed completes.      *)
(***************************************************************************)
EXTENDS IdentityVerification, SequenceTheorems, TLAPS

-----------------------------------------------------------------------------
(* The invariant. *)

InboxTask == [pc : {"queued"}, m : Nat, peer : Nat]
StartTask == [pc : {"got"}, peer : Nat] \cup [pc : {"saved"}, peer : Nat, nonce : Nat]
QueueTask == [by : {"inbox", "refresh"}, pc : {"save", "reply"}, peer : Nat, value : Trust,
              reply : BOOLEAN, only : BOOLEAN, ack : Nat]
Looking == [pc : {"look"}, peer : Nat, todo : Seq(Nat)]
Replaying == [pc : {"look", "queued", "replayed"}, peer : Nat, todo : Seq(Nat), m : Nat, received : Nat]
Resuming == [pc : {"save", "send"}, peer : Nat, value : Trust]

TaskTypes ==
  /\ inbox \in [User -> InboxTask \cup {Idle}] /\ starting \in [User -> StartTask \cup {Idle}]
  /\ queue \in [User -> QueueTask \cup {Idle}] /\ refresh \in [User -> Looking \cup Replaying \cup Resuming \cup {Idle}]
  /\ net \in [nonces : Nat, starts : Nat, acts : Nat, calm : BOOLEAN]

\* What a task remembers of the log is in it.
InLog(d) ==
  /\ inbox[d].pc = "queued" => inbox[d].m \in DOMAIN log[d]
  /\ refresh[d].pc \in {"look", "queued", "replayed"} =>
       \A i \in DOMAIN refresh[d].todo : refresh[d].todo[i] \in DOMAIN log[d]
  /\ refresh[d].pc \in {"queued", "replayed"} => refresh[d].m \in DOMAIN log[d]

\* The records of d that are stored or are about to be.
Records(d) == ({trust[d]} \ {None}) \cup stale[d]
                \cup (IF queue[d].pc = "save" THEN {queue[d].value} ELSE {})
                \cup (IF refresh[d].pc = "save" THEN {refresh[d].value} ELSE {})

\* A device that has k as the keys of u learned them from the server, which does not go back to
\* keys of before the device u's own.
Learned(u, k) == k <= net.acts /\ (k = key[u] => published[u] >= key[u])
\* A proof with the nonce n reached d under its present keys.
Heard(d, n) == \E p \in Sent(d) : p.nonce = n /\ p.for = key[d]
\* Nobody has acknowledged r, and nobody can: the contact has no longer the keys it is sealed for.
Dead(d, r) == r.pin # key[Peer(d)] /\ \A p \in Sent(d) : p.ack # r.nonce

Good(d, r) ==
  /\ r.own = key[d] /\ 1 <= r.nonce /\ Learned(Peer(d), r.pin)
  /\ \A p \in Sent(Peer(d)) : p.nonce = r.nonce => p.for = r.pin
  /\ r.ack => \E p \in Sent(d) : /\ p.ack = r.nonce /\ p.key = r.pin /\ p.for = key[d] /\ p.secret = secret[d]
  /\ r.received # 0 => /\ Heard(d, r.received)
                       /\ \/ Dead(d, r)
                          \/ \E p \in Sent(d) : /\ p.nonce = r.received /\ p.key = r.pin
                                                /\ p.for = key[d] /\ p.secret = secret[d]

\* An acknowledgement answers a proof that was sealed for the keys that sign it.
LogInv(d) == \A p \in Sent(d) : /\ p.key <= key[Peer(d)]
                                /\ p.ack # 0 => \E q \in Sent(Peer(d)) : q.nonce = p.ack /\ q.for = p.key

\* The nonces d has used or may use again.
Uses(d, n) == \/ trust[d] # None /\ trust[d].nonce = n
              \/ \E r \in stale[d] : r.nonce = n
              \/ starting[d].pc = "saved" /\ starting[d].nonce = n
              \/ queue[d].pc \in {"save", "reply"} /\ queue[d].value.nonce = n
              \/ refresh[d].pc = "send" /\ refresh[d].value.nonce = n
              \/ \E q \in Sent(Peer(d)) : q.nonce = n
NonceInv(d) == /\ \A n \in Nat : Uses(d, n) => n <= net.nonces
               /\ refresh[d].pc = "save" => /\ refresh[d].value.nonce <= net.nonces
                                            /\ ~Uses(d, refresh[d].value.nonce)

TaskInv(d) ==
  /\ starting[d].pc \in {"got", "saved"} => Learned(Peer(d), starting[d].peer)
  /\ refresh[d].pc # "idle" => Learned(Peer(d), refresh[d].peer)
  /\ refresh[d].pc \in {"save", "send"} /\ refresh[d].value.received # 0 => Heard(d, refresh[d].value.received)
  /\ queue[d].pc # "idle" => /\ queue[d].ack # 0 => Heard(d, queue[d].ack)
                             /\ queue[d].by = "refresh" => refresh[d].pc = "replayed"

\* A proof that has been opened is handled before keys are published: it was made by the keys the
\* server has, and so were all records that a contact may still acknowledge.
Opened(d) == inbox[d].pc = "queued" \/ refresh[d].pc = "queued"
OpenedInv(d) ==
  /\ inbox[d].pc = "queued" => inbox[d].peer = published[Peer(d)]
  /\ refresh[d].pc = "queued" => log[d][refresh[d].m].key = published[Peer(d)]
  /\ Opened(d) => /\ published[Peer(d)] <= key[Peer(d)]
                  /\ \A r \in Records(d) : r.pin = published[Peer(d)] \/ Dead(d, r)

UserInv(d) == /\ InLog(d) /\ LogInv(d) /\ NonceInv(d) /\ TaskInv(d) /\ OpenedInv(d)
              /\ key[d] <= net.acts /\ published[d] <= net.acts
              /\ \A r \in Records(d) : Good(d, r)
VerInv == TypeOK /\ TaskTypes /\ \A d \in User : UserInv(d)

-----------------------------------------------------------------------------
(* Facts about a state. *)

LEMMA Peers == \A d \in User : Peer(d) \in User /\ Peer(d) # d /\ \A u \in User \ {d} : u = Peer(d)
BY VerificationAssumption DEF User, Peer

LEMMA PeerBack == \A d \in User : Peer(Peer(d)) = d
BY Peers

LEMMA TaskFacts ==
  ASSUME TaskTypes, NEW d \in User
  PROVE  /\ (inbox[d].pc = "queued" /\ inbox[d] \in InboxTask) \/ (inbox[d] = Idle /\ inbox[d].pc = "idle")
         /\ \/ starting[d].pc \in {"got", "saved"} /\ starting[d].peer \in Nat
            \/ starting[d] = Idle /\ starting[d].pc = "idle"
         /\ starting[d].pc = "saved" => starting[d].nonce \in Nat
         /\ (queue[d].pc \in {"save", "reply"} /\ queue[d] \in QueueTask) \/ (queue[d] = Idle /\ queue[d].pc = "idle")
         /\ \/ refresh[d].pc \in {"look", "queued", "replayed"} /\ refresh[d].peer \in Nat /\ refresh[d].todo \in Seq(Nat)
            \/ refresh[d].pc \in {"save", "send"} /\ refresh[d] \in Resuming
            \/ refresh[d] = Idle /\ refresh[d].pc = "idle"
<1>1. /\ inbox[d] \in InboxTask \cup {Idle} /\ starting[d] \in StartTask \cup {Idle}
      /\ queue[d] \in QueueTask \cup {Idle}
      /\ refresh[d] \in Looking \cup Replaying \cup Resuming \cup {Idle}
  BY DEF TaskTypes
<1>2. Idle.pc = "idle"
  BY DEF Idle
<1>3. (inbox[d].pc = "queued" /\ inbox[d] \in InboxTask) \/ (inbox[d] = Idle /\ inbox[d].pc = "idle")
  BY <1>1, <1>2 DEF InboxTask
<1>4. /\ (starting[d].pc \in {"got", "saved"} /\ starting[d].peer \in Nat) \/ (starting[d] = Idle /\ starting[d].pc = "idle")
      /\ starting[d].pc = "saved" => starting[d].nonce \in Nat
  BY <1>1, <1>2 DEF StartTask
<1>5. (queue[d].pc \in {"save", "reply"} /\ queue[d] \in QueueTask) \/ (queue[d] = Idle /\ queue[d].pc = "idle")
  BY <1>1, <1>2 DEF QueueTask
<1>6. \/ refresh[d].pc \in {"look", "queued", "replayed"} /\ refresh[d].peer \in Nat /\ refresh[d].todo \in Seq(Nat)
      \/ refresh[d].pc \in {"save", "send"} /\ refresh[d] \in Resuming
      \/ refresh[d] = Idle /\ refresh[d].pc = "idle"
  BY <1>1, <1>2 DEF Looking, Replaying, Resuming
<1> QED
  BY <1>3, <1>4, <1>5, <1>6

LEMMA SentTyped ==
  ASSUME TypeOK, NEW d \in User
  PROVE  Sent(d) \subseteq Proof
BY DEF TypeOK, Sent

LEMMA RecordsTyped ==
  ASSUME TypeOK, TaskTypes, NEW d \in User
  PROVE  Records(d) \subseteq Trust
<1>1. queue[d].pc = "save" => queue[d].value \in Trust
  BY TaskFacts DEF QueueTask
<1>2. refresh[d].pc = "save" => refresh[d].value \in Trust
  BY TaskFacts DEF Resuming
<1> QED
  BY <1>1, <1>2 DEF TypeOK, Records

\* A record that may be written: what holds of the records of d holds of it.
Fit(d, r) == r \in Trust /\ Good(d, r) /\ (Opened(d) => r.pin = published[Peer(d)] \/ Dead(d, r))

LEMMA RecordsFit ==
  ASSUME VerInv, NEW d \in User, NEW r \in Records(d)
  PROVE  Fit(d, r)
BY RecordsTyped DEF VerInv, UserInv, OpenedInv, Fit

LEMMA RevokedFit ==
  ASSUME VerInv, NEW d \in User, trust[d] # None
  PROVE  Fit(d, Revoked(trust[d]))
<1> DEFINE t == trust[d]
           r == Revoked(t)
<1>1. t \in Records(d)
  BY DEF Records
<1>2. Fit(d, t)
  BY <1>1, RecordsFit
<1>3. r \in Trust /\ r.pin = t.pin /\ r.own = t.own /\ r.nonce = t.nonce /\ r.ack = FALSE /\ r.received = 0
  BY <1>2 DEF Fit, Revoked, Trust
<1> HIDE DEF t, r
<1>4. Good(d, r)
  BY <1>2, <1>3 DEF Fit, Good
<1>5. Opened(d) => r.pin = published[Peer(d)] \/ Dead(d, r)
  BY <1>2, <1>3 DEF Fit, Dead
<1> QED
  BY <1>3, <1>4, <1>5 DEF Fit, r, t

\* No nonce is used twice: a fresh one is in no proof, and nobody has acknowledged it.
LEMMA FreshUnsent ==
  ASSUME VerInv, NEW d \in User, NEW n \in Nat, \/ n > net.nonces \/ \A q \in Sent(Peer(d)) : q.nonce # n, n # 0
  PROVE  (\A q \in Sent(Peer(d)) : q.nonce # n) /\ \A p \in Sent(d) : p.ack # n
<1>1. \A q \in Sent(Peer(d)) : q.nonce # n
  <2>1. CASE n > net.nonces
    <3>1. net.nonces \in Nat
      BY DEF VerInv, TaskTypes
    <3>2. ~Uses(d, n)
      BY <2>1, <3>1 DEF VerInv, UserInv, NonceInv
    <3> QED
      BY <3>2 DEF Uses
  <2> QED
    BY <2>1
<1>2. \A p \in Sent(d) : p.ack # n
  BY <1>1 DEF VerInv, UserInv, LogInv
<1> QED
  BY <1>1, <1>2

\* A record that nobody has acknowledged is of the keys the server has, or of keys that are gone.
LEMMA UnackedDead ==
  ASSUME VerInv, NEW d \in User, NEW r \in Trust, Learned(Peer(d), r.pin), \A p \in Sent(d) : p.ack # r.nonce,
         published[Peer(d)] <= key[Peer(d)]
  PROVE  r.pin = published[Peer(d)] \/ Dead(d, r)
<1>1. published[Peer(d)] \in Nat /\ key[Peer(d)] \in Nat
  BY Peers DEF VerInv, TypeOK
<1> QED
  BY <1>1 DEF Learned, Dead

LEMMA NewTrustFit ==
  ASSUME VerInv, NEW d \in User, NEW k \in Nat, Learned(Peer(d), k)
  PROVE  Fit(d, NewTrust(d, k)) /\ NewTrust(d, k).nonce = Fresh /\ Fresh \in Nat /\ Fresh > net.nonces
<1> DEFINE r == NewTrust(d, k)
<1>1. net.nonces \in Nat /\ key[d] \in Nat
  BY DEF VerInv, TypeOK, TaskTypes
<1>2. Fresh \in Nat /\ Fresh > net.nonces /\ 1 <= Fresh
  BY <1>1 DEF Fresh
<1>3. r \in Trust /\ r.pin = k /\ r.own = key[d] /\ r.nonce = Fresh /\ r.received = 0 /\ r.ack = FALSE
  BY <1>1, <1>2 DEF NewTrust, Trust
<1>4. (\A q \in Sent(Peer(d)) : q.nonce # r.nonce) /\ \A p \in Sent(d) : p.ack # r.nonce
  BY <1>2, <1>3, FreshUnsent
<1> HIDE DEF r
<1>5. Good(d, r)
  BY <1>2, <1>3, <1>4 DEF Good
<1>6. Opened(d) => r.pin = published[Peer(d)] \/ Dead(d, r)
  BY <1>3, <1>4, UnackedDead DEF VerInv, UserInv, OpenedInv
<1> QED
  BY <1>2, <1>3, <1>5, <1>6 DEF Fit, r

\* What receiveProof makes of a record and a genuine proof that was opened.
LEMMA AfterFit ==
  ASSUME VerInv, NEW d \in User, NEW base \in Trust, Fit(d, base), NEW p \in Sent(d), NEW k, Genuine(d, p, k),
         k = published[Peer(d)], Opened(d)
  PROVE  Fit(d, After(base, p)) /\ After(base, p).nonce = base.nonce
<1> DEFINE r == After(base, p)
           n == IF p.nonce # 0 THEN p.nonce ELSE base.received
<1>1. p \in Proof /\ p.secret = secret[d] /\ p.key = k /\ p.for = key[d]
  BY SentTyped DEF VerInv, Genuine
<1>2. n \in Nat
  BY <1>1 DEF Proof, Trust
<1>3. /\ r \in Trust /\ r.pin = base.pin /\ r.own = base.own /\ r.nonce = base.nonce /\ r.received = n
      /\ r.ack = (base.ack \/ p.ack = base.nonce)
  BY <1>2 DEF After, Trust
<1> HIDE DEF r
\* The receipt: it answers a proof for the keys that are pinned.
<1>4. p.ack = base.nonce => p.key = base.pin
  <2> SUFFICES ASSUME p.ack = base.nonce
               PROVE  p.key = base.pin
    OBVIOUS
  <2>1. p.ack # 0
    BY DEF Fit, Good, Trust
  <2>2. PICK q \in Sent(Peer(d)) : q.nonce = p.ack /\ q.for = p.key
    BY <2>1 DEF VerInv, UserInv, LogInv
  <2> QED
    BY <2>2 DEF Fit, Good
<1>5. r.ack => \E s \in Sent(d) : s.ack = r.nonce /\ s.key = r.pin /\ s.for = key[d] /\ s.secret = secret[d]
  <2>1. CASE base.ack
    BY <1>3, <2>1 DEF Fit, Good
  <2>2. CASE p.ack = base.nonce
    BY <1>1, <1>3, <1>4, <2>2
  <2> QED
    BY <1>3, <2>1, <2>2
\* The proof received: of the keys that are pinned, or nobody can acknowledge the record any more.
<1>6. r.pin = published[Peer(d)] \/ Dead(d, r)
  BY <1>3 DEF Fit, Dead
<1>7. r.received # 0 => /\ Heard(d, r.received)
                        /\ \/ Dead(d, r)
                           \/ \E s \in Sent(d) : s.nonce = r.received /\ s.key = r.pin /\ s.for = key[d] /\ s.secret = secret[d]
  <2>1. CASE p.nonce = 0
    <3>1. r.received = base.received /\ (Dead(d, base) => Dead(d, r))
      BY <1>3, <2>1 DEF Dead
    <3> QED
      BY <1>3, <3>1 DEF Fit, Good
  <2>2. CASE p.nonce # 0
    <3>1. r.received = p.nonce /\ Heard(d, r.received)
      BY <1>1, <1>3, <2>2 DEF Heard
    <3> QED
      BY <1>1, <1>6, <3>1
  <2> QED
    BY <2>1, <2>2
<1>8. Good(d, r)
  BY <1>3, <1>5, <1>7 DEF Fit, Good
<1> QED
  BY <1>3, <1>6, <1>8 DEF Fit, r

-----------------------------------------------------------------------------
(* Steps of a device that send nothing, while the keys stay. *)

Still == UNCHANGED <<key, published, secret, log>> /\ net.nonces <= net'.nonces /\ net.acts <= net'.acts
Same(e) == /\ trust'[e] = trust[e] /\ stale'[e] = stale[e] /\ queue'[e] = queue[e] /\ inbox'[e] = inbox[e]
           /\ starting'[e] = starting[e] /\ refresh'[e] = refresh[e]
Others(d) == \A e \in User \ {d} : Same(e)
Typed == TypeOK /\ TaskTypes

LEMMA StillLearned ==
  ASSUME VerInv, Still, Typed', NEW u \in User, NEW k \in Nat, Learned(u, k)
  PROVE  Learned(u, k)'
<1>1. net.acts \in Nat /\ net'.acts \in Nat
  BY DEF VerInv, Typed, TaskTypes
<1> QED
  BY <1>1 DEF Still, Learned

LEMMA StillFit ==
  ASSUME VerInv, Still, Typed', NEW d \in User, NEW r, Fit(d, r)
  PROVE  Good(d, r)' /\ (Opened(d) => r.pin = published'[Peer(d)] \/ Dead(d, r)')
<1>1. Learned(Peer(d), r.pin)'
  BY Peers, StillLearned DEF Fit, Good, Trust
<1>2. Sent(d)' = Sent(d) /\ Sent(Peer(d))' = Sent(Peer(d))
  BY DEF Still, Sent
<1>3. /\ key' = key /\ secret' = secret /\ published' = published
      /\ Dead(d, r)' <=> Dead(d, r)
      /\ \A n : Heard(d, n)' <=> Heard(d, n)
  BY <1>2 DEF Still, Dead, Heard
<1> QED
  BY <1>1, <1>2, <1>3 DEF Fit, Good

LEMMA NoncesStay ==
  ASSUME VerInv, Typed', NEW d \in User, net.nonces <= net'.nonces,
         \A n \in Nat : Uses(d, n)' => \/ Uses(d, n)
                                       \/ n > net.nonces /\ n <= net'.nonces,
         refresh'[d].pc = "save" => refresh'[d] = refresh[d]
  PROVE  NonceInv(d)'
<1>1. net.nonces \in Nat /\ net'.nonces \in Nat
  BY DEF VerInv, Typed, TaskTypes
<1>2. refresh[d].pc = "save" => refresh[d].value.nonce \in Nat
  BY TaskFacts DEF VerInv, Resuming, Trust
<1>3. NonceInv(d)
  BY DEF VerInv, UserInv
<1>4. \A n \in Nat : Uses(d, n)' => n <= net'.nonces
  BY <1>1, <1>3 DEF NonceInv
<1>5. refresh'[d].pc = "save" => /\ refresh'[d].value.nonce <= net'.nonces
                                 /\ \A n \in Nat : Uses(d, n)' => n # refresh'[d].value.nonce
  BY <1>1, <1>2, <1>3 DEF NonceInv
<1> QED
  BY <1>2, <1>4, <1>5 DEF NonceInv

LEMMA OpenedStays ==
  ASSUME VerInv, Still, Typed', NEW d \in User, inbox'[d] \in {inbox[d], Idle},
         refresh'[d].pc = "queued" => refresh'[d] = refresh[d],
         \A r \in Records(d)' : Fit(d, r)
  PROVE  OpenedInv(d)'
<1>1. Opened(d)' => Opened(d)
  BY DEF Opened, Idle
<1>2. Opened(d)' => \A r \in Records(d)' : r.pin = published'[Peer(d)] \/ Dead(d, r)'
  BY <1>1, StillFit
<1>3. OpenedInv(d) /\ published' = published /\ key' = key /\ log' = log
  BY DEF VerInv, UserInv, Still
<1> QED
  BY <1>1, <1>2, <1>3 DEF OpenedInv, Idle

LEMMA TasksKept ==
  ASSUME VerInv, UNCHANGED <<key, published>>, net.acts <= net'.acts, TaskTypes', NEW d \in User, Sent(d)' = Sent(d),
         starting'[d] \in {starting[d], Idle},
         queue'[d] \in {queue[d], Idle}, refresh'[d] \in {refresh[d], Idle},
         (queue'[d] # Idle /\ queue[d].by = "refresh") => refresh'[d] = refresh[d]
  PROVE  TaskInv(d)'
<1>1. /\ starting[d].pc \in {"got", "saved"} => starting[d].peer \in Nat
      /\ refresh[d].pc # "idle" => refresh[d].peer \in Nat
      /\ queue[d] = Idle => queue[d].pc = "idle"
  <2>1. TaskTypes
    BY DEF VerInv
  <2>2. refresh[d] \in Resuming => refresh[d].peer \in Nat
    BY DEF Resuming
  <2>3. starting[d].pc \in {"got", "saved"} => starting[d].peer \in Nat
    BY <2>1, TaskFacts
  <2>4. refresh[d].pc # "idle" => refresh[d].peer \in Nat
    BY <2>1, <2>2, TaskFacts
  <2> QED
    BY <2>3, <2>4 DEF Idle
<1>2. Peer(d) \in User /\ net.acts \in Nat /\ net'.acts \in Nat /\ Sent(d)' = Sent(d)
  BY Peers DEF VerInv, TaskTypes
<1>3. TaskInv(d) /\ Idle.pc = "idle"
  BY DEF VerInv, UserInv, Idle
<1>4. (starting[d].pc \in {"got", "saved"} => Learned(Peer(d), starting[d].peer))'
  BY <1>1, <1>2, <1>3 DEF TaskInv, Learned
<1>5. (refresh[d].pc # "idle" => Learned(Peer(d), refresh[d].peer))'
  BY <1>1, <1>2, <1>3 DEF TaskInv, Learned
<1>6. (refresh[d].pc \in {"save", "send"} /\ refresh[d].value.received # 0 => Heard(d, refresh[d].value.received))'
  BY <1>2, <1>3 DEF TaskInv, Heard
<1>7. (queue[d].pc # "idle" => /\ queue[d].ack # 0 => Heard(d, queue[d].ack)
                               /\ queue[d].by = "refresh" => refresh[d].pc = "replayed")'
  BY <1>1, <1>2, <1>3 DEF TaskInv, Heard
<1> QED
  BY <1>4, <1>5, <1>6, <1>7 DEF TaskInv

LEMMA TasksStay ==
  ASSUME VerInv, Still, Typed', NEW d \in User, starting'[d] \in {starting[d], Idle},
         queue'[d] \in {queue[d], Idle}, refresh'[d] \in {refresh[d], Idle},
         (queue'[d] # Idle /\ queue[d].by = "refresh") => refresh'[d] = refresh[d]
  PROVE  TaskInv(d)'
<1>1. UNCHANGED <<key, published>> /\ net.acts <= net'.acts /\ Sent(d)' = Sent(d) /\ TaskTypes'
  BY DEF Still, Sent, Typed
<1> QED
  BY <1>1, TasksKept

LEMMA SameKept ==
  ASSUME VerInv, Still, Typed', NEW e \in User, Same(e)
  PROVE  UserInv(e)'
<1>1. Records(e)' = Records(e)
  BY DEF Same, Records
<1>2. \A r \in Records(e)' : Fit(e, r)
  BY <1>1, RecordsFit
<1>3. \A r \in Records(e)' : Good(e, r)'
  BY <1>2, StillFit
<1>4. \A n : Uses(e, n)' => Uses(e, n)
  BY DEF Still, Same, Uses, Sent
<1>5. NonceInv(e)'
  BY <1>4, NoncesStay DEF Same, Still
<1>6. OpenedInv(e)'
  BY <1>2, OpenedStays DEF Same
<1>7. TaskInv(e)'
  BY TasksStay DEF Same
<1>8. InLog(e)' /\ LogInv(e)'
  BY DEF VerInv, UserInv, InLog, LogInv, Same, Still, Sent
<1>9. key'[e] <= net'.acts /\ published'[e] <= net'.acts
  BY DEF VerInv, UserInv, Typed, TypeOK, TaskTypes, Still
<1> QED
  BY <1>3, <1>5, <1>6, <1>7, <1>8, <1>9 DEF UserInv

LEMMA LocalStep ==
  ASSUME VerInv, Still, Typed', NEW d \in User, Others(d), InLog(d)', NonceInv(d)', TaskInv(d)', OpenedInv(d)',
         \A r \in Records(d)' : Fit(d, r)
  PROVE  VerInv'
<1>1. \A r \in Records(d)' : Good(d, r)'
  BY StillFit
<1>2. LogInv(d)'
  BY DEF VerInv, UserInv, LogInv, Still, Sent
<1>3. key'[d] <= net'.acts /\ published'[d] <= net'.acts
  BY DEF VerInv, UserInv, Typed, TypeOK, TaskTypes, Still
<1>4. UserInv(d)'
  BY <1>1, <1>2, <1>3 DEF UserInv
<1>5. \A e \in User \ {d} : UserInv(e)'
  BY SameKept DEF Others
<1> QED
  BY <1>4, <1>5 DEF VerInv, Typed

Doubts(d) == \/ stale' = stale
             \/ trust[d] # None /\ stale' = [stale EXCEPT ![d] = stale[d] \cup {Revoked(trust[d])}]

LEMMA Judging ==
  ASSUME VerInv, NEW d \in User, NEW k, NEW i, Judge(d, k) \/ Check(d, i, k)
  PROVE  Doubts(d)
BY DEF Judge, Check, Differs, Doubt, Trusting, Doubts

LEMMA RevokedTyped ==
  ASSUME NEW t \in Trust
  PROVE  Revoked(t) \in Trust /\ Revoked(t).nonce = t.nonce
BY DEF Revoked, Trust

LEMMA StaleTyped ==
  ASSUME TypeOK, NEW d \in User, Doubts(d)
  PROVE  stale' \in [User -> SUBSET Trust]
<1>1. CASE stale' = stale
  BY <1>1 DEF TypeOK
<1>2. CASE trust[d] # None /\ stale' = [stale EXCEPT ![d] = stale[d] \cup {Revoked(trust[d])}]
  <2>1. Revoked(trust[d]) \in Trust
    BY <1>2, RevokedTyped DEF TypeOK
  <2>2. stale \in [User -> SUBSET Trust] /\ stale[d] \cup {Revoked(trust[d])} \in SUBSET Trust
    BY <2>1 DEF TypeOK
  <2> QED
    BY <1>2, <2>2
<1> QED
  BY <1>1, <1>2 DEF Doubts

LEMMA DoubtRecords ==
  ASSUME VerInv, NEW d \in User, Doubts(d), trust' = trust, queue'[d].pc = "save" => queue'[d] = queue[d],
         refresh'[d].pc = "save" => refresh'[d] = refresh[d]
  PROVE  \A r \in Records(d)' : Fit(d, r)
<1>1. stale'[d] \subseteq stale[d] \cup (IF trust[d] # None THEN {Revoked(trust[d])} ELSE {})
  BY DEF Doubts, VerInv, TypeOK
<1>2. ASSUME NEW r \in Records(d)', r \notin Records(d)
      PROVE  trust[d] # None /\ r = Revoked(trust[d])
  BY <1>1, <1>2 DEF Records
<1> QED
  BY <1>2, RecordsFit, RevokedFit

\* A step that stores no record and makes none, but may find a reason to doubt the one there is.
LEMMA DoubtStep ==
  ASSUME VerInv, Still, NEW d \in User, Doubts(d), trust' = trust, Others(d), TaskTypes', InLog(d)', TaskInv(d)',
         unlocked' \in [User -> BOOLEAN], mail' \in [User -> SUBSET Nat], \A e \in User : mail'[e] \subseteq DOMAIN log[e],
         queue'[d] \in {queue[d], Idle}, starting'[d].pc = "saved" => starting'[d] = starting[d],
         refresh'[d].pc = "save" => refresh'[d] = refresh[d],
         refresh'[d].pc = "send" => refresh'[d] = refresh[d] \/ (trust[d] # None /\ refresh'[d].value = trust[d]),
         \/ inbox'[d] \in {inbox[d], Idle} /\ (refresh'[d].pc = "queued" => refresh'[d] = refresh[d])
         \/ OpenedInv(d)'
  PROVE  VerInv'
<1>1. Idle.pc = "idle" /\ net.nonces <= net'.nonces
  BY DEF Idle, Still
<1>2. \A r \in Records(d)' : Fit(d, r)
  BY <1>1, DoubtRecords
<1>3. trust[d] # None => Revoked(trust[d]).nonce = trust[d].nonce
  BY RevokedTyped DEF VerInv, TypeOK
<1>4. stale' \in [User -> SUBSET Trust]
  BY StaleTyped DEF VerInv
<1>5. Typed'
  BY <1>4 DEF VerInv, TypeOK, Still, Typed
<1>6. \A n \in Nat : Uses(d, n)' => Uses(d, n)
  <2>1. \A r \in stale'[d] : r \in stale[d] \/ (trust[d] # None /\ r.nonce = trust[d].nonce)
    BY <1>3 DEF VerInv, TypeOK, Doubts
  <2>2. Sent(Peer(d))' = Sent(Peer(d))
    BY DEF Still, Sent
  <2> QED
    BY <1>1, <2>1, <2>2 DEF Uses
<1>7. NonceInv(d)'
  BY <1>1, <1>5, <1>6, NoncesStay
<1>8. OpenedInv(d)'
  BY <1>2, <1>5, OpenedStays
<1> QED
  BY <1>2, <1>5, <1>7, <1>8, LocalStep

\* The same, of a step in which the tasks go on or end.
LEMMA CalmStep ==
  ASSUME VerInv, Still, NEW d \in User, Doubts(d), trust' = trust, Others(d), TaskTypes',
         unlocked' \in [User -> BOOLEAN], mail' \in [User -> SUBSET Nat], \A e \in User : mail'[e] \subseteq DOMAIN log[e],
         queue'[d] \in {queue[d], Idle}, starting'[d] \in {starting[d], Idle}, inbox'[d] \in {inbox[d], Idle},
         refresh'[d] \in {refresh[d], Idle}, (queue'[d] # Idle /\ queue[d].by = "refresh") => refresh'[d] = refresh[d]
  PROVE  VerInv'
<1>1. Idle.pc = "idle"
  BY DEF Idle
<1>2. stale' \in [User -> SUBSET Trust]
  BY StaleTyped DEF VerInv
<1>3. Typed'
  BY <1>2 DEF VerInv, TypeOK, Still, Typed
<1>4. TaskInv(d)'
  BY <1>3, TasksStay
<1>5. InLog(d)'
  BY <1>1 DEF VerInv, UserInv, InLog, Still
<1> QED
  BY <1>1, <1>4, <1>5, DoubtStep

Nets == [nonces : Nat, starts : Nat, acts : Nat, calm : BOOLEAN]

LEMMA NetMoves ==
  ASSUME TaskTypes, \/ Act \/ Fault \/ net' = net \/ net' = [net EXCEPT !.calm = FALSE]
                    \/ net' = [net EXCEPT !.starts = net.starts + 1]
  PROVE  net' \in Nets /\ net'.nonces = net.nonces /\ net.nonces <= net'.nonces /\ net.acts <= net'.acts
<1>1. net \in Nets
  BY DEF TaskTypes, Nets
<1>2. net.nonces \in Nat /\ net.acts \in Nat /\ net.acts + 1 \in Nat /\ net.starts + 1 \in Nat
  BY <1>1 DEF Nets
<1>3. CASE Act \/ net' = net
  BY <1>1, <1>2, <1>3 DEF Act, Nets
<1>4. CASE Fault
  <2>1. net' = [nonces |-> net.nonces, starts |-> net.starts, acts |-> net.acts + 1, calm |-> FALSE]
    BY <1>1, <1>4 DEF Fault, Nets
  <2>2. net.starts \in Nat
    BY <1>1 DEF Nets
  <2> QED
    BY <1>2, <2>1, <2>2 DEF Nets
<1>5. CASE net' = [net EXCEPT !.calm = FALSE]
  <2>1. net' = [nonces |-> net.nonces, starts |-> net.starts, acts |-> net.acts, calm |-> FALSE]
    BY <1>1, <1>5 DEF Nets
  <2>2. net.starts \in Nat
    BY <1>1 DEF Nets
  <2> QED
    BY <1>2, <2>1, <2>2 DEF Nets
<1>6. CASE net' = [net EXCEPT !.starts = net.starts + 1]
  BY <1>1, <1>2, <1>6 DEF Nets
<1> QED
  BY <1>3, <1>4, <1>5, <1>6

LEMMA PageSteps ==
  ASSUME VerInv, NEW d \in User, OpenChat(d) \/ SendText(d) \/ TrustChanged(d) \/ LockOrUnlock(d)
  PROVE  VerInv'
<1>1. net' \in Nets /\ net.nonces <= net'.nonces /\ net.acts <= net'.acts
  <2>1. Act \/ Fault \/ net' = net \/ net' = [net EXCEPT !.calm = FALSE]
    BY DEF OpenChat, SendText, TrustChanged, LockOrUnlock
  <2> QED
    BY <2>1, NetMoves DEF VerInv
<1>2. UNCHANGED <<key, secret, published, trust, log, tasks>>
  BY DEF OpenChat, SendText, TrustChanged, LockOrUnlock, local
<1>3. Doubts(d)
  <2>1. CASE OpenChat(d) \/ LockOrUnlock(d)
    BY <2>1 DEF OpenChat, LockOrUnlock, Doubts
  <2>2. CASE SendText(d)
    BY <2>2 DEF SendText, Differs, Doubt, Doubts
  <2>3. CASE TrustChanged(d)
    BY <2>3, Judging DEF TrustChanged
  <2> QED
    BY <2>1, <2>2, <2>3
<1>4. unlocked' \in [User -> BOOLEAN]
  BY DEF OpenChat, SendText, TrustChanged, LockOrUnlock, local, VerInv, TypeOK
<1>5. mail' \in [User -> SUBSET Nat] /\ \A e \in User : mail'[e] \subseteq DOMAIN log[e]
  <2>1. CASE OpenChat(d)
    <3>1. log[d] \in Seq(Proof) /\ DOMAIN log[d] \subseteq Nat
      BY DEF VerInv, TypeOK
    <3> QED
      BY <2>1, <3>1 DEF OpenChat, VerInv, TypeOK
  <2>2. CASE ~OpenChat(d)
    BY <2>2 DEF SendText, TrustChanged, LockOrUnlock, VerInv, TypeOK
  <2> QED
    BY <2>1, <2>2
<1>6. TaskTypes' /\ \A e \in User \ {d} : trust'[e] = trust[e] /\ stale'[e] = stale[e]
  <2>1. \A e \in User \ {d} : stale'[e] = stale[e]
    BY <1>3 DEF Doubts, VerInv, TypeOK
  <2> QED
    BY <1>1, <1>2, <2>1 DEF TaskTypes, tasks, VerInv, Nets
<1>7. Others(d) /\ Still
  BY <1>1, <1>2, <1>6 DEF Others, Same, Still, tasks
<1> QED
  BY <1>2, <1>3, <1>4, <1>5, <1>6, <1>7, CalmStep DEF tasks

LEMMA Published ==
  ASSUME VerInv, NEW u \in User
  PROVE  Learned(u, published[u]) /\ published[u] \in Nat
BY DEF VerInv, TypeOK, UserInv, Learned

LEMMA Starts ==
  ASSUME VerInv, NEW d \in User, StartIdentityVerification(d)
  PROVE  VerInv'
<1>1. net' \in Nets /\ net.nonces <= net'.nonces /\ net.acts <= net'.acts
  <2>1. net' = [net EXCEPT !.starts = net.starts + 1]
    BY DEF StartIdentityVerification
  <2> QED
    BY <2>1, NetMoves DEF VerInv
<1> DEFINE a == [pc |-> "got", peer |-> published[Peer(d)]]
<1>2. a \in StartTask /\ Learned(Peer(d), a.peer) /\ a.pc = "got" /\ a.peer = published[Peer(d)]
  BY Peers, Published DEF StartTask
<1>3. starting' = [starting EXCEPT ![d] = a]
  BY DEF StartIdentityVerification
<1> HIDE DEF a
<1>4. UNCHANGED <<key, secret, unlocked, published, trust, log, mail, stale, inbox, queue, refresh>>
  BY DEF StartIdentityVerification, local
<1>5. TaskTypes' /\ starting'[d] = a /\ \A e \in User \ {d} : starting'[e] = starting[e]
  BY <1>1, <1>2, <1>3, <1>4 DEF TaskTypes, VerInv, Nets
<1>6. Others(d) /\ Still /\ Doubts(d)
  BY <1>1, <1>4, <1>5 DEF Others, Same, Still, Doubts
<1>7. InLog(d)'
  BY <1>4 DEF VerInv, UserInv, InLog
<1>8. TaskInv(d)'
  <2>1. net.acts \in Nat /\ net'.acts \in Nat /\ Sent(d)' = Sent(d) /\ TaskInv(d)
    BY <1>4, <1>5 DEF VerInv, UserInv, TaskTypes, Sent
  <2>2. (starting[d].pc \in {"got", "saved"} => Learned(Peer(d), starting[d].peer))'
    BY <1>1, <1>2, <1>4, <1>5, <2>1, Peers, Published DEF Learned
  <2>3. (refresh[d].pc # "idle" => Learned(Peer(d), refresh[d].peer))'
    <3>1. refresh[d].pc # "idle" => refresh[d].peer \in Nat
      BY TaskFacts DEF VerInv, Resuming
    <3> QED
      BY <1>1, <1>4, <2>1, <3>1 DEF Learned, TaskInv
  <2> QED
    BY <1>4, <2>1, <2>2, <2>3 DEF TaskInv, Heard
<1> QED
  BY <1>2, <1>4, <1>5, <1>6, <1>7, <1>8, DoubtStep DEF VerInv, TypeOK

LEMMA TaskMoves ==
  ASSUME VerInv, Still, TaskTypes', NEW d \in User, starting'[d] \in {starting[d], Idle}, queue'[d] \in {queue[d], Idle},
         refresh'[d].pc # "idle" => refresh'[d].peer \in Nat /\ Learned(Peer(d), refresh'[d].peer),
         refresh'[d].pc \in {"save", "send"} /\ refresh'[d].value.received # 0 => Heard(d, refresh'[d].value.received),
         (queue'[d] # Idle /\ queue[d].by = "refresh") => refresh'[d].pc = "replayed"
  PROVE  TaskInv(d)'
<1>1. starting[d].pc \in {"got", "saved"} => starting[d].peer \in Nat
  BY TaskFacts DEF VerInv
<1>2. queue[d] = Idle => queue[d].pc = "idle"
  BY DEF Idle
<1>3. Peer(d) \in User /\ net.acts \in Nat /\ net'.acts \in Nat /\ Sent(d)' = Sent(d)
  BY Peers DEF VerInv, TaskTypes, Still, Sent
<1>4. TaskInv(d) /\ Idle.pc = "idle"
  BY DEF VerInv, UserInv, Idle
<1>5. (starting[d].pc \in {"got", "saved"} => Learned(Peer(d), starting[d].peer))'
  BY <1>1, <1>3, <1>4 DEF TaskInv, Learned, Still
<1>6. (refresh[d].pc # "idle" => Learned(Peer(d), refresh[d].peer))'
  BY <1>3 DEF Learned, Still
<1>7. (refresh[d].pc \in {"save", "send"} /\ refresh[d].value.received # 0 => Heard(d, refresh[d].value.received))'
  BY <1>3 DEF Heard, Still
<1>8. (queue[d].pc # "idle" => /\ queue[d].ack # 0 => Heard(d, queue[d].ack)
                               /\ queue[d].by = "refresh" => refresh[d].pc = "replayed")'
  BY <1>2, <1>3, <1>4 DEF TaskInv, Heard, Still
<1> QED
  BY <1>5, <1>6, <1>7, <1>8 DEF TaskInv

\* A proof has just been opened: the keys of its sender are those the server has, and so is the record.
LEMMA JustOpened ==
  ASSUME VerInv, Still, Typed', NEW d \in User, NEW i \in DOMAIN log[d], Open(d, i, published[Peer(d)]),
         Check(d, i, published[Peer(d)]), ~Writing(d), trust' = trust, queue'[d] = queue[d],
         refresh'[d].pc = "save" => refresh'[d] = refresh[d]
  PROVE  /\ published'[Peer(d)] <= key'[Peer(d)] /\ log'[d][i].key = published'[Peer(d)]
         /\ \A r \in Records(d)' : r.pin = published'[Peer(d)] \/ Dead(d, r)'
<1> DEFINE k == published[Peer(d)]
<1>1. log[d][i] \in Sent(d) /\ log[d][i].key = k /\ ~Differs(d, k)
  BY DEF Open, Sent
<1>2. published[Peer(d)] <= key[Peer(d)]
  BY <1>1 DEF VerInv, UserInv, LogInv
<1>3. stale'[d] = {} /\ queue[d].pc # "save"
  BY <1>1 DEF Check, Trusting, Writing
<1>4. ASSUME NEW r \in Records(d)'
      PROVE  r.pin = k \/ Dead(d, r)
  <2>1. CASE r = trust[d] /\ trust[d] # None
    BY <1>1, <2>1 DEF Differs
  <2>2. CASE refresh[d].pc = "save" /\ r = refresh[d].value
    <3>1. r \in Records(d)
      BY <2>2 DEF Records
    <3>2. r \in Trust /\ r.nonce \in Nat /\ r.nonce # 0 /\ Learned(Peer(d), r.pin)
      BY <3>1, RecordsFit DEF Fit, Good, Trust
    <3>3. ~Uses(d, r.nonce)
      BY <2>2 DEF VerInv, UserInv, NonceInv
    <3>4. \A p \in Sent(d) : p.ack # r.nonce
      BY <3>2, <3>3, FreshUnsent DEF Uses
    <3> QED
      BY <1>2, <3>2, <3>4, UnackedDead
  <2> QED
    BY <1>3, <1>4, <2>1, <2>2 DEF Records
<1>5. ASSUME NEW r \in Records(d)', Dead(d, r)
      PROVE  Dead(d, r)'
  BY <1>5 DEF Dead, Still, Sent
<1>6. published' = published /\ key' = key /\ log' = log
  BY DEF Still
<1> QED
  BY <1>1, <1>2, <1>4, <1>5, <1>6

LEMMA Decrypts ==
  ASSUME VerInv, NEW d \in User, Decrypt(d), ~Writing(d)
  PROVE  VerInv'
<1> DEFINE k == published[Peer(d)]
<1>1. PICK i \in mail[d] :
        /\ mail' = [mail EXCEPT ![d] = mail[d] \ {i}]
        /\ Check(d, i, k)
        /\ inbox' = [inbox EXCEPT ![d] = IF Open(d, i, k) /\ unlocked[d] THEN [pc |-> "queued", m |-> i, peer |-> k] ELSE Idle]
  BY DEF Decrypt
<1>2. UNCHANGED <<key, secret, unlocked, published, trust, log, queue, starting, refresh, net>>
  BY DEF Decrypt, local
<1>3. k \in Nat /\ i \in Nat /\ i \in DOMAIN log[d]
  BY Peers DEF VerInv, TypeOK
<1>4. inbox'[d] \in InboxTask \cup {Idle} /\ (inbox'[d].pc = "queued" => inbox'[d].m = i /\ inbox'[d].peer = k /\ Open(d, i, k))
  <2>1. inbox'[d] = IF Open(d, i, k) /\ unlocked[d] THEN [pc |-> "queued", m |-> i, peer |-> k] ELSE Idle
    BY <1>1 DEF VerInv, TaskTypes
  <2> QED
    BY <1>3, <2>1 DEF InboxTask, Idle
<1>5. TaskTypes' /\ \A e \in User \ {d} : inbox'[e] = inbox[e]
  BY <1>1, <1>2, <1>4 DEF VerInv, TaskTypes
<1>6. Doubts(d)
  BY <1>1, Judging
<1>7. \A e \in User \ {d} : stale'[e] = stale[e]
  BY <1>6 DEF Doubts, VerInv, TypeOK
<1>8. Still /\ Others(d)
  BY <1>2, <1>5, <1>7 DEF Still, Others, Same, VerInv, TaskTypes
<1>9. mail' \in [User -> SUBSET Nat] /\ \A e \in User : mail'[e] \subseteq DOMAIN log[e]
  BY <1>1 DEF VerInv, TypeOK
<1>10. Typed'
  BY <1>2, <1>5, <1>6, <1>9, StaleTyped DEF VerInv, TypeOK, Typed
<1>11. InLog(d)'
  BY <1>2, <1>3, <1>4 DEF VerInv, UserInv, InLog
<1>12. TaskInv(d)'
  BY <1>2, <1>8, <1>10, TasksStay
<1>13. CASE inbox'[d].pc = "queued"
  <2>1. /\ published'[Peer(d)] <= key'[Peer(d)]
        /\ \A r \in Records(d)' : r.pin = published'[Peer(d)] \/ Dead(d, r)'
    BY <1>1, <1>2, <1>3, <1>4, <1>8, <1>10, <1>13, JustOpened
  <2>2. OpenedInv(d)'
    BY <1>2, <1>4, <2>1 DEF OpenedInv, VerInv, UserInv
  <2> QED
    BY <1>2, <1>5, <1>6, <1>8, <1>9, <1>11, <1>12, <2>2, DoubtStep DEF VerInv, TypeOK
<1>14. CASE inbox'[d].pc # "queued"
  <2>1. inbox'[d] = Idle
    BY <1>4, <1>14 DEF InboxTask
  <2> QED
    BY <1>2, <1>5, <1>6, <1>8, <1>9, <1>11, <1>12, <2>1, DoubtStep DEF VerInv, TypeOK
<1> QED
  BY <1>13, <1>14

-----------------------------------------------------------------------------
(* The refresh of a page. *)

RefreshTask == Looking \cup Replaying \cup Resuming \cup {Idle}

LEMMA RefreshStep ==
  ASSUME VerInv, NEW d \in User, NEW a \in RefreshTask, refresh' = [refresh EXCEPT ![d] = a],
         UNCHANGED <<local, published, trust, log, mail, queue, inbox, starting>>,
         net' \in Nets, net.nonces <= net'.nonces, net.acts <= net'.acts, Doubts(d),
         a # Idle => a.peer \in Nat /\ Learned(Peer(d), a.peer), a.pc # "save",
         a.pc = "send" => trust[d] # None /\ a.value = trust[d],
         a.pc \in {"look", "queued", "replayed"} => \A i \in DOMAIN a.todo : a.todo[i] \in DOMAIN log[d],
         a.pc \in {"queued", "replayed"} => a.m \in DOMAIN log[d],
         (queue[d] # Idle /\ queue[d].by = "refresh") => a.pc = "replayed",
         a.pc = "queued" => /\ ~Writing(d)
                            /\ Open(d, a.m, published[Peer(d)]) /\ Check(d, a.m, published[Peer(d)])
  PROVE  VerInv'
<1>1. refresh'[d] = a /\ \A e \in User \ {d} : refresh'[e] = refresh[e]
  BY DEF VerInv, TaskTypes
<1>2. UNCHANGED <<key, secret, unlocked, published, trust, log, mail, queue, inbox, starting>>
  BY DEF local
<1>3. TaskTypes'
  BY <1>1, <1>2 DEF VerInv, TaskTypes, RefreshTask, Nets
<1>4. \A e \in User \ {d} : stale'[e] = stale[e]
  BY DEF Doubts, VerInv, TypeOK
<1>5. Still /\ Others(d)
  BY <1>1, <1>2, <1>4 DEF Still, Others, Same
<1>6. Typed'
  BY <1>2, <1>3, StaleTyped DEF VerInv, TypeOK, Typed
<1>7. InLog(d)'
  BY <1>1, <1>2 DEF VerInv, UserInv, InLog
<1>8. a.pc = "send" => trust[d] \in Records(d)
  BY DEF Records
<1>9. a.pc = "send" /\ a.value.received # 0 => Heard(d, a.value.received)
  BY <1>8, RecordsFit DEF Fit, Good
<1>10. TaskInv(d)'
  BY <1>1, <1>2, <1>3, <1>5, <1>9, TaskMoves DEF Idle
<1>11. CASE a.pc = "queued"
  <2>1. /\ published'[Peer(d)] <= key'[Peer(d)] /\ log'[d][a.m].key = published'[Peer(d)]
        /\ \A r \in Records(d)' : r.pin = published'[Peer(d)] \/ Dead(d, r)'
    BY <1>1, <1>2, <1>5, <1>6, <1>11, JustOpened
  <2>2. OpenedInv(d)'
    BY <1>1, <1>2, <2>1 DEF OpenedInv, VerInv, UserInv
  <2> QED
    BY <1>1, <1>2, <1>3, <1>5, <1>7, <1>10, <1>11, <2>2, DoubtStep DEF VerInv, TypeOK
<1>12. CASE a.pc # "queued"
  BY <1>1, <1>2, <1>3, <1>5, <1>7, <1>10, <1>12, DoubtStep DEF VerInv, TypeOK
<1> QED
  BY <1>11, <1>12

LEMMA NoNet ==
  ASSUME VerInv, net' = net
  PROVE  net' \in Nets /\ net.nonces <= net'.nonces /\ net.acts <= net'.acts
BY NetMoves DEF VerInv

LEMMA Begins ==
  ASSUME VerInv, NEW d \in User, Begin(d), UNCHANGED <<local, published, trust, log, mail, queue, inbox, starting>>,
         Act \/ net' = net
  PROVE  VerInv'
<1> DEFINE k == published[Peer(d)]
           a == [pc |-> "look", peer |-> k, todo |-> Newest(log[d])]
<1>1. net' \in Nets /\ net.nonces <= net'.nonces /\ net.acts <= net'.acts
  BY NetMoves DEF VerInv
<1>2. CASE UNCHANGED refresh
  <2>1. Doubts(d)
    BY <1>2, Judging DEF Begin, Trusting, Doubts
  <2>2. UNCHANGED <<key, secret, unlocked, published, trust, log, mail, queue, inbox, starting>>
    BY DEF local
  <2>3. TaskTypes'
    BY <1>1, <1>2, <2>2 DEF VerInv, TaskTypes, Nets
  <2>4. \A e \in User \ {d} : stale'[e] = stale[e]
    BY <2>1 DEF Doubts, VerInv, TypeOK
  <2>5. Still /\ Others(d)
    BY <1>1, <1>2, <2>2, <2>4 DEF Still, Others, Same
  <2> QED
    BY <1>2, <2>1, <2>2, <2>3, <2>5, CalmStep DEF VerInv, TypeOK
<1>3. CASE refresh[d] = Idle /\ Judge(d, k) /\ refresh' = [refresh EXCEPT ![d] = a]
  <2>1. Doubts(d)
    BY <1>3, Judging
  <2>2. log[d] \in Seq(Proof) /\ Len(log[d]) \in Nat /\ DOMAIN log[d] = 1..Len(log[d])
    BY DEF VerInv, TypeOK
  <2>3. /\ Newest(log[d]) \in Seq(Nat)
        /\ \A i \in DOMAIN Newest(log[d]) : Newest(log[d])[i] \in DOMAIN log[d]
    <3>1. Newest(log[d]) \in [1..Len(log[d]) -> 1..Len(log[d])]
      BY <2>2 DEF Newest
    <3>2. Newest(log[d]) \in [1..Len(log[d]) -> Nat]
      BY <3>1
    <3>3. [1..Len(log[d]) -> Nat] \in {[1..n -> Nat] : n \in Nat}
      BY <2>2
    <3>4. Newest(log[d]) \in UNION {[1..n -> Nat] : n \in Nat}
      BY <3>2, <3>3
    <3>5. Newest(log[d]) \in Seq(Nat)
      BY <3>4, SeqDef
    <3> QED
      BY <3>1, <3>5
  <2>4. a \in RefreshTask /\ a.pc = "look" /\ a.peer = k /\ a.todo = Newest(log[d])
    BY <2>3, Peers, Published DEF RefreshTask, Looking
  <2>5. queue[d] # Idle => queue[d].by # "refresh"
    <3>1. queue[d] # Idle => queue[d].pc # "idle"
      BY TaskFacts DEF VerInv
    <3>2. refresh[d].pc = "idle"
      BY <1>3 DEF Idle
    <3> QED
      BY <3>1, <3>2 DEF VerInv, UserInv, TaskInv
  <2> HIDE DEF a
  <2> QED
    BY <1>1, <1>3, <2>1, <2>3, <2>4, <2>5, Peers, Published, RefreshStep
<1> QED
  BY <1>2, <1>3 DEF Begin

LEMMA Visits ==
  ASSUME VerInv, NEW d \in User, Visit(d) \/ RefreshAgain(d)
  PROVE  VerInv'
BY Begins DEF Visit, RefreshAgain

LEMMA Ending ==
  ASSUME VerInv, NEW d \in User, refresh' = [refresh EXCEPT ![d] = Idle], Doubts(d), queue[d] = Idle \/ queue[d].by # "refresh",
         UNCHANGED <<local, published, trust, log, mail, queue, inbox, starting>>, net' = net
  PROVE  VerInv'
<1>1. Idle \in RefreshTask /\ Idle.pc = "idle"
  BY DEF RefreshTask, Idle
<1>2. net' \in Nets /\ net.nonces <= net'.nonces /\ net.acts <= net'.acts
  BY NoNet
<1> QED
  BY <1>1, <1>2, RefreshStep

\* Unless the replay of a proof is under way, the queue does not work for the refresh.
LEMMA QueueFree ==
  ASSUME VerInv, NEW d \in User, refresh[d].pc # "replayed"
  PROVE  queue[d] = Idle \/ queue[d].by # "refresh"
<1>1. queue[d] # Idle => queue[d].pc # "idle"
  BY TaskFacts DEF VerInv
<1> QED
  BY <1>1 DEF VerInv, UserInv, TaskInv

LEMMA Looks ==
  ASSUME VerInv, NEW d \in User, Look(d), ~Writing(d)
  PROVE  VerInv'
<1> DEFINE j == refresh[d]
           i == Head(j.todo)
           k == published[Peer(d)]
           t == IF trust[d] = None THEN 0 ELSE trust[d].received
           b == [pc |-> "queued", peer |-> j.peer, todo |-> Tail(j.todo), m |-> i, received |-> t]
           c == [j EXCEPT !.todo = Tail(j.todo)]
           a == IF Open(d, i, k) /\ Wanted(d, log[d][i]) THEN b ELSE c
<1>1. j.pc = "look" /\ j.todo # << >> /\ Check(d, i, k) /\ refresh' = [refresh EXCEPT ![d] = a]
  BY DEF Look, Continue
<1>2. j \in Looking \cup Replaying /\ j.peer \in Nat /\ j.todo \in Seq(Nat)
  <2>1. j \in Looking \cup Replaying \cup Resuming \cup {Idle}
    BY DEF VerInv, TaskTypes
  <2> QED
    BY <1>1, <2>1 DEF Looking, Replaying, Resuming, Idle
<1>3. /\ i \in Nat /\ i \in DOMAIN log[d] /\ Tail(j.todo) \in Seq(Nat)
      /\ \A n \in DOMAIN Tail(j.todo) : Tail(j.todo)[n] \in DOMAIN log[d]
  <2>1. \A n \in DOMAIN j.todo : j.todo[n] \in DOMAIN log[d]
    BY <1>1 DEF VerInv, UserInv, InLog
  <2> QED
    BY <1>1, <1>2, <2>1
<1>4. Learned(Peer(d), j.peer)
  BY <1>1 DEF VerInv, UserInv, TaskInv
<1>5. t \in Nat
  BY DEF VerInv, TypeOK, Trust
<1>6. b \in RefreshTask /\ b.pc = "queued" /\ b.peer = j.peer /\ b.todo = Tail(j.todo) /\ b.m = i
  BY <1>2, <1>3, <1>5 DEF RefreshTask, Replaying
<1>7. c \in RefreshTask /\ c.pc = "look" /\ c.peer = j.peer /\ c.todo = Tail(j.todo)
  BY <1>1, <1>2, <1>3 DEF RefreshTask, Looking, Replaying
<1> HIDE DEF b, c
<1>8. /\ a \in RefreshTask /\ a.pc \in {"look", "queued"} /\ a.peer = j.peer /\ a.todo = Tail(j.todo)
      /\ a.pc = "queued" => a.m = i /\ Open(d, i, k)
  BY <1>6, <1>7
<1> HIDE DEF a
<1>9. Doubts(d)
  BY <1>1, Judging
<1>10. net' = net /\ UNCHANGED <<local, published, trust, log, mail, queue, inbox, starting>>
  BY DEF Look
<1>11. net' \in Nets /\ net.nonces <= net'.nonces /\ net.acts <= net'.acts
  BY <1>10, NoNet
<1>12. queue[d] = Idle \/ queue[d].by # "refresh"
  BY <1>1, QueueFree
<1> QED
  BY <1>1, <1>2, <1>3, <1>4, <1>8, <1>9, <1>10, <1>11, <1>12, RefreshStep

LEMMA AfterReplay ==
  ASSUME VerInv, NEW d \in User, Replayed(d)
  PROVE  VerInv'
<1> DEFINE j == refresh[d]
           a(todo) == [pc |-> "look", peer |-> j.peer, todo |-> todo]
<1>1. /\ j.pc = "replayed" /\ queue[d] = Idle /\ Doubts(d) /\ net' = net
      /\ UNCHANGED <<local, published, trust, log, mail, queue, inbox, starting>>
  BY Judging DEF Replayed
<1>2. \/ refresh' = [refresh EXCEPT ![d] = Idle]
      \/ \E todo \in {<< >>, j.todo} : refresh' = [refresh EXCEPT ![d] = a(todo)]
  BY DEF Replayed
<1>3. CASE refresh' = [refresh EXCEPT ![d] = Idle]
  BY <1>1, <1>3, Ending
<1>4. ASSUME NEW todo \in {<< >>, j.todo}, refresh' = [refresh EXCEPT ![d] = a(todo)]
      PROVE  VerInv'
  <2>1. j.peer \in Nat /\ j.todo \in Seq(Nat) /\ Learned(Peer(d), j.peer)
    <3>1. TaskTypes /\ Learned(Peer(d), j.peer)
      BY <1>1 DEF VerInv, UserInv, TaskInv
    <3> QED
      BY <1>1, <3>1, TaskFacts
  <2>2. todo \in Seq(Nat) /\ \A n \in DOMAIN todo : todo[n] \in DOMAIN log[d]
    <3>1. \A n \in DOMAIN j.todo : j.todo[n] \in DOMAIN log[d]
      BY <1>1 DEF VerInv, UserInv, InLog
    <3>2. << >> \in Seq(Nat) /\ DOMAIN << >> = {}
      OBVIOUS
    <3> QED
      BY <2>1, <3>1, <3>2
  <2>3. a(todo) \in RefreshTask /\ a(todo).pc = "look" /\ a(todo).peer = j.peer /\ a(todo).todo = todo
    BY <2>1, <2>2 DEF RefreshTask, Looking
  <2>4. net' \in Nets /\ net.nonces <= net'.nonces /\ net.acts <= net'.acts
    BY <1>1, NoNet
  <2> HIDE DEF a
  <2> QED
    BY <1>1, <1>4, <2>1, <2>2, <2>3, <2>4, RefreshStep
<1> QED
  BY <1>2, <1>3, <1>4

\* A record a task has made is not yet stored: nobody has used its nonce.
LEMMA RestNew ==
  ASSUME VerInv, NEW d \in User, refresh[d].pc = "look", Judge(d, refresh[d].peer), trust[d] = None,
         refresh' = [refresh EXCEPT ![d] = [pc |-> "save", peer |-> refresh[d].peer, value |-> NewTrust(d, refresh[d].peer)]],
         net' = [net EXCEPT !.nonces = @ + 1],
         UNCHANGED <<local, published, trust, log, mail, queue, inbox, starting>>
  PROVE  VerInv'
<1> DEFINE k == refresh[d].peer
           r == NewTrust(d, k)
           a == [pc |-> "save", peer |-> k, value |-> r]
<1>1. k \in Nat /\ Learned(Peer(d), k)
  <2>1. TaskTypes /\ Learned(Peer(d), k)
    BY DEF VerInv, UserInv, TaskInv
  <2> QED
    BY <2>1, TaskFacts
<1>2. Fit(d, r) /\ r \in Trust /\ r.nonce = Fresh /\ r.received = 0 /\ Fresh \in Nat /\ Fresh > net.nonces
  <2>1. Fit(d, r) /\ r.nonce = Fresh /\ Fresh \in Nat /\ Fresh > net.nonces
    BY <1>1, NewTrustFit
  <2> QED
    BY <2>1 DEF Fit, NewTrust
<1> HIDE DEF r
<1>3. a \in Resuming /\ a.pc = "save" /\ a.peer = k /\ a.value = r /\ a # Idle
  BY <1>1, <1>2 DEF Resuming, Idle
<1> HIDE DEF a
<1>4. refresh'[d] = a /\ \A e \in User \ {d} : refresh'[e] = refresh[e]
  BY DEF VerInv, TaskTypes, a, r
<1>5. UNCHANGED <<key, secret, unlocked, published, trust, log, mail, queue, inbox, starting>>
  BY DEF local
<1>6. net' \in Nets /\ net'.nonces = Fresh /\ net'.acts = net.acts
  <2>1. net \in Nets
    BY DEF VerInv, TaskTypes, Nets
  <2> QED
    BY <1>2, <2>1 DEF Nets, Fresh
<1>7. net.nonces \in Nat /\ net.acts \in Nat
  BY DEF VerInv, TaskTypes
<1>8. Doubts(d) /\ stale' = stale
  BY Judging DEF Judge, Differs, Trusting
<1>9. TaskTypes'
  BY <1>3, <1>4, <1>5, <1>6 DEF VerInv, TaskTypes, Nets
<1>10. Still /\ Others(d)
  BY <1>2, <1>4, <1>5, <1>6, <1>7, <1>8 DEF Still, Others, Same
<1>11. Typed'
  BY <1>5, <1>8, <1>9 DEF VerInv, TypeOK, Typed
<1>12. InLog(d)'
  BY <1>3, <1>4, <1>5 DEF VerInv, UserInv, InLog
<1>13. queue[d] = Idle \/ queue[d].by # "refresh"
  BY QueueFree
<1>14. TaskInv(d)'
  BY <1>1, <1>2, <1>3, <1>4, <1>5, <1>9, <1>10, <1>13, TaskMoves
<1>15. \A x \in Records(d)' : Fit(d, x)
  <2>1. \A x \in Records(d)' : x \in Records(d) \/ x = r
    BY <1>3, <1>4, <1>5, <1>8 DEF Records
  <2> QED
    BY <1>2, <2>1, RecordsFit
<1>16. NonceInv(d)'
  <2>1. \A n \in Nat : Uses(d, n)' => Uses(d, n)
    BY <1>3, <1>4, <1>5, <1>8 DEF Uses, Sent
  <2>2. NonceInv(d)
    BY DEF VerInv, UserInv
  <2>3. \A n \in Nat : Uses(d, n)' => n <= net.nonces
    BY <2>1, <2>2 DEF NonceInv
  <2>4. \A n \in Nat : Uses(d, n)' => n # r.nonce
    BY <1>2, <1>7, <2>3
  <2>5. refresh'[d].value.nonce = r.nonce /\ r.nonce \in Nat /\ r.nonce <= net'.nonces
    BY <1>2, <1>3, <1>4, <1>6
  <2>6. \A n \in Nat : Uses(d, n)' => n <= net'.nonces
    BY <1>2, <1>6, <1>7, <2>3
  <2> QED
    BY <2>4, <2>5, <2>6 DEF NonceInv
<1>17. OpenedInv(d)'
  BY <1>3, <1>4, <1>5, <1>10, <1>11, <1>15, OpenedStays
<1> QED
  BY <1>10, <1>11, <1>12, <1>14, <1>15, <1>16, <1>17, LocalStep

LEMMA Rests ==
  ASSUME VerInv, NEW d \in User, Rest(d)
  PROVE  VerInv'
<1> DEFINE k == refresh[d].peer
           s == Judged(d, k)
           a == [pc |-> "send", peer |-> k, value |-> trust[d]]
<1>1. /\ refresh[d].pc = "look" /\ Judge(d, k)
      /\ UNCHANGED <<local, published, trust, log, mail, queue, inbox, starting>>
  BY DEF Rest
<1>2. Doubts(d) /\ (queue[d] = Idle \/ queue[d].by # "refresh")
  BY <1>1, Judging, QueueFree
<1>3. CASE refresh' = [refresh EXCEPT ![d] = Idle] /\ net' = net
  BY <1>1, <1>2, <1>3, Ending
<1>4. CASE s = "pending" /\ refresh' = [refresh EXCEPT ![d] = a] /\ net' = net
  <2>1. trust[d] # None
    BY <1>4 DEF Judged, Differs, Verified
  <2>2. k \in Nat /\ Learned(Peer(d), k)
    <3>1. TaskTypes /\ Learned(Peer(d), k)
      BY <1>1 DEF VerInv, UserInv, TaskInv
    <3> QED
      BY <1>1, <3>1, TaskFacts
  <2>3. trust[d] \in Trust
    BY <2>1 DEF VerInv, TypeOK
  <2>4. a \in RefreshTask /\ a.pc = "send" /\ a.peer = k /\ a.value = trust[d]
    BY <2>2, <2>3 DEF RefreshTask, Resuming
  <2>5. net' \in Nets /\ net.nonces <= net'.nonces /\ net.acts <= net'.acts
    BY <1>4, NoNet
  <2> HIDE DEF a
  <2> QED
    BY <1>1, <1>2, <1>4, <2>1, <2>2, <2>4, <2>5, RefreshStep
<1>5. CASE /\ s = "unverified" /\ net' = [net EXCEPT !.nonces = @ + 1]
           /\ refresh' = [refresh EXCEPT ![d] = [pc |-> "save", peer |-> k, value |-> NewTrust(d, k)]]
  <2>1. trust[d] = None
    BY <1>5 DEF Judged, Differs, Verified
  <2> QED
    BY <1>1, <1>5, <2>1, RestNew
<1> QED
  BY <1>1, <1>3, <1>4, <1>5 DEF Rest, End, Continue

-----------------------------------------------------------------------------
(* Steps that store a record. *)

Stored(d, t) == /\ Fit(d, t) /\ Save(d, t)
                /\ UNCHANGED <<local, published, log, mail, inbox>> /\ net.nonces <= net'.nonces /\ net.acts <= net'.acts
                /\ \E s \in SUBSET stale[d] : stale' = [stale EXCEPT ![d] = s]
                /\ \A e \in User \ {d} : starting'[e] = starting[e] /\ queue'[e] = queue[e] /\ refresh'[e] = refresh[e]

LEMMA StoredFacts ==
  ASSUME VerInv, NEW d \in User, NEW t, Stored(d, t), TaskTypes'
  PROVE  /\ Typed' /\ Still /\ Others(d) /\ t \in Trust
         /\ trust'[d] = t /\ stale'[d] \subseteq stale[d] /\ inbox'[d] = inbox[d]
         /\ Sent(d)' = Sent(d) /\ Sent(Peer(d))' = Sent(Peer(d))
<1>1. t \in Trust /\ trust' = [trust EXCEPT ![d] = t]
  BY DEF Stored, Fit, Save
<1>2. UNCHANGED <<key, secret, unlocked, published, log, mail, inbox>>
  BY DEF Stored, local
<1>3. trust' \in [User -> Trust \cup {None}]
  BY <1>1 DEF VerInv, TypeOK
<1>4. PICK s \in SUBSET stale[d] : stale' = [stale EXCEPT ![d] = s]
  BY DEF Stored
<1>5. stale' \in [User -> SUBSET Trust] /\ stale'[d] = s /\ \A e \in User \ {d} : stale'[e] = stale[e]
  BY <1>4 DEF VerInv, TypeOK
<1>6. Typed'
  BY <1>2, <1>3, <1>5 DEF Typed, VerInv, TypeOK
<1>7. trust'[d] = t /\ \A e \in User \ {d} : trust'[e] = trust[e]
  BY <1>1 DEF VerInv, TypeOK
<1>8. Still /\ Others(d)
  BY <1>2, <1>5, <1>7 DEF Stored, Still, Others, Same
<1>9. \A u \in User : Sent(u)' = Sent(u)
  BY <1>2 DEF Sent
<1> QED
  BY <1>1, <1>2, <1>5, <1>6, <1>7, <1>8, <1>9, Peers

LEMMA Stores ==
  ASSUME VerInv, NEW d \in User, NEW t, Stored(d, t), TaskTypes', TaskInv(d)', NonceInv(d)',
         queue'[d].pc = "save" => queue'[d] = queue[d], refresh'[d].pc \in {"look", "queued", "replayed", "save"} => refresh'[d] = refresh[d]
  PROVE  VerInv'
<1>1. /\ Typed' /\ Still /\ Others(d) /\ trust'[d] = t /\ stale'[d] \subseteq stale[d] /\ inbox'[d] = inbox[d]
  BY StoredFacts
<1>2. \A r \in Records(d)' : r \in Records(d) \/ r = t
  BY <1>1 DEF Records
<1>3. \A r \in Records(d)' : Fit(d, r)
  BY <1>2, RecordsFit DEF Stored
<1>4. InLog(d)'
  BY <1>1 DEF VerInv, UserInv, InLog, Still
<1>5. OpenedInv(d)'
  BY <1>1, <1>3, OpenedStays
<1> QED
  BY <1>1, <1>3, <1>4, <1>5, LocalStep

LEMMA SavesRevocation ==
  ASSUME VerInv, NEW d \in User, SaveRevocation(d)
  PROVE  VerInv'
<1>1. PICK t \in stale[d] : /\ Save(d, t)
                            /\ stale' = [stale EXCEPT ![d] = stale[d] \ {t}]
                            /\ UNCHANGED <<local, published, log, mail, tasks, net>>
  BY DEF SaveRevocation
<1>2. Fit(d, t)
  BY RecordsFit DEF Records
<1>3. net' \in Nets /\ net.nonces <= net'.nonces /\ net.acts <= net'.acts
  BY <1>1, NoNet
<1>4. Stored(d, t) /\ UNCHANGED tasks
  BY <1>1, <1>2, <1>3 DEF Stored, tasks
<1>5. TaskTypes' /\ UNCHANGED <<queue, inbox, starting, refresh>>
  BY <1>1 DEF VerInv, TaskTypes, tasks
<1>6. /\ Typed' /\ Still /\ t \in Trust /\ trust'[d] = t /\ stale'[d] \subseteq stale[d] /\ Sent(Peer(d))' = Sent(Peer(d))
  BY <1>4, <1>5, StoredFacts
<1>7. TaskInv(d)'
  BY <1>5, <1>6, TasksStay
<1>8. \A n \in Nat : Uses(d, n)' => Uses(d, n)
  BY <1>5, <1>6 DEF Uses
<1>9. NonceInv(d)'
  BY <1>3, <1>5, <1>6, <1>8, NoncesStay
<1> QED
  BY <1>4, <1>5, <1>7, <1>9, Stores

LEMMA SavesChallenge ==
  ASSUME VerInv, NEW d \in User, SaveChallenge(d)
  PROVE  VerInv'
<1> DEFINE k == starting[d].peer
           t == NewTrust(d, k)
           a == [pc |-> "saved", peer |-> k, nonce |-> Fresh]
<1>1. /\ starting[d].pc = "got" /\ Save(d, t) /\ starting' = [starting EXCEPT ![d] = a]
      /\ net' = [net EXCEPT !.nonces = @ + 1]
      /\ UNCHANGED <<local, published, log, mail, queue, inbox, refresh, stale>>
  BY DEF SaveChallenge
<1>2. k \in Nat /\ Learned(Peer(d), k)
  <2>1. TaskTypes /\ Learned(Peer(d), k)
    BY <1>1 DEF VerInv, UserInv, TaskInv
  <2> QED
    BY <1>1, <2>1, TaskFacts
<1>3. Fit(d, t) /\ t.nonce = Fresh /\ Fresh \in Nat /\ Fresh > net.nonces
  BY <1>2, NewTrustFit
<1> HIDE DEF t
<1>4. a \in StartTask /\ a.pc = "saved" /\ a.peer = k /\ a.nonce = Fresh
  BY <1>2, <1>3 DEF StartTask
<1> HIDE DEF a
<1>5. starting'[d] = a /\ \A e \in User \ {d} : starting'[e] = starting[e]
  BY <1>1 DEF VerInv, TaskTypes
<1>6. net' \in Nets /\ net'.nonces = Fresh /\ net'.acts = net.acts /\ net.acts \in Nat /\ net.nonces \in Nat
  <2>1. net \in Nets
    BY DEF VerInv, TaskTypes, Nets
  <2> QED
    BY <1>1, <1>3, <2>1 DEF Nets, Fresh
<1>7. Stored(d, t)
  <2>1. stale[d] \in SUBSET stale[d] /\ stale' = [stale EXCEPT ![d] = stale[d]]
    BY <1>1 DEF VerInv, TypeOK
  <2>2. \E s \in SUBSET stale[d] : stale' = [stale EXCEPT ![d] = s]
    BY <2>1
  <2>3. net.nonces <= net'.nonces /\ net.acts <= net'.acts
    BY <1>3, <1>6
  <2> QED
    BY <1>1, <1>3, <1>5, <2>2, <2>3 DEF Stored
<1>8. TaskTypes'
  BY <1>1, <1>4, <1>5, <1>6 DEF VerInv, TaskTypes, Nets
<1>9. /\ Typed' /\ Still /\ trust'[d] = t /\ stale'[d] \subseteq stale[d]
      /\ Sent(d)' = Sent(d) /\ Sent(Peer(d))' = Sent(Peer(d))
  BY <1>7, <1>8, StoredFacts
<1>10. TaskInv(d)'
  <2>1. TaskInv(d) /\ (refresh[d].pc # "idle" => refresh[d].peer \in Nat)
    <3>1. TaskTypes /\ TaskInv(d)
      BY DEF VerInv, UserInv
    <3>2. refresh[d] \in Resuming => refresh[d].peer \in Nat
      BY DEF Resuming
    <3> QED
      BY <3>1, <3>2, TaskFacts
  <2>2. key' = key /\ published' = published
    BY <1>9 DEF Still
  <2>3. (starting[d].pc \in {"got", "saved"} => Learned(Peer(d), starting[d].peer))'
    BY <1>2, <1>4, <1>5, <1>6, <2>2 DEF Learned
  <2>4. (refresh[d].pc # "idle" => Learned(Peer(d), refresh[d].peer))'
    BY <1>1, <1>6, <2>1, <2>2 DEF Learned, TaskInv
  <2> QED
    BY <1>1, <1>9, <2>1, <2>2, <2>3, <2>4 DEF TaskInv, Heard
<1>11. \A n \in Nat : Uses(d, n)' => Uses(d, n) \/ n = Fresh
  BY <1>1, <1>3, <1>4, <1>5, <1>9 DEF Uses
<1>12. NonceInv(d)'
  <2>1. \A n \in Nat : Uses(d, n)' => Uses(d, n) \/ (n > net.nonces /\ n <= net'.nonces)
    BY <1>3, <1>6, <1>11
  <2> QED
    BY <1>1, <1>9, <2>1, NoncesStay DEF Still
<1> QED
  BY <1>1, <1>7, <1>8, <1>10, <1>12, Stores

LEMMA SavesRecord ==
  ASSUME VerInv, NEW d \in User, SaveRecord(d)
  PROVE  VerInv'
<1> DEFINE q == queue[d]
           t == q.value
           a == IF q.reply THEN [q EXCEPT !.pc = "reply"] ELSE Idle
<1>1. /\ q.pc = "save" /\ Save(d, t) /\ queue' = [queue EXCEPT ![d] = a]
      /\ UNCHANGED <<local, published, log, mail, inbox, starting, refresh, stale, net>>
  BY DEF SaveRecord, VerInv, TaskTypes
<1>2. q \in QueueTask /\ TaskTypes
  <2>1. TaskTypes
    BY DEF VerInv
  <2> QED
    BY <1>1, <2>1, TaskFacts DEF Idle
<1>3. Fit(d, t)
  <2>1. t \in Records(d)
    BY <1>1 DEF Records
  <2> QED
    BY <2>1, RecordsFit
<1>4. a = Idle \/ (a \in QueueTask /\ a.pc = "reply" /\ a.value = t /\ a.ack = q.ack /\ a.by = q.by)
  BY <1>2 DEF QueueTask
<1> HIDE DEF a, t
<1>5. queue'[d] = a /\ \A e \in User \ {d} : queue'[e] = queue[e]
  BY <1>1 DEF VerInv, TaskTypes
<1>6. net' \in Nets /\ net.nonces <= net'.nonces /\ net.acts <= net'.acts
  BY <1>1, NoNet
<1>7. Stored(d, t)
  <2>1. stale[d] \in SUBSET stale[d] /\ stale' = [stale EXCEPT ![d] = stale[d]]
    BY <1>1 DEF VerInv, TypeOK
  <2>2. \E s \in SUBSET stale[d] : stale' = [stale EXCEPT ![d] = s]
    BY <2>1
  <2> QED
    BY <1>1, <1>3, <1>5, <1>6, <2>2 DEF Stored
<1>8. TaskTypes' /\ Idle.pc = "idle"
  BY <1>1, <1>4, <1>5, <1>6 DEF VerInv, TaskTypes, Nets, Idle
<1>9. /\ Typed' /\ Still /\ trust'[d] = t /\ stale'[d] \subseteq stale[d]
      /\ Sent(d)' = Sent(d) /\ Sent(Peer(d))' = Sent(Peer(d))
  BY <1>7, <1>8, StoredFacts
<1>10. TaskInv(d)'
  <2>1. /\ TaskInv(d) /\ (refresh[d].pc # "idle" => refresh[d].peer \in Nat)
        /\ (starting[d].pc \in {"got", "saved"} => starting[d].peer \in Nat)
    <3>1. TaskTypes /\ TaskInv(d)
      BY DEF VerInv, UserInv
    <3>2. refresh[d] \in Resuming => refresh[d].peer \in Nat
      BY DEF Resuming
    <3>3. refresh[d].pc # "idle" => refresh[d].peer \in Nat
      BY <3>1, <3>2, TaskFacts
    <3>4. starting[d].pc \in {"got", "saved"} => starting[d].peer \in Nat
      BY <3>1, TaskFacts
    <3> QED
      BY <3>1, <3>3, <3>4
  <2>2. key' = key /\ published' = published /\ net' = net
    BY <1>1, <1>9 DEF Still
  <2>3. (starting[d].pc \in {"got", "saved"} => Learned(Peer(d), starting[d].peer))'
    BY <1>1, <2>1, <2>2 DEF Learned, TaskInv
  <2>4. (refresh[d].pc # "idle" => Learned(Peer(d), refresh[d].peer))'
    BY <1>1, <2>1, <2>2 DEF Learned, TaskInv
  <2>5. (queue[d].pc # "idle" => /\ queue[d].ack # 0 => Heard(d, queue[d].ack)
                                 /\ queue[d].by = "refresh" => refresh[d].pc = "replayed")'
    BY <1>1, <1>4, <1>5, <1>8, <1>9, <2>1, <2>2 DEF TaskInv, Heard
  <2> QED
    BY <1>1, <1>9, <2>1, <2>2, <2>3, <2>4, <2>5 DEF TaskInv, Heard
<1>11. \A n \in Nat : Uses(d, n)' => Uses(d, n)
  <2>1. queue'[d].pc \in {"save", "reply"} => queue'[d].value = t
    BY <1>4, <1>5, <1>8
  <2>2. queue[d].pc = "save" /\ queue[d].value = t
    BY <1>1 DEF t
  <2> QED
    BY <1>1, <1>9, <2>1, <2>2 DEF Uses
<1>12. NonceInv(d)'
  BY <1>1, <1>6, <1>9, <1>11, NoncesStay
<1> QED
  BY <1>1, <1>4, <1>5, <1>7, <1>8, <1>10, <1>12, Stores

LEMMA SavesNew ==
  ASSUME VerInv, NEW d \in User, SaveNew(d)
  PROVE  VerInv'
<1> DEFINE j == refresh[d]
           t == j.value
           a == [j EXCEPT !.pc = "send"]
<1>1. /\ j.pc = "save" /\ Save(d, t) /\ refresh' = [refresh EXCEPT ![d] = a]
      /\ UNCHANGED <<local, published, log, mail, inbox, queue, starting, stale, net>>
  BY DEF SaveNew, VerInv, TaskTypes
<1>2. j \in Resuming
  <2>1. TaskTypes
    BY DEF VerInv
  <2> QED
    BY <1>1, <2>1, TaskFacts DEF Idle
<1>3. Fit(d, t)
  <2>1. t \in Records(d)
    BY <1>1 DEF Records
  <2> QED
    BY <2>1, RecordsFit
<1>4. a \in Resuming /\ a.pc = "send" /\ a.value = t /\ a.peer = j.peer /\ j.peer \in Nat /\ a # Idle
  BY <1>2 DEF Resuming, Idle
<1> HIDE DEF a, t
<1>5. refresh'[d] = a /\ \A e \in User \ {d} : refresh'[e] = refresh[e]
  BY <1>1 DEF VerInv, TaskTypes
<1>6. net' \in Nets /\ net.nonces <= net'.nonces /\ net.acts <= net'.acts
  BY <1>1, NoNet
<1>7. Stored(d, t)
  <2>1. stale[d] \in SUBSET stale[d] /\ stale' = [stale EXCEPT ![d] = stale[d]]
    BY <1>1 DEF VerInv, TypeOK
  <2>2. \E s \in SUBSET stale[d] : stale' = [stale EXCEPT ![d] = s]
    BY <2>1
  <2> QED
    BY <1>1, <1>3, <1>5, <1>6, <2>2 DEF Stored
<1>8. TaskTypes'
  BY <1>1, <1>4, <1>5, <1>6 DEF VerInv, TaskTypes, Nets
<1>9. /\ Typed' /\ Still /\ trust'[d] = t /\ t \in Trust /\ stale'[d] \subseteq stale[d]
      /\ Sent(d)' = Sent(d) /\ Sent(Peer(d))' = Sent(Peer(d))
  BY <1>7, <1>8, StoredFacts
<1>10. TaskInv(d)'
  <2>1. TaskInv(d)
    BY DEF VerInv, UserInv
  <2>2. Learned(Peer(d), j.peer) /\ (t.received # 0 => Heard(d, t.received))
    BY <1>1, <2>1 DEF TaskInv, t
  <2>3. queue[d] = Idle \/ queue[d].by # "refresh"
    BY <1>1, QueueFree
  <2> QED
    BY <1>1, <1>4, <1>5, <1>8, <1>9, <2>2, <2>3, TaskMoves
<1>11. \A n \in Nat : Uses(d, n)' => Uses(d, n) \/ n = t.nonce
  BY <1>1, <1>4, <1>5, <1>9 DEF Uses
<1>12. NonceInv(d)'
  <2>1. NonceInv(d) /\ t.nonce <= net.nonces /\ net' = net /\ refresh'[d].pc = "send"
    BY <1>1, <1>4, <1>5 DEF VerInv, UserInv, NonceInv, t
  <2> QED
    BY <1>11, <2>1 DEF NonceInv
<1> QED
  BY <1>1, <1>4, <1>5, <1>7, <1>8, <1>10, <1>12, Stores

-----------------------------------------------------------------------------
(* receiveProof reads the record. *)

\* What is to be written, and answered, after a genuine proof.
Answering(d, a, by) == /\ a \in QueueTask /\ a.by = by /\ Fit(d, a.value) /\ (a.ack # 0 => Heard(d, a.ack))
                       /\ \/ trust[d] # None /\ a.value.nonce = trust[d].nonce
                          \/ a.value.nonce > net.nonces /\ a.value.nonce <= net'.nonces

LEMMA ReadFacts ==
  ASSUME VerInv, NEW d \in User, NEW i \in DOMAIN log[d], NEW k \in Nat, NEW by \in {"inbox", "refresh"}, Opened(d),
         ReadRecord(d, i, k, by), Genuine(d, log[d][i], k) => k = published[Peer(d)]
  PROVE  /\ net' \in Nets /\ net.nonces <= net'.nonces /\ net.acts <= net'.acts
         /\ \/ queue' = queue
            \/ /\ Genuine(d, log[d][i], k)
               /\ \E a : Answering(d, a, by) /\ queue' = [queue EXCEPT ![d] = a]
<1> DEFINE p == log[d][i]
           base == IF trust[d] = None THEN NewTrust(d, k) ELSE trust[d]
           value == After(base, p)
           reply == Unanswered(base, p)
           a == [by |-> by, pc |-> IF value = trust[d] THEN "reply" ELSE "save", peer |-> k, value |-> value,
                 reply |-> reply, only |-> p.ack = value.nonce, ack |-> p.nonce]
<1>1. net \in Nets /\ net.nonces \in Nat /\ net.acts \in Nat /\ net.starts \in Nat /\ net.calm \in BOOLEAN
  BY DEF VerInv, TaskTypes, Nets
<1>2. CASE queue' = queue /\ net' = net
  BY <1>1, <1>2
<1>3. CASE /\ Genuine(d, p, k) /\ queue' = [queue EXCEPT ![d] = a]
           /\ net' = IF trust[d] = None THEN [net EXCEPT !.nonces = @ + 1] ELSE net
  <2>1. p \in Sent(d) /\ p \in Proof
    BY SentTyped DEF Sent, VerInv
  <2>2. k = published[Peer(d)] /\ Learned(Peer(d), k)
    BY <1>3, Published, Peers
  <2>3. base \in Trust /\ Fit(d, base) /\ (trust[d] = None => base.nonce = Fresh /\ Fresh \in Nat /\ Fresh > net.nonces)
    <3>1. CASE trust[d] = None
      BY <2>2, <3>1, NewTrustFit DEF Fit
    <3>2. CASE trust[d] # None
      BY <3>2, RecordsFit DEF Records, Fit
    <3> QED
      BY <3>1, <3>2
  <2>4. trust[d] # None => base = trust[d]
    OBVIOUS
  <2> HIDE DEF base
  <2>5. Fit(d, value) /\ value.nonce = base.nonce
    BY <1>3, <2>1, <2>2, <2>3, AfterFit
  <2>6. reply \in BOOLEAN /\ value \in Trust
    BY <2>5 DEF Unanswered, Fit
  <2> HIDE DEF value, reply
  <2>7. p.nonce \in Nat /\ p.for = key[d]
    BY <1>3, <2>1 DEF Proof, Genuine
  <2> HIDE DEF p
  <2>8. (p.ack = value.nonce) \in BOOLEAN
    OBVIOUS
  <2>9. a \in QueueTask /\ a.by = by /\ a.value = value /\ a.ack = p.nonce
    BY <2>6, <2>7, <2>8 DEF QueueTask
  <2> HIDE DEF a
  <2>10. a.ack # 0 => Heard(d, a.ack)
    BY <2>1, <2>7, <2>9 DEF Heard
  <2>11. net' \in Nets /\ net.nonces <= net'.nonces /\ net.acts <= net'.acts /\ (trust[d] = None => net'.nonces = Fresh)
    BY <1>1, <1>3 DEF Nets, Fresh
  <2>12. \/ trust[d] # None /\ value.nonce = trust[d].nonce
         \/ value.nonce > net.nonces /\ value.nonce <= net'.nonces
    BY <2>3, <2>4, <2>5, <2>11
  <2>13. Answering(d, a, by)
    BY <2>5, <2>9, <2>10, <2>12 DEF Answering
  <2> QED
    BY <1>3, <2>11, <2>13 DEF p
<1> QED
  BY <1>2, <1>3 DEF ReadRecord

LEMMA Reads ==
  ASSUME VerInv, NEW d \in User, NEW i \in DOMAIN log[d], NEW k \in Nat, NEW by \in {"inbox", "refresh"}, Opened(d),
         queue[d] = Idle, ReadRecord(d, i, k, by), Genuine(d, log[d][i], k) => k = published[Peer(d)],
         UNCHANGED <<local, published, trust, log, mail, starting, stale>>,
         inbox' \in [User -> InboxTask \cup {Idle}], inbox'[d] \in {inbox[d], Idle},
         \A e \in User \ {d} : inbox'[e] = inbox[e] /\ refresh'[e] = refresh[e],
         refresh' \in [User -> RefreshTask], refresh'[d] = refresh[d] \/ refresh'[d].pc \in {"look", "replayed"},
         refresh'[d].pc # "idle" => refresh'[d].peer \in Nat /\ Learned(Peer(d), refresh'[d].peer),
         InLog(d)', Genuine(d, log[d][i], k) /\ by = "refresh" => refresh'[d].pc = "replayed"
  PROVE  VerInv'
<1>1. UNCHANGED <<key, secret, unlocked, published, trust, log, mail, starting, stale>>
  BY DEF local
<1>2. /\ net' \in Nets /\ net.nonces <= net'.nonces /\ net.acts <= net'.acts
      /\ \/ queue' = queue
         \/ /\ Genuine(d, log[d][i], k)
            /\ \E a : Answering(d, a, by) /\ queue' = [queue EXCEPT ![d] = a]
  BY ReadFacts
<1>3. /\ queue' \in [User -> QueueTask \cup {Idle}] /\ \A e \in User \ {d} : queue'[e] = queue[e]
      /\ queue'[d] = Idle \/ (Answering(d, queue'[d], by) /\ (by = "refresh" => refresh'[d].pc = "replayed"))
  <2>1. CASE queue' = queue
    BY <2>1 DEF VerInv, TaskTypes
  <2>2. CASE queue' # queue
    <3>1. PICK a : Answering(d, a, by) /\ queue' = [queue EXCEPT ![d] = a]
      BY <1>2, <2>2
    <3>2. a \in QueueTask /\ queue \in [User -> QueueTask \cup {Idle}]
      BY <3>1 DEF Answering, VerInv, TaskTypes
    <3>3. queue' \in [User -> QueueTask \cup {Idle}] /\ queue'[d] = a /\ \A e \in User \ {d} : queue'[e] = queue[e]
      BY <3>1, <3>2
    <3> QED
      BY <1>2, <2>2, <3>1, <3>3
  <2> QED
    BY <2>1, <2>2
<1>4. Idle.pc = "idle"
  BY DEF Idle
<1>5. TaskTypes'
  BY <1>1, <1>2, <1>3 DEF VerInv, TaskTypes, RefreshTask, Nets
<1>6. Typed' /\ Still /\ Others(d)
  BY <1>1, <1>2, <1>3, <1>5 DEF VerInv, TypeOK, Typed, Still, Others, Same
<1>7. Sent(d)' = Sent(d) /\ Sent(Peer(d))' = Sent(Peer(d))
  BY <1>1 DEF Sent
<1>8. refresh'[d].pc \in {"save", "send"} => refresh'[d] = refresh[d]
  OBVIOUS
<1>9. \A r \in Records(d)' : Fit(d, r)
  <2>1. \A r \in Records(d)' : r \in Records(d) \/ (queue'[d] # Idle /\ r = queue'[d].value)
    BY <1>1, <1>4, <1>8 DEF Records
  <2> QED
    BY <1>3, <2>1, RecordsFit DEF Answering
<1>10. NonceInv(d)'
  <2>1. queue'[d].pc \in {"save", "reply"} => Answering(d, queue'[d], by)
    BY <1>3, <1>4
  <2>2. queue'[d].pc \in {"save", "reply"} => \/ trust[d] # None /\ queue'[d].value.nonce = trust[d].nonce
                                              \/ queue'[d].value.nonce > net.nonces /\ queue'[d].value.nonce <= net'.nonces
    BY <2>1 DEF Answering
  <2>3. \A n \in Nat : Uses(d, n)' => Uses(d, n) \/ (n > net.nonces /\ n <= net'.nonces)
    BY <1>1, <1>7, <1>8, <2>2 DEF Uses
  <2> QED
    BY <1>2, <1>6, <1>8, <2>3, NoncesStay
<1>11. TaskInv(d)'
  <2>1. TaskInv(d) /\ TaskTypes
    BY DEF VerInv, UserInv
  <2>2. (starting[d].pc \in {"got", "saved"} => starting[d].peer \in Nat)
    BY <2>1, TaskFacts
  <2>3. Peer(d) \in User /\ net.acts \in Nat /\ net'.acts \in Nat
    BY <1>6, Peers DEF VerInv, TaskTypes, Typed
  <2>4. (starting[d].pc \in {"got", "saved"} => Learned(Peer(d), starting[d].peer))'
    BY <1>1, <1>2, <2>1, <2>2, <2>3 DEF TaskInv, Learned
  <2>5. (refresh[d].pc # "idle" => Learned(Peer(d), refresh[d].peer))'
    BY <1>1, <1>2, <2>3 DEF Learned
  <2>6. (refresh[d].pc \in {"save", "send"} /\ refresh[d].value.received # 0 => Heard(d, refresh[d].value.received))'
    BY <1>1, <1>7, <1>8, <2>1 DEF TaskInv, Heard
  <2>7. (queue[d].pc # "idle" => /\ queue[d].ack # 0 => Heard(d, queue[d].ack)
                                 /\ queue[d].by = "refresh" => refresh[d].pc = "replayed")'
    BY <1>1, <1>3, <1>4, <1>7 DEF Answering, Heard
  <2> QED
    BY <2>4, <2>5, <2>6, <2>7 DEF TaskInv
<1>12. OpenedInv(d)'
  <2>1. refresh'[d].pc = "queued" => refresh'[d] = refresh[d]
    OBVIOUS
  <2> QED
    BY <1>6, <1>9, <2>1, OpenedStays
<1> QED
  BY <1>6, <1>9, <1>10, <1>11, <1>12, LocalStep

LEMMA Receives ==
  ASSUME VerInv, NEW d \in User, Receive(d)
  PROVE  VerInv'
<1>1. /\ queue[d] = Idle /\ inbox[d].pc = "queued" /\ ReadRecord(d, inbox[d].m, inbox[d].peer, "inbox")
      /\ inbox' = [inbox EXCEPT ![d] = Idle]
      /\ UNCHANGED <<local, published, trust, log, mail, starting, refresh, stale>>
  BY DEF Receive
<1>2. inbox[d].peer = published[Peer(d)] /\ inbox[d].peer \in Nat /\ inbox[d].m \in DOMAIN log[d] /\ Opened(d)
  BY <1>1, Published, Peers DEF VerInv, UserInv, InLog, OpenedInv, Opened
<1>3. /\ inbox' \in [User -> InboxTask \cup {Idle}] /\ inbox'[d] = Idle /\ Idle.pc = "idle"
      /\ \A e \in User \ {d} : inbox'[e] = inbox[e]
  BY <1>1 DEF VerInv, TaskTypes, Idle
<1>4. refresh' = refresh /\ refresh \in [User -> RefreshTask]
  BY <1>1 DEF VerInv, TaskTypes, RefreshTask
<1>5. refresh[d].pc # "idle" => refresh[d].peer \in Nat /\ Learned(Peer(d), refresh[d].peer)
  <2>1. TaskTypes /\ TaskInv(d)
    BY DEF VerInv, UserInv
  <2>2. refresh[d] \in Resuming => refresh[d].peer \in Nat
    BY DEF Resuming
  <2>3. refresh[d].pc # "idle" => refresh[d].peer \in Nat
    BY <2>1, <2>2, TaskFacts
  <2> QED
    BY <2>1, <2>3 DEF TaskInv
<1>6. InLog(d)'
  BY <1>1, <1>3 DEF VerInv, UserInv, InLog
<1> QED
  BY <1>1, <1>2, <1>3, <1>4, <1>5, <1>6, Reads

LEMMA Replays ==
  ASSUME VerInv, NEW d \in User, Replay(d)
  PROVE  VerInv'
<1> DEFINE j == refresh[d]
           c == IF Genuine(d, log[d][j.m], j.peer) THEN "replayed" ELSE "look"
           a == [j EXCEPT !.pc = c]
<1>1. /\ j.pc = "queued" /\ queue[d] = Idle /\ ReadRecord(d, j.m, j.peer, "refresh")
      /\ refresh' = [refresh EXCEPT ![d] = a]
      /\ UNCHANGED <<local, published, trust, log, mail, inbox, starting, stale>>
  BY DEF Replay, Continue
<1>2. j \in Replaying /\ j.peer \in Nat /\ Learned(Peer(d), j.peer)
  <2>1. j \in Looking \cup Replaying \cup Resuming \cup {Idle} /\ TaskInv(d)
    BY DEF VerInv, UserInv, TaskTypes
  <2>2. j \in Replaying
    BY <1>1, <2>1 DEF Looking, Resuming, Idle
  <2> QED
    BY <1>1, <2>1, <2>2 DEF Replaying, TaskInv
<1>3. /\ j.m \in DOMAIN log[d] /\ log[d][j.m].key = published[Peer(d)] /\ Opened(d)
      /\ \A n \in DOMAIN j.todo : j.todo[n] \in DOMAIN log[d]
  BY <1>1 DEF VerInv, UserInv, InLog, OpenedInv, Opened
<1>4. Genuine(d, log[d][j.m], j.peer) => j.peer = published[Peer(d)]
  BY <1>3 DEF Genuine
<1>5. /\ a \in Replaying /\ a.pc = c /\ a.peer = j.peer /\ a.todo = j.todo /\ a.m = j.m
  BY <1>2 DEF Replaying
<1> HIDE DEF a
<1>6. /\ refresh' \in [User -> RefreshTask] /\ refresh'[d] = a
      /\ \A e \in User \ {d} : refresh'[e] = refresh[e]
  BY <1>1, <1>5 DEF VerInv, TaskTypes, RefreshTask
<1>7. InLog(d)'
  <2>1. InLog(d) /\ log' = log /\ inbox' = inbox
    BY <1>1 DEF VerInv, UserInv
  <2> QED
    BY <1>3, <1>5, <1>6, <2>1 DEF InLog
<1>8. inbox \in [User -> InboxTask \cup {Idle}]
  BY DEF VerInv, TaskTypes
<1> QED
  BY <1>1, <1>2, <1>3, <1>4, <1>5, <1>6, <1>7, <1>8, Reads

-----------------------------------------------------------------------------
(* Steps that send a proof. *)

Logs(u, p) == log' = [log EXCEPT ![u] = Append(log[u], p)]

LEMMA LogGrows ==
  ASSUME TypeOK, NEW u \in User, NEW p \in Proof, Logs(u, p)
  PROVE  /\ log' \in [User -> Seq(Proof)] /\ log' # log
         /\ Sent(u)' = Sent(u) \cup {p} /\ \A e \in User \ {u} : log'[e] = log[e] /\ Sent(e)' = Sent(e)
         /\ DOMAIN log'[u] = DOMAIN log[u] \cup {Len(log[u]) + 1} /\ \A i \in DOMAIN log[u] : log'[u][i] = log[u][i]
<1>1. log[u] \in Seq(Proof) /\ Len(log[u]) \in Nat /\ DOMAIN log[u] = 1..Len(log[u])
  BY DEF TypeOK
<1>2. log'[u] = Append(log[u], p) /\ \A e \in User \ {u} : log'[e] = log[e]
  BY DEF TypeOK, Logs
<1>3. /\ log'[u] \in Seq(Proof) /\ Len(log'[u]) = Len(log[u]) + 1 /\ log'[u][Len(log[u]) + 1] = p
      /\ \A i \in 1..Len(log[u]) : log'[u][i] = log[u][i]
  BY <1>1, <1>2
<1>4. DOMAIN log'[u] = DOMAIN log[u] \cup {Len(log[u]) + 1}
  BY <1>1, <1>3
<1>5. Sent(u)' = Sent(u) \cup {p}
  <2>1. ASSUME NEW s \in Sent(u)'
        PROVE  s \in Sent(u) \cup {p}
    BY <1>1, <1>3, <1>4, <2>1 DEF Sent
  <2>2. ASSUME NEW s \in Sent(u)
        PROVE  s \in Sent(u)'
    BY <1>1, <1>3, <1>4, <2>2 DEF Sent
  <2>3. p \in Sent(u)'
    BY <1>3, <1>4 DEF Sent
  <2> QED
    BY <2>1, <2>2, <2>3
<1>6. log' # log
  BY <1>1, <1>3
<1>7. log' \in [User -> Seq(Proof)]
  BY <1>2, <1>3 DEF TypeOK, Logs
<1>8. \A e \in User \ {u} : Sent(e)' = Sent(e)
  BY <1>2 DEF Sent
<1> QED
  BY <1>1, <1>2, <1>3, <1>4, <1>5, <1>6, <1>7, <1>8

LEMMA Sending ==
  ASSUME VerInv, NEW d \in User, NEW k \in Nat, NEW nonce \in Nat, NEW ack \in Nat, NEW open \in BOOLEAN,
         SendProof(d, k, nonce, ack, open)
  PROVE  \/ /\ ~Differs(d, k) /\ stale' = stale /\ net' = net /\ Sealed(d, k, nonce, ack) \in Proof /\ log' # log
            /\ log' = [log EXCEPT ![Peer(d)] = Append(log[Peer(d)], Sealed(d, k, nonce, ack))]
            /\ mail' \in [User -> SUBSET Nat] /\ \A e \in User : mail'[e] \subseteq DOMAIN log'[e]
         \/ /\ Doubts(d) /\ log' = log /\ mail' = mail
            /\ net' \in Nets /\ net.nonces <= net'.nonces /\ net.acts <= net'.acts
<1> DEFINE p == Sealed(d, k, nonce, ack)
<1>1. p \in Proof
  BY DEF Sealed, Proof, VerInv, TypeOK
<1>2. CASE /\ ~Differs(d, k) /\ Trusting /\ UNCHANGED net
           /\ log' = [log EXCEPT ![Peer(d)] = Append(log[Peer(d)], p)]
           /\ mail' = [mail EXCEPT ![Peer(d)] = mail[Peer(d)] \cup {Len(log[Peer(d)]) + 1},
                                   ![d] = IF open THEN DOMAIN log[d] ELSE mail[d]]
  <2> HIDE DEF p
  <2>1. /\ log' # log /\ DOMAIN log'[Peer(d)] = DOMAIN log[Peer(d)] \cup {Len(log[Peer(d)]) + 1}
        /\ log'[d] = log[d]
    <3>1. TypeOK /\ Logs(Peer(d), p) /\ Peer(d) \in User /\ d \in User \ {Peer(d)}
      BY <1>2, Peers DEF VerInv, Logs
    <3> QED
      BY <1>1, <3>1, LogGrows
  <2>2. \A e \in User : DOMAIN log[e] \subseteq Nat /\ Len(log[e]) + 1 \in Nat
    BY DEF VerInv, TypeOK
  <2>3. mail \in [User -> SUBSET Nat] /\ \A e \in User : mail[e] \subseteq DOMAIN log[e]
    BY DEF VerInv, TypeOK
  <2>4. mail' \in [User -> SUBSET Nat]
    BY <1>2, <2>2, <2>3, Peers
  <2>5. mail'[d] \subseteq DOMAIN log'[d] /\ mail'[Peer(d)] \subseteq DOMAIN log'[Peer(d)]
    BY <1>2, <2>1, <2>2, <2>3, Peers
  <2> QED
    BY <1>1, <1>2, <2>1, <2>4, <2>5, Peers DEF Trusting, p
<1>3. CASE (Trusting \/ (Differs(d, k) /\ Doubt(d))) /\ UNCHANGED <<log, mail>> /\ (Fault \/ net' = net)
  <2>1. net' \in Nets /\ net.nonces <= net'.nonces /\ net.acts <= net'.acts
    BY <1>3, NetMoves DEF VerInv
  <2>2. Doubts(d)
    BY <1>3 DEF Trusting, Doubt, Differs, Doubts
  <2> QED
    BY <1>3, <2>1, <2>2
<1> QED
  BY <1>2, <1>3 DEF SendProof

\* A proof is sent for the keys that are pinned, if any, and no record is being written.
LEMMA SendsLog ==
  ASSUME VerInv, NEW d \in User, NEW k \in Nat, NEW nonce \in Nat, NEW ack \in Nat,
         nonce = 0 \/ Uses(d, nonce), ack # 0 => Heard(d, ack), ~Differs(d, k), ~Writing(d),
         Sealed(d, k, nonce, ack) \in Proof,
         log' = [log EXCEPT ![Peer(d)] = Append(log[Peer(d)], Sealed(d, k, nonce, ack))],
         mail' \in [User -> SUBSET Nat], \A e \in User : mail'[e] \subseteq DOMAIN log'[e],
         UNCHANGED <<local, published, trust, stale, net, inbox>>, TaskTypes',
         starting'[d] \in {starting[d], Idle}, queue'[d] \in {queue[d], Idle}, refresh'[d] \in {refresh[d], Idle},
         (queue'[d] # Idle /\ queue[d].by = "refresh") => refresh'[d] = refresh[d],
         \A e \in User \ {d} : starting'[e] = starting[e] /\ queue'[e] = queue[e] /\ refresh'[e] = refresh[e]
  PROVE  VerInv'
<1> DEFINE u == Peer(d)
           p == Sealed(d, k, nonce, ack)
<1>1. u \in User /\ u # d /\ Peer(u) = d /\ \A e \in User : e = d \/ e = u
  BY Peers, PeerBack
<1>2. /\ log' \in [User -> Seq(Proof)] /\ Sent(u)' = Sent(u) \cup {p} /\ Sent(d)' = Sent(d) /\ log'[d] = log[d]
      /\ DOMAIN log[u] \subseteq DOMAIN log'[u] /\ \A i \in DOMAIN log[u] : log'[u][i] = log[u][i]
  <2>1. TypeOK /\ p \in Proof /\ Logs(u, p)
    BY DEF VerInv, Logs
  <2> HIDE DEF u, p
  <2>2. /\ log' \in [User -> Seq(Proof)] /\ Sent(u)' = Sent(u) \cup {p}
        /\ \A e \in User \ {u} : log'[e] = log[e] /\ Sent(e)' = Sent(e)
        /\ DOMAIN log'[u] = DOMAIN log[u] \cup {Len(log[u]) + 1} /\ \A i \in DOMAIN log[u] : log'[u][i] = log[u][i]
    BY <1>1, <2>1, LogGrows
  <2> QED
    BY <1>1, <2>2
<1>3. p.key = key[d] /\ p.for = k /\ p.nonce = nonce /\ p.ack = ack
  BY DEF Sealed
<1> HIDE DEF p, u
<1>4. UNCHANGED <<key, secret, unlocked, published, trust, stale, net, inbox>>
  BY DEF local
<1>5. TypeOK' /\ TaskTypes' /\ Idle.pc = "idle" /\ net.nonces \in Nat /\ net.acts \in Nat
  BY <1>2, <1>4 DEF VerInv, TypeOK, TaskTypes, Idle
<1>6. Records(d)' \subseteq Records(d) /\ stale[d] = {} /\ queue[d].pc # "save"
  BY <1>4, <1>5 DEF Records, Writing
<1>7. Records(u)' = Records(u) /\ starting'[u] = starting[u] /\ queue'[u] = queue[u] /\ refresh'[u] = refresh[u]
  BY <1>1, <1>4 DEF Records
\* The sender.
<1>8. ASSUME NEW r \in Records(d)', NEW s \in Sent(u)', s.nonce = r.nonce
      PROVE  s.for = r.pin
  <2>1. r \in Records(d) /\ Fit(d, r) /\ 1 <= r.nonce
    BY <1>6, RecordsFit DEF Fit, Good
  <2>2. CASE s \in Sent(u)
    BY <1>8, <2>1, <2>2 DEF Fit, Good, u
  <2>3. CASE s = p
    <3>1. r.nonce = nonce /\ r.nonce # 0
      BY <1>3, <1>8, <2>1, <2>3
    <3>2. Uses(d, r.nonce)
      BY <3>1
    <3>3. ~(refresh[d].pc = "save" /\ r = refresh[d].value)
      BY <3>2 DEF VerInv, UserInv, NonceInv
    <3>4. r = trust[d] /\ trust[d] # None
      BY <1>6, <2>1, <3>3 DEF Records
    <3> QED
      BY <1>3, <2>3, <3>4 DEF Differs
  <2> QED
    BY <1>2, <2>2, <2>3
<1>9. \A n : Heard(d, n)' <=> Heard(d, n)
  BY <1>2, <1>4 DEF Heard
<1>10. \A r : Dead(d, r)' <=> Dead(d, r)
  BY <1>2, <1>4 DEF Dead
<1>11. \A n, m : Learned(n, m)' <=> Learned(n, m)
  BY <1>4 DEF Learned
<1>12. ASSUME NEW r \in Records(d)'
       PROVE  Good(d, r)'
  <2>1. Good(d, r)
    BY <1>6 DEF VerInv, UserInv
  <2>2. \A s \in Sent(Peer(d))' : s.nonce = r.nonce => s.for = r.pin
    BY <1>8 DEF u
  <2> QED
    BY <1>2, <1>4, <1>9, <1>10, <1>11, <2>1, <2>2 DEF Good
<1>13. NonceInv(d)'
  <2>1. NonceInv(d)
    BY DEF VerInv, UserInv
  <2>2. \A n \in Nat : Uses(d, n)' => Uses(d, n) \/ n = nonce
    BY <1>2, <1>3, <1>4, <1>5 DEF Uses, u
  <2>3. \A n \in Nat : Uses(d, n)' => n <= net.nonces
    BY <1>5, <2>1, <2>2 DEF NonceInv
  <2>4. refresh'[d].pc = "save" => /\ refresh'[d] = refresh[d] /\ refresh[d].value.nonce \in Nat /\ 1 <= refresh[d].value.nonce
                                   /\ refresh[d].value.nonce <= net.nonces /\ ~Uses(d, refresh[d].value.nonce)
    <3> SUFFICES ASSUME refresh'[d].pc = "save"
                 PROVE  /\ refresh'[d] = refresh[d] /\ refresh[d].value.nonce \in Nat /\ 1 <= refresh[d].value.nonce
                        /\ refresh[d].value.nonce <= net.nonces /\ ~Uses(d, refresh[d].value.nonce)
      OBVIOUS
    <3>1. refresh'[d] = refresh[d] /\ refresh[d].pc = "save"
      BY <1>5
    <3>2. refresh[d].value \in Records(d)
      BY <3>1 DEF Records
    <3>3. Fit(d, refresh[d].value)
      BY <3>2, RecordsFit
    <3> QED
      BY <2>1, <3>1, <3>3 DEF Fit, Good, Trust, NonceInv
  <2>5. refresh'[d].pc = "save" => \A n \in Nat : Uses(d, n)' => n # refresh'[d].value.nonce
    BY <2>2, <2>4
  <2> QED
    BY <1>4, <2>3, <2>4, <2>5 DEF NonceInv
<1>14. TaskInv(d)'
  BY <1>2, <1>4, <1>5, TasksKept
<1>15. InLog(d)' /\ LogInv(d)'
  BY <1>2, <1>4, <1>5 DEF VerInv, UserInv, InLog, LogInv, u
<1>16. OpenedInv(d)'
  BY <1>2, <1>4, <1>5, <1>6, <1>10 DEF VerInv, UserInv, OpenedInv, Opened
<1>17. UserInv(d)'
  BY <1>4, <1>12, <1>13, <1>14, <1>15, <1>16 DEF UserInv, VerInv
\* The other.
<1>18. \A n : Heard(u, n) => Heard(u, n)'
  BY <1>2, <1>4 DEF Heard
<1>19. ASSUME NEW r \in Records(u), Dead(u, r)
       PROVE  Dead(u, r)'
  <2>1. Good(u, r) /\ r \in Trust
    BY <1>1, RecordsFit DEF Fit
  <2>2. p.ack # r.nonce
    <3> SUFFICES ASSUME ack = r.nonce
                 PROVE  FALSE
      BY <1>3
    <3>1. ack # 0
      BY <2>1 DEF Good, Trust
    <3>2. PICK q \in Sent(d) : q.nonce = ack /\ q.for = key[d]
      BY <3>1 DEF Heard
    <3> QED
      BY <1>1, <1>19, <2>1, <3>2 DEF Good, Dead
  <2> QED
    BY <1>1, <1>2, <1>4, <1>19, <2>2 DEF Dead
<1>20. ASSUME NEW r \in Records(u)'
       PROVE  Good(u, r)'
  <2>1. r \in Records(u) /\ Good(u, r)
    BY <1>1, <1>7 DEF VerInv, UserInv
  <2> QED
    BY <1>1, <1>2, <1>4, <1>11, <1>18, <1>19, <2>1 DEF Good
<1>21. NonceInv(u)'
  <2>1. NonceInv(u)
    BY <1>1 DEF VerInv, UserInv
  <2>2. \A n : Uses(u, n)' <=> Uses(u, n)
    BY <1>1, <1>2, <1>4, <1>7 DEF Uses
  <2> QED
    BY <1>4, <1>7, <2>1, <2>2 DEF NonceInv
<1>22. TaskInv(u)'
  <2>1. TaskInv(u)
    BY <1>1 DEF VerInv, UserInv
  <2> QED
    BY <1>1, <1>7, <1>11, <1>18, <2>1 DEF TaskInv
<1>23. InLog(u)' /\ LogInv(u)'
  <2>1. InLog(u) /\ LogInv(u)
    BY <1>1 DEF VerInv, UserInv
  <2>2. InLog(u)'
    BY <1>2, <1>4, <1>7, <2>1 DEF InLog
  <2>3. ack # 0 => \E q \in Sent(d) : q.nonce = ack /\ q.for = key[d]
    BY DEF Heard
  <2>4. key[d] <= key[d]
    BY DEF VerInv, TypeOK
  <2>5. LogInv(u)'
    BY <1>1, <1>2, <1>3, <1>4, <2>1, <2>3, <2>4 DEF LogInv
  <2> QED
    BY <2>2, <2>5
<1>24. OpenedInv(u)'
  <2>1. OpenedInv(u) /\ InLog(u)
    BY <1>1 DEF VerInv, UserInv
  <2>2. refresh[u].pc = "queued" => log'[u][refresh[u].m] = log[u][refresh[u].m]
    BY <1>2, <2>1 DEF InLog
  <2> QED
    BY <1>1, <1>4, <1>7, <1>19, <2>1, <2>2 DEF OpenedInv, Opened
<1>25. UserInv(u)'
  BY <1>1, <1>4, <1>20, <1>21, <1>22, <1>23, <1>24 DEF UserInv, VerInv
<1> QED
  BY <1>1, <1>5, <1>17, <1>25 DEF VerInv

LEMMA SendsChallenge ==
  ASSUME VerInv, NEW d \in User, SendChallenge(d), ~Writing(d)
  PROVE  VerInv'
<1> DEFINE j == starting[d]
<1>1. /\ j.pc = "saved" /\ SendProof(d, j.peer, j.nonce, 0, TRUE) /\ starting' = [starting EXCEPT ![d] = Idle]
      /\ UNCHANGED <<local, published, trust, queue, inbox, refresh>>
  BY DEF SendChallenge
<1>2. j.peer \in Nat /\ j.nonce \in Nat /\ Uses(d, j.nonce)
  <2>1. TaskTypes
    BY DEF VerInv
  <2> QED
    BY <1>1, <2>1, TaskFacts DEF Uses
<1>3. UNCHANGED <<key, secret, unlocked, published, trust, queue, inbox, refresh>>
  BY <1>1 DEF local
<1>4. starting'[d] = Idle /\ Idle.pc = "idle" /\ \A e \in User \ {d} : starting'[e] = starting[e]
  BY <1>1 DEF VerInv, TaskTypes, Idle
<1>5. net' \in Nets => TaskTypes'
  BY <1>1, <1>3 DEF VerInv, TaskTypes, Nets
<1>6. CASE /\ ~Differs(d, j.peer) /\ stale' = stale /\ net' = net /\ Sealed(d, j.peer, j.nonce, 0) \in Proof
           /\ log' = [log EXCEPT ![Peer(d)] = Append(log[Peer(d)], Sealed(d, j.peer, j.nonce, 0))]
           /\ mail' \in [User -> SUBSET Nat] /\ \A e \in User : mail'[e] \subseteq DOMAIN log'[e]
  <2>1. TaskTypes'
    BY <1>5, <1>6, NoNet
  <2>2. UNCHANGED <<local, published, trust, stale, net, inbox>>
    BY <1>1, <1>6
  <2> QED
    BY <1>2, <1>3, <1>4, <1>6, <2>1, <2>2, SendsLog
<1>7. CASE /\ Doubts(d) /\ log' = log /\ mail' = mail
           /\ net' \in Nets /\ net.nonces <= net'.nonces /\ net.acts <= net'.acts
  <2>1. \A e \in User \ {d} : stale'[e] = stale[e]
    BY <1>7 DEF Doubts, VerInv, TypeOK
  <2>2. Still /\ Others(d)
    BY <1>3, <1>4, <1>7, <2>1 DEF Still, Others, Same
  <2> QED
    BY <1>3, <1>4, <1>5, <1>7, <2>2, CalmStep DEF VerInv, TypeOK
<1> QED
  BY <1>1, <1>2, <1>6, <1>7, Sending

LEMMA Resumes ==
  ASSUME VerInv, NEW d \in User, Resume(d), ~Writing(d)
  PROVE  VerInv'
<1> DEFINE j == refresh[d]
           n == j.value.nonce
           r == j.value.received
<1>1. /\ j.pc = "send" /\ SendProof(d, j.peer, n, r, FALSE) /\ refresh' = [refresh EXCEPT ![d] = Idle]
      /\ UNCHANGED <<local, published, trust, queue, inbox, starting>>
  BY DEF Resume, End
<1>2. j.peer \in Nat /\ n \in Nat /\ r \in Nat /\ Uses(d, n) /\ (r # 0 => Heard(d, r))
  <2>1. TaskTypes /\ TaskInv(d)
    BY DEF VerInv, UserInv
  <2>2. j \in Resuming
    BY <1>1, <2>1, TaskFacts DEF Idle
  <2> QED
    BY <1>1, <2>1, <2>2 DEF Uses, TaskInv, Resuming, Trust
<1>3. UNCHANGED <<key, secret, unlocked, published, trust, queue, inbox, starting>>
  BY <1>1 DEF local
<1>4. refresh'[d] = Idle /\ \A e \in User \ {d} : refresh'[e] = refresh[e]
  BY <1>1 DEF VerInv, TaskTypes
<1>5. net' \in Nets => TaskTypes'
  BY <1>1, <1>3 DEF VerInv, TaskTypes, Nets
<1>6. queue[d] = Idle \/ queue[d].by # "refresh"
  BY <1>1, QueueFree
<1> HIDE DEF n, r
<1>7. CASE /\ ~Differs(d, j.peer) /\ stale' = stale /\ net' = net /\ Sealed(d, j.peer, n, r) \in Proof
           /\ log' = [log EXCEPT ![Peer(d)] = Append(log[Peer(d)], Sealed(d, j.peer, n, r))]
           /\ mail' \in [User -> SUBSET Nat] /\ \A e \in User : mail'[e] \subseteq DOMAIN log'[e]
  <2>1. TaskTypes'
    BY <1>5, <1>7, NoNet
  <2>2. UNCHANGED <<local, published, trust, stale, net, inbox>>
    BY <1>1, <1>7
  <2> QED
    BY <1>2, <1>3, <1>4, <1>6, <1>7, <2>1, <2>2, SendsLog
<1>8. CASE /\ Doubts(d) /\ log' = log /\ mail' = mail
           /\ net' \in Nets /\ net.nonces <= net'.nonces /\ net.acts <= net'.acts
  <2>1. \A e \in User \ {d} : stale'[e] = stale[e]
    BY <1>8 DEF Doubts, VerInv, TypeOK
  <2>2. Still /\ Others(d)
    BY <1>3, <1>4, <1>8, <2>1 DEF Still, Others, Same
  <2> QED
    BY <1>3, <1>4, <1>5, <1>6, <1>8, <2>2, CalmStep DEF VerInv, TypeOK
<1> QED
  BY <1>1, <1>2, <1>7, <1>8, Sending

\* A failed answer of the refresh lets it look further.
LEMMA Replies ==
  ASSUME VerInv, NEW d \in User, Reply(d), ~Writing(d)
  PROVE  VerInv'
<1> DEFINE q == queue[d]
           n == IF q.only THEN 0 ELSE q.value.nonce
           b == [refresh[d] EXCEPT !.pc = "look"]
<1>1. /\ q.pc = "reply" /\ SendProof(d, q.peer, n, q.ack, FALSE) /\ queue' = [queue EXCEPT ![d] = Idle]
      /\ refresh' = IF q.by = "refresh" /\ log' = log THEN [refresh EXCEPT ![d] = b] ELSE refresh
      /\ UNCHANGED <<local, published, trust, inbox, starting>>
  BY DEF Reply
<1>2. q \in QueueTask /\ TaskTypes /\ TaskInv(d)
  <2>1. TaskTypes /\ TaskInv(d)
    BY DEF VerInv, UserInv
  <2> QED
    BY <1>1, <2>1, TaskFacts DEF Idle
<1>3. q.peer \in Nat /\ n \in Nat /\ q.ack \in Nat /\ (n = 0 \/ Uses(d, n)) /\ (q.ack # 0 => Heard(d, q.ack))
  BY <1>1, <1>2 DEF QueueTask, Trust, Uses, TaskInv
<1> HIDE DEF n
<1>4. UNCHANGED <<key, secret, unlocked, published, trust, inbox, starting>>
  BY <1>1 DEF local
<1>5. queue'[d] = Idle /\ \A e \in User \ {d} : queue'[e] = queue[e]
  BY <1>1 DEF VerInv, TaskTypes
<1>6. CASE /\ ~Differs(d, q.peer) /\ stale' = stale /\ net' = net /\ Sealed(d, q.peer, n, q.ack) \in Proof /\ log' # log
           /\ log' = [log EXCEPT ![Peer(d)] = Append(log[Peer(d)], Sealed(d, q.peer, n, q.ack))]
           /\ mail' \in [User -> SUBSET Nat] /\ \A e \in User : mail'[e] \subseteq DOMAIN log'[e]
  <2>1. refresh' = refresh
    BY <1>1, <1>6
  <2>2. TaskTypes'
    BY <1>1, <1>4, <1>6, <2>1 DEF VerInv, TaskTypes
  <2>3. UNCHANGED <<local, published, trust, stale, net, inbox>>
    BY <1>1, <1>6
  <2> QED
    BY <1>3, <1>4, <1>5, <1>6, <2>1, <2>2, <2>3, SendsLog
<1>7. CASE /\ Doubts(d) /\ log' = log /\ mail' = mail
           /\ net' \in Nets /\ net.nonces <= net'.nonces /\ net.acts <= net'.acts
  <2>1. \A e \in User \ {d} : stale'[e] = stale[e]
    BY <1>7 DEF Doubts, VerInv, TypeOK
  <2>2. CASE refresh' = refresh
    <3>1. TaskTypes'
      BY <1>1, <1>4, <1>7, <2>2 DEF VerInv, TaskTypes, Nets
    <3>2. Still /\ Others(d)
      BY <1>4, <1>5, <1>7, <2>1, <2>2 DEF Still, Others, Same
    <3> QED
      BY <1>4, <1>5, <1>7, <2>2, <3>1, <3>2, CalmStep DEF VerInv, TypeOK
  <2>3. CASE q.by = "refresh" /\ refresh' = [refresh EXCEPT ![d] = b]
    <3>1. refresh[d].pc = "replayed"
      BY <1>1, <1>2, <2>3 DEF TaskInv
    <3>2. refresh[d] \in Replaying
      BY <1>2, <3>1 DEF TaskTypes, Looking, Resuming, Idle
    <3>3. b \in Replaying /\ b.pc = "look" /\ b.peer = refresh[d].peer /\ b.todo = refresh[d].todo /\ b.peer \in Nat
      BY <3>2 DEF Replaying
    <3> HIDE DEF b
    <3>4. refresh'[d] = b /\ \A e \in User \ {d} : refresh'[e] = refresh[e]
      BY <2>3 DEF VerInv, TaskTypes
    <3>5. TaskTypes'
      BY <1>1, <1>4, <1>7, <2>3, <3>3 DEF VerInv, TaskTypes, Nets
    <3>6. Still /\ Others(d)
      BY <1>4, <1>5, <1>7, <2>1, <3>4 DEF Still, Others, Same
    <3>7. InLog(d)'
      BY <1>4, <1>7, <3>1, <3>3, <3>4 DEF VerInv, UserInv, InLog
    <3>8. Learned(Peer(d), b.peer)
      BY <1>2, <3>1, <3>3 DEF TaskInv
    <3>9. TaskInv(d)'
      BY <1>4, <1>5, <3>3, <3>4, <3>5, <3>6, <3>8, TaskMoves
    <3> QED
      BY <1>4, <1>5, <1>7, <3>3, <3>4, <3>5, <3>6, <3>7, <3>9, DoubtStep DEF VerInv, TypeOK
  <2> QED
    BY <1>1, <2>2, <2>3
<1> QED
  BY <1>1, <1>3, <1>6, <1>7, Sending

-----------------------------------------------------------------------------
(* New keys.  Whatever was opened has been handled before. *)

LEMMA NotOpened ==
  ASSUME Handled, NEW e \in User
  PROVE  ~Opened(e)
BY DEF Handled, Opened, Idle

\* The account u has other keys, or the server has: what its contact knows stays true.
LEMMA KeysMove ==
  ASSUME VerInv, Typed', Handled, NEW e \in User, UNCHANGED <<secret, log, tasks>>, trust'[e] = trust[e], stale' = stale,
         key'[e] = key[e], key[Peer(e)] <= key'[Peer(e)], net'.nonces = net.nonces,
         \A k \in Nat : Learned(Peer(e), k) => Learned(Peer(e), k)' /\ (k # key[Peer(e)] => k # key'[Peer(e)]),
         key'[e] <= net'.acts /\ published'[e] <= net'.acts
  PROVE  UserInv(e)'
<1>1. UserInv(e) /\ TaskTypes
  BY DEF VerInv
<1>2. \A u \in User : Sent(u)' = Sent(u)
  BY DEF Sent
<1>3. queue' = queue /\ inbox' = inbox /\ starting' = starting /\ refresh' = refresh
  BY DEF tasks
<1>4. Records(e)' = Records(e)
  BY <1>3 DEF Records
<1>5. \A n : Heard(e, n)' <=> Heard(e, n)
  BY <1>2 DEF Heard
<1>6. ASSUME NEW r \in Records(e)
      PROVE  Good(e, r)'
  <2>1. Good(e, r) /\ r.pin \in Nat
    BY RecordsFit DEF Fit, Trust
  <2>2. Learned(Peer(e), r.pin)' /\ (Dead(e, r) => Dead(e, r)')
    BY <1>2, <2>1 DEF Good, Dead
  <2> QED
    BY <1>2, <1>5, <2>1, <2>2, Peers DEF Good
<1>7. InLog(e)'
  BY <1>1, <1>3 DEF UserInv, InLog
<1>8. LogInv(e)'
  <2>1. \A p \in Sent(e) : p.key \in Nat
    BY SentTyped DEF VerInv, Proof
  <2>2. key[Peer(e)] \in Nat /\ key'[Peer(e)] \in Nat
    BY Peers DEF VerInv, TypeOK, Typed
  <2>3. \A p \in Sent(e) : p.key <= key'[Peer(e)]
    BY <1>1, <2>1, <2>2 DEF UserInv, LogInv
  <2> QED
    BY <1>1, <1>2, <2>3, Peers DEF UserInv, LogInv
<1>9. NonceInv(e)'
  <2>1. \A n : Uses(e, n)' <=> Uses(e, n)
    BY <1>2, <1>3, Peers DEF Uses
  <2> QED
    BY <1>1, <1>3, <2>1 DEF UserInv, NonceInv
<1>10. TaskInv(e)'
  <2>1. starting[e].pc \in {"got", "saved"} => starting[e].peer \in Nat
    BY <1>1, TaskFacts
  <2>2. refresh[e].pc # "idle" => refresh[e].peer \in Nat
    BY <1>1, TaskFacts DEF Resuming
  <2>3. (starting[e].pc \in {"got", "saved"} => Learned(Peer(e), starting[e].peer))'
    BY <1>1, <1>3, <2>1 DEF UserInv, TaskInv
  <2>4. (refresh[e].pc # "idle" => Learned(Peer(e), refresh[e].peer))'
    BY <1>1, <1>3, <2>2 DEF UserInv, TaskInv
  <2> QED
    BY <1>1, <1>3, <1>5, <2>3, <2>4 DEF UserInv, TaskInv
<1>11. OpenedInv(e)'
  BY <1>3, NotOpened DEF OpenedInv, Opened
<1> QED
  BY <1>4, <1>6, <1>7, <1>8, <1>9, <1>10, <1>11 DEF UserInv

LEMMA NewGeneration ==
  ASSUME VerInv, Fault
  PROVE  /\ Generation \in Nat /\ net'.acts = Generation /\ net.acts < Generation /\ net' \in Nets /\ net'.nonces = net.nonces
         /\ \A e \in User : key[e] < Generation /\ published[e] < Generation
<1>1. net \in Nets /\ net.acts \in Nat /\ net.starts \in Nat
  BY DEF VerInv, TaskTypes, Nets
<1>2. net' = [nonces |-> net.nonces, starts |-> net.starts, acts |-> net.acts + 1, calm |-> FALSE]
  BY <1>1 DEF Fault, Nets
<1>3. net' \in Nets /\ net'.nonces = net.nonces
  BY <1>2, NetMoves DEF VerInv
<1>4. Generation \in Nat /\ net.acts < Generation /\ net'.acts = Generation
  BY <1>1, <1>2 DEF Generation
<1>5. \A e \in User : key[e] < Generation /\ published[e] < Generation
  BY <1>1 DEF Generation, VerInv, TypeOK, UserInv
<1> QED
  BY <1>3, <1>4, <1>5

LEMMA Publishes ==
  ASSUME VerInv, NEW d \in User, OtherDevice(d) \/ PublishKeys(d)
  PROVE  VerInv'
<1> DEFINE g == IF OtherDevice(d) THEN Generation ELSE key[d]
<1>1. /\ Handled /\ published' = [published EXCEPT ![d] = g]
      /\ UNCHANGED <<key, secret, unlocked, trust, log, mail, tasks, stale, page>>
  BY DEF OtherDevice, PublishKeys, local
<1>2. /\ net' \in Nets /\ net.nonces = net'.nonces /\ net.acts <= net'.acts /\ net.acts \in Nat /\ net'.acts \in Nat
      /\ g \in Nat /\ key[d] <= g /\ g <= net'.acts
  <2>1. key[d] \in Nat /\ key[d] <= net.acts /\ net.acts \in Nat
    BY DEF VerInv, TypeOK, UserInv, TaskTypes
  <2>2. CASE OtherDevice(d)
    <3>1. Fault
      BY <2>2 DEF OtherDevice
    <3> QED
      BY <2>1, <2>2, <3>1, NewGeneration
  <2>3. CASE ~OtherDevice(d)
    <3>1. net' = net
      BY <2>3 DEF PublishKeys
    <3> QED
      BY <2>1, <2>3, <3>1, NoNet
  <2> QED
    BY <2>2, <2>3
<1> HIDE DEF g
<1>3. published' \in [User -> Nat] /\ published'[d] = g /\ \A e \in User \ {d} : published'[e] = published[e]
  BY <1>1, <1>2 DEF VerInv, TypeOK
<1>4. Typed'
  BY <1>1, <1>2, <1>3 DEF VerInv, TypeOK, TaskTypes, Typed, tasks, Nets
<1>5. ASSUME NEW u \in User, NEW k \in Nat, Learned(u, k)
      PROVE  Learned(u, k)'
  BY <1>1, <1>2, <1>3, <1>5 DEF Learned
<1>6. ASSUME NEW e \in User
      PROVE  UserInv(e)'
  <2>1. key'[e] <= net'.acts /\ published'[e] <= net'.acts
    BY <1>1, <1>2, <1>3 DEF VerInv, TypeOK, UserInv
  <2>2. key[Peer(e)] <= key'[Peer(e)]
    BY <1>1, Peers DEF VerInv, TypeOK
  <2> QED
    BY <1>1, <1>2, <1>4, <1>5, <2>1, <2>2, Peers, KeysMove
<1> QED
  BY <1>4, <1>6 DEF Typed, VerInv

LEMMA MakesKeys ==
  ASSUME VerInv, NEW d \in User, MakeKeys(d)
  PROVE  VerInv'
<1> DEFINE u == Peer(d)
<1>1. /\ Fault /\ AtRest(d) /\ Handled /\ key' = [key EXCEPT ![d] = Generation] /\ trust' = [trust EXCEPT ![d] = None]
      /\ unlocked' = [unlocked EXCEPT ![d] = FALSE] /\ UNCHANGED <<secret, published, log, mail, tasks, stale>>
  BY DEF MakeKeys
<1>2. u \in User /\ u # d /\ Peer(u) = d /\ \A e \in User : e = d \/ e = u
  BY Peers, PeerBack
<1> HIDE DEF u
<1>3. /\ Generation \in Nat /\ net'.acts = Generation /\ net.acts < Generation /\ net' \in Nets /\ net'.nonces = net.nonces
      /\ \A e \in User : key[e] < Generation /\ published[e] < Generation
  BY <1>1, NewGeneration
<1>4. /\ key' \in [User -> Nat] /\ key'[d] = Generation /\ key'[u] = key[u]
      /\ trust' \in [User -> Trust \cup {None}] /\ trust'[d] = None /\ trust'[u] = trust[u]
  BY <1>1, <1>2, <1>3 DEF VerInv, TypeOK
<1>5. Typed'
  BY <1>1, <1>3, <1>4 DEF VerInv, TypeOK, TaskTypes, Typed, tasks, Nets
<1>6. \A e \in User : key[e] \in Nat /\ published[e] \in Nat /\ net.acts \in Nat
  BY DEF VerInv, TypeOK, TaskTypes
<1>7. \A e \in User : key'[e] <= net'.acts /\ published'[e] <= net'.acts
  BY <1>1, <1>2, <1>3, <1>4, <1>6
<1>8. UserInv(u)'
  <2>1. \A k \in Nat : Learned(d, k) => Learned(d, k)' /\ k # key'[d]
    BY <1>2, <1>3, <1>4, <1>6 DEF Learned
  <2>2. key[d] <= key'[d]
    BY <1>3, <1>4, <1>6
  <2> QED
    BY <1>1, <1>2, <1>3, <1>4, <1>5, <1>7, <2>1, <2>2, KeysMove
<1>9. UserInv(d)'
  <2>1. /\ queue' = queue /\ inbox' = inbox /\ starting' = starting /\ refresh' = refresh
        /\ queue[d] = Idle /\ inbox[d] = Idle /\ starting[d] = Idle /\ refresh[d] = Idle /\ stale[d] = {} /\ Idle.pc = "idle"
    BY <1>1 DEF AtRest, tasks, Idle
  <2>2. Records(d)' = {}
    BY <1>1, <1>4, <2>1 DEF Records
  <2>3. InLog(d)' /\ TaskInv(d)' /\ OpenedInv(d)'
    BY <2>1 DEF InLog, TaskInv, OpenedInv, Opened
  <2>4. Sent(d)' = Sent(d) /\ Sent(u)' = Sent(u) /\ UserInv(d)
    BY <1>1 DEF Sent, VerInv
  <2>5. LogInv(d)'
    BY <1>2, <1>4, <2>4 DEF UserInv, LogInv, u
  <2>6. \A n \in Nat : Uses(d, n)' => Uses(d, n)
    BY <1>1, <1>4, <2>1, <2>4 DEF Uses, u
  <2>7. NonceInv(d)'
    BY <1>3, <2>1, <2>4, <2>6 DEF UserInv, NonceInv
  <2> QED
    BY <1>7, <2>2, <2>3, <2>5, <2>7 DEF UserInv
<1> QED
  BY <1>2, <1>5, <1>8, <1>9 DEF Typed, VerInv

-----------------------------------------------------------------------------
(* The theorems. *)

LEMMA VerInit == Init => VerInv
<1> SUFFICES ASSUME Init
             PROVE  VerInv
  OBVIOUS
<1>1. Idle.pc = "idle"
  BY DEF Idle
<1>2. Typed
  BY VerificationAssumption DEF Init, Typed, TypeOK, TaskTypes
<1>3. ASSUME NEW d \in User
      PROVE  UserInv(d)
  <2>1. /\ queue[d] = Idle /\ inbox[d] = Idle /\ starting[d] = Idle /\ refresh[d] = Idle /\ stale[d] = {} /\ trust[d] = None
        /\ \A u \in User : Sent(u) = {}
    BY DEF Init, Sent
  <2>2. Records(d) = {} /\ \A n : ~Uses(d, n)
    BY <1>1, <2>1, Peers DEF Records, Uses
  <2>3. InLog(d) /\ TaskInv(d) /\ OpenedInv(d) /\ LogInv(d) /\ NonceInv(d)
    BY <1>1, <2>1, <2>2 DEF InLog, TaskInv, OpenedInv, Opened, LogInv, NonceInv
  <2>4. key[d] <= net.acts /\ published[d] <= net.acts
    BY DEF Init
  <2> QED
    BY <2>2, <2>3, <2>4 DEF UserInv
<1> QED
  BY <1>2, <1>3 DEF Typed, VerInv

LEMMA VerStep == VerInv /\ [Next]_vars => VerInv'
<1> SUFFICES ASSUME VerInv, [Next]_vars
             PROVE  VerInv'
  OBVIOUS
<1>1. CASE UNCHANGED vars
  BY <1>1 DEF vars, local, tasks, VerInv, TypeOK, TaskTypes, UserInv, InLog, LogInv, NonceInv, TaskInv, OpenedInv, Opened,
              Records, Good, Learned, Heard, Dead, Uses, Sent
<1>2. CASE Next
  <2>1. PICK d \in User : \/ Write(d)
                          \/ ~Writing(d) /\ (Step(d) \/ Does(d))
    BY <1>2 DEF Next
  <2>2. CASE Write(d)
    BY <2>2, SavesRevocation, SavesChallenge, SavesRecord, SavesNew DEF Write
  <2>3. CASE ~Writing(d) /\ Step(d)
    BY <2>3, SendsChallenge, Decrypts, Receives, Replies, Looks, Replays, AfterReplay, Rests, Resumes, Visits, PageSteps,
       Publishes DEF Step
  <2>4. CASE ~Writing(d) /\ Does(d)
    BY <2>4, Starts, PageSteps, Visits, MakesKeys, Publishes DEF Does
  <2> QED
    BY <2>1, <2>2, <2>3, <2>4
<1> QED
  BY <1>1, <1>2

LEMMA VerAlways == Spec => []VerInv
BY VerInit, VerStep, PTL DEF Spec

\* The keys, the trust records, the revocations about to be written and the proofs the server keeps are
\* of their types, and what is to be decrypted is in the log: whatever the order of the tasks.
THEOREM RecordsTypeOK == Spec => []TypeOK
BY VerAlways, PTL DEF VerInv

\* A device counts the keys it has pinned as verified only when the contact has made, with these keys and
\* the same password, the proof it received and a receipt for its own challenge (identityVerified,
\* verifiedIdentity): for any number of handshakes, new keys, locks, lost sends and proofs that are processed again.
THEOREM VerificationIsMutual == Spec => []VerifiedIsMutual
<1>1. VerInv => VerifiedIsMutual
  <2> SUFFICES ASSUME VerInv, NEW d \in User, trust[d] # None, Verified(d, trust[d].pin)
               PROVE  LET from == {p \in Sent(d) : p.key = trust[d].pin /\ p.for = key[d] /\ p.secret = secret[d]} IN
                      /\ \E p \in from : p.ack = trust[d].nonce
                      /\ \E p \in from : p.nonce = trust[d].received
    BY DEF VerifiedIsMutual
  <2>1. trust[d] \in Records(d)
    BY DEF Records
  <2>2. Good(d, trust[d])
    BY <2>1 DEF VerInv, UserInv
  <2>3. PICK p \in Sent(d) : p.ack = trust[d].nonce /\ p.key = trust[d].pin /\ p.for = key[d] /\ p.secret = secret[d]
    BY <2>2 DEF Good, Verified
  <2>4. ~Dead(d, trust[d])
    BY <2>3 DEF Dead
  <2>5. PICK q \in Sent(d) : q.nonce = trust[d].received /\ q.key = trust[d].pin /\ q.for = key[d] /\ q.secret = secret[d]
    BY <2>2, <2>4 DEF Good, Verified
  <2> QED
    BY <2>3, <2>5
<1> QED
  BY <1>1, VerAlways, PTL

-----------------------------------------------------------------------------
(* The page and the password. *)

Page == [status : Status \cup {"closed", "refreshing", "error"}, peer : Nat, cached : Nat,
         again : BOOLEAN, dirty : BOOLEAN, throttled : BOOLEAN]
\* A page that says that the password is locked is right, or will look again.
LockInv(d) == page[d].status = "locked" => ~unlocked[d] \/ page[d].again
PageInv == page \in [User -> Page] /\ \A d \in User : LockInv(d)

LEMMA JudgedRight ==
  ASSUME NEW d \in User, NEW k
  PROVE  Judged(d, k) \in Status /\ (Judged(d, k) = "locked" => ~unlocked[d])
BY DEF Judged, Status

\* The fields of a page are set one at a time.
PageStatus == Status \cup {"closed", "refreshing", "error"}
SetStatus(f, d, v) == [f EXCEPT ![d].status = v]
Calm(f, d) == [f EXCEPT ![d].again = FALSE]
SetDirty(f, d, v) == [f EXCEPT ![d].dirty = v]
SetThrottled(f, d, v) == [f EXCEPT ![d].throttled = v]
SetPeer(f, d, v) == [f EXCEPT ![d].peer = v]
SetCached(f, d, v) == [f EXCEPT ![d].cached = v]
Shown(f, d, g, status) == g \in [User -> Page] /\ g[d].status = status /\ \A e \in User \ {d} : g[e] = f[e]

LEMMA StatusSet ==
  ASSUME NEW f \in [User -> Page], NEW d \in User, NEW v \in PageStatus
  PROVE  Shown(f, d, SetStatus(f, d, v), v) /\ SetStatus(f, d, v)[d].again = f[d].again
BY DEF Page, PageStatus, SetStatus, Shown

LEMMA Calmed ==
  ASSUME NEW f \in [User -> Page], NEW d \in User
  PROVE  Shown(f, d, Calm(f, d), f[d].status)
BY DEF Page, Calm, Shown

LEMMA FlagSet ==
  ASSUME NEW f \in [User -> Page], NEW d \in User, NEW v \in BOOLEAN
  PROVE  /\ Shown(f, d, SetDirty(f, d, v), f[d].status) /\ SetDirty(f, d, v)[d].again = f[d].again
         /\ Shown(f, d, SetThrottled(f, d, v), f[d].status) /\ SetThrottled(f, d, v)[d].again = f[d].again
<1>1. Shown(f, d, SetDirty(f, d, v), f[d].status) /\ SetDirty(f, d, v)[d].again = f[d].again
  BY DEF Page, SetDirty, Shown
<1>2. Shown(f, d, SetThrottled(f, d, v), f[d].status) /\ SetThrottled(f, d, v)[d].again = f[d].again
  BY DEF Page, SetThrottled, Shown
<1> QED
  BY <1>1, <1>2

LEMMA KeysSet ==
  ASSUME NEW f \in [User -> Page], NEW d \in User, NEW v \in Nat
  PROVE  Shown(f, d, SetPeer(f, d, v), f[d].status) /\ Shown(f, d, SetCached(f, d, v), f[d].status)
<1>1. Shown(f, d, SetPeer(f, d, v), f[d].status)
  BY DEF Page, SetPeer, Shown
<1>2. Shown(f, d, SetCached(f, d, v), f[d].status)
  BY DEF Page, SetCached, Shown
<1> QED
  BY <1>1, <1>2

\* Whatever else of the page changes, its status is the old one or true.
LEMMA PageMoves ==
  ASSUME PageInv, NEW d \in User, page' \in [User -> Page], unlocked' = unlocked,
         \A e \in User \ {d} : page'[e] = page[e],
         \/ page'[d].status # "locked"
         \/ ~unlocked[d]
         \/ page'[d].status = page[d].status /\ page'[d].again = page[d].again
  PROVE  PageInv'
BY DEF PageInv, LockInv

LEMMA PageWritten ==
  ASSUME PageInv, NEW d \in User, NEW t, Save(d, t), unlocked' = unlocked
  PROVE  PageInv'
<1>1. CASE page' = page
  BY <1>1 DEF PageInv, LockInv
<1>2. CASE page' = [page EXCEPT ![d].dirty = TRUE]
  <2>1. page' \in [User -> Page] /\ page'[d].status = page[d].status /\ page'[d].again = page[d].again
        /\ \A e \in User \ {d} : page'[e] = page[e]
    BY <1>2 DEF PageInv, Page
  <2> QED
    BY <2>1, PageMoves
<1> QED
  BY <1>1, <1>2 DEF Save, Dirtied

LEMMA PageShows ==
  ASSUME PageInv, NEW d \in User, NEW s \in Status \cup {"error"}, s = "locked" => ~unlocked[d], unlocked' = unlocked,
         NEW dirty \in BOOLEAN, NEW throttled \in BOOLEAN, NEW shown \in {page[d].status, s},
         page' \in {[page EXCEPT ![d].dirty = dirty, ![d].status = shown],
                    [page EXCEPT ![d].throttled = throttled, ![d].status = shown]}
  PROVE  PageInv'
<1>1. page \in [User -> Page] /\ shown \in PageStatus
  BY DEF PageInv, Page, PageStatus
<1>2. CASE page' = [page EXCEPT ![d].dirty = dirty, ![d].status = shown]
  <2> DEFINE g == SetDirty(page, d, dirty)
  <2>1. page' = SetStatus(g, d, shown)
    BY <1>2 DEF SetDirty, SetStatus
  <2>2. Shown(page, d, g, page[d].status) /\ g[d].again = page[d].again
    BY <1>1, FlagSet
  <2> HIDE DEF g
  <2> QED
    BY <1>1, <2>1, <2>2, StatusSet, PageMoves DEF Shown
<1>3. CASE page' = [page EXCEPT ![d].throttled = throttled, ![d].status = shown]
  <2> DEFINE g == SetThrottled(page, d, throttled)
  <2>1. page' = SetStatus(g, d, shown)
    BY <1>3 DEF SetThrottled, SetStatus
  <2>2. Shown(page, d, g, page[d].status) /\ g[d].again = page[d].again
    BY <1>1, FlagSet
  <2> HIDE DEF g
  <2> QED
    BY <1>1, <2>1, <2>2, StatusSet, PageMoves DEF Shown
<1> QED
  BY <1>2, <1>3

LEMMA PageCloses ==
  ASSUME PageInv, NEW d \in User, page' = Closed(d) \/ page' = [Closed(d) EXCEPT ![d].throttled = FALSE],
         \A e \in User \ {d} : unlocked'[e] = unlocked[e]
  PROVE  PageInv'
<1> DEFINE a == SetStatus(page, d, "closed")
           b == Calm(a, d)
           c == SetDirty(b, d, FALSE)
<1>1. page \in [User -> Page]
  BY DEF PageInv
<1>2. Closed(d) = c
  BY DEF Closed, SetStatus, Calm, SetDirty
<1>3. Shown(page, d, a, "closed")
  BY <1>1, StatusSet DEF PageStatus
<1> HIDE DEF a
<1>4. Shown(page, d, b, "closed")
  BY <1>3, Calmed DEF Shown
<1> HIDE DEF b
<1>5. Shown(page, d, c, "closed")
  <2>1. b \in [User -> Page] /\ FALSE \in BOOLEAN
    BY <1>4 DEF Shown
  <2>2. Shown(b, d, c, b[d].status)
    BY <2>1, FlagSet
  <2> QED
    BY <1>4, <2>2 DEF Shown
<1> HIDE DEF c
<1>6. Shown(page, d, page', "closed")
  <2>1. CASE page' = Closed(d)
    BY <1>2, <1>5, <2>1
  <2>2. CASE page' = [Closed(d) EXCEPT ![d].throttled = FALSE]
    <3>1. page' = SetThrottled(c, d, FALSE)
      BY <1>2, <2>2 DEF SetThrottled
    <3>2. c \in [User -> Page] /\ FALSE \in BOOLEAN
      BY <1>5 DEF Shown
    <3>3. Shown(c, d, page', c[d].status)
      BY <3>1, <3>2, FlagSet
    <3> QED
      BY <1>5, <3>3 DEF Shown
  <2> QED
    BY <2>1, <2>2
<1> QED
  BY <1>6 DEF PageInv, LockInv, Shown

LEMMA PageBegins ==
  ASSUME PageInv, TypeOK, NEW d \in User, Begin(d), unlocked' = unlocked
  PROVE  PageInv'
<1> DEFINE k == published[Peer(d)]
           s == Judged(d, k)
<1>1. PICK x \in {"refreshing", s} : page' = Refreshing(d, x)
  BY DEF Begin
<1>2. k \in Nat /\ s \in Status /\ (s = "locked" => ~unlocked[d]) /\ page \in [User -> Page]
  BY JudgedRight, Peers DEF TypeOK, PageInv
<1>3. page' = [page EXCEPT ![d].status = x, ![d].dirty = FALSE, ![d].again = FALSE, ![d].peer = k, ![d].cached = k]
  BY <1>1 DEF Refreshing
<1> HIDE DEF k, s
<1>4. x \in PageStatus
  BY <1>2 DEF PageStatus
<1> DEFINE a == SetStatus(page, d, x)
           b == SetDirty(a, d, FALSE)
           c == Calm(b, d)
           g == SetPeer(c, d, k)
<1>5. page' = SetCached(g, d, k)
  BY <1>3 DEF SetStatus, SetDirty, Calm, SetPeer, SetCached
<1>6. Shown(page, d, a, x)
  BY <1>2, <1>4, StatusSet
<1> HIDE DEF a
<1>7. Shown(page, d, b, x)
  <2>1. a \in [User -> Page] /\ FALSE \in BOOLEAN
    BY <1>6 DEF Shown
  <2>2. Shown(a, d, b, a[d].status)
    BY <2>1, FlagSet
  <2> QED
    BY <1>6, <2>2 DEF Shown
<1> HIDE DEF b
<1>8. Shown(page, d, c, x)
  BY <1>7, Calmed DEF Shown
<1> HIDE DEF c
<1>9. Shown(page, d, g, x)
  BY <1>2, <1>8, KeysSet DEF Shown
<1> HIDE DEF g
<1>10. Shown(page, d, page', x)
  BY <1>2, <1>5, <1>9, KeysSet DEF Shown
<1> QED
  BY <1>2, <1>10, PageMoves DEF Shown

LEMMA PageHears ==
  ASSUME PageInv, NEW d \in User, LockOrUnlock(d)
  PROVE  PageInv'
<1>1. page \in [User -> Page] /\ \A e \in User \ {d} : unlocked'[e] = unlocked[e]
  BY DEF PageInv, LockOrUnlock
<1>2. CASE page[d].status = "closed" /\ page' = page
  BY <1>1, <1>2 DEF PageInv, LockInv
<1>3. CASE page' = [page EXCEPT ![d].again = TRUE]
  <2>1. page' \in [User -> Page] /\ page'[d].again = TRUE /\ \A e \in User \ {d} : page'[e] = page[e]
    BY <1>1, <1>3 DEF Page
  <2> QED
    BY <1>1, <2>1 DEF PageInv, LockInv
<1> QED
  BY <1>2, <1>3 DEF LockOrUnlock, PasswordChanged

LEMMA PageEnds ==
  ASSUME PageInv, NEW d \in User, NEW s \in Status \cup {"error"}, s = "locked" => ~unlocked[d], unlocked' = unlocked, End(d, s)
  PROVE  PageInv'
<1>1. CASE page' = page
  BY <1>1 DEF PageInv, LockInv
<1>2. CASE page' = [page EXCEPT ![d].status = s]
  <2>1. page \in [User -> Page]
    BY DEF PageInv
  <2>2. page' \in [User -> Page] /\ page'[d].status = s /\ \A e \in User \ {d} : page'[e] = page[e]
    BY <1>2, <2>1 DEF Page
  <2> QED
    BY <2>2, PageMoves
<1> QED
  BY <1>1, <1>2 DEF End

LEMMA PageSame ==
  ASSUME PageInv, page' = page, unlocked' = unlocked
  PROVE  PageInv'
BY DEF PageInv, LockInv

LEMMA PageInit == Init => PageInv
BY VerificationAssumption DEF Init, PageInv, Page, LockInv

LEMMA PageStep == VerInv /\ PageInv /\ [Next]_vars => PageInv'
<1> SUFFICES ASSUME VerInv, PageInv, [Next]_vars
             PROVE  PageInv'
  OBVIOUS
<1>1. CASE UNCHANGED vars
  BY <1>1, PageSame DEF vars, local
<1>2. ASSUME NEW d \in User, Write(d)
      PROVE  PageInv'
  <2>1. unlocked' = unlocked
    BY <1>2 DEF Write, SaveRevocation, SaveChallenge, SaveRecord, SaveNew, local
  <2>2. \E t : Save(d, t)
    BY <1>2 DEF Write, SaveRevocation, SaveChallenge, SaveRecord, SaveNew
  <2> QED
    BY <2>1, <2>2, PageWritten
<1>3. ASSUME NEW d \in User, Step(d) \/ Does(d)
      PROVE  PageInv'
  <2>1. CASE SendChallenge(d)
    <3>1. unlocked' = unlocked /\ (page' = page \/ page' = Closed(d))
      BY <2>1 DEF SendChallenge, local
    <3> QED
      BY <3>1, PageSame, PageCloses
  <2>2. CASE Decrypt(d) \/ Receive(d) \/ Reply(d) \/ Look(d) \/ Replay(d) \/ PublishKeys(d)
    BY <2>2, PageSame DEF Decrypt, Receive, Reply, Look, Replay, PublishKeys, Continue, local
  <2>3. CASE Replayed(d)
    <3> DEFINE s == Judged(d, refresh[d].peer)
               n == log[d][refresh[d].m].nonce
               throttled == page[d].throttled \/ (n # 0 /\ refresh[d].received # n)
               shown == IF page[d].status = "refreshing" /\ s \in {"changed", "verified", "locked"} THEN s ELSE page[d].status
    <3>1. s \in Status /\ (s = "locked" => ~unlocked[d])
      BY JudgedRight
    <3>2. unlocked' = unlocked /\ page' = [page EXCEPT ![d].throttled = throttled, ![d].status = shown]
      BY <2>3 DEF Replayed, local
    <3>3. throttled \in BOOLEAN /\ shown \in {page[d].status, s}
      BY DEF PageInv, Page
    <3> HIDE DEF s, throttled, shown
    <3> QED
      BY <3>1, <3>2, <3>3, PageShows
  <2>4. CASE Rest(d)
    <3> DEFINE s == Judged(d, refresh[d].peer)
    <3>1. s \in Status /\ (s = "locked" => ~unlocked[d])
      BY JudgedRight
    <3>2. unlocked' = unlocked /\ (page' = page \/ End(d, s))
      BY <2>4 DEF Rest, Continue, local
    <3> QED
      BY <3>1, <3>2, PageSame, PageEnds
  <2>5. CASE Resume(d)
    <3> DEFINE s == Judged(d, refresh[d].peer)
               shown == IF page[d].status = "refreshing" THEN s ELSE page[d].status
    <3>1. s \in Status /\ (s = "locked" => ~unlocked[d])
      BY JudgedRight
    <3>2. unlocked' = unlocked /\ (End(d, "error") \/ page' = [page EXCEPT ![d].throttled = TRUE, ![d].status = shown])
      BY <2>5 DEF Resume, local
    <3>3. shown \in {page[d].status, s}
      OBVIOUS
    <3> HIDE DEF s, shown
    <3> QED
      BY <3>1, <3>2, <3>3, PageShows, PageEnds
  <2>6. CASE RefreshAgain(d) \/ Visit(d)
    BY <2>6, PageBegins DEF RefreshAgain, Visit, VerInv, local
  <2>7. CASE TrustChanged(d)
    <3> DEFINE s == Judged(d, page[d].peer)
    <3>1. s \in Status /\ (s = "locked" => ~unlocked[d])
      BY JudgedRight
    <3>2. unlocked' = unlocked /\ page' = [page EXCEPT ![d].dirty = FALSE, ![d].status = s]
      BY <2>7 DEF TrustChanged, local
    <3> HIDE DEF s
    <3> QED
      BY <3>1, <3>2, PageShows
  <2>8. CASE StartIdentityVerification(d) \/ OpenChat(d) \/ SendText(d) \/ OtherDevice(d)
    BY <2>8, PageSame DEF StartIdentityVerification, OpenChat, SendText, OtherDevice, local
  <2>9. CASE MakeKeys(d)
    <3>1. page' = [Closed(d) EXCEPT ![d].throttled = FALSE] /\ \A e \in User \ {d} : unlocked'[e] = unlocked[e]
      BY <2>9 DEF MakeKeys, VerInv, TypeOK
    <3> QED
      BY <3>1, PageCloses
  <2>10. CASE LockOrUnlock(d)
    BY <2>10, PageHears
  <2> QED
    BY <1>3, <2>1, <2>2, <2>3, <2>4, <2>5, <2>6, <2>7, <2>8, <2>9, <2>10 DEF Step, Does
<1> QED
  BY <1>1, <1>2, <1>3 DEF Next

\* An open profile does not say that the password is locked when it is not: a page that was judged before
\* the password was unlocked looks again (onPasswordChanged, refreshAfterUnlock), whatever else it waits for.
THEOREM LockIsShownRight == Spec => []LockShown
<1>1. PageInv => LockShown
  BY DEF PageInv, LockInv, LockShown, Quiet
<1> QED
  BY <1>1, PageInit, PageStep, VerAlways, PTL DEF Spec

-----------------------------------------------------------------------------
(* A handshake that nothing disturbed. *)

\* Nothing happened to the keys and the password.
Original(r) == r.pin = 0 /\ r.own = 0
Unharmed(d) ==
  /\ key[d] = 0 /\ published[d] = 0 /\ unlocked[d] /\ stale[d] = {} /\ page[d].peer = 0
  /\ trust[d] # None => Original(trust[d])
  /\ starting[d].pc # "idle" => starting[d].peer = 0
  /\ inbox[d].pc # "idle" => inbox[d].peer = 0
  /\ queue[d].pc # "idle" => queue[d].peer = 0 /\ Original(queue[d].value)
  /\ refresh[d].pc # "idle" => refresh[d].peer = 0
  /\ refresh[d].pc = "save" => Original(refresh[d].value)
  /\ \A p \in Sent(d) : p.key = 0 /\ p.for = 0 /\ p.secret = secret[Peer(d)]
UnharmedInv == net.calm => \A d \in User : Unharmed(d)

\* What the tasks and the page of d become.
Harmless(d) ==
  /\ UNCHANGED <<key, published, secret, unlocked, stale>>
  /\ trust'[d] = trust[d] \/ Original(trust'[d])
  /\ starting'[d] = starting[d] \/ (starting'[d].pc # "idle" => starting'[d].peer = 0)
  /\ inbox'[d] = inbox[d] \/ (inbox'[d].pc # "idle" => inbox'[d].peer = 0)
  /\ queue'[d] = queue[d] \/ (queue'[d].pc # "idle" => queue'[d].peer = 0 /\ Original(queue'[d].value))
  /\ \/ refresh'[d] = refresh[d]
     \/ (refresh'[d].pc # "idle" => refresh'[d].peer = 0) /\ (refresh'[d].pc = "save" => Original(refresh'[d].value))
  /\ \A e \in User : \A p \in Sent(e)' : p \in Sent(e) \/ (p.key = 0 /\ p.for = 0 /\ p.secret = secret[Peer(e)])
\* The other device and its page do nothing.
Alone(d) == \A e \in User \ {d} : /\ trust'[e] = trust[e] /\ queue'[e] = queue[e] /\ inbox'[e] = inbox[e]
                                  /\ starting'[e] = starting[e] /\ refresh'[e] = refresh[e]

LEMMA HarmlessKept ==
  ASSUME NEW d \in User, \A e \in User : Unharmed(e), Harmless(d), Alone(d), \A e \in User : page'[e].peer = 0
  PROVE  \A e \in User : Unharmed(e)'
<1>1. \A e \in User : \A p \in Sent(e)' : p.key = 0 /\ p.for = 0 /\ p.secret = secret'[Peer(e)]
  BY DEF Harmless, Unharmed
<1>2. Unharmed(d)'
  <2>1. /\ key'[d] = 0 /\ published'[d] = 0 /\ unlocked'[d] /\ stale'[d] = {} /\ page'[d].peer = 0
        /\ trust'[d] # None => Original(trust'[d])
        /\ starting'[d].pc # "idle" => starting'[d].peer = 0
        /\ inbox'[d].pc # "idle" => inbox'[d].peer = 0
    BY DEF Harmless, Unharmed
  <2>2. /\ queue'[d].pc # "idle" => queue'[d].peer = 0 /\ Original(queue'[d].value)
        /\ refresh'[d].pc # "idle" => refresh'[d].peer = 0
        /\ refresh'[d].pc = "save" => Original(refresh'[d].value)
    BY DEF Harmless, Unharmed
  <2> QED
    BY <1>1, <2>1, <2>2 DEF Unharmed, Original
<1>3. \A e \in User \ {d} : Unharmed(e)'
  BY <1>1 DEF Harmless, Alone, Unharmed, Original
<1> QED
  BY <1>2, <1>3

\* A page that is opened again asks for keys that did not change.
LEMMA PeerKept ==
  ASSUME PageInv, NEW d \in User, \A e \in User : Unharmed(e), Write(d) \/ Step(d) \/ Does(d)
  PROVE  \A e \in User : page'[e].peer = 0
<1>1. page \in [User -> Page] /\ \A e \in User : page[e].peer = 0 /\ published[Peer(e)] = 0
  BY Peers DEF PageInv, Unharmed
<1>2. CASE page' = page
  BY <1>1, <1>2
<1>3. ASSUME NEW x, \/ page' = [page EXCEPT ![d].dirty = x] \/ page' = [page EXCEPT ![d].status = x]
                    \/ page' = [page EXCEPT ![d].again = x]
      PROVE  \A e \in User : page'[e].peer = 0
  BY <1>1, <1>3 DEF Page
<1>4. ASSUME NEW x, NEW y, \/ page' = [page EXCEPT ![d].dirty = x, ![d].status = y]
                           \/ page' = [page EXCEPT ![d].throttled = x, ![d].status = y]
      PROVE  \A e \in User : page'[e].peer = 0
  BY <1>1, <1>4 DEF Page
<1>5. ASSUME page' = Closed(d) \/ page' = [Closed(d) EXCEPT ![d].throttled = FALSE]
      PROVE  \A e \in User : page'[e].peer = 0
  BY <1>1, <1>5 DEF Closed, Page
<1>6. ASSUME NEW x, page' = Refreshing(d, x)
      PROVE  \A e \in User : page'[e].peer = 0
  BY <1>1, <1>6 DEF Refreshing, Page
<1>7. CASE Write(d)
  BY <1>2, <1>3, <1>7 DEF Write, SaveRevocation, SaveChallenge, SaveRecord, SaveNew, Save, Dirtied
<1>8. CASE SendChallenge(d) \/ MakeKeys(d)
  BY <1>2, <1>5, <1>8 DEF SendChallenge, MakeKeys
<1>9. CASE \/ Decrypt(d) \/ Receive(d) \/ Reply(d) \/ Look(d) \/ Replay(d) \/ PublishKeys(d) \/ StartIdentityVerification(d)
           \/ OpenChat(d) \/ SendText(d) \/ OtherDevice(d)
  BY <1>2, <1>9 DEF Decrypt, Receive, Reply, Look, Replay, PublishKeys, Continue, StartIdentityVerification,
                    OpenChat, SendText, OtherDevice
<1>10. CASE Replayed(d) \/ TrustChanged(d)
  <2>1. CASE Replayed(d)
    <3> DEFINE s == Judged(d, refresh[d].peer)
               n == log[d][refresh[d].m].nonce
               throttled == page[d].throttled \/ (n # 0 /\ refresh[d].received # n)
               shown == IF page[d].status = "refreshing" /\ s \in {"changed", "verified", "locked"} THEN s ELSE page[d].status
    <3>1. page' = [page EXCEPT ![d].throttled = throttled, ![d].status = shown]
      BY <2>1 DEF Replayed
    <3> HIDE DEF throttled, shown
    <3> QED
      BY <1>4, <3>1
  <2>2. CASE TrustChanged(d)
    BY <1>4, <2>2 DEF TrustChanged
  <2> QED
    BY <1>10, <2>1, <2>2
<1>11. CASE Rest(d)
  BY <1>2, <1>3, <1>11 DEF Rest, Continue, End
<1>12. CASE Resume(d)
  <2> DEFINE shown == IF page[d].status = "refreshing" THEN Judged(d, refresh[d].peer) ELSE page[d].status
  <2>1. End(d, "error") \/ page' = [page EXCEPT ![d].throttled = TRUE, ![d].status = shown]
    BY <1>12 DEF Resume
  <2> HIDE DEF shown
  <2> QED
    BY <1>2, <1>3, <1>4, <2>1 DEF End
<1>13. CASE RefreshAgain(d) \/ Visit(d)
  BY <1>6, <1>13 DEF RefreshAgain, Visit, Begin
<1>14. CASE LockOrUnlock(d)
  BY <1>2, <1>3, <1>14 DEF LockOrUnlock, PasswordChanged
<1> QED
  BY <1>7, <1>8, <1>9, <1>10, <1>11, <1>12, <1>13, <1>14 DEF Step, Does

\* What a step may do as long as nothing happens.
LEMMA CalmBefore ==
  ASSUME TaskTypes, NEW d \in User, Write(d) \/ Step(d) \/ Does(d), net'.calm
  PROVE  net.calm /\ ~SendText(d) /\ ~MakeKeys(d) /\ ~OtherDevice(d) /\ ~Fault
<1>1. net \in Nets /\ net.nonces \in Nat /\ net.acts \in Nat /\ net.starts \in Nat
  BY DEF TaskTypes, Nets
<1>2. ~Fault /\ net' # [net EXCEPT !.calm = FALSE]
  BY <1>1 DEF Fault, Nets
<1>3. CASE \/ net' = net \/ Act \/ net' = [net EXCEPT !.nonces = @ + 1] \/ net' = [net EXCEPT !.starts = @ + 1]
  BY <1>1, <1>2, <1>3 DEF Act, Nets, SendText, MakeKeys, OtherDevice
<1>4. \/ net' = net \/ Act \/ Fault \/ net' = [net EXCEPT !.nonces = @ + 1] \/ net' = [net EXCEPT !.starts = @ + 1]
      \/ net' = [net EXCEPT !.calm = FALSE]
  <2>1. CASE Write(d)
    BY <2>1 DEF Write, SaveRevocation, SaveChallenge, SaveRecord, SaveNew
  <2>2. CASE SendChallenge(d) \/ Reply(d) \/ Resume(d)
    BY <2>2 DEF SendChallenge, Reply, Resume, SendProof
  <2>3. CASE \/ Decrypt(d) \/ Receive(d) \/ Replay(d) \/ Look(d) \/ Replayed(d) \/ Rest(d) \/ RefreshAgain(d)
             \/ TrustChanged(d) \/ PublishKeys(d)
    BY <2>3 DEF Decrypt, Receive, Replay, ReadRecord, Look, Replayed, Rest, RefreshAgain, TrustChanged, PublishKeys
  <2>4. CASE Does(d)
    BY <2>4 DEF Does, StartIdentityVerification, OpenChat, SendText, Visit, MakeKeys, OtherDevice, LockOrUnlock
  <2> QED
    BY <2>1, <2>2, <2>3, <2>4 DEF Step
<1> QED
  BY <1>2, <1>3, <1>4 DEF SendText, MakeKeys, OtherDevice

LEMMA NeverDiffers ==
  ASSUME NEW d \in User, Unharmed(d)
  PROVE  /\ ~Differs(d, 0) /\ (Judge(d, 0) => stale' = stale) /\ ~SaveRevocation(d) /\ ~PublishKeys(d)
         /\ \A i : Check(d, i, 0) => stale' = stale
<1>1. ~Differs(d, 0)
  BY DEF Differs, Unharmed, Original
<1> QED
  BY <1>1 DEF Judge, Check, Trusting, SaveRevocation, PublishKeys, Unharmed

LEMMA SendsCalmly ==
  ASSUME VerInv, NEW d \in User, \A e \in User : Unharmed(e), NEW nonce \in Nat, NEW ack \in Nat, NEW open \in BOOLEAN,
         SendProof(d, 0, nonce, ack, open), ~Fault
  PROVE  \E p \in Proof :
           /\ p = Sealed(d, 0, nonce, ack) /\ p.nonce = nonce /\ p.ack = ack /\ p.key = 0 /\ p.for = 0 /\ p.secret = secret[d]
           /\ Logs(Peer(d), p) /\ log' # log /\ UNCHANGED <<stale, net>>
           /\ mail' = [mail EXCEPT ![Peer(d)] = mail[Peer(d)] \cup {Len(log[Peer(d)]) + 1},
                                   ![d] = IF open THEN DOMAIN log[d] ELSE mail[d]]
<1> DEFINE p == Sealed(d, 0, nonce, ack)
<1>1. unlocked[d] /\ ~Differs(d, 0) /\ key[d] = 0 /\ secret[d] \in Secret
  BY NeverDiffers DEF Unharmed, VerInv, TypeOK
<1>2. p \in Proof /\ p.nonce = nonce /\ p.ack = ack /\ p.key = 0 /\ p.for = 0 /\ p.secret = secret[d]
  BY <1>1 DEF Sealed, Proof
<1>3. /\ Logs(Peer(d), p) /\ UNCHANGED <<stale, net>>
      /\ mail' = [mail EXCEPT ![Peer(d)] = mail[Peer(d)] \cup {Len(log[Peer(d)]) + 1},
                              ![d] = IF open THEN DOMAIN log[d] ELSE mail[d]]
  BY <1>1 DEF SendProof, Trusting, Logs
<1> HIDE DEF p
<1>4. log' # log
  BY <1>2, <1>3, Peers, LogGrows DEF VerInv
<1> QED
  BY <1>2, <1>3, <1>4 DEF p

\* What receiveProof queues, and for which record.
Queued(d, i, by, base, a) ==
  /\ base \in Trust /\ \/ trust[d] # None /\ base = trust[d] /\ net' = net
                       \/ trust[d] = None /\ base = NewTrust(d, 0) /\ net' = [net EXCEPT !.nonces = @ + 1]
  /\ a.value = After(base, log[d][i]) /\ a.reply = Unanswered(base, log[d][i]) /\ a.ack = log[d][i].nonce
  /\ a.by = by /\ a.pc = IF a.value = trust[d] THEN "reply" ELSE "save"
  /\ a.peer = 0 /\ a.only = (log[d][i].ack = a.value.nonce) /\ (a.pc = "reply" => a.reply)
  /\ queue' = [queue EXCEPT ![d] = a]

LEMMA AfterFields ==
  ASSUME NEW base \in Trust, NEW p \in Proof
  PROVE  LET r == After(base, p) IN
         /\ r \in Trust /\ r.pin = base.pin /\ r.own = base.own /\ r.nonce = base.nonce
         /\ r.received = (IF p.nonce # 0 THEN p.nonce ELSE base.received) /\ r.ack = (base.ack \/ p.ack = base.nonce)
BY DEF After, Trust, Proof

LEMMA NewFields ==
  ASSUME VerInv, NEW d \in User, NEW k \in Nat
  PROVE  LET r == NewTrust(d, k) IN
         r \in Trust /\ r.pin = k /\ r.own = key[d] /\ r.nonce = Fresh /\ r.received = 0 /\ ~r.ack
BY DEF NewTrust, Trust, Fresh, VerInv, TypeOK, TaskTypes

LEMMA ReadsCalmly ==
  ASSUME VerInv, NEW d \in User, NEW i \in DOMAIN log[d], NEW by \in {"inbox", "refresh"}, ReadRecord(d, i, 0, by)
  PROVE  \/ /\ queue' = queue /\ net' = net
            /\ \/ ~Genuine(d, log[d][i], 0)
               \/ /\ ~Unanswered(IF trust[d] = None THEN NewTrust(d, 0) ELSE trust[d], log[d][i])
                  /\ trust[d] = After(IF trust[d] = None THEN NewTrust(d, 0) ELSE trust[d], log[d][i])
         \/ \E base, a : Queued(d, i, by, base, a)
<1> DEFINE p == log[d][i]
           base == IF trust[d] = None THEN NewTrust(d, 0) ELSE trust[d]
           value == After(base, p)
           reply == Unanswered(base, p)
           a == [by |-> by, pc |-> IF value = trust[d] THEN "reply" ELSE "save", peer |-> 0, value |-> value,
                 reply |-> reply, only |-> p.ack = value.nonce, ack |-> p.nonce]
<1>1. base \in Trust
  BY NewFields DEF VerInv, TypeOK
<1>2. CASE queue' = queue /\ net' = net /\ (~Genuine(d, p, 0) \/ (value = trust[d] /\ ~reply))
  BY <1>2
<1>3. CASE /\ queue' = [queue EXCEPT ![d] = a] /\ ~(value = trust[d] /\ ~reply)
           /\ net' = IF trust[d] = None THEN [net EXCEPT !.nonces = @ + 1] ELSE net
  <2>1. Queued(d, i, by, base, a)
    BY <1>1, <1>3 DEF Queued
  <2> QED
    BY <2>1
<1> QED
  BY <1>2, <1>3 DEF ReadRecord

LEMMA QueuesHarmlessly ==
  ASSUME VerInv, NEW d \in User, Unharmed(d), NEW i \in DOMAIN log[d], NEW by \in {"inbox", "refresh"}, ReadRecord(d, i, 0, by)
  PROVE  /\ queue'[d] = queue[d] \/ (queue'[d].pc # "idle" => queue'[d].peer = 0 /\ Original(queue'[d].value))
         /\ \A e \in User \ {d} : queue'[e] = queue[e]
<1>1. CASE queue' = queue
  BY <1>1
<1>2. ASSUME NEW base, NEW a, Queued(d, i, by, base, a)
      PROVE  /\ queue'[d].peer = 0 /\ Original(queue'[d].value)
             /\ \A e \in User \ {d} : queue'[e] = queue[e]
  <2>1. Original(base) /\ base \in Trust
    BY <1>2, NewFields DEF Queued, Unharmed, Original
  <2>2. log[d][i] \in Proof
    BY SentTyped DEF VerInv, Sent
  <2>3. Original(a.value) /\ a.peer = 0
    BY <1>2, <2>1, <2>2, AfterFields DEF Queued, Original
  <2>4. queue'[d] = a /\ \A e \in User \ {d} : queue'[e] = queue[e]
    BY <1>2 DEF Queued, VerInv, TaskTypes
  <2> QED
    BY <2>3, <2>4
<1> QED
  BY <1>1, <1>2, ReadsCalmly

LEMMA LogsHarmlessly ==
  ASSUME VerInv, NEW d \in User, \A e \in User : Unharmed(e), NEW nonce \in Nat, NEW ack \in Nat, NEW open \in BOOLEAN,
         SendProof(d, 0, nonce, ack, open), ~Fault
  PROVE  /\ stale' = stale
         /\ \A e \in User : \A p \in Sent(e)' : p \in Sent(e) \/ (p.key = 0 /\ p.for = 0 /\ p.secret = secret[Peer(e)])
<1>1. PICK p \in Proof : p.key = 0 /\ p.for = 0 /\ p.secret = secret[d] /\ Logs(Peer(d), p) /\ stale' = stale
  BY SendsCalmly
<1>2. Sent(Peer(d))' = Sent(Peer(d)) \cup {p} /\ \A e \in User \ {Peer(d)} : Sent(e)' = Sent(e)
  BY <1>1, Peers, LogGrows DEF VerInv
<1> QED
  BY <1>1, <1>2, Peers, PeerBack

LEMMA HarmlessStep ==
  ASSUME VerInv, PageInv, NEW d \in User, \A e \in User : Unharmed(e), Write(d) \/ Step(d) \/ Does(d), net'.calm
  PROVE  \A e \in User : Unharmed(e)'
<1>1. \A e \in User : page'[e].peer = 0
  BY PeerKept
<1>2. ~SendText(d) /\ ~MakeKeys(d) /\ ~OtherDevice(d) /\ ~Fault /\ ~LockOrUnlock(d) /\ ~SaveRevocation(d) /\ ~PublishKeys(d)
  BY CalmBefore, NeverDiffers DEF VerInv, LockOrUnlock, Unharmed
<1>3. /\ published[Peer(d)] = 0 /\ page[d].peer = 0 /\ Idle.pc = "idle" /\ key[d] = 0
      /\ trust \in [User -> Trust \cup {None}] /\ starting \in [User -> StartTask \cup {Idle}]
      /\ inbox \in [User -> InboxTask \cup {Idle}] /\ queue \in [User -> QueueTask \cup {Idle}]
      /\ refresh \in [User -> Looking \cup Replaying \cup Resuming \cup {Idle}]
  BY Peers DEF Unharmed, VerInv, TypeOK, TaskTypes, Idle
<1>4. log' = log => \A e \in User : \A p \in Sent(e)' : p \in Sent(e)
  BY DEF Sent
<1> SUFFICES Harmless(d) /\ Alone(d)
  BY <1>1, HarmlessKept
<1>5. CASE SaveChallenge(d)
  <2>1. starting[d].peer = 0
    BY <1>5 DEF SaveChallenge, Unharmed
  <2>2. Original(NewTrust(d, 0))
    BY <1>3, NewFields DEF Original
  <2> QED
    BY <1>3, <1>4, <1>5, <2>1, <2>2 DEF SaveChallenge, Save, Harmless, Alone, local
<1>6. CASE SaveRecord(d)
  <2>1. Original(queue[d].value) /\ queue[d].peer = 0 /\ queue[d] \in QueueTask
    BY <1>3, <1>6 DEF SaveRecord, Unharmed
  <2>2. [queue[d] EXCEPT !.pc = "reply"].peer = 0 /\ [queue[d] EXCEPT !.pc = "reply"].value = queue[d].value
    BY <2>1 DEF QueueTask
  <2>3. /\ queue'[d] = Idle \/ queue'[d] = [queue[d] EXCEPT !.pc = "reply"]
        /\ \A e \in User \ {d} : queue'[e] = queue[e]
    BY <1>3, <1>6 DEF SaveRecord
  <2>4. trust'[d] = queue[d].value /\ \A e \in User \ {d} : trust'[e] = trust[e]
    BY <1>3, <1>6 DEF SaveRecord, Save
  <2> QED
    BY <1>3, <1>4, <1>6, <2>1, <2>2, <2>3, <2>4 DEF SaveRecord, Harmless, Alone, local
<1>7. CASE SaveNew(d)
  <2>1. Original(refresh[d].value) /\ refresh[d].peer = 0 /\ refresh[d] \in Resuming
    BY <1>3, <1>7, TaskFacts DEF SaveNew, Unharmed, VerInv
  <2>2. [refresh[d] EXCEPT !.pc = "send"].peer = 0 /\ [refresh[d] EXCEPT !.pc = "send"].pc = "send"
    BY <2>1 DEF Resuming
  <2>3. refresh'[d] = [refresh[d] EXCEPT !.pc = "send"] /\ \A e \in User \ {d} : refresh'[e] = refresh[e]
    BY <1>3, <1>7 DEF SaveNew
  <2>4. trust'[d] = refresh[d].value /\ \A e \in User \ {d} : trust'[e] = trust[e]
    BY <1>3, <1>7 DEF SaveNew, Save
  <2> QED
    BY <1>3, <1>4, <1>7, <2>1, <2>2, <2>3, <2>4 DEF SaveNew, Harmless, Alone, local
<1>8. CASE SendChallenge(d)
  <2>1. starting[d].peer = 0 /\ starting[d].nonce \in Nat
    BY <1>8, TaskFacts DEF SendChallenge, Unharmed, VerInv
  <2>2. /\ stale' = stale
        /\ \A e \in User : \A p \in Sent(e)' : p \in Sent(e) \/ (p.key = 0 /\ p.for = 0 /\ p.secret = secret[Peer(e)])
    <3>1. SendProof(d, 0, starting[d].nonce, 0, TRUE) /\ 0 \in Nat /\ TRUE \in BOOLEAN
      BY <1>8, <2>1 DEF SendChallenge
    <3> QED
      BY <1>2, <2>1, <3>1, LogsHarmlessly
  <2> QED
    BY <1>3, <1>8, <2>2 DEF SendChallenge, Harmless, Alone, local
<1>9. CASE Reply(d)
  <2>1. queue[d].peer = 0 /\ queue[d].ack \in Nat /\ queue[d].value.nonce \in Nat
    BY <1>9, TaskFacts DEF Reply, Unharmed, VerInv, QueueTask, Trust
  <2> DEFINE n == IF queue[d].only THEN 0 ELSE queue[d].value.nonce
  <2>2. SendProof(d, 0, n, queue[d].ack, FALSE) /\ n \in Nat /\ FALSE \in BOOLEAN
    BY <1>9, <2>1 DEF Reply
  <2> HIDE DEF n
  <2>3. /\ stale' = stale
        /\ \A e \in User : \A p \in Sent(e)' : p \in Sent(e) \/ (p.key = 0 /\ p.for = 0 /\ p.secret = secret[Peer(e)])
    BY <1>2, <2>1, <2>2, LogsHarmlessly
  <2>4. refresh' = refresh
    <3>1. log' # log
      BY <1>2, <2>1, <2>2, SendsCalmly
    <3> QED
      BY <1>9, <3>1 DEF Reply
  <2> QED
    BY <1>3, <1>9, <2>3, <2>4 DEF Reply, Harmless, Alone, local
<1>10. CASE Resume(d)
  <2>1. refresh[d].peer = 0 /\ refresh[d].value.received \in Nat /\ refresh[d].value.nonce \in Nat
    BY <1>10, TaskFacts DEF Resume, Unharmed, VerInv, Resuming, Trust
  <2>2. /\ stale' = stale
        /\ \A e \in User : \A p \in Sent(e)' : p \in Sent(e) \/ (p.key = 0 /\ p.for = 0 /\ p.secret = secret[Peer(e)])
    BY <1>2, <1>10, <2>1, LogsHarmlessly DEF Resume
  <2>3. refresh' = [refresh EXCEPT ![d] = Idle]
    BY <1>10 DEF Resume, End
  <2> QED
    BY <1>3, <1>10, <2>2, <2>3 DEF Resume, Harmless, Alone, local
<1>11. CASE Decrypt(d)
  <2>1. stale' = stale
    BY <1>3, <1>11, NeverDiffers DEF Decrypt
  <2>2. (inbox'[d].pc # "idle" => inbox'[d].peer = 0) /\ \A e \in User \ {d} : inbox'[e] = inbox[e]
    BY <1>3, <1>11 DEF Decrypt
  <2> QED
    BY <1>4, <1>11, <2>1, <2>2 DEF Decrypt, Harmless, Alone, local
<1>12. CASE Receive(d)
  <2>1. inbox[d].peer = 0 /\ inbox[d].m \in DOMAIN log[d]
    BY <1>12 DEF Receive, Unharmed, VerInv, UserInv, InLog
  <2>2. /\ queue'[d] = queue[d] \/ (queue'[d].pc # "idle" => queue'[d].peer = 0 /\ Original(queue'[d].value))
        /\ \A e \in User \ {d} : queue'[e] = queue[e]
    BY <1>12, <2>1, QueuesHarmlessly DEF Receive
  <2> QED
    BY <1>3, <1>4, <1>12, <2>2 DEF Receive, Harmless, Alone, local
<1>13. CASE Replay(d)
  <2>1. /\ refresh[d].peer = 0 /\ refresh[d].m \in DOMAIN log[d]
        /\ refresh[d] \in Replaying
    BY <1>3, <1>13 DEF Replay, Unharmed, VerInv, UserInv, InLog, Looking, Resuming, Idle
  <2>2. /\ queue'[d] = queue[d] \/ (queue'[d].pc # "idle" => queue'[d].peer = 0 /\ Original(queue'[d].value))
        /\ \A e \in User \ {d} : queue'[e] = queue[e]
    BY <1>13, <2>1, QueuesHarmlessly DEF Replay
  <2>3. ASSUME NEW pc \in {"look", "replayed"}
        PROVE  [refresh[d] EXCEPT !.pc = pc].peer = 0 /\ [refresh[d] EXCEPT !.pc = pc].pc = pc
    BY <2>1 DEF Replaying
  <2>4. \E pc \in {"look", "replayed"} : refresh'[d] = [refresh[d] EXCEPT !.pc = pc] /\ \A e \in User \ {d} : refresh'[e] = refresh[e]
    BY <1>3, <1>13 DEF Replay, Continue
  <2>5. refresh'[d].peer = 0 /\ refresh'[d].pc # "save" /\ \A e \in User \ {d} : refresh'[e] = refresh[e]
    BY <2>3, <2>4
  <2> QED
    BY <1>3, <1>4, <1>13, <2>2, <2>5 DEF Replay, Harmless, Alone, local
<1>14. CASE Look(d)
  <2>1. refresh[d].peer = 0 /\ refresh[d] \in Looking \cup Replaying
    BY <1>3, <1>14 DEF Look, Unharmed, Resuming, Idle
  <2>2. stale' = stale
    BY <1>3, <1>14, NeverDiffers DEF Look
  <2>3. \A todo : [refresh[d] EXCEPT !.todo = todo].peer = 0 /\ [refresh[d] EXCEPT !.todo = todo].pc = refresh[d].pc
    BY <2>1 DEF Looking, Replaying
  <2>4. /\ \/ refresh'[d].pc = "queued" /\ refresh'[d].peer = 0
           \/ refresh'[d] = [refresh[d] EXCEPT !.todo = Tail(refresh[d].todo)]
        /\ \A e \in User \ {d} : refresh'[e] = refresh[e]
    BY <1>3, <1>14, <2>1 DEF Look, Continue
  <2>5. refresh'[d].peer = 0 /\ refresh'[d].pc # "save"
    BY <1>14, <2>3, <2>4 DEF Look
  <2> QED
    BY <1>3, <1>4, <1>14, <2>2, <2>4, <2>5 DEF Look, Harmless, Alone, local
<1>15. CASE Replayed(d)
  <2>1. refresh[d].peer = 0 /\ stale' = stale
    <3>1. refresh[d].peer = 0
      BY <1>15 DEF Replayed, Unharmed
    <3> QED
      BY <1>15, <3>1, NeverDiffers DEF Replayed
  <2>2. /\ refresh'[d] = Idle \/ (refresh'[d].peer = 0 /\ refresh'[d].pc = "look")
        /\ \A e \in User \ {d} : refresh'[e] = refresh[e]
    BY <1>3, <1>15, <2>1 DEF Replayed
  <2> QED
    BY <1>3, <1>4, <1>15, <2>1, <2>2 DEF Replayed, Harmless, Alone, local
<1>16. CASE Rest(d)
  <2>1. refresh[d].peer = 0 /\ stale' = stale
    <3>1. refresh[d].peer = 0
      BY <1>16 DEF Rest, Unharmed
    <3> QED
      BY <1>16, <3>1, NeverDiffers DEF Rest
  <2>2. Original(NewTrust(d, 0))
    BY <1>3, NewFields DEF Original
  <2>3. /\ \/ refresh'[d] = Idle
           \/ refresh'[d].peer = 0 /\ refresh'[d].pc = "send"
           \/ refresh'[d].peer = 0 /\ refresh'[d].value = NewTrust(d, 0)
        /\ \A e \in User \ {d} : refresh'[e] = refresh[e]
    BY <1>3, <1>16, <2>1 DEF Rest, End, Continue
  <2> QED
    BY <1>3, <1>4, <1>16, <2>1, <2>2, <2>3 DEF Rest, Harmless, Alone, local
<1>17. CASE Visit(d) \/ RefreshAgain(d)
  <2>1. stale' = stale
    BY <1>3, <1>17, NeverDiffers DEF Visit, RefreshAgain, Begin, Trusting
  <2>2. /\ refresh'[d] = refresh[d] \/ (refresh'[d].peer = 0 /\ refresh'[d].pc = "look")
        /\ \A e \in User \ {d} : refresh'[e] = refresh[e]
    BY <1>3, <1>17 DEF Visit, RefreshAgain, Begin
  <2> QED
    BY <1>3, <1>4, <1>17, <2>1, <2>2 DEF Visit, RefreshAgain, Harmless, Alone, local
<1>18. CASE TrustChanged(d) \/ OpenChat(d)
  <2>1. stale' = stale
    BY <1>3, <1>18, NeverDiffers DEF TrustChanged, OpenChat
  <2> QED
    BY <1>4, <1>18, <2>1 DEF TrustChanged, OpenChat, Harmless, Alone, local, tasks
<1>19. CASE StartIdentityVerification(d)
  BY <1>3, <1>4, <1>19 DEF StartIdentityVerification, Harmless, Alone, local
<1> QED
  BY <1>2, <1>5, <1>6, <1>7, <1>8, <1>9, <1>10, <1>11, <1>12, <1>13, <1>14, <1>15, <1>16, <1>17, <1>18, <1>19 DEF Write, Step, Does

\* d is about to answer a proof.
Replying(d) == queue[d].pc \in {"save", "reply"} /\ queue[d].reply
\* A proof that reached d is still to be handled.
Waits(d, i) == i \in mail[d] \/ (inbox[d].pc = "queued" /\ inbox[d].m = i)
\* Of a nonce n of d: it is in a proof, or a task is going to send it.
Carried(d, n) == \/ \E q \in Sent(Peer(d)) : q.nonce = n
                 \/ starting[d].pc = "saved" /\ starting[d].nonce = n
                 \/ Replying(d) /\ ~queue[d].only /\ queue[d].value.nonce = n
                 \/ refresh[d].pc = "send" /\ refresh[d].value.nonce = n
\* Of a nonce n of the other one: d has acknowledged it, or is about to.
Receipted(d, n) == \/ \E q \in Sent(Peer(d)) : q.ack = n
                   \/ Replying(d) /\ queue[d].ack = n
\* Of a record r of d: its challenge is out, and what it received was answered.
Going(d, r) ==
  /\ Carried(d, r.nonce)
  /\ r.received # 0 => Receipted(d, r.received)
  /\ \A q \in Sent(Peer(d)) : q.nonce = r.nonce /\ q.ack # 0 => r.received # 0
  /\ refresh[d].pc = "send" /\ refresh[d].value.nonce = r.nonce /\ refresh[d].value.received # 0 => r.received # 0
\* It has every receipt that does not wait any more.
Heeds(d, r) ==
  \A i \in DOMAIN log[d] : log[d][i].ack = r.nonce =>
     Waits(d, i) \/ (r.ack /\ (log[d][i].nonce # 0 => r.received # 0))
\* The proof with the nonce n of d is itself an answer.
Answers(d, n) == \E q \in Sent(Peer(d)) : q.nonce = n /\ q.ack # 0

\* Without a record nothing was sent, and all that came is still to be handled.
NotBegun(d) ==
  trust[d] = None => /\ log[Peer(d)] = << >> /\ starting[d].pc # "saved" /\ queue[d].pc # "reply" /\ refresh[d].pc # "send"
                     /\ (queue[d].pc # "save" => \A i \in DOMAIN log[d] : Waits(d, i))
Standing(d) ==
  /\ trust[d] # None => Going(d, trust[d]) /\ (queue[d].pc # "save" => Heeds(d, trust[d]))
  /\ queue[d].pc = "save" => Going(d, queue[d].value) /\ Heeds(d, queue[d].value)
\* An answer that is only a receipt answers an answer.
QueueFits(d) ==
  /\ queue[d].pc # "idle" =>
       /\ log[d] # << >> /\ queue[d].value.nonce # 0
       /\ (queue[d].reply => queue[d].ack # 0 /\ queue[d].value.received # 0)
       /\ (queue[d].only => Answers(Peer(d), queue[d].ack))
  /\ queue[d].pc = "reply" => queue[d].reply
  /\ queue[d].pc = "reply" /\ trust[d] # None /\ trust[d].nonce = queue[d].value.nonce => trust[d].received # 0
SendsFit(d) ==
  /\ starting[d].pc = "saved" => starting[d].nonce # 0
  /\ refresh[d].pc = "save" => refresh[d].value.received = 0
  /\ refresh[d].pc = "send" => /\ refresh[d].value.nonce # 0
                               /\ (refresh[d].value.received # 0 => Receipted(d, refresh[d].value.received))
LogFits(d) ==
  /\ \A i \in DOMAIN log[d] : log[d][i].nonce # 0 => Waits(d, i) \/ Receipted(d, log[d][i].nonce)
  /\ \A p \in Sent(d) : p.nonce = 0 => log[Peer(d)] # << >> /\ Answers(d, p.ack)
Handshake(d) == NotBegun(d) /\ Standing(d) /\ QueueFits(d) /\ SendsFit(d) /\ LogFits(d)
HandshakeInv == net.calm /\ Shared => \A d \in User : Handshake(d)

-----------------------------------------------------------------------------
(* Steps that leave a handshake as it is. *)

Idles(d) == /\ trust'[d] = trust[d] /\ queue'[d] = queue[d] /\ log'[d] = log[d] /\ log'[Peer(d)] = log[Peer(d)]
            /\ \A i \in DOMAIN log[d] : Waits(d, i) => Waits(d, i)'
            /\ starting'[d] = starting[d] \/ (starting[d].pc # "saved" /\ starting'[d].pc # "saved")
            /\ \/ refresh'[d] = refresh[d]
               \/ /\ refresh[d].pc # "send" /\ refresh'[d].pc # "send"
                  /\ refresh'[d].pc = "save" => refresh'[d].value.received = 0

LEMMA IdlesSent ==
  ASSUME NEW d \in User, log'[d] = log[d], log'[Peer(d)] = log[Peer(d)]
  PROVE  Sent(d)' = Sent(d) /\ Sent(Peer(d))' = Sent(Peer(d)) /\ \A n : (Answers(d, n)' <=> Answers(d, n))
BY DEF Sent, Answers

LEMMA HandshakeStays ==
  ASSUME NEW d \in User, Handshake(d), Idles(d)
  PROVE  Handshake(d)'
<1>1. Sent(d)' = Sent(d) /\ Sent(Peer(d))' = Sent(Peer(d))
  BY IdlesSent DEF Idles
<1>2. \A n : (Carried(d, n)' <=> Carried(d, n)) /\ (Receipted(d, n)' <=> Receipted(d, n)) /\ (Answers(d, n)' <=> Answers(d, n))
  BY <1>1 DEF Idles, Carried, Receipted, Replying, Answers
<1>3. \A n : Answers(Peer(d), n)' <=> Answers(Peer(d), n)
  BY <1>1, PeerBack DEF Answers
<1>4. \A r : (Going(d, r) => Going(d, r)') /\ (Heeds(d, r) => Heeds(d, r)')
  <2>1. ASSUME NEW r, Going(d, r)
        PROVE  Going(d, r)'
    BY <1>1, <1>2, <2>1 DEF Idles, Going
  <2>2. ASSUME NEW r, Heeds(d, r)
        PROVE  Heeds(d, r)'
    BY <2>2 DEF Idles, Heeds
  <2> QED
    BY <2>1, <2>2
<1>5. NotBegun(d)'
  BY DEF Handshake, NotBegun, Idles
<1>6. Standing(d)'
  BY <1>4 DEF Handshake, Standing, Idles
<1>7. QueueFits(d)'
  BY <1>3 DEF Handshake, QueueFits, Idles
<1>8. SendsFit(d)'
  BY <1>2 DEF Handshake, SendsFit, Idles
<1>9. LogFits(d)'
  BY <1>1, <1>2 DEF Handshake, LogFits, Idles
<1> QED
  BY <1>5, <1>6, <1>7, <1>8, <1>9 DEF Handshake

\* The other one, when d sends nothing.
LEMMA OtherIdles ==
  ASSUME NEW d \in User, Alone(d), log' = log, \A e \in User \ {d} : mail'[e] = mail[e]
  PROVE  \A e \in User \ {d} : Idles(e)
BY Peers DEF Alone, Idles, Waits

LEMMA LooksAround ==
  ASSUME VerInv, NEW d \in User, \A e \in User : Unharmed(e) /\ Handshake(e),
         \/ Decrypt(d) \/ OpenChat(d) \/ StartIdentityVerification(d) \/ Look(d) \/ Replayed(d) \/ TrustChanged(d)
         \/ Visit(d) \/ RefreshAgain(d)
  PROVE  \A e \in User : Handshake(e)'
<1>1. /\ starting \in [User -> StartTask \cup {Idle}] /\ inbox \in [User -> InboxTask \cup {Idle}]
      /\ refresh \in [User -> Looking \cup Replaying \cup Resuming \cup {Idle}] /\ Idle.pc = "idle"
      /\ mail \in [User -> SUBSET Nat] /\ \A e \in User : mail[e] \subseteq DOMAIN log[e]
  BY DEF VerInv, TypeOK, TaskTypes, Idle
<1>2. UNCHANGED <<trust, log, queue>>
  BY DEF Decrypt, OpenChat, StartIdentityVerification, Look, Replayed, TrustChanged, Visit, RefreshAgain, tasks
<1>3. CASE Decrypt(d)
  <2>1. UNCHANGED <<starting, refresh>> /\ \A e \in User \ {d} : mail'[e] = mail[e] /\ inbox'[e] = inbox[e]
    BY <1>1, <1>3 DEF Decrypt
  <2>2. PICK i \in mail[d] :
          /\ mail'[d] = mail[d] \ {i}
          /\ inbox'[d] = IF Open(d, i, published[Peer(d)]) /\ unlocked[d]
                           THEN [pc |-> "queued", m |-> i, peer |-> published[Peer(d)]] ELSE Idle
    BY <1>1, <1>3 DEF Decrypt
  <2>3. inbox[d].pc # "queued" /\ i \in DOMAIN log[d]
    BY <1>1, <1>3 DEF Decrypt
  <2>4. Open(d, i, published[Peer(d)]) /\ unlocked[d]
    <3>1. log[d][i] \in Sent(d) /\ key[d] = 0 /\ published[Peer(d)] = 0 /\ unlocked[d] /\ ~Differs(d, 0)
      BY <2>3, Peers, NeverDiffers DEF Sent, Unharmed
    <3> QED
      BY <3>1 DEF Open, Unharmed
  <2>5. Idles(d)
    BY <1>2, <2>1, <2>2, <2>3, <2>4 DEF Idles, Waits
  <2> QED
    BY <1>2, <2>1, <2>5, OtherIdles, HandshakeStays DEF Alone
<1>4. CASE OpenChat(d)
  <2>1. Idles(d)
    BY <1>1, <1>2, <1>4 DEF OpenChat, Idles, Waits, tasks
  <2>2. Alone(d) /\ \A e \in User \ {d} : mail'[e] = mail[e]
    BY <1>1, <1>2, <1>4 DEF OpenChat, Alone, tasks
  <2> QED
    BY <1>2, <2>1, <2>2, OtherIdles, HandshakeStays
<1>5. CASE StartIdentityVerification(d)
  <2>1. UNCHANGED <<mail, inbox, refresh>> /\ starting'[d].pc = "got" /\ starting[d].pc = "idle"
        /\ \A e \in User \ {d} : starting'[e] = starting[e]
    BY <1>1, <1>5 DEF StartIdentityVerification
  <2>2. Idles(d)
    BY <1>2, <2>1 DEF Idles, Waits
  <2> QED
    BY <1>2, <2>1, <2>2, OtherIdles, HandshakeStays DEF Alone
<1>6. CASE Look(d) \/ Replayed(d) \/ TrustChanged(d) \/ Visit(d) \/ RefreshAgain(d)
  <2>1. UNCHANGED <<mail, inbox, starting>>
    BY <1>6 DEF Look, Replayed, TrustChanged, Visit, RefreshAgain, tasks
  <2>2. /\ refresh'[d] = refresh[d] \/ (refresh[d].pc # "send" /\ refresh'[d].pc \notin {"send", "save"})
        /\ \A e \in User \ {d} : refresh'[e] = refresh[e]
    <3>1. CASE Look(d)
      <4>1. refresh[d] \in Looking \cup Replaying
        BY <1>1, <3>1 DEF Look, Resuming
      <4>2. \A todo : [refresh[d] EXCEPT !.todo = todo].pc = refresh[d].pc
        BY <4>1 DEF Looking, Replaying
      <4>3. /\ \/ refresh'[d].pc = "queued"
               \/ refresh'[d] = [refresh[d] EXCEPT !.todo = Tail(refresh[d].todo)]
            /\ \A e \in User \ {d} : refresh'[e] = refresh[e]
        BY <1>1, <3>1, <4>1 DEF Look, Continue
      <4> QED
        BY <3>1, <4>2, <4>3 DEF Look
    <3>2. CASE Replayed(d)
      BY <1>1, <3>2 DEF Replayed
    <3>3. CASE TrustChanged(d)
      BY <3>3 DEF TrustChanged, tasks
    <3>4. CASE Visit(d) \/ RefreshAgain(d)
      BY <1>1, <3>4 DEF Visit, RefreshAgain, Begin
    <3> QED
      BY <1>6, <3>1, <3>2, <3>3, <3>4
  <2>3. Idles(d)
    BY <1>2, <2>1, <2>2 DEF Idles, Waits
  <2> QED
    BY <1>2, <2>1, <2>2, <2>3, OtherIdles, HandshakeStays DEF Alone
<1> QED
  BY <1>3, <1>4, <1>5, <1>6

LEMMA RestsAndGoesOn ==
  ASSUME VerInv, NEW d \in User, \A e \in User : Handshake(e), ~Writing(d), Rest(d)
  PROVE  \A e \in User : Handshake(e)'
<1>1. refresh \in [User -> Looking \cup Replaying \cup Resuming \cup {Idle}] /\ Idle.pc = "idle" /\ refresh[d].pc = "look"
  BY DEF VerInv, TaskTypes, Idle, Rest
<1>2. UNCHANGED <<trust, log, mail, queue, inbox, starting>> /\ \A e \in User \ {d} : refresh'[e] = refresh[e]
  BY <1>1 DEF Rest, End, Continue
<1>3. \A e \in User \ {d} : Handshake(e)'
  BY <1>2, OtherIdles, HandshakeStays DEF Alone
<1>4. CASE refresh'[d] = Idle
  BY <1>1, <1>2, <1>3, <1>4, HandshakeStays DEF Idles, Waits
<1>5. CASE refresh'[d].pc = "save" /\ refresh'[d].value = NewTrust(d, refresh[d].peer)
  <2>1. refresh'[d].value.received = 0
    BY <1>5 DEF NewTrust
  <2> QED
    BY <1>1, <1>2, <1>3, <1>5, <2>1, HandshakeStays DEF Idles, Waits
<1>6. CASE refresh'[d].pc = "send" /\ refresh'[d].value = trust[d] /\ trust[d] # None
  <2>1. trust[d].nonce # 0 /\ queue[d].pc # "save"
    BY <1>6, RecordsFit DEF Records, Fit, Good, Trust, Writing
  <2>2. Sent(d)' = Sent(d) /\ Sent(Peer(d))' = Sent(Peer(d)) /\ \A e : \A n : Answers(e, n)' <=> Answers(e, n)
    BY <1>2 DEF Sent, Answers
  <2>3. \A n : (Carried(d, n) => Carried(d, n)') /\ (Receipted(d, n)' <=> Receipted(d, n))
    BY <1>1, <1>2, <2>2 DEF Carried, Receipted, Replying
  <2>4. Going(d, trust[d]) /\ Heeds(d, trust[d])
    BY <1>6, <2>1 DEF Handshake, Standing
  <2>5. (Going(d, trust[d]) /\ Heeds(d, trust[d]))'
    BY <1>2, <1>6, <2>2, <2>3, <2>4 DEF Going, Heeds, Waits
  <2>6. NotBegun(d)' /\ Standing(d)'
    BY <1>2, <1>6, <2>1, <2>5 DEF NotBegun, Standing
  <2>7. QueueFits(d)' /\ LogFits(d)'
    BY <1>2, <2>2, <2>3 DEF Handshake, QueueFits, LogFits, Waits
  <2>8. SendsFit(d)'
    BY <1>2, <1>6, <2>1, <2>3, <2>4 DEF Handshake, SendsFit, Going
  <2> QED
    BY <1>3, <2>6, <2>7, <2>8 DEF Handshake
<1>7. Judged(d, refresh[d].peer) = "pending" => trust[d] # None
  BY DEF Judged
<1>8. \/ refresh'[d] = Idle
      \/ refresh'[d].pc = "save" /\ refresh'[d].value = NewTrust(d, refresh[d].peer)
      \/ refresh'[d].pc = "send" /\ refresh'[d].value = trust[d] /\ trust[d] # None
  BY <1>1, <1>7 DEF Rest, End, Continue
<1> QED
  BY <1>4, <1>5, <1>6, <1>8

-----------------------------------------------------------------------------
(* A proof is read. *)

LEMMA ReadsOn ==
  ASSUME VerInv, Shared, NEW d \in User, \A e \in User : Unharmed(e) /\ Handshake(e), queue[d] = Idle,
         NEW i \in DOMAIN log[d], NEW by \in {"inbox", "refresh"}, ReadRecord(d, i, 0, by),
         UNCHANGED <<trust, log, starting>>,
         refresh'[d] = refresh[d] \/ (refresh[d].pc # "send" /\ refresh'[d].pc \notin {"send", "save"}),
         \A j \in DOMAIN log[d] : j # i /\ Waits(d, j) => Waits(d, j)'
  PROVE  Handshake(d)'
<1>1. PICK p \in Proof : p = log[d][i] /\ p \in Sent(d) /\ p.nonce \in Nat
  <2>1. log[d][i] \in Proof /\ log[d][i] \in Sent(d)
    BY SentTyped DEF VerInv, Sent
  <2> QED
    BY <2>1 DEF Proof
<1> DEFINE base == IF trust[d] = None THEN NewTrust(d, 0) ELSE trust[d]
<1>2. Genuine(d, p, 0)
  <2>1. secret[Peer(d)] = secret[d]
    BY Peers DEF Shared, User
  <2> QED
    BY <1>1, <2>1 DEF Genuine, Unharmed
<1>3. base \in Trust /\ base.nonce # 0
  <2>1. net.nonces \in Nat
    BY DEF VerInv, TaskTypes
  <2>2. CASE trust[d] = None
    BY <2>1, <2>2, NewFields DEF Fresh
  <2>3. CASE trust[d] # None
    BY <2>3, RecordsFit DEF Records, Fit, Good, Trust
  <2> QED
    BY <2>2, <2>3
<1>4. trust[d] = None => /\ base.received = 0 /\ p.nonce # 0 /\ refresh[d].pc # "send"
                         /\ (\A q \in Sent(Peer(d)) : q.nonce # base.nonce) /\ \A q \in Sent(d) : q.ack # base.nonce
  <2> SUFFICES ASSUME trust[d] = None
               PROVE  /\ base.received = 0 /\ p.nonce # 0 /\ refresh[d].pc # "send"
                      /\ (\A q \in Sent(Peer(d)) : q.nonce # base.nonce) /\ \A q \in Sent(d) : q.ack # base.nonce
    OBVIOUS
  <2>1. base.received = 0 /\ base.nonce = Fresh /\ base.nonce \in Nat /\ net.nonces \in Nat
    BY <1>3, NewFields DEF VerInv, TaskTypes, Trust
  <2>2. base.nonce > net.nonces
    BY <2>1 DEF Fresh
  <2>3. p.nonce # 0 /\ refresh[d].pc # "send"
    BY <1>1 DEF Handshake, NotBegun, LogFits
  <2> HIDE DEF base
  <2> QED
    BY <2>1, <2>2, <2>3, FreshUnsent
<1>5. trust[d] # None => base = trust[d] /\ Going(d, trust[d]) /\ Heeds(d, trust[d])
  <2>1. queue[d].pc # "save"
    BY DEF Idle
  <2> QED
    BY <2>1 DEF Handshake, Standing
<1>6. trust[d] = None => \A j \in DOMAIN log[d] : Waits(d, j)
  BY DEF Handshake, NotBegun, Idle
<1> HIDE DEF base
<1>7. PICK value \in Trust :
        /\ value = After(base, p) /\ value.nonce = base.nonce /\ value.nonce # 0
      /\ value.received = (IF p.nonce # 0 THEN p.nonce ELSE base.received)
      /\ value.ack = (base.ack \/ p.ack = base.nonce)
  BY <1>1, <1>3, AfterFields
<1>8. ~Unanswered(base, p) /\ p.nonce # 0 => base.received = p.nonce
  BY DEF Unanswered
<1>9. Sent(d)' = Sent(d) /\ Sent(Peer(d))' = Sent(Peer(d)) /\ \A n : Answers(Peer(d), n)' <=> Answers(Peer(d), n)
  BY PeerBack DEF Sent, Answers
<1>10. \A n : Answers(d, n)' <=> Answers(d, n)
  BY <1>9 DEF Answers
<1>11. queue[d].pc = "idle" /\ ~Replying(d)
  BY DEF Replying, Idle
<1>12. \A n : (Carried(d, n) => Carried(d, n)') /\ (Receipted(d, n) => Receipted(d, n)')
  <2>1. ASSUME NEW n, Carried(d, n)
        PROVE  Carried(d, n)'
    BY <1>9, <1>11, <2>1 DEF Carried
  <2>2. ASSUME NEW n, Receipted(d, n)
        PROVE  Receipted(d, n)'
    BY <1>9, <1>11, <2>2 DEF Receipted
  <2> QED
    BY <2>1, <2>2
<1>13. trust[d] # None => Going(d, trust[d])'
  <2>1. \A r : Going(d, r) => Carried(d, r.nonce)' /\ (r.received # 0 => Receipted(d, r.received)')
    BY <1>12 DEF Going
  <2> QED
    BY <1>5, <1>9, <2>1 DEF Going
\* Every receipt but that of p waits as before.
<1>14. ASSUME NEW j \in DOMAIN log[d], log[d][j].ack = value.nonce
       PROVE  Waits(d, j)' \/ (value.ack /\ (log[d][j].nonce # 0 => value.received # 0))
  <2>1. CASE j = i
    BY <1>1, <1>7, <1>14, <2>1
  <2>2. CASE j # i /\ trust[d] = None
    BY <1>6, <2>2
  <2>3. CASE j # i /\ trust[d] # None
    <3>1. Waits(d, j) \/ (base.ack /\ (log[d][j].nonce # 0 => base.received # 0))
      BY <1>5, <1>7, <1>14, <2>3 DEF Heeds
    <3> QED
      BY <1>7, <2>3, <3>1
  <2> QED
    BY <2>1, <2>2, <2>3
<1>15. Heeds(d, value)'
  BY <1>14 DEF Heeds
<1>16. SendsFit(d)'
  BY <1>12 DEF Handshake, SendsFit
<1>17. CASE queue' = queue /\ ~Unanswered(base, p) /\ trust[d] = value
  <2>1. trust[d] # None
    BY <1>7, <1>17, RecordAssumption
  <2>2. NotBegun(d)' /\ Standing(d)'
    BY <1>11, <1>13, <1>15, <1>17, <2>1 DEF NotBegun, Standing
  <2>3. QueueFits(d)'
    BY <1>11, <1>17 DEF QueueFits
  <2>4. p.nonce # 0 => Receipted(d, p.nonce)
    BY <1>5, <1>8, <1>17, <2>1 DEF Going
  <2>5. LogFits(d)'
    BY <1>1, <1>9, <1>10, <1>12, <2>4 DEF Handshake, LogFits
  <2> QED
    BY <1>16, <2>2, <2>3, <2>5 DEF Handshake
<1>18. ASSUME NEW a, Queued(d, i, by, base, a)
       PROVE  Handshake(d)'
  <2>1. /\ a.value = value /\ a.reply = Unanswered(base, p) /\ a.ack = p.nonce /\ a.only = (p.ack = value.nonce)
        /\ a.pc = (IF value = trust[d] THEN "reply" ELSE "save") /\ (a.pc = "reply" => a.reply)
    BY <1>1, <1>7, <1>18 DEF Queued
  <2>2. queue'[d] = a
    BY <1>18 DEF Queued, VerInv, TaskTypes
  <2>3. a.pc \in {"save", "reply"} /\ (trust[d] = None => a.pc = "save") /\ (a.pc = "reply" => trust[d] = value)
    BY <1>7, <2>1, RecordAssumption
  <2>4. Replying(d)' <=> a.reply
    BY <2>2, <2>3 DEF Replying
  <2>5. a.reply => p.nonce # 0 /\ value.received = p.nonce /\ Receipted(d, p.nonce)'
    BY <1>7, <2>1, <2>2, <2>4 DEF Receipted, Unanswered
  <2>6. trust[d] = None => a.reply /\ ~a.only
    BY <1>1, <1>4, <1>7, <2>1 DEF Unanswered
  <2>7. p.nonce # 0 => Receipted(d, p.nonce)'
    <3>1. CASE a.reply
      BY <2>5, <3>1
    <3>2. CASE ~a.reply
      BY <1>5, <1>8, <1>12, <2>1, <2>6, <3>2 DEF Going
    <3> QED
      BY <3>1, <3>2
  <2>8. Going(d, value)'
    <3>1. Carried(d, value.nonce)'
      <4>1. CASE trust[d] = None
        BY <2>1, <2>2, <2>4, <2>6, <4>1 DEF Carried
      <4>2. CASE trust[d] # None
        BY <1>5, <1>7, <1>12, <4>2 DEF Going
      <4> QED
        BY <4>1, <4>2
    <3>2. value.received # 0 => Receipted(d, value.received)'
      <4>1. CASE p.nonce # 0
        BY <1>7, <2>7, <4>1
      <4>2. CASE p.nonce = 0
        BY <1>4, <1>5, <1>7, <1>12, <4>2 DEF Going
      <4> QED
        BY <4>1, <4>2
    <3>3. \A q \in Sent(Peer(d)) : q.nonce = value.nonce /\ q.ack # 0 => value.received # 0
      BY <1>4, <1>5, <1>7 DEF Going
    <3>4. refresh[d].pc = "send" /\ refresh[d].value.nonce = value.nonce /\ refresh[d].value.received # 0 => value.received # 0
      BY <1>4, <1>5, <1>7 DEF Going
    <3> QED
      BY <1>9, <3>1, <3>2, <3>3, <3>4 DEF Going
  <2>9. NotBegun(d)'
    BY <2>2, <2>3 DEF Handshake, NotBegun
  <2>10. Standing(d)'
    BY <1>13, <1>15, <2>1, <2>2, <2>3, <2>8 DEF Standing
  <2>11. a.only => Answers(Peer(d), p.nonce)
    BY <1>1, <1>7, <2>1, PeerBack DEF Answers
  <2>12. QueueFits(d)'
    <3>1. log[d] # << >>
      OBVIOUS
    <3>2. a.pc = "reply" => trust[d].received # 0
      BY <2>1, <2>3, <2>5
    <3>3. /\ log'[d] # << >> /\ queue'[d].value.nonce # 0
          /\ (queue'[d].reply => queue'[d].ack # 0 /\ queue'[d].value.received # 0)
          /\ (queue'[d].pc = "reply" => queue'[d].reply)
      BY <1>7, <2>1, <2>2, <2>5, <3>1
    <3>4. queue'[d].only => Answers(Peer(d), queue[d].ack)'
      BY <1>9, <2>1, <2>2, <2>11
    <3> QED
      BY <2>1, <2>2, <3>2, <3>3, <3>4 DEF QueueFits
  <2>13. LogFits(d)'
    BY <1>1, <1>9, <1>10, <1>12, <2>7 DEF Handshake, LogFits
  <2> QED
    BY <1>16, <2>9, <2>10, <2>12, <2>13 DEF Handshake
<1> QED
  <2>14. \A b, a : Queued(d, i, by, b, a) => b = base
    BY DEF Queued, base
  <2>15. CASE queue' = queue /\ (~Genuine(d, p, 0) \/ (~Unanswered(base, p) /\ trust[d] = value))
    BY <1>2, <1>17, <2>15
  <2>16. CASE \E b, a : Queued(d, i, by, b, a)
    BY <1>18, <2>14, <2>16
  <2> QED
    BY <1>1, <1>7, <2>15, <2>16, ReadsCalmly DEF base

LEMMA ReadsGoOn ==
  ASSUME VerInv, Shared, NEW d \in User, \A e \in User : Unharmed(e) /\ Handshake(e), Receive(d) \/ Replay(d)
  PROVE  \A e \in User : Handshake(e)'
<1>1. UNCHANGED <<trust, log, starting, mail>>
  BY DEF Receive, Replay
<1>2. CASE Receive(d)
  <2>1. queue[d] = Idle /\ inbox[d].pc = "queued" /\ inbox[d].peer = 0 /\ inbox[d].m \in DOMAIN log[d] /\ refresh' = refresh
    BY <1>2 DEF Receive, VerInv, UserInv, InLog, Unharmed
  <2>2. \A j \in DOMAIN log[d] : j # inbox[d].m /\ Waits(d, j) => Waits(d, j)'
    BY <1>1 DEF Waits
  <2>3. ReadRecord(d, inbox[d].m, 0, "inbox")
    BY <1>2, <2>1 DEF Receive
  <2>4. Handshake(d)'
    BY <1>1, <2>1, <2>2, <2>3, ReadsOn
  <2>5. \A e \in User \ {d} : queue'[e] = queue[e] /\ inbox'[e] = inbox[e]
    BY <1>2, <2>1, <2>3, QueuesHarmlessly DEF Receive, VerInv, TaskTypes
  <2>6. \A e \in User \ {d} : Handshake(e)'
    BY <1>1, <2>1, <2>5, OtherIdles, HandshakeStays DEF Alone
  <2> QED
    BY <2>4, <2>6
<1>3. CASE Replay(d)
  <2>1. /\ queue[d] = Idle /\ refresh[d].pc = "queued" /\ refresh[d].peer = 0 /\ refresh[d].m \in DOMAIN log[d] /\ inbox' = inbox
        /\ refresh \in [User -> Looking \cup Replaying \cup Resuming \cup {Idle}]
    BY <1>3 DEF Replay, VerInv, TaskTypes, UserInv, InLog, Unharmed
  <2>2. refresh[d] \in Replaying
    BY <2>1 DEF Looking, Resuming, Idle
  <2>3. \A pc \in {"replayed", "look"} : [refresh[d] EXCEPT !.pc = pc].pc = pc
    BY <2>2 DEF Replaying
  <2>4. \E pc \in {"replayed", "look"} : refresh'[d] = [refresh[d] EXCEPT !.pc = pc] /\ \A e \in User \ {d} : refresh'[e] = refresh[e]
    BY <1>3, <2>1 DEF Replay, Continue
  <2>5. refresh[d].pc # "send" /\ refresh'[d].pc \notin {"send", "save"} /\ \A e \in User \ {d} : refresh'[e] = refresh[e]
    BY <2>1, <2>3, <2>4
  <2>6. \A j \in DOMAIN log[d] : Waits(d, j) => Waits(d, j)'
    BY <1>1, <2>1 DEF Waits
  <2>7. ReadRecord(d, refresh[d].m, 0, "refresh")
    BY <1>3, <2>1 DEF Replay
  <2>8. Handshake(d)'
    BY <1>1, <2>1, <2>5, <2>6, <2>7, ReadsOn
  <2>9. \A e \in User \ {d} : queue'[e] = queue[e]
    BY <2>1, <2>7, QueuesHarmlessly
  <2>10. \A e \in User \ {d} : Handshake(e)'
    BY <1>1, <2>1, <2>5, <2>9, OtherIdles, HandshakeStays DEF Alone
  <2> QED
    BY <2>8, <2>10
<1> QED
  BY <1>2, <1>3

-----------------------------------------------------------------------------
(* A record is saved. *)

\* One that was just made: d is about to send its challenge.
LEMMA SavesFresh ==
  ASSUME VerInv, NEW d \in User, Handshake(d), NEW r \in Trust, r.received = 0, r.nonce # 0,
         \A q \in Sent(Peer(d)) : q.nonce # r.nonce, \A q \in Sent(d) : q.ack # r.nonce,
         queue[d].pc \in {"save", "reply"} => queue[d].value.nonce # r.nonce,
         refresh[d].pc = "send" => refresh[d].value.nonce # r.nonce,
         trust'[d] = r, UNCHANGED <<log, mail, queue, inbox>>,
         \/ /\ starting[d].pc # "saved" /\ starting'[d].pc = "saved" /\ starting'[d].nonce = r.nonce /\ refresh'[d] = refresh[d]
         \/ /\ refresh[d].pc # "send" /\ refresh'[d].pc = "send" /\ refresh'[d].value = r /\ starting'[d] = starting[d]
  PROVE  Handshake(d)'
<1>1. trust'[d] # None
  BY RecordAssumption
<1>2. Sent(d)' = Sent(d) /\ Sent(Peer(d))' = Sent(Peer(d)) /\ \A i : Waits(d, i)' <=> Waits(d, i)
  BY DEF Sent, Waits
<1>3. \A n : (Answers(d, n)' <=> Answers(d, n)) /\ (Answers(Peer(d), n)' <=> Answers(Peer(d), n))
  BY <1>2, PeerBack DEF Answers
<1>4. \A n : (Carried(d, n) => Carried(d, n)') /\ (Receipted(d, n)' <=> Receipted(d, n))
  BY <1>2 DEF Carried, Receipted, Replying
<1>5. Going(d, r)'
  <2>1. Carried(d, r.nonce)'
    BY DEF Carried
  <2> QED
    BY <1>2, <2>1 DEF Going
<1>6. Heeds(d, r)'
  BY DEF Heeds, Sent
<1>7. queue[d].pc = "save" => Going(d, queue[d].value)' /\ Heeds(d, queue[d].value)'
  <2> SUFFICES ASSUME queue[d].pc = "save"
               PROVE  Going(d, queue[d].value)' /\ Heeds(d, queue[d].value)'
    OBVIOUS
  <2>1. PICK v : v = queue[d].value /\ Going(d, v) /\ Heeds(d, v)
    BY DEF Handshake, Standing
  <2>2. Going(d, v)'
    BY <1>2, <1>4, <2>1 DEF Going
  <2>3. Heeds(d, v)'
    BY <1>2, <2>1 DEF Heeds
  <2> QED
    BY <2>1, <2>2, <2>3
<1>8. Standing(d)' /\ NotBegun(d)'
  BY <1>1, <1>5, <1>6, <1>7 DEF Standing, NotBegun
<1>9. QueueFits(d)'
  BY <1>3 DEF Handshake, QueueFits
<1>10. SendsFit(d)'
  BY <1>4 DEF Handshake, SendsFit
<1>11. LogFits(d)'
  BY <1>2, <1>3, <1>4 DEF Handshake, LogFits
<1> QED
  BY <1>8, <1>9, <1>10, <1>11 DEF Handshake

LEMMA SavesOn ==
  ASSUME VerInv, NEW d \in User, \A e \in User : Unharmed(e) /\ Handshake(e),
         SaveChallenge(d) \/ SaveRecord(d) \/ SaveNew(d)
  PROVE  \A e \in User : Handshake(e)'
<1>1. /\ trust \in [User -> Trust \cup {None}] /\ queue \in [User -> QueueTask \cup {Idle}]
      /\ starting \in [User -> StartTask \cup {Idle}] /\ refresh \in [User -> Looking \cup Replaying \cup Resuming \cup {Idle}]
      /\ Idle.pc = "idle" /\ net.nonces \in Nat
  BY DEF VerInv, TypeOK, TaskTypes, Idle
<1>2. UNCHANGED <<log, mail, inbox>> /\ \A e \in User \ {d} : trust'[e] = trust[e]
  BY <1>1 DEF SaveChallenge, SaveRecord, SaveNew, Save
<1>3. \A e \in User \ {d} : queue'[e] = queue[e] /\ starting'[e] = starting[e] /\ refresh'[e] = refresh[e]
  BY <1>1 DEF SaveChallenge, SaveRecord, SaveNew
<1>4. \A e \in User \ {d} : Handshake(e)'
  BY <1>2, <1>3, OtherIdles, HandshakeStays DEF Alone
<1>5. CASE SaveChallenge(d)
  <2>1. PICK r : r = NewTrust(d, 0)
    OBVIOUS
  <2>2. starting[d].peer = 0 /\ starting[d].pc = "got"
    BY <1>5 DEF SaveChallenge, Unharmed
  <2>3. r \in Trust /\ r.received = 0 /\ r.nonce = Fresh /\ Fresh \in Nat /\ Fresh > net.nonces /\ Fresh # 0
    BY <1>1, <2>1, NewFields DEF Fresh
  <2>4. (\A q \in Sent(Peer(d)) : q.nonce # r.nonce) /\ \A q \in Sent(d) : q.ack # r.nonce
    BY <2>3, FreshUnsent
  <2>5. ~Uses(d, r.nonce)
    BY <1>1, <2>3 DEF VerInv, UserInv, NonceInv
  <2>6. /\ trust'[d] = r /\ UNCHANGED <<queue, refresh>>
        /\ starting'[d].pc = "saved" /\ starting'[d].nonce = r.nonce
    BY <1>1, <1>5, <2>1, <2>2, <2>3 DEF SaveChallenge, Save
  <2>7. Handshake(d)'
    BY <1>2, <2>2, <2>3, <2>4, <2>5, <2>6, SavesFresh DEF Uses
  <2> QED
    BY <1>4, <2>7
<1>6. CASE SaveNew(d)
  <2>1. PICK r : r = refresh[d].value
    OBVIOUS
  <2>2. refresh[d].pc = "save" /\ refresh[d] \in Resuming /\ r \in Records(d)
    BY <1>6, <2>1, TaskFacts DEF SaveNew, VerInv, Records
  <2>3. r \in Trust /\ r.received = 0 /\ r.nonce \in Nat /\ r.nonce # 0
    BY <2>1, <2>2, RecordsFit DEF Fit, Good, Trust, Handshake, SendsFit
  <2>4. ~Uses(d, r.nonce)
    BY <2>1, <2>2 DEF VerInv, UserInv, NonceInv
  <2>5. (\A q \in Sent(Peer(d)) : q.nonce # r.nonce) /\ \A q \in Sent(d) : q.ack # r.nonce
    <3>1. \A q \in Sent(Peer(d)) : q.nonce # r.nonce
      BY <2>4 DEF Uses
    <3> QED
      BY <2>3, <3>1, FreshUnsent
  <2>6. refresh'[d] = [refresh[d] EXCEPT !.pc = "send"] /\ trust'[d] = r /\ UNCHANGED <<queue, starting>>
    BY <1>1, <1>6, <2>1 DEF SaveNew, Save
  <2>7. refresh'[d].pc = "send" /\ refresh'[d].value = r
    BY <2>1, <2>2, <2>6 DEF Resuming
  <2>8. Handshake(d)'
    BY <1>2, <2>2, <2>3, <2>4, <2>5, <2>6, <2>7, SavesFresh DEF Uses
  <2> QED
    BY <1>4, <2>8
<1>7. CASE SaveRecord(d)
  <2>1. PICK v : v = queue[d].value
    OBVIOUS
  <2>2. queue[d].pc = "save" /\ queue[d] \in QueueTask /\ v \in Trust /\ UNCHANGED <<starting, refresh>>
    BY <1>1, <1>7, <2>1 DEF SaveRecord, QueueTask
  <2>3. /\ trust'[d] = v /\ trust'[d] # None
        /\ \/ queue[d].reply /\ queue'[d] = [queue[d] EXCEPT !.pc = "reply"]
           \/ ~queue[d].reply /\ queue'[d] = Idle
    BY <1>1, <1>7, <2>1, <2>2, RecordAssumption DEF SaveRecord, Save
  <2>4. \/ /\ queue[d].reply /\ queue'[d].pc = "reply" /\ queue'[d].reply /\ queue'[d].only = queue[d].only
           /\ queue'[d].value = v /\ queue'[d].ack = queue[d].ack
        \/ ~queue[d].reply /\ queue'[d].pc = "idle"
    BY <1>1, <2>1, <2>2, <2>3 DEF QueueTask
  <2>5. /\ Sent(d)' = Sent(d) /\ Sent(Peer(d))' = Sent(Peer(d)) /\ \A i : Waits(d, i)' <=> Waits(d, i)
    BY <1>2 DEF Sent, Waits
  <2>6. \A n : (Answers(d, n)' <=> Answers(d, n)) /\ (Answers(Peer(d), n)' <=> Answers(Peer(d), n))
    BY <2>5, PeerBack DEF Answers
  <2>7. Replying(d) <=> queue[d].reply
    BY <2>2 DEF Replying
  <2>8. Replying(d)' <=> queue[d].reply
    BY <2>4 DEF Replying
  <2>9. \A n : (Carried(d, n) => Carried(d, n)') /\ (Receipted(d, n) => Receipted(d, n)')
    BY <2>1, <2>2, <2>4, <2>5, <2>7, <2>8 DEF Carried, Receipted
  <2>10. Going(d, v)' /\ Heeds(d, v)'
    <3>1. Going(d, v) /\ Heeds(d, v)
      BY <2>1, <2>2 DEF Handshake, Standing
    <3> QED
      BY <1>2, <2>2, <2>5, <2>9, <3>1 DEF Going, Heeds
  <2>11. Standing(d)' /\ NotBegun(d)'
    BY <2>3, <2>4, <2>10 DEF Standing, NotBegun
  <2>12. QueueFits(d)'
    <3>1. log[d] # << >> /\ v.nonce # 0 /\ (queue[d].reply => queue[d].ack # 0 /\ v.received # 0)
          /\ (queue[d].only => Answers(Peer(d), queue[d].ack))
      BY <2>1, <2>2 DEF Handshake, QueueFits
    <3> QED
      BY <1>2, <2>3, <2>4, <2>6, <3>1 DEF QueueFits
  <2>13. SendsFit(d)' /\ LogFits(d)'
    BY <1>2, <2>2, <2>5, <2>6, <2>9 DEF Handshake, SendsFit, LogFits
  <2> QED
    BY <1>4, <2>11, <2>12, <2>13 DEF Handshake
<1> QED
  BY <1>5, <1>6, <1>7

-----------------------------------------------------------------------------
(* A proof is sent. *)

\* What holds of a proof p that d sends.
Fair(d, p) ==
  /\ trust[d] # None /\ queue[d].pc # "save"
  /\ p.nonce = trust[d].nonce /\ p.ack # 0 => trust[d].received # 0
  /\ p.nonce = 0 => log[d] # << >> /\ Answers(Peer(d), p.ack)
\* The task of d that sends it ends.
Ends(d, p) ==
  \/ /\ starting[d].pc = "saved" /\ p.nonce = starting[d].nonce /\ starting'[d] = Idle
     /\ queue'[d] = queue[d] /\ refresh'[d] = refresh[d]
  \/ /\ queue[d].pc = "reply" /\ p.ack = queue[d].ack /\ p.nonce = (IF queue[d].only THEN 0 ELSE queue[d].value.nonce)
     /\ queue'[d] = Idle /\ starting'[d] = starting[d] /\ refresh'[d] = refresh[d]
  \/ /\ refresh[d].pc = "send" /\ p.nonce = refresh[d].value.nonce /\ refresh'[d] = Idle
     /\ queue'[d] = queue[d] /\ starting'[d] = starting[d]

LEMMA SenderGoesOn ==
  ASSUME VerInv, NEW d \in User, Handshake(d), NEW p \in Proof, Fair(d, p), Ends(d, p), Logs(Peer(d), p),
         trust'[d] = trust[d], \A i \in DOMAIN log[d] : Waits(d, i) => Waits(d, i)'
  PROVE  Handshake(d)'
<1>1. Sent(Peer(d))' = Sent(Peer(d)) \cup {p} /\ Sent(d)' = Sent(d) /\ log'[d] = log[d] /\ Idle.pc = "idle"
  BY Peers, LogGrows DEF VerInv, Idle
<1>2. log'[Peer(d)] # << >>
  <2>1. log[Peer(d)] \in Seq(Proof)
    BY Peers DEF VerInv, TypeOK
  <2>2. log'[Peer(d)] = Append(log[Peer(d)], p)
    BY Peers DEF Logs, VerInv, TypeOK
  <2> QED
    BY <2>1, <2>2
<1>3. \A n : (Answers(d, n) => Answers(d, n)') /\ (Answers(Peer(d), n)' <=> Answers(Peer(d), n))
  BY <1>1, PeerBack DEF Answers
<1>4. \A n : Receipted(d, n) => Receipted(d, n)'
  <2> SUFFICES ASSUME NEW n, Receipted(d, n)
               PROVE  Receipted(d, n)'
    OBVIOUS
  <2>1. CASE \E q \in Sent(Peer(d)) : q.ack = n
    BY <1>1, <2>1 DEF Receipted
  <2>2. CASE Replying(d) /\ queue[d].ack = n
    <3>1. CASE queue'[d] = queue[d]
      BY <2>2, <3>1 DEF Receipted, Replying
    <3>2. CASE p.ack = n
      BY <1>1, <3>2 DEF Receipted
    <3> QED
      BY <2>2, <3>1, <3>2 DEF Ends
  <2> QED
    BY <2>1, <2>2 DEF Receipted
<1>5. \A n : Carried(d, n) => Carried(d, n)'
  <2> SUFFICES ASSUME NEW n, Carried(d, n)
               PROVE  Carried(d, n)'
    OBVIOUS
  <2>1. CASE p.nonce = n \/ \E q \in Sent(Peer(d)) : q.nonce = n
    BY <1>1, <2>1 DEF Carried
  <2>2. CASE starting[d].pc = "saved" /\ starting[d].nonce = n /\ p.nonce # n
    BY <2>2 DEF Carried, Ends
  <2>3. CASE Replying(d) /\ ~queue[d].only /\ queue[d].value.nonce = n /\ p.nonce # n
    BY <2>3 DEF Carried, Replying, Ends
  <2>4. CASE refresh[d].pc = "send" /\ refresh[d].value.nonce = n /\ p.nonce # n
    BY <2>4 DEF Carried, Ends
  <2> QED
    BY <2>1, <2>2, <2>3, <2>4 DEF Carried
<1>6. Going(d, trust[d]) /\ Heeds(d, trust[d]) /\ queue'[d].pc # "save" /\ trust[d] # None
  BY <1>1 DEF Handshake, Standing, Fair, Ends
<1>7. PICK r : r = trust[d]
  OBVIOUS
<1>8. Going(d, r)'
  <2>1. \A q \in Sent(Peer(d))' : q.nonce = r.nonce /\ q.ack # 0 => r.received # 0
    BY <1>1, <1>6, <1>7 DEF Going, Fair
  <2>2. refresh'[d].pc = "send" => refresh'[d] = refresh[d]
    BY <1>1 DEF Ends
  <2> QED
    BY <1>4, <1>5, <1>6, <1>7, <2>1, <2>2 DEF Going
<1>9. Heeds(d, r)'
  BY <1>1, <1>6, <1>7 DEF Heeds
<1>10. Standing(d)' /\ NotBegun(d)'
  BY <1>6, <1>7, <1>8, <1>9 DEF Standing, NotBegun
<1>11. QueueFits(d)'
  <2>1. CASE queue'[d] = queue[d]
    BY <1>1, <1>3, <2>1 DEF Handshake, QueueFits
  <2>2. CASE queue'[d] = Idle
    BY <1>1, <2>2 DEF QueueFits
  <2> QED
    BY <2>1, <2>2 DEF Ends
<1>12. SendsFit(d)'
  <2>1. (starting'[d].pc = "saved" => starting'[d] = starting[d]) /\ (refresh'[d].pc \in {"save", "send"} => refresh'[d] = refresh[d])
    BY <1>1 DEF Ends
  <2> QED
    BY <1>4, <2>1 DEF Handshake, SendsFit
<1>13. LogFits(d)'
  BY <1>1, <1>2, <1>3, <1>4 DEF Handshake, LogFits
<1> QED
  BY <1>10, <1>11, <1>12, <1>13 DEF Handshake

LEMMA ReceiverGoesOn ==
  ASSUME VerInv, NEW d \in User, NEW e \in User, e = Peer(d), Handshake(e), NEW p \in Proof, Fair(d, p), Logs(e, p),
         Len(log[e]) + 1 \in mail'[e], mail[e] \subseteq mail'[e],
         trust'[e] = trust[e] /\ queue'[e] = queue[e] /\ inbox'[e] = inbox[e] /\ starting'[e] = starting[e] /\ refresh'[e] = refresh[e]
  PROVE  Handshake(e)'
<1>1. PICK m : m = Len(log[e]) + 1
  OBVIOUS
<1>2. /\ Sent(e)' = Sent(e) \cup {p} /\ Sent(d)' = Sent(d) /\ log'[d] = log[d] /\ Peer(e) = d
      /\ DOMAIN log'[e] = DOMAIN log[e] \cup {m} /\ \A i \in DOMAIN log[e] : log'[e][i] = log[e][i]
  <2>1. d \in User \ {e} /\ Peer(e) = d
    BY Peers, PeerBack
  <2>2. TypeOK
    BY DEF VerInv
  <2>3. /\ Sent(e)' = Sent(e) \cup {p} /\ \A u \in User \ {e} : log'[u] = log[u] /\ Sent(u)' = Sent(u)
        /\ DOMAIN log'[e] = DOMAIN log[e] \cup {Len(log[e]) + 1} /\ \A i \in DOMAIN log[e] : log'[e][i] = log[e][i]
    BY <2>2, LogGrows
  <2> QED
    BY <1>1, <2>1, <2>3
<1>3. Waits(e, m)' /\ \A i : Waits(e, i) => Waits(e, i)'
  BY <1>1 DEF Waits
<1>4. \A n : (Answers(e, n)' <=> Answers(e, n)) /\ (Answers(d, n) => Answers(d, n)')
  BY <1>2 DEF Answers
<1>5. \A n : (Carried(e, n)' <=> Carried(e, n)) /\ (Receipted(e, n)' <=> Receipted(e, n))
  BY <1>2 DEF Carried, Receipted, Replying
<1>6. \A r : (Going(e, r) => Going(e, r)') /\ (Heeds(e, r) => Heeds(e, r)')
  <2>1. ASSUME NEW r, Going(e, r)
        PROVE  Going(e, r)'
    BY <1>2, <1>5, <2>1 DEF Going
  <2>2. ASSUME NEW r, Heeds(e, r)
        PROVE  Heeds(e, r)'
    BY <1>2, <1>3, <2>2 DEF Heeds
  <2> QED
    BY <2>1, <2>2
<1>7. NotBegun(e)'
  BY <1>2, <1>3 DEF Handshake, NotBegun
<1>8. Standing(e)'
  BY <1>6 DEF Handshake, Standing
<1>9. log'[e] # << >>
  <2>1. log[e] \in Seq(Proof)
    BY DEF VerInv, TypeOK
  <2>2. log'[e] = Append(log[e], p)
    BY DEF Logs, VerInv, TypeOK
  <2> QED
    BY <2>1, <2>2
<1>10. QueueFits(e)'
  BY <1>2, <1>4, <1>9 DEF Handshake, QueueFits
<1>11. SendsFit(e)'
  BY <1>5 DEF Handshake, SendsFit
<1>12. LogFits(e)'
  <2>1. \A i \in DOMAIN log'[e] : \A n : n = log'[e][i].nonce /\ n # 0 => Waits(e, i)' \/ Receipted(e, n)'
    BY <1>2, <1>3, <1>5 DEF Handshake, LogFits
  <2>2. \A q \in Sent(e)' : q.nonce = 0 => log'[d] # << >> /\ Answers(e, q.ack)'
    BY <1>2, <1>4 DEF Handshake, LogFits, Fair
  <2> QED
    BY <1>2, <2>1, <2>2 DEF LogFits
<1> QED
  BY <1>7, <1>8, <1>10, <1>11, <1>12 DEF Handshake

LEMMA SendsOn ==
  ASSUME VerInv, NEW d \in User, \A e \in User : Unharmed(e) /\ Handshake(e), ~Writing(d), ~Fault,
         SendChallenge(d) \/ Reply(d) \/ Resume(d)
  PROVE  \A e \in User : Handshake(e)'
<1>1. /\ starting \in [User -> StartTask \cup {Idle}] /\ queue \in [User -> QueueTask \cup {Idle}]
      /\ refresh \in [User -> Looking \cup Replaying \cup Resuming \cup {Idle}] /\ mail \in [User -> SUBSET Nat]
      /\ queue[d].pc # "save" /\ (\A e \in User : mail[e] \subseteq DOMAIN log[e]) /\ UNCHANGED <<trust, inbox>>
  BY DEF VerInv, TypeOK, TaskTypes, Writing, SendChallenge, Reply, Resume
<1>2. \A e \in User : Unharmed(e)
  OBVIOUS
\* What is sent, and by which task.
<1> SUFFICES ASSUME NEW nonce \in Nat, NEW ack \in Nat, NEW open \in BOOLEAN, SendProof(d, 0, nonce, ack, open),
                    NEW p, p = Sealed(d, 0, nonce, ack), p.nonce = nonce, p.ack = ack, p \in Proof,
                    Ends(d, p) /\ Fair(d, p),
                    \A e \in User \ {d} : queue'[e] = queue[e] /\ starting'[e] = starting[e] /\ refresh'[e] = refresh[e]
             PROVE  \A e \in User : Handshake(e)'
  <2>1. CASE SendChallenge(d)
    <3>1. starting[d].pc = "saved" /\ starting[d].peer = 0 /\ starting[d].nonce \in Nat /\ starting[d].nonce # 0 /\ 0 \in Nat
          /\ TRUE \in BOOLEAN
      BY <2>1, TaskFacts DEF SendChallenge, VerInv, Unharmed, Handshake, SendsFit
    <3>2. PICK n \in Nat : n = starting[d].nonce
      BY <3>1
    <3>3. PICK o \in BOOLEAN : o = TRUE
      OBVIOUS
    <3>4. SendProof(d, 0, n, 0, TRUE)
      BY <2>1, <3>1, <3>2 DEF SendChallenge
    <3>5. SendProof(d, 0, n, 0, o) /\ o \in BOOLEAN
      BY <3>3, <3>4
    <3>6. PICK p \in Proof : p = Sealed(d, 0, n, 0) /\ p.nonce = n /\ p.ack = 0 /\ log' # log
      BY <1>2, <3>1, <3>2, <3>5, SendsCalmly
    <3>7. Fair(d, p)
      BY <1>1, <3>1, <3>2, <3>6 DEF Fair, Handshake, NotBegun
    <3>8. /\ starting'[d] = Idle /\ queue' = queue /\ refresh' = refresh
          /\ \A e \in User \ {d} : starting'[e] = starting[e]
      BY <1>1, <2>1 DEF SendChallenge
    <3>9. Ends(d, p)
      BY <3>1, <3>2, <3>6, <3>8 DEF Ends
    <3> QED
      BY <3>1, <3>5, <3>6, <3>7, <3>8, <3>9
  <2>2. CASE Reply(d)
    <3>1. queue[d].pc = "reply" /\ queue[d].peer = 0 /\ queue[d] \in QueueTask /\ FALSE \in BOOLEAN
      BY <2>2, TaskFacts DEF Reply, VerInv, Unharmed
    <3>2. PICK n \in Nat : n = IF queue[d].only THEN 0 ELSE queue[d].value.nonce
      BY <3>1 DEF QueueTask, Trust
    <3>3. PICK k \in Nat : k = queue[d].ack
      BY <3>1 DEF QueueTask
    <3>4. PICK o \in BOOLEAN : o = FALSE
      OBVIOUS
    <3>5. SendProof(d, 0, n, k, FALSE)
      BY <2>2, <3>1, <3>2, <3>3 DEF Reply
    <3>6. SendProof(d, 0, n, k, o) /\ o \in BOOLEAN
      BY <3>4, <3>5
    <3>7. PICK p \in Proof : p = Sealed(d, 0, n, k) /\ p.nonce = n /\ p.ack = k /\ log' # log
      BY <1>2, <3>1, <3>2, <3>3, <3>6, SendsCalmly
    <3>8. /\ queue[d].value.nonce # 0 /\ log[d] # << >> /\ (queue[d].only => Answers(Peer(d), queue[d].ack))
          /\ (trust[d].nonce = queue[d].value.nonce => trust[d].received # 0) /\ trust[d] # None
      BY <3>1 DEF Handshake, QueueFits, NotBegun
    <3>9. Fair(d, p)
      <4>1. trust[d].nonce # 0
        BY <3>8, RecordsFit DEF Records, Fit, Good, Trust
      <4> QED
        BY <1>1, <3>2, <3>3, <3>7, <3>8, <4>1 DEF Fair
    <3>10. /\ queue'[d] = Idle /\ starting' = starting /\ refresh' = refresh
           /\ \A e \in User \ {d} : queue'[e] = queue[e]
      BY <1>1, <2>2, <3>7 DEF Reply
    <3>11. Ends(d, p)
      BY <3>1, <3>2, <3>3, <3>7, <3>10 DEF Ends
    <3> QED
      BY <3>1, <3>6, <3>7, <3>9, <3>10, <3>11
  <2>3. CASE Resume(d)
    <3>1. refresh[d].pc = "send" /\ refresh[d].peer = 0 /\ refresh[d] \in Resuming /\ FALSE \in BOOLEAN
      BY <2>3, TaskFacts DEF Resume, VerInv, Unharmed
    <3>2. PICK n \in Nat : n = refresh[d].value.nonce
      BY <3>1 DEF Resuming, Trust
    <3>3. PICK k \in Nat : k = refresh[d].value.received
      BY <3>1 DEF Resuming, Trust
    <3>4. PICK o \in BOOLEAN : o = FALSE
      OBVIOUS
    <3>5. SendProof(d, 0, n, k, FALSE)
      BY <2>3, <3>1, <3>2, <3>3 DEF Resume
    <3>6. SendProof(d, 0, n, k, o) /\ o \in BOOLEAN
      BY <3>4, <3>5
    <3>7. PICK p \in Proof : p = Sealed(d, 0, n, k) /\ p.nonce = n /\ p.ack = k /\ log' # log
      BY <1>2, <3>1, <3>2, <3>3, <3>6, SendsCalmly
    <3>8. trust[d] # None /\ n # 0 /\ (trust[d].nonce = n /\ k # 0 => trust[d].received # 0)
      <4>1. trust[d] # None /\ n # 0
        BY <3>1, <3>2 DEF Handshake, NotBegun, SendsFit
      <4>2. Going(d, trust[d])
        BY <4>1 DEF Handshake, Standing
      <4> QED
        BY <3>1, <3>2, <3>3, <4>1, <4>2 DEF Going
    <3>9. Fair(d, p)
      BY <1>1, <3>7, <3>8 DEF Fair
    <3>10. /\ refresh'[d] = Idle /\ starting' = starting /\ queue' = queue
           /\ \A e \in User \ {d} : refresh'[e] = refresh[e]
      BY <1>1, <2>3 DEF Resume, End
    <3>11. Ends(d, p)
      BY <3>1, <3>2, <3>3, <3>7, <3>10 DEF Ends
    <3> QED
      BY <3>1, <3>6, <3>7, <3>9, <3>10, <3>11
  <2> QED
    BY <2>1, <2>2, <2>3
<1>3. /\ Logs(Peer(d), p)
      /\ mail' = [mail EXCEPT ![Peer(d)] = mail[Peer(d)] \cup {Len(log[Peer(d)]) + 1},
                              ![d] = IF open THEN DOMAIN log[d] ELSE mail[d]]
  BY <1>2, SendsCalmly
<1>4. /\ mail[d] \subseteq mail'[d] /\ mail[Peer(d)] \subseteq mail'[Peer(d)] /\ Len(log[Peer(d)]) + 1 \in mail'[Peer(d)]
  BY <1>1, <1>3, Peers
<1>5. Handshake(d)'
  BY <1>1, <1>3, <1>4, SenderGoesOn DEF Waits
<1>6. Handshake(Peer(d))'
  BY <1>1, <1>3, <1>4, Peers, ReceiverGoesOn
<1> QED
  BY <1>5, <1>6, Peers

-----------------------------------------------------------------------------
(* The theorem. *)

LEMMA HandshakeInit == Init => UnharmedInv /\ HandshakeInv
<1> SUFFICES ASSUME Init, NEW d \in User
             PROVE  Unharmed(d) /\ Handshake(d)
  BY DEF UnharmedInv, HandshakeInv
<1>1. /\ queue[d] = Idle /\ inbox[d] = Idle /\ starting[d] = Idle /\ refresh[d] = Idle /\ Idle.pc = "idle"
      /\ trust[d] = None /\ log[d] = << >> /\ log[Peer(d)] = << >> /\ Sent(d) = {}
      /\ key[d] = 0 /\ published[d] = 0 /\ unlocked[d] /\ stale[d] = {} /\ page[d].peer = 0
  BY Peers DEF Init, Idle, Sent
<1>2. Unharmed(d)
  BY <1>1 DEF Unharmed
<1>3. NotBegun(d) /\ Standing(d) /\ QueueFits(d) /\ SendsFit(d) /\ LogFits(d)
  BY <1>1 DEF NotBegun, Standing, QueueFits, SendsFit, LogFits
<1> QED
  BY <1>2, <1>3 DEF Handshake

LEMMA HandshakeStep == VerInv /\ PageInv /\ UnharmedInv /\ HandshakeInv /\ [Next]_vars => UnharmedInv' /\ HandshakeInv'
<1> SUFFICES ASSUME VerInv, PageInv, UnharmedInv, HandshakeInv, [Next]_vars
             PROVE  UnharmedInv' /\ HandshakeInv'
  OBVIOUS
<1>1. CASE UNCHANGED vars
  <2>1. UNCHANGED <<key, secret, unlocked, published, trust, log, mail, queue, inbox, starting, refresh, stale, page, net>>
    BY <1>1 DEF vars, local, tasks
  <2>2. UnharmedInv'
    BY <2>1 DEF UnharmedInv, Unharmed, Original, Sent
  <2>3. \A d \in User : Idles(d)
    BY <2>1 DEF Idles, Waits
  <2>4. HandshakeInv'
    BY <2>1, <2>3, HandshakeStays DEF HandshakeInv, Shared
  <2> QED
    BY <2>2, <2>4
<1>2. CASE Next
  <2>1. PICK d \in User : Write(d) \/ (~Writing(d) /\ (Step(d) \/ Does(d)))
    BY <1>2 DEF Next
  <2> SUFFICES ASSUME net'.calm
               PROVE  \A e \in User : Unharmed(e)' /\ (Shared' => Handshake(e)')
    BY DEF UnharmedInv, HandshakeInv
  <2>2. /\ net.calm /\ ~SendText(d) /\ ~MakeKeys(d) /\ ~OtherDevice(d) /\ ~Fault /\ \A e \in User : Unharmed(e)
    BY <2>1, CalmBefore DEF VerInv, UnharmedInv
  <2>3. \A e \in User : Unharmed(e)'
    BY <2>1, <2>2, HarmlessStep
  <2>4. ~SaveRevocation(d) /\ ~PublishKeys(d) /\ ~LockOrUnlock(d)
    BY <2>2, NeverDiffers DEF LockOrUnlock, Unharmed
  <2>5. secret' = secret
    <3>1. CASE Write(d)
      BY <3>1 DEF Write, SaveRevocation, SaveChallenge, SaveRecord, SaveNew, local
    <3>2. CASE Step(d)
      BY <3>2 DEF Step, SendChallenge, Decrypt, Receive, Reply, Look, Replay, Replayed, Rest, Resume, RefreshAgain, TrustChanged,
                  PublishKeys, local
    <3>3. CASE Does(d)
      BY <3>3 DEF Does, StartIdentityVerification, OpenChat, SendText, Visit, MakeKeys, OtherDevice, LockOrUnlock, local
    <3> QED
      BY <2>1, <3>1, <3>2, <3>3
  <2> SUFFICES ASSUME Shared
               PROVE  \A e \in User : Handshake(e)'
    BY <2>3, <2>5 DEF Shared
  <2>6. \A e \in User : Unharmed(e) /\ Handshake(e)
    BY <2>2 DEF HandshakeInv
  <2>7. CASE Write(d)
    BY <2>4, <2>6, <2>7, SavesOn DEF Write
  <2>8. CASE ~Writing(d) /\ Step(d)
    <3>1. CASE SendChallenge(d) \/ Reply(d) \/ Resume(d)
      BY <2>2, <2>6, <2>8, <3>1, SendsOn
    <3>2. CASE Receive(d) \/ Replay(d)
      BY <2>6, <3>2, ReadsGoOn
    <3>3. CASE Rest(d)
      BY <2>6, <2>8, <3>3, RestsAndGoesOn
    <3>4. CASE Decrypt(d) \/ Look(d) \/ Replayed(d) \/ RefreshAgain(d) \/ TrustChanged(d)
      BY <2>6, <3>4, LooksAround
    <3> QED
      BY <2>4, <2>8, <3>1, <3>2, <3>3, <3>4 DEF Step
  <2>9. CASE Does(d)
    BY <2>2, <2>4, <2>6, <2>9, LooksAround DEF Does
  <2> QED
    BY <2>1, <2>7, <2>8, <2>9
<1> QED
  BY <1>1, <1>2

\* When no keys changed, nothing was locked or lost, and everything that was sent is handled, a handshake that
\* somebody began has made both devices verified (startIdentityVerification, receiveProof, refreshContactVerification):
\* begun from either side, from both at once, or again, in whatever order proofs are opened, replayed and answered.
THEOREM HandshakesComplete == Spec => []Completes
<1>1. ASSUME VerInv, UnharmedInv, HandshakeInv
      PROVE  Completes
  <2> SUFFICES ASSUME Quiet, Shared, net.calm, NEW e \in User, log[e] # << >>
               PROVE  \A d \in User : Verified(d, published[Peer(d)])
    BY DEF Completes
  <2>1. \A d \in User : Unharmed(d) /\ Handshake(d)
    BY <1>1 DEF UnharmedInv, HandshakeInv
  <2>2. ASSUME NEW d \in User
        PROVE  queue[d].pc = "idle" /\ starting[d].pc = "idle" /\ refresh[d].pc = "idle" /\ ~Replying(d) /\ \A i : ~Waits(d, i)
    BY DEF Quiet, AtRest, Idle, Replying, Waits
  <2>3. \A d \in User : trust[d] # None
    <3>1. trust[Peer(e)] # None
      BY <2>1, Peers, PeerBack DEF Handshake, NotBegun
    <3>2. DOMAIN log[e] # {}
      <4>1. log[e] \in Seq(Proof)
        BY <1>1 DEF VerInv, TypeOK
      <4>2. PICK n : n = Len(log[e])
        OBVIOUS
      <4>3. n # 0 /\ n \in Nat /\ DOMAIN log[e] = 1..n
        BY <4>1, <4>2, EmptySeq
      <4>4. 1 \in 1..n
        BY <4>3
      <4> QED
        BY <4>3, <4>4, Zenon
    <3>3. trust[e] # None
      BY <2>1, <2>2, <3>2 DEF Handshake, NotBegun
    <3> QED
      BY <3>1, <3>3, Peers
  <2> SUFFICES ASSUME NEW d \in User
               PROVE  Verified(d, published[Peer(d)])
    OBVIOUS
  <2>4. PICK r : r = trust[d]
    OBVIOUS
  <2>5. Going(d, r) /\ Heeds(d, r) /\ r.pin = 0 /\ r.own = 0 /\ r.nonce # 0
    <3>1. r.nonce # 0
      BY <1>1, <2>3, <2>4, RecordsFit DEF Records, Fit, Good, Trust
    <3> QED
      BY <2>1, <2>2, <2>3, <2>4, <3>1 DEF Handshake, Standing, Unharmed, Original
  \* Its challenge was sent, and answered.
  <2>6. PICK q \in Sent(Peer(d)) : q.nonce = r.nonce
    BY <2>2, <2>5 DEF Going, Carried
  <2>7. PICK s \in Sent(d) : s.ack = r.nonce
    <3>1. Receipted(Peer(d), q.nonce)
      BY <2>1, <2>2, <2>5, <2>6, Peers DEF Handshake, LogFits, Sent
    <3> QED
      BY <2>2, <2>6, <3>1, Peers, PeerBack DEF Receipted
  <2>8. r.ack /\ (s.nonce # 0 => r.received # 0)
    BY <2>2, <2>5, <2>7 DEF Heeds, Sent
  <2>9. r.received # 0
    <3>1. CASE s.nonce = 0
      BY <2>1, <2>5, <2>7, <3>1 DEF Handshake, LogFits, Answers, Going
    <3> QED
      BY <2>8, <3>1
  <2>10. key[d] = 0 /\ published[Peer(d)] = 0
    BY <2>1, Peers DEF Unharmed
  <2> QED
    BY <2>3, <2>4, <2>5, <2>8, <2>9, <2>10 DEF Verified
<1> QED
  BY <1>1, VerAlways, PageInit, PageStep, HandshakeInit, HandshakeStep, PTL DEF Spec
=============================================================================
