------------------------------ MODULE GroupProofs ------------------------------
(***************************************************************************)
(* Proofs about GroupEpoch, for every set of users and every bound, and    *)
(* then about GroupDevices, which extends it, for every set of devices.    *)
(***************************************************************************)
EXTENDS GroupDevices, FiniteSetTheorems, TLAPS

-----------------------------------------------------------------------------
(* The group of the server: GroupEpoch. *)

\* No step of the protocol leaves the types: in particular not the epoch's range.
LEMMA TypeStep ==
  ASSUME TypeOK, [Next]_vars
  PROVE  TypeOK'
<1> USE GroupAssumption DEF TypeOK, Epochs, Roles, group_rows, key_rows,
                            traffic, frames, Members
<1>1. CASE UNCHANGED vars
  BY <1>1 DEF vars
<1>2. ASSUME pushed' = {}, NEW u \in Users, NEW us \in SUBSET Users,
             CreateGroup(u, us)
      PROVE  TypeOK'
  BY <1>2 DEF CreateGroup
<1>3. ASSUME pushed' = {}, NEW added \in SUBSET Users, Insert(added)
      PROVE  TypeOK'
  BY <1>3 DEF Insert, AdvanceEpoch
<1>4. ASSUME pushed' = {}, NEW u \in Users, NEW v \in Users,
             NEW leaving \in BOOLEAN, RevokeMember(u, v, leaving)
      PROVE  TypeOK'
  BY <1>4 DEF RevokeMember, AdvanceEpoch
<1>5. CASE pushed' = {} /\ RotateIdentity
  BY <1>5 DEF RotateIdentity, AdvanceEpoch
<1>6. ASSUME pushed' = {}, NEW u \in Users, DisbandGroup(u)
      PROVE  TypeOK'
  BY <1>6 DEF DisbandGroup
<1>7. ASSUME pushed' = {}, NEW u \in Users, NEW v \in Epochs,
             NEW r \in SUBSET Users, NEW k \in Keys,
             UploadSenderKeys(u, v, r, k)
      PROVE  TypeOK'
  <2> DEFINE p == [from |-> u, ver |-> v, key |-> k]
  <2>1. p \in Publication /\ [to |-> r, body |-> p] \in FanOut
    BY <1>7 DEF Publication, FanOut
  <2>2. Wrapped(p, r) \subseteq Distribution
    BY <1>7 DEF Wrapped, Distribution
  <2>3. /\ sender_keys' \in [Users -> 0..MaxEpoch]
        /\ distributions' = distributions \cup Wrapped(p, r)
        /\ outgoing' = outgoing \cup {[to |-> r, body |-> p]}
        /\ UNCHANGED <<group_rows, traffic, acked, members_at>>
    BY <1>7 DEF UploadSenderKeys
  <2> HIDE DEF p
  <2> QED
    BY <1>7, <2>1, <2>2, <2>3
<1>8. ASSUME pushed' = {}, NEW u \in Users, NEW c \in ClientIds, Compose(u, c)
      PROVE  TypeOK'
  <2>1. [from |-> u, cid |-> c, ver |-> sender_keys[u]] \in Message
    BY <1>8 DEF Message, Compose
  <2> QED
    BY <1>8, <2>1 DEF Compose
<1>9. ASSUME pushed' = {}, NEW a \in attempts, SendMessage(a)
      PROVE  TypeOK'
  <2>1. a \in Message /\ a.from \in Users
    BY DEF Message
  <2>2. [to |-> {a.from}, body |-> a] \in FanOut
        /\ [to |-> Members, body |-> a] \in FanOut
    BY <2>1 DEF FanOut
  <2>3. CASE AckDuplicate(a)
    BY <1>9, <2>2, <2>3 DEF AckDuplicate
  <2>4. CASE RefuseMessage(a)
    BY <1>9, <2>1, <2>4 DEF RefuseMessage
  <2>5. CASE StoreMessage(a)
    BY <1>9, <2>1, <2>2, <2>5 DEF StoreMessage
  <2> QED
    BY <1>9, <2>3, <2>4, <2>5 DEF SendMessage
<1>10. CASE pushed' = {} /\ Restart
  BY <1>10 DEF Restart
<1>11. ASSUME NEW fan \in outgoing, Push(fan)
       PROVE  TypeOK'
  <2>1. fan \in FanOut /\ fan.to \in SUBSET Users
    BY DEF FanOut
  <2>2. fan.body.ver \in Epochs
    BY <2>1 DEF FanOut, Message, Publication
  <2> QED
    BY <1>11, <2>1, <2>2 DEF Push
<1> QED
  BY <1>1, <1>2, <1>3, <1>4, <1>5, <1>6, <1>7, <1>8, <1>9, <1>10, <1>11
     DEF Next, Handler, AddMembers, JoinByInvite, RemoveMember, LeaveGroup

\* Every variable keeps its type: in particular key_epoch never leaves u32.
THEOREM TypeCorrect == Spec => []TypeOK
<1>1. Init => TypeOK
  BY GroupAssumption DEF Init, TypeOK, Epochs, Roles
<1> QED
  BY <1>1, TypeStep, PTL DEF Spec

-----------------------------------------------------------------------------
\* What an advance of the epoch does to the parts of the invariant that do not
\* depend on who joins or leaves.
LEMMA AdvanceFacts ==
  ASSUME TypeOK, IInv, NEW M \in SUBSET Users, AdvanceEpoch(M)
  PROVE  /\ key_epoch' = key_epoch + 1 /\ key_epoch' \in Epochs
         /\ \A u \in Users : sender_keys'[u] = 0
         /\ members_at'[key_epoch'] = M
         /\ \A e \in 1..key_epoch : members_at'[e] = members_at[e]
         /\ key_epoch \in Nat \ {0}
BY GroupAssumption DEF TypeOK, AdvanceEpoch, Epochs

\* Rows, pending fan-outs and attempts carry versions of Epochs.
LEMMA Versions ==
  ASSUME TypeOK
  PROVE  /\ \A d \in distributions : d.ver \in Epochs /\ d.to \in Users /\ d.from \in Users
         /\ \A m \in messages \cup attempts \cup refused : m.ver \in Epochs /\ m.from \in Users
         /\ \A fan \in outgoing : fan.body.ver \in Epochs
         /\ \A f \in pushed : f[1] \in Users /\ f[2] \in Epochs
         /\ Epochs \subseteq Nat \ {0}
BY GroupAssumption DEF TypeOK, Distribution, Message, FanOut, Publication, Epochs

\* create_group starts from empty tables.
LEMMA CreateStep ==
  ASSUME TypeOK, IInv, NEW u \in Users, NEW us \in SUBSET Users,
         CreateGroup(u, us), pushed' = {}
  PROVE  IInv'
<1> DEFINE ms == us \cup {u}
<1>1. /\ key_epoch = 1 /\ key_epoch' = 1 /\ status = "absent" /\ status' = "live"
      /\ distributions = {} /\ distributions' = {}
      /\ messages' = {} /\ attempts' = {} /\ outgoing' = {}
      /\ \A x \in Users : sender_keys'[x] = 0
      /\ refused' = refused /\ acked' = acked /\ messages = {}
  BY DEF IInv, IntervalInv, KeyInv, AttemptInv, CreateGroup, key_rows, traffic, frames
<1>2. refused' = {} /\ acked' = {}
  BY <1>1 DEF IInv, AttemptInv, FrameInv
<1>3. Members' = ms /\ members_at'[1] = ms
      /\ \A x \in ms : joined_epoch'[x] = 1
  BY GroupAssumption DEF CreateGroup, Members, TypeOK, Epochs
<1>4. IntervalInv'
  BY <1>1, <1>3 DEF IntervalInv
<1>5. KeyInv'
  BY <1>1 DEF KeyInv
<1>6. MessageInv' /\ AttemptInv' /\ FrameInv'
  BY <1>1, <1>2 DEF MessageInv, AttemptInv, FrameInv
<1> QED
  BY <1>4, <1>5, <1>6 DEF IInv

\* Any step that opens the next epoch keeps the invariant when those who stay
\* keep their joined_epoch and their keys, and those who join do so in the
\* epoch that opens.
LEMMA AdvanceStep ==
  ASSUME TypeOK, IInv, TypeOK',
         status = "live", status' = "live", pushed' = {},
         AdvanceEpoch(Members'),
         UNCHANGED <<traffic, frames>>,
         distributions' \subseteq distributions,
         \A d \in distributions \ distributions' : d.to \notin Members',
         \A x \in Members' :
           \/ x \in Members /\ joined_epoch'[x] = joined_epoch[x]
           \/ x \notin Members /\ joined_epoch'[x] = key_epoch + 1
  PROVE  IInv'
<1>1. /\ key_epoch' = key_epoch + 1 /\ key_epoch' \in Epochs
      /\ \A u \in Users : sender_keys'[u] = 0
      /\ members_at'[key_epoch'] = Members'
      /\ \A e \in 1..key_epoch : members_at'[e] = members_at[e]
      /\ key_epoch \in Nat \ {0}
  <2>1. Members' \in SUBSET Users
    BY DEF Members
  <2> QED
    BY <2>1, AdvanceFacts
<1>2. /\ messages' = messages /\ attempts' = attempts /\ refused' = refused
      /\ outgoing' = outgoing /\ acked' = acked
  BY DEF traffic, frames
<1>3. IntervalInv'
  <2> SUFFICES ASSUME NEW x \in Members'
               PROVE  /\ joined_epoch'[x] \in 1..key_epoch'
                      /\ \A e \in joined_epoch'[x]..key_epoch' : x \in members_at'[e]
    BY <1>1 DEF IntervalInv
  <2>1. CASE x \in Members /\ joined_epoch'[x] = joined_epoch[x]
    <3>1. /\ joined_epoch[x] \in 1..key_epoch
          /\ \A e \in joined_epoch[x]..key_epoch : x \in members_at[e]
      BY <2>1 DEF IInv, IntervalInv
    <3> QED
      BY <1>1, <2>1, <3>1
  <2>2. CASE x \notin Members /\ joined_epoch'[x] = key_epoch + 1
    BY <1>1, <2>2
  <2> QED
    BY <2>1, <2>2
<1>4. KeyInv'
  <2> SUFFICES ASSUME NEW d \in distributions'
               PROVE  /\ d.ver <= key_epoch'
                      /\ d.to \in members_at'[d.ver]
                      /\ d.ver # key_epoch'
    BY <1>1 DEF KeyInv
  <2>1. d \in distributions /\ d.ver \in Nat \ {0}
    BY Versions
  <2>2. d.ver <= key_epoch /\ d.to \in members_at[d.ver]
    BY <2>1 DEF IInv, KeyInv
  <2> QED
    BY <1>1, <2>1, <2>2
<1>5. MessageInv'
  <2> SUFFICES ASSUME NEW m \in messages
               PROVE  /\ m.ver <= key_epoch'
                      /\ m.from \in members_at'[m.ver]
                      /\ \A x \in Members' : joined_epoch'[x] <= m.ver =>
                           \E d \in distributions' :
                             d.from = m.from /\ d.to = x /\ d.ver = m.ver
    BY <1>2 DEF MessageInv
  <2>1. /\ m.ver <= key_epoch /\ m.ver \in Nat \ {0}
        /\ m.from \in members_at[m.ver]
    BY Versions DEF IInv, MessageInv
  <2>2. ASSUME NEW x \in Members', joined_epoch'[x] <= m.ver
        PROVE  \E d \in distributions' : d.from = m.from /\ d.to = x /\ d.ver = m.ver
    <3>1. x \in Members /\ joined_epoch'[x] = joined_epoch[x]
      BY <1>1, <2>1, <2>2
    <3>2. PICK d \in distributions : d.from = m.from /\ d.to = x /\ d.ver = m.ver
      BY <2>2, <3>1 DEF IInv, MessageInv
    <3>3. d \in distributions'
      BY <3>2
    <3> QED
      BY <3>2, <3>3
  <2> QED
    BY <1>1, <2>1, <2>2
<1>6. AttemptInv'
  <2>1. \A a \in attempts \cup refused : a.ver \in Nat
    BY Versions
  <2> QED
    BY <1>1, <1>2, <2>1 DEF IInv, AttemptInv, Stored
<1>7. FrameInv'
  <2>1. \A fan \in outgoing : /\ fan.body.ver \in Nat \ {0}
                              /\ fan.body.ver <= key_epoch
                              /\ fan.to \subseteq members_at[fan.body.ver]
                              /\ fan.body \in Message => fan.body \in messages
    BY Versions DEF IInv, FrameInv
  <2>2. \A fan \in outgoing : /\ fan.body.ver <= key_epoch'
                              /\ fan.to \subseteq members_at'[fan.body.ver]
    BY <1>1, <2>1
  <2> QED
    BY <1>2, <2>1, <2>2 DEF IInv, FrameInv
<1> QED
  BY <1>3, <1>4, <1>5, <1>6, <1>7 DEF IInv

\* add_members and join_by_invite.
LEMMA InsertStep ==
  ASSUME TypeOK, IInv, TypeOK', NEW added \in SUBSET Users, status = "live",
         added \cap Members = {}, Insert(added), pushed' = {}
  PROVE  IInv'
<1>1. /\ Members' = Members \cup added
      /\ \A x \in added : joined_epoch'[x] = key_epoch + 1
      /\ \A x \in Members : joined_epoch'[x] = joined_epoch[x]
  BY DEF Insert, Members, TypeOK
<1>2. AdvanceEpoch(Members') /\ status' = "live" /\ distributions' = distributions
      /\ UNCHANGED <<traffic, frames>>
  BY <1>1 DEF Insert
<1> QED
  BY <1>1, <1>2, AdvanceStep

\* remove_member and leave_group.
LEMMA RevokeStep ==
  ASSUME TypeOK, IInv, TypeOK', NEW u \in Users, NEW v \in Users,
         NEW leaving \in BOOLEAN, RevokeMember(u, v, leaving), pushed' = {}
  PROVE  IInv'
<1>1. /\ Members' = Members \ {v}
      /\ \A x \in Members' : joined_epoch'[x] = joined_epoch[x]
  BY DEF RevokeMember, Members, TypeOK
<1>2. /\ AdvanceEpoch(Members') /\ status = "live" /\ status' = "live"
      /\ UNCHANGED <<traffic, frames>>
  BY <1>1 DEF RevokeMember
<1>3. /\ distributions' \subseteq distributions
      /\ \A d \in distributions \ distributions' : d.to \notin Members'
  BY <1>1 DEF RevokeMember
<1> QED
  BY <1>1, <1>2, <1>3, AdvanceStep

\* rotate_identity_groups.
LEMMA RotateStep ==
  ASSUME TypeOK, IInv, TypeOK', RotateIdentity, pushed' = {}
  PROVE  IInv'
<1>1. Members' = Members /\ \A x \in Members' : joined_epoch'[x] = joined_epoch[x]
  BY DEF RotateIdentity, Members
<1>2. /\ AdvanceEpoch(Members') /\ status = "live" /\ status' = "live"
      /\ UNCHANGED <<traffic, frames>> /\ distributions' = distributions
  BY <1>1 DEF RotateIdentity
<1> QED
  BY <1>1, <1>2, AdvanceStep

\* disband_group: nothing is left that the invariant speaks of but history.
LEMMA DisbandStep ==
  ASSUME TypeOK, IInv, NEW u \in Users, DisbandGroup(u), pushed' = {}
  PROVE  IInv'
<1>1. /\ status' = "disbanded" /\ Members' = {} /\ distributions' = {}
      /\ \A x \in Users : sender_keys'[x] = 0
      /\ status = "live"
      /\ UNCHANGED <<key_epoch, traffic, frames, members_at>>
  BY DEF DisbandGroup, Members
<1>2. IntervalInv' /\ KeyInv'
  BY <1>1 DEF IntervalInv, KeyInv
<1>3. MessageInv' /\ AttemptInv' /\ FrameInv'
  BY <1>1 DEF IInv, MessageInv, AttemptInv, FrameInv, Stored, traffic, frames
<1> QED
  BY <1>2, <1>3 DEF IInv

\* upload_sender_keys: the new rows cover exactly the members of the epoch.
LEMMA UploadStep ==
  ASSUME TypeOK, IInv, NEW u \in Users, NEW v \in Epochs, NEW r \in SUBSET Users,
         NEW k \in Keys, UploadSenderKeys(u, v, r, k), pushed' = {}
  PROVE  IInv'
<1> DEFINE p == [from |-> u, ver |-> v, key |-> k]
<1>1. /\ status = "live" /\ v = key_epoch /\ u \in Members /\ r = Members
      /\ sender_keys' = [sender_keys EXCEPT ![u] = v]
      /\ distributions' = distributions \cup Wrapped(p, r)
      /\ outgoing' = outgoing \cup {[to |-> r, body |-> p]}
      /\ UNCHANGED <<group_rows, traffic, acked, members_at>>
  BY DEF UploadSenderKeys
<1>2. /\ UNCHANGED <<status, key_epoch, role, joined_epoch, messages, attempts,
                     refused, acked, members_at>>
      /\ Members' = Members
  BY <1>1 DEF group_rows, traffic, Members
<1>3. \A d \in Wrapped(p, r) : d.from = u /\ d.ver = key_epoch /\ d.to \in Members
  BY <1>1 DEF Wrapped
<1>4. \A x \in Members : \E d \in Wrapped(p, r) :
        d.from = u /\ d.to = x /\ d.ver = key_epoch
  <2> SUFFICES ASSUME NEW x \in Members
               PROVE  \E d \in Wrapped(p, r) :
                        d.from = u /\ d.to = x /\ d.ver = key_epoch
    OBVIOUS
  <2> DEFINE row == [from |-> p.from, to |-> x, ver |-> p.ver, key |-> p.key]
  <2>1. row \in Wrapped(p, r) /\ row.from = u /\ row.to = x /\ row.ver = key_epoch
    BY <1>1 DEF Wrapped
  <2> HIDE DEF row
  <2> QED
    BY <2>1
<1>5. /\ members_at[key_epoch] = Members /\ key_epoch \in Nat \ {0} /\ v # 0
  BY <1>1, GroupAssumption DEF IInv, IntervalInv, TypeOK, Epochs
<1>6. /\ sender_keys'[u] = key_epoch
      /\ \A x \in Users \ {u} : sender_keys'[x] = sender_keys[x]
  BY <1>1 DEF TypeOK
<1> HIDE DEF p
<1>7. IntervalInv'
  BY <1>2 DEF IInv, IntervalInv
<1>8. KeyInv'
  <2>1. ASSUME NEW x \in Users, sender_keys'[x] # 0
        PROVE  /\ x \in Members /\ sender_keys'[x] = key_epoch
               /\ \A y \in Members : \E d \in distributions' :
                    d.from = x /\ d.to = y /\ d.ver = key_epoch
    <3>1. CASE x = u
      BY <1>1, <1>4, <1>6, <3>1
    <3>2. CASE x # u
      BY <1>1, <1>6, <2>1, <3>2 DEF IInv, KeyInv
    <3> QED
      BY <3>1, <3>2
  <2>2. ASSUME NEW d \in distributions'
        PROVE  /\ d.ver <= key_epoch /\ d.to \in members_at[d.ver]
               /\ d.ver = key_epoch => sender_keys'[d.from] # 0
    <3>1. CASE d \in distributions
      BY <1>5, <1>6, <3>1, Versions DEF IInv, KeyInv
    <3>2. CASE d \in Wrapped(p, r)
      BY <1>3, <1>5, <1>6, <3>2
    <3> QED
      BY <1>1, <3>1, <3>2
  <2> QED
    BY <1>1, <1>2, <2>1, <2>2 DEF KeyInv
<1>9. MessageInv'
  BY <1>1, <1>2 DEF IInv, MessageInv
<1>10. AttemptInv'
  <2>1. \A a \in attempts : a.ver = key_epoch => sender_keys'[a.from] = key_epoch
    BY <1>1, <1>6, Versions DEF IInv, AttemptInv
  <2> QED
    BY <1>1, <1>2, <2>1 DEF IInv, AttemptInv, Stored
<1>11. FrameInv'
  <2>1. p \notin Message
    <3>1. DOMAIN p = {"from", "ver", "key"} /\ "cid" \notin {"from", "ver", "key"}
      BY DEF p
    <3>2. \A m \in Message : "cid" \in DOMAIN m
      BY DEF Message
    <3> QED
      BY <3>1, <3>2
  <2>2. p.ver = key_epoch
    BY <1>1 DEF p
  <2> QED
    BY <1>1, <1>2, <1>5, <2>1, <2>2 DEF IInv, FrameInv
<1> QED
  BY <1>7, <1>8, <1>9, <1>10, <1>11 DEF IInv

\* Client encryption, and the answers that store nothing.
LEMMA ComposeStep ==
  ASSUME TypeOK, IInv, NEW u \in Users, NEW c \in ClientIds, Compose(u, c),
         pushed' = {}
  PROVE  IInv'
<1> DEFINE a == [from |-> u, cid |-> c, ver |-> sender_keys[u]]
<1>1. /\ sender_keys[u] # 0 /\ attempts' = attempts \cup {a}
      /\ UNCHANGED <<group_rows, key_rows, messages, refused, frames, members_at>>
  BY DEF Compose
<1>2. status = "live" /\ a.from = u /\ a.ver = key_epoch /\ sender_keys[u] = key_epoch
      /\ key_epoch \in Nat
  BY <1>1 DEF IInv, KeyInv, TypeOK, Epochs
<1> HIDE DEF a
<1>3. IntervalInv' /\ KeyInv' /\ MessageInv' /\ FrameInv'
  BY <1>1 DEF IInv, IntervalInv, KeyInv, MessageInv, FrameInv, Members,
              group_rows, key_rows, frames
<1>4. AttemptInv'
  BY <1>1, <1>2 DEF IInv, AttemptInv, Stored, group_rows, key_rows, frames
<1> QED
  BY <1>3, <1>4 DEF IInv

LEMMA AnswerStep ==
  ASSUME TypeOK, IInv, NEW a \in attempts, AckDuplicate(a) \/ RefuseMessage(a),
         pushed' = {}
  PROVE  IInv'
<1>1. a \in Message /\ a.ver \in Epochs
  BY Versions DEF TypeOK
<1>2. /\ UNCHANGED <<group_rows, key_rows, messages, attempts, acked, members_at>>
      /\ Members' = Members
  BY DEF AckDuplicate, RefuseMessage, group_rows, traffic, frames, Members
<1>3. IntervalInv' /\ KeyInv' /\ MessageInv'
  BY <1>2 DEF IInv, IntervalInv, KeyInv, MessageInv, group_rows, key_rows
<1>4. CASE AckDuplicate(a)
  <2>1. /\ a \in messages /\ refused' = refused
        /\ outgoing' = outgoing \cup {[to |-> {a.from}, body |-> a]}
    BY <1>4 DEF AckDuplicate, traffic
  <2>2. a.from \in members_at[a.ver] /\ a.ver <= key_epoch
    BY <2>1 DEF IInv, MessageInv
  <2>3. AttemptInv'
    BY <1>2, <2>1 DEF IInv, AttemptInv, Stored, group_rows, key_rows
  <2>4. FrameInv'
    BY <1>2, <2>1, <2>2 DEF IInv, FrameInv, group_rows
  <2> QED
    BY <1>3, <2>3, <2>4 DEF IInv
<1>5. CASE RefuseMessage(a)
  <2>1. /\ refused' = refused \cup {a} /\ outgoing' = outgoing
        /\ IF Stored(a) THEN a \notin messages ELSE ~InEpoch(a)
    BY <1>5 DEF RefuseMessage, frames
  <2>2. a \notin messages
    BY <2>1 DEF Stored
  <2>3. /\ a.ver <= key_epoch /\ status # "absent"
        /\ a.ver = key_epoch /\ status = "live" => sender_keys[a.from] = key_epoch
    BY DEF IInv, AttemptInv
  <2>4. Stored(a) \/ a.ver < key_epoch \/ status = "disbanded"
    <3>1. SUFFICES ASSUME ~Stored(a), a.ver = key_epoch, status = "live"
                   PROVE  FALSE
      BY <1>1, <2>3 DEF TypeOK, Epochs
    <3>2. sender_keys[a.from] = key_epoch /\ sender_keys[a.from] # 0 /\ a.from \in Users
      BY <2>3, <3>1, Versions DEF TypeOK, Epochs
    <3>3. a.from \in Members
      BY <3>2 DEF IInv, KeyInv
    <3> QED
      BY <2>1, <3>1, <3>2, <3>3 DEF InEpoch
  <2>5. AttemptInv'
    BY <1>2, <2>1, <2>2, <2>3, <2>4 DEF IInv, AttemptInv, Stored, group_rows, key_rows
  <2>6. FrameInv'
    BY <1>2, <2>1 DEF IInv, FrameInv, group_rows
  <2> QED
    BY <1>3, <2>5, <2>6 DEF IInv
<1> QED
  BY <1>4, <1>5

\* An accepted message: its sender's key of the epoch is with every member.
LEMMA StoreStep ==
  ASSUME TypeOK, IInv, NEW a \in attempts, StoreMessage(a), pushed' = {}
  PROVE  IInv'
<1> DEFINE fan == [to |-> Members, body |-> a]
<1>1. /\ ~Stored(a) /\ a.from \in Members /\ a.ver = key_epoch
      /\ sender_keys[a.from] = key_epoch
      /\ messages' = messages \cup {a}
      /\ outgoing' = outgoing \cup {fan}
      /\ UNCHANGED <<status, key_epoch, role, joined_epoch, sender_keys,
                     distributions, attempts, refused, acked, members_at>>
      /\ Members' = Members
  BY DEF StoreMessage, InEpoch, group_rows, key_rows, Members
<1>2. /\ key_epoch \in Nat \ {0} /\ a.from \in Users
      /\ sender_keys[a.from] # 0
  BY <1>1, GroupAssumption DEF TypeOK, Epochs, Members
<1>3. status = "live" /\ members_at[key_epoch] = Members
      /\ \A x \in Members : \E d \in distributions :
           d.from = a.from /\ d.to = x /\ d.ver = key_epoch
  BY <1>2 DEF IInv, KeyInv, IntervalInv
<1>4. fan.to = Members /\ fan.body = a
  OBVIOUS
<1> HIDE DEF fan
<1>5. IntervalInv' /\ KeyInv'
  BY <1>1 DEF IInv, IntervalInv, KeyInv
<1>6. MessageInv'
  BY <1>1, <1>2, <1>3 DEF IInv, MessageInv
<1>7. AttemptInv'
  <2>1. a \notin refused
    BY <1>1, <1>2, <1>3 DEF IInv, AttemptInv
  <2>2. \A x \in refused : Stored(x) => Stored(x)'
    BY <1>1 DEF Stored
  <2> QED
    BY <1>1, <1>3, <2>1, <2>2 DEF IInv, AttemptInv
<1>8. FrameInv'
  BY <1>1, <1>2, <1>3, <1>4 DEF IInv, FrameInv
<1> QED
  BY <1>5, <1>6, <1>7, <1>8 DEF IInv

\* The fan-out of a job that was prepared in its transaction, and its loss.
LEMMA PushStep ==
  ASSUME TypeOK, IInv, NEW fan \in outgoing, Push(fan)
  PROVE  IInv'
<1>1. /\ outgoing' = outgoing \ {fan} /\ pushed' = fan.to \X {fan.body.ver}
      /\ acked' = acked \/ (fan.body \in Message /\ acked' = acked \cup {fan.body})
      /\ UNCHANGED <<group_rows, key_rows, traffic, members_at>>
  BY DEF Push
<1>2. IntervalInv' /\ KeyInv' /\ MessageInv'
  BY <1>1 DEF IInv, IntervalInv, KeyInv, MessageInv, Members, group_rows,
              key_rows, traffic
<1>3. AttemptInv'
  BY <1>1 DEF IInv, AttemptInv, Stored, group_rows, key_rows, traffic
<1>4. FrameInv'
  BY <1>1 DEF IInv, FrameInv, group_rows, traffic
<1> QED
  BY <1>2, <1>3, <1>4 DEF IInv

LEMMA RestartStep ==
  ASSUME TypeOK, IInv, Restart, pushed' = {}
  PROVE  IInv'
BY DEF IInv, Restart, IntervalInv, KeyInv, MessageInv, AttemptInv, FrameInv,
       Stored, Members, group_rows, key_rows, traffic

LEMMA StutterStep ==
  ASSUME IInv, UNCHANGED vars
  PROVE  IInv'
BY DEF IInv, IntervalInv, KeyInv, MessageInv, AttemptInv, FrameInv, Stored,
       Members, vars, group_rows, key_rows, traffic, frames

-----------------------------------------------------------------------------
\* The invariant is inductive.
THEOREM Invariance == Spec => []IInv
<1>1. Init => IInv
  BY DEF Init, IInv, IntervalInv, KeyInv, MessageInv, AttemptInv, FrameInv, Members
<1>2. TypeOK /\ TypeOK' /\ IInv /\ [Next]_vars => IInv'
  <2> SUFFICES ASSUME TypeOK, TypeOK', IInv, [Next]_vars PROVE IInv'
    OBVIOUS
  <2>1. CASE UNCHANGED vars
    BY <2>1, StutterStep
  <2>2. ASSUME pushed' = {}, NEW u \in Users, NEW us \in SUBSET Users,
               CreateGroup(u, us)
        PROVE  IInv'
    BY <2>2, CreateStep
  <2>3. ASSUME pushed' = {}, NEW u \in Users, NEW us \in SUBSET Users,
               AddMembers(u, us)
        PROVE  IInv'
    <3>1. /\ us \ Members \in SUBSET Users /\ status = "live"
          /\ (us \ Members) \cap Members = {} /\ Insert(us \ Members)
      BY <2>3 DEF AddMembers
    <3> QED
      BY <2>3, <3>1, InsertStep
  <2>4. ASSUME pushed' = {}, NEW u \in Users, JoinByInvite(u)
        PROVE  IInv'
    <3>1. /\ {u} \in SUBSET Users /\ status = "live"
          /\ {u} \cap Members = {} /\ Insert({u})
      BY <2>4 DEF JoinByInvite
    <3> QED
      BY <2>4, <3>1, InsertStep
  <2>5. ASSUME pushed' = {}, NEW u \in Users, NEW v \in Users,
               NEW leaving \in BOOLEAN, RevokeMember(u, v, leaving)
        PROVE  IInv'
    BY <2>5, RevokeStep
  <2>6. CASE pushed' = {} /\ RotateIdentity
    BY <2>6, RotateStep
  <2>7. ASSUME pushed' = {}, NEW u \in Users, DisbandGroup(u)
        PROVE  IInv'
    BY <2>7, DisbandStep
  <2>8. ASSUME pushed' = {}, NEW u \in Users, NEW v \in Epochs,
               NEW r \in SUBSET Users, NEW k \in Keys,
               UploadSenderKeys(u, v, r, k)
        PROVE  IInv'
    BY <2>8, UploadStep
  <2>9. ASSUME pushed' = {}, NEW u \in Users, NEW c \in ClientIds, Compose(u, c)
        PROVE  IInv'
    BY <2>9, ComposeStep
  <2>10. ASSUME pushed' = {}, NEW a \in attempts, SendMessage(a)
         PROVE  IInv'
    BY <2>10, AnswerStep, StoreStep DEF SendMessage
  <2>11. CASE pushed' = {} /\ Restart
    BY <2>11, RestartStep
  <2>12. ASSUME NEW fan \in outgoing, Push(fan)
         PROVE  IInv'
    BY <2>12, PushStep
  <2> QED
    BY <2>1, <2>2, <2>3, <2>4, <2>5, <2>6, <2>7, <2>8, <2>9, <2>10, <2>11, <2>12
       DEF Next, Handler, RemoveMember, LeaveGroup
<1> QED
  BY <1>1, <1>2, TypeCorrect, PTL DEF Spec

-----------------------------------------------------------------------------
\* A member that catches up can decrypt everything its sync returns: the copy
\* that MessageInv promises is one it may still download.
THEOREM CatchUp == Spec => []CatchUpDecryptable
<1>1. IInv => CatchUpDecryptable
  BY DEF IInv, MessageInv, CatchUpDecryptable, Visible, Downloadable
<1> QED
  BY <1>1, Invariance, PTL

\* Neither sync, nor a key download, nor a late fan-out gives an account
\* anything of an epoch it was not a member in.
THEOREM Intervals == Spec => []MembershipIntervals
<1>1. TypeOK /\ IInv => MembershipIntervals
  <2> SUFFICES ASSUME TypeOK, IInv PROVE MembershipIntervals
    OBVIOUS
  <2>1. ASSUME NEW u \in Users, NEW m \in Visible(u)
        PROVE  u \in members_at[m.ver]
    <3>1. /\ u \in Members /\ m \in messages /\ joined_epoch[u] <= m.ver
          /\ m.ver \in Nat /\ m.ver <= key_epoch
      BY Versions DEF Visible, IInv, MessageInv
    <3>2. key_epoch \in Nat /\ joined_epoch[u] \in Nat
      BY GroupAssumption DEF TypeOK, Epochs
    <3>3. m.ver \in joined_epoch[u]..key_epoch
      BY <3>1, <3>2
    <3> QED
      BY <3>1, <3>3 DEF IInv, IntervalInv
  <2>2. ASSUME NEW u \in Users, NEW d \in Downloadable(u)
        PROVE  u \in members_at[d.ver]
    BY DEF Downloadable, IInv, KeyInv
  <2>3. \A f \in pushed : f[1] \in members_at[f[2]]
    BY DEF IInv, FrameInv
  <2> QED
    BY <2>1, <2>2, <2>3 DEF MembershipIntervals
<1> QED
  BY <1>1, TypeCorrect, Invariance, PTL

\* An acknowledged message is stored, a refused one never is.
THEOREM Answers == Spec => []AnswersAreTrue
<1>1. IInv => AnswersAreTrue
  BY DEF IInv, AttemptInv, FrameInv, AnswersAreTrue
<1> QED
  BY <1>1, Invariance, PTL

\* Only upload_sender_keys adds rows, and it finds no earlier publication: by
\* KeyInv a row of the current epoch means that its author has published.
THEOREM OneKey == Spec => []OneKeyPerEpoch
<1>1. Init => OneKeyPerEpoch
  BY DEF Init, OneKeyPerEpoch
<1>2. TypeOK /\ IInv /\ OneKeyPerEpoch /\ [Next]_vars => OneKeyPerEpoch'
  <2> SUFFICES ASSUME TypeOK, IInv, OneKeyPerEpoch, [Next]_vars
               PROVE  OneKeyPerEpoch'
    OBVIOUS
  <2>1. CASE distributions' \subseteq distributions
    BY <2>1 DEF OneKeyPerEpoch
  <2>2. ASSUME NEW u \in Users, NEW v \in Epochs, NEW r \in SUBSET Users,
               NEW k \in Keys, UploadSenderKeys(u, v, r, k)
        PROVE  OneKeyPerEpoch'
    <3> DEFINE p == [from |-> u, ver |-> v, key |-> k]
    <3>1. /\ v = key_epoch /\ sender_keys[u] = 0
          /\ distributions' = distributions \cup Wrapped(p, r)
      BY <2>2 DEF UploadSenderKeys
    <3>2. \A d \in Wrapped(p, r) : d.from = u /\ d.ver = v /\ d.key = k
      BY DEF Wrapped
    <3>3. \A d \in distributions : ~(d.from = u /\ d.ver = v)
      BY <3>1 DEF IInv, KeyInv
    <3> HIDE DEF p
    <3> QED
      BY <3>1, <3>2, <3>3 DEF OneKeyPerEpoch
  <2>3. \/ distributions' \subseteq distributions
        \/ \E u \in Users, v \in Epochs, r \in SUBSET Users, k \in Keys :
             UploadSenderKeys(u, v, r, k)
    BY DEF Next, Handler, vars, key_rows, CreateGroup, AddMembers, JoinByInvite,
           Insert, RemoveMember, LeaveGroup, RevokeMember, RotateIdentity,
           DisbandGroup, Compose, SendMessage, AckDuplicate, RefuseMessage,
           StoreMessage, Push, Restart
  <2> QED
    BY <2>1, <2>2, <2>3
<1> QED
  BY <1>1, <1>2, TypeCorrect, Invariance, PTL DEF Spec

-----------------------------------------------------------------------------
\* Whoever joins or leaves a live group does so through advance_epoch.
THEOREM Fence == Spec => MembershipFence
<1> DEFINE Fenced == status = "live" /\ status' = "live" /\ Members' # Members
                     => /\ key_epoch' = key_epoch + 1
                        /\ \A u \in Users : sender_keys'[u] = 0
<1>1. TypeOK /\ [Next]_vars => [Fenced]_vars
  <2> SUFFICES ASSUME TypeOK, [Next]_vars, status = "live", status' = "live",
                      Members' # Members
               PROVE  /\ key_epoch' = key_epoch + 1
                      /\ \A u \in Users : sender_keys'[u] = 0
    OBVIOUS
  <2>1. role' # role
    BY DEF Members
  <2>2. \E M \in SUBSET Users : AdvanceEpoch(M)
    BY <2>1 DEF Next, Handler, vars, group_rows, CreateGroup, AddMembers,
           JoinByInvite, Insert, RemoveMember, LeaveGroup, RevokeMember,
           RotateIdentity, DisbandGroup, UploadSenderKeys, Compose, SendMessage,
           AckDuplicate, RefuseMessage, StoreMessage, Push, Restart, Members
  <2> QED
    BY <2>2 DEF AdvanceEpoch
<1> QED
  BY <1>1, TypeCorrect, PTL DEF Spec, MembershipFence

\* The owner is never revoked, and the member limit counts enough ids.
THEOREM Shape == Spec => []GroupShape
<1>1. Init => GroupShape
  BY DEF Init, GroupShape, Members
<1>2. TypeOK /\ IInv /\ IInv' /\ GroupShape /\ [Next]_vars => GroupShape'
  <2> SUFFICES ASSUME TypeOK, IInv, IInv', GroupShape, [Next]_vars
               PROVE  GroupShape'
    OBVIOUS
  <2>1. \A S \in SUBSET Users : IsFiniteSet(S) /\ Cardinality(S) \in Nat
    BY GroupAssumption, FS_Subset, FS_CardinalityType
  <2>2. Members \in SUBSET Users
    BY DEF Members
  <2>3. CASE status' # "live"
    BY <2>3 DEF GroupShape, IInv, IntervalInv, KeyInv
  <2>4. CASE status' = "live" /\ role' = role /\ status = "live"
    BY <2>4 DEF GroupShape, Members
  <2>5. ASSUME NEW u \in Users, NEW us \in SUBSET Users, CreateGroup(u, us)
        PROVE  GroupShape'
    <3>1. /\ status' = "live" /\ Members' = us \cup {u}
          /\ Cardinality(us \cup {u}) <= MaxMembers
          /\ \A v \in Users : role'[v] = "owner" <=> v = u
      BY <2>5 DEF CreateGroup, Members
    <3> QED
      BY <3>1 DEF GroupShape
  <2>6. ASSUME NEW added \in SUBSET Users, Insert(added), status = "live",
               added \cap Members = {},
               Cardinality(Members \cup added) <= MaxMembers
        PROVE  GroupShape'
    <3>1. PICK u \in Users : \A v \in Users : role[v] = "owner" <=> v = u
      BY <2>6 DEF GroupShape
    <3>2. /\ status' = "live" /\ Members' = Members \cup added
          /\ \A v \in Users : role'[v] = IF v \in added THEN "member" ELSE role[v]
      BY <2>6 DEF Insert, Members
    <3>3. u \in Members
      BY <3>1 DEF Members
    <3>4. \A v \in Users : role'[v] = "owner" <=> v = u
      BY <2>6, <3>1, <3>2, <3>3
    <3> QED
      BY <2>6, <3>2, <3>4 DEF GroupShape
  <2>7. ASSUME NEW u \in Users, NEW us \in SUBSET Users, AddMembers(u, us)
        PROVE  GroupShape'
    <3>1. /\ Cardinality(Members) + Cardinality(us) <= MaxMembers
          /\ status = "live" /\ Insert(us \ Members)
      BY <2>7 DEF AddMembers
    <3>2. Cardinality(Members \cup us) <= Cardinality(Members) + Cardinality(us)
      <4>1. Cardinality(Members \cup us)
              = Cardinality(Members) + Cardinality(us) - Cardinality(Members \cap us)
        BY <2>1, <2>2, FS_Union
      <4>2. Members \cap us \in SUBSET Users /\ Members \cup us \in SUBSET Users
        BY <2>2
      <4>3. Cardinality(Members \cap us) \in Nat
        BY <2>1, <4>2
      <4> QED
        BY <2>1, <2>2, <4>1, <4>3
    <3>3. Members \cup (us \ Members) = Members \cup us
      OBVIOUS
    <3>4. Cardinality(Members \cup us) \in Nat
      <4>1. Members \cup us \in SUBSET Users
        BY <2>2
      <4> QED
        BY <2>1, <4>1
    <3>5. Cardinality(Members \cup us) <= MaxMembers
      BY <2>1, <2>2, <3>1, <3>2, <3>4, GroupAssumption
    <3> QED
      BY <2>6, <3>1, <3>3, <3>5
  <2>8. ASSUME NEW u \in Users, JoinByInvite(u)
        PROVE  GroupShape'
    <3>1. /\ Cardinality(Members) < MaxMembers /\ u \notin Members
          /\ status = "live" /\ Insert({u})
      BY <2>8 DEF JoinByInvite
    <3>2. Cardinality(Members \cup {u}) = Cardinality(Members) + 1
      BY <2>1, <2>2, <3>1, FS_AddElement
    <3> QED
      BY <2>1, <2>2, <2>6, <3>1, <3>2, GroupAssumption
  <2>9. ASSUME NEW u \in Users, NEW v \in Users, NEW leaving \in BOOLEAN,
               RevokeMember(u, v, leaving)
        PROVE  GroupShape'
    <3>1. /\ role[v] # "owner" /\ status = "live" /\ status' = "live"
          /\ Members' = Members \ {v}
          /\ \A x \in Users : role'[x] = IF x = v THEN "none" ELSE role[x]
      BY <2>9 DEF RevokeMember, MayRevoke, Members, TypeOK
    <3>2. \A x \in Users : role'[x] = "owner" <=> role[x] = "owner"
      BY <3>1
    <3>3. Members \ {v} \in SUBSET Users /\ Cardinality(Members \ {v}) <= Cardinality(Members)
      BY <2>1, <2>2, FS_Subset
    <3>4. Cardinality(Members \ {v}) <= MaxMembers
      BY <2>1, <2>2, <3>1, <3>3, GroupAssumption DEF GroupShape
    <3> QED
      BY <3>1, <3>2, <3>4 DEF GroupShape
  <2>10. CASE status' = "live" /\ role' = role
    <3>1. UNCHANGED status \/ \E u \in Users, us \in SUBSET Users : CreateGroup(u, us)
      BY <2>10 DEF Next, Handler, vars, group_rows, AddMembers,
           JoinByInvite, Insert, RemoveMember, LeaveGroup, RevokeMember,
           RotateIdentity, DisbandGroup, UploadSenderKeys, Compose, SendMessage,
           AckDuplicate, RefuseMessage, StoreMessage, Push, Restart
    <3> QED
      BY <2>4, <2>5, <2>10, <3>1
  <2>11. \/ role' = role
         \/ \E u \in Users, us \in SUBSET Users : CreateGroup(u, us)
         \/ \E u \in Users, us \in SUBSET Users : AddMembers(u, us)
         \/ \E u \in Users : JoinByInvite(u)
         \/ \E u, v \in Users : RevokeMember(u, v, FALSE)
         \/ \E u \in Users : RevokeMember(u, u, TRUE)
         \/ status' # "live"
    BY DEF Next, Handler, vars, group_rows, RemoveMember, LeaveGroup,
           RotateIdentity, DisbandGroup, UploadSenderKeys, Compose, SendMessage,
           AckDuplicate, RefuseMessage, StoreMessage, Push, Restart
  <2> QED
    BY <2>3, <2>5, <2>7, <2>8, <2>9, <2>10, <2>11
<1> QED
  BY <1>1, <1>2, TypeCorrect, Invariance, PTL DEF Spec

-----------------------------------------------------------------------------
(* The server of the devices is GroupEpoch.                                  *)

\* Uploads apart, what a device does leaves the server alone.
LEMMA LocalStep ==
  ASSUME NEW d \in Devices,
         \/ Job(d) /\ ~Upload(d)
         \/ EncryptGroupMessage(d) \/ RecoverGroups(d) \/ Event(d)
  PROVE  UNCHANGED vars
BY DEF Job, Event, ReadDetail, CheckOwn, ReadKeys, ImportKeys, NotUploaded,
   Recovered, StoreOwn, JobFails, EncryptGroupMessage, RecoverGroups,
   ImportGroupDistribution, HandleRotate, HandleFailed, HandleRemoved

\* Every step of the devices is a step of the server, or none.
LEMMA ServerStep ==
  ASSUME Typed, [DeviceNext]_all
  PROVE  [Next]_vars /\ pushed' = {}
<1>1. CASE UNCHANGED all
  BY <1>1 DEF all, vars, Typed
<1>2. CASE Change
  <2>1. pushed' = {}
    BY <1>2 DEF Change, Typed
  <2>2. Handler
    BY <1>2 DEF Change, Handler
  <2> QED
    BY <2>1, <2>2 DEF Next
<1>3. ASSUME NEW d \in Devices, Upload(d)
      PROVE  [Next]_vars /\ pushed' = {}
  <2>1. UploadSenderKeys(Owner(d), job[d].epoch, job[d].members, job[d].key)
    BY <1>3 DEF Upload
  <2>2. /\ Owner(d) \in Users /\ job[d].epoch \in Epochs
        /\ job[d].members \in SUBSET Users /\ job[d].key \in Keys
    BY <1>3, DeviceAssumption DEF Upload, Typed, DeviceTypeOK, JobInv, JobType
  <2>3. pushed' = {}
    BY <1>3 DEF Upload, Typed
  <2>4. Handler
    BY <2>1, <2>2 DEF Handler
  <2> QED
    BY <2>3, <2>4 DEF Next
<1>4. ASSUME NEW d \in Devices,
             \/ Job(d) /\ ~Upload(d)
             \/ EncryptGroupMessage(d) \/ RecoverGroups(d) \/ Event(d)
      PROVE  UNCHANGED vars
  BY <1>4, LocalStep
<1>5. UNCHANGED vars => pushed' = {}
  BY DEF vars, Typed
<1> QED
  BY <1>1, <1>2, <1>3, <1>4, <1>5 DEF DeviceNext

\* What a step of the devices does to the fan-outs: one more, or nothing.
LEMMA OutgoingStep ==
  ASSUME Typed, [DeviceNext]_all
  PROVE  /\ outgoing \subseteq outgoing'
         /\ \A f \in outgoing' : f.body \in Publication
<1>1. CASE UNCHANGED all \/ Change
  BY <1>1 DEF all, vars, frames, Typed, Change, CreateGroup, AddMembers, JoinByInvite,
     Insert, LeaveGroup, RemoveMember, RevokeMember, RotateIdentity, DisbandGroup
<1>2. ASSUME NEW d \in Devices, Upload(d)
      PROVE  /\ outgoing \subseteq outgoing'
             /\ \A f \in outgoing' : f.body \in Publication
  <2> DEFINE p == [from |-> Owner(d), ver |-> job[d].epoch, key |-> job[d].key]
  <2>1. p \in Publication
    BY <1>2, DeviceAssumption DEF Upload, Typed, JobInv, Publication
  <2>2. outgoing' = outgoing \cup {[to |-> job[d].members, body |-> p]}
    BY <1>2 DEF Upload, UploadSenderKeys
  <2> QED
    BY <2>1, <2>2 DEF Typed
<1>3. ASSUME NEW d \in Devices,
             \/ Job(d) /\ ~Upload(d)
             \/ EncryptGroupMessage(d) \/ RecoverGroups(d) \/ Event(d)
      PROVE  /\ outgoing \subseteq outgoing'
             /\ \A f \in outgoing' : f.body \in Publication
  <2>1. UNCHANGED vars
    BY <1>3, LocalStep
  <2> QED
    BY <2>1 DEF vars, frames, Typed
<1> QED
  BY <1>1, <1>2, <1>3 DEF DeviceNext, Job

-----------------------------------------------------------------------------
(* Types.                                                                     *)

\* Keys with the fields of an entry are stored as entries.
LEMMA ImportedType ==
  ASSUME DeviceTypeOK, NEW d \in Devices, NEW rows,
         \A r \in rows : r.from \in Users /\ r.ver \in Epochs /\ r.key \in Keys
  PROVE  Imported(d, rows) \in SUBSET Entry
<1>1. {[from |-> r.from, ver |-> r.ver, key |-> r.key,
        distributed |-> r.from = Owner(d)] : r \in rows} \in SUBSET Entry
  <2>1. ASSUME NEW r \in rows
        PROVE  [from |-> r.from, ver |-> r.ver, key |-> r.key,
                distributed |-> r.from = Owner(d)] \in Entry
    <3> DEFINE own == r.from = Owner(d)
    <3>1. own \in BOOLEAN
      OBVIOUS
    <3> HIDE DEF own
    <3>2. [from |-> r.from, ver |-> r.ver, key |-> r.key, distributed |-> own] \in Entry
      BY <3>1 DEF Entry
    <3> QED
      BY <3>2, Zenon DEF own
  <2> QED
    BY <2>1, Zenon
<1>2. cache[d] \in SUBSET Entry
  BY DEF DeviceTypeOK
<1> QED
  BY <1>1, <1>2 DEF Imported, StoreSenderKey

\* A job that moves on is still a job.
LEMMA JobMoves ==
  ASSUME DeviceTypeOK, JobInv, NEW d \in Devices, NEW j \in JobType,
         j.phase # "none",
         j.phase # "detail" => j.epoch \in Epochs,
         j.phase \in {"upload", "uploaded"} => j.key \in Keys,
         job' = [job EXCEPT ![d] = j]
  PROVE  /\ job' \in [Devices -> JobType]
         /\ \A x \in sending \cup {d} : job'[x] # NoJob
         /\ JobInv'
<1>1. job' \in [Devices -> JobType]
  BY DEF DeviceTypeOK
<1>2. j # NoJob
  BY DEF NoJob, JobAt
<1>3. \A x \in Devices : job'[x] = IF x = d THEN j ELSE job[x]
  BY DEF DeviceTypeOK
<1> QED
  BY <1>1, <1>2, <1>3 DEF DeviceTypeOK, JobInv

\* A job that ends leaves no one waiting, and seals under the keys it was given.
LEMMA FinishType ==
  ASSUME DeviceTypeOK, JobInv, NEW d \in Devices, NEW keys \in SUBSET Entry,
         Finish(d, keys)
  PROVE  /\ job' \in [Devices -> JobType]
         /\ sending' \subseteq Devices
         /\ \A x \in sending' : job'[x] # NoJob
         /\ sealed' \subseteq Publication
         /\ JobInv'
<1>1. NoJob \in JobType
  BY GroupAssumption DEF NoJob, JobAt, JobType, Phases
<1>2. /\ job' = [job EXCEPT ![d] = NoJob] /\ sending' = sending \ {d}
      /\ sealed' \subseteq sealed \cup
           {[from |-> e.from, ver |-> e.ver, key |-> e.key] : e \in keys}
  BY DEF Finish
<1>3. \A x \in Devices : job'[x] = IF x = d THEN NoJob ELSE job[x]
  BY <1>2 DEF DeviceTypeOK
<1>4. {[from |-> e.from, ver |-> e.ver, key |-> e.key] : e \in keys} \subseteq Publication
  BY DEF Publication, Entry
<1>5. NoJob.phase = "none"
  BY DEF NoJob, JobAt
<1> QED
  BY <1>1, <1>2, <1>3, <1>4, <1>5 DEF DeviceTypeOK, JobInv

\* What the server gives out has the fields of an entry.
LEMMA RowFields ==
  ASSUME Typed
  PROVE  /\ \A d \in Devices : \A r \in job[d].rows :
              r.from \in Users /\ r.ver \in Epochs /\ r.key \in Keys
         /\ \A u \in Users : Downloadable(u) \in SUBSET Distribution
BY DEF Typed, TypeOK, DeviceTypeOK, JobType, Distribution, Downloadable

\* Each step of a job keeps the types.
LEMMA JobTyped ==
  ASSUME Typed, NEW d \in Devices, Job(d)
  PROVE  DeviceTypeOK' /\ JobInv'
<1>1. /\ DeviceTypeOK /\ JobInv /\ job[d] \in JobType /\ cache[d] \in SUBSET Entry
      /\ Owner(d) \in Users /\ key_epoch \in Epochs
  BY DeviceAssumption DEF Typed, DeviceTypeOK, TypeOK
<1>2. Epochs \subseteq 0..MaxEpoch
  BY GroupAssumption DEF Epochs
<1>3. /\ job[d].epoch \in 0..MaxEpoch /\ job[d].members \in SUBSET Users
      /\ job[d].rows \in SUBSET Distribution /\ job[d].key \in Keys \cup {NoKey}
      /\ job[d].phase \notin {"none", "detail"} => job[d].epoch \in Epochs
      /\ job[d].phase \in {"upload", "uploaded"} => job[d].key \in Keys
  BY <1>1 DEF JobType, JobInv
<1>4. ASSUME NEW phase \in Phases \ {"none", "detail"}, NEW epoch \in Epochs,
             NEW members \in SUBSET Users, NEW rows \in SUBSET Distribution,
             NEW key \in Keys \cup {NoKey},
             phase \in {"upload", "uploaded"} => key \in Keys,
             job' = [job EXCEPT ![d] = JobAt(phase, epoch, members, rows, key)],
             UNCHANGED <<cache, sending, sealed>>, failures' \in 0..MaxFailures
      PROVE  DeviceTypeOK' /\ JobInv'
  <2> DEFINE j == JobAt(phase, epoch, members, rows, key)
  <2>1. /\ j \in JobType /\ j.phase = phase /\ j.epoch = epoch /\ j.key = key
    BY <1>2, <1>4 DEF JobAt, JobType
  <2> HIDE DEF j
  <2>2. job' = [job EXCEPT ![d] = j]
    BY <1>4 DEF j
  <2>3. /\ job' \in [Devices -> JobType]
        /\ \A x \in sending \cup {d} : job'[x] # NoJob
        /\ JobInv'
    BY <1>1, <1>4, <2>1, <2>2, JobMoves
  <2> QED
    BY <1>1, <1>4, <2>3 DEF DeviceTypeOK
<1>5. ASSUME NEW keys \in SUBSET Entry, Finish(d, keys),
             cache' \in [Devices -> SUBSET Entry], failures' \in 0..MaxFailures
      PROVE  DeviceTypeOK' /\ JobInv'
  BY <1>1, <1>5, FinishType DEF DeviceTypeOK
<1>6. /\ failures \in 0..MaxFailures
      /\ Fail => failures' \in 0..MaxFailures
      /\ failures' = failures => failures' \in 0..MaxFailures
  BY <1>1, DeviceAssumption DEF DeviceTypeOK, Fail
<1>7. \A entries \in SUBSET Entry : \A epoch : Usable(d, entries, epoch) \in SUBSET Entry
  BY DEF Usable
<1>8. ASSUME cache' = [cache EXCEPT ![d] = Imported(d, job[d].rows)]
      PROVE  cache' \in [Devices -> SUBSET Entry] /\ cache'[d] \in SUBSET Entry
  <2>1. Imported(d, job[d].rows) \in SUBSET Entry
    BY <1>1, RowFields, ImportedType
  <2> QED
    BY <1>1, <1>8, <2>1 DEF DeviceTypeOK
<1>9. CASE ReadDetail(d)
  BY <1>4, <1>6, <1>9, <1>1 DEF ReadDetail, Members, Phases
<1>10. CASE CheckOwn(d)
  <2>1. CASE Usable(d, cache[d], job[d].epoch) # {}
    BY <1>1, <1>5, <1>6, <1>7, <1>10, <2>1 DEF CheckOwn, DeviceTypeOK
  <2>2. CASE Usable(d, cache[d], job[d].epoch) = {}
    BY <1>3, <1>4, <1>6, <1>10, <2>2 DEF CheckOwn, Phases
  <2> QED
    BY <2>1, <2>2
<1>11. CASE ReadKeys(d)
  <2>1. (IF job[d].phase = "fetch" THEN "import" ELSE "recovered") \in {"import", "recovered"}
    OBVIOUS
  <2>2. Downloadable(Owner(d)) \in SUBSET Distribution
    BY <1>1, RowFields
  <2> QED
    BY <1>3, <1>4, <1>6, <1>11, <2>1, <2>2 DEF ReadKeys, Phases
<1>12. CASE ImportKeys(d)
  <2>1. cache' \in [Devices -> SUBSET Entry] /\ cache'[d] \in SUBSET Entry
    BY <1>8, <1>12 DEF ImportKeys
  <2>2. failures' \in 0..MaxFailures /\ job[d].phase = "import"
    BY <1>6, <1>12 DEF ImportKeys
  <2>3. CASE Usable(d, cache'[d], job[d].epoch) # {}
    BY <1>5, <1>7, <1>12, <2>1, <2>2, <2>3 DEF ImportKeys
  <2>4. CASE Usable(d, cache'[d], job[d].epoch) = {}
    <3>1. PICK k \in Keys :
            job' = [job EXCEPT ![d] = JobAt("upload", job[d].epoch, job[d].members, {}, k)]
      BY <1>12, <2>4 DEF ImportKeys
    <3> DEFINE j == JobAt("upload", job[d].epoch, job[d].members, {}, k)
    <3>2. /\ j \in JobType /\ j.phase = "upload" /\ j.epoch \in Epochs /\ j.key \in Keys
      BY <1>3, <2>2 DEF JobAt, JobType, Phases
    <3> HIDE DEF j
    <3>3. job' = [job EXCEPT ![d] = j]
      BY <3>1 DEF j
    <3>4. /\ job' \in [Devices -> JobType]
          /\ \A x \in sending \cup {d} : job'[x] # NoJob
          /\ JobInv'
      BY <1>1, <3>2, <3>3, JobMoves
    <3>5. UNCHANGED <<sending, sealed>>
      BY <1>12, <2>4 DEF ImportKeys
    <3> QED
      BY <1>1, <2>1, <2>2, <3>4, <3>5 DEF DeviceTypeOK
  <2> QED
    BY <2>3, <2>4
<1>13. CASE Upload(d)
  <2>1. job[d].phase = "upload" /\ UNCHANGED <<cache, sending, sealed>>
    BY <1>13 DEF Upload
  <2>2. CASE /\ job' = [job EXCEPT ![d] = JobAt("uploaded", job[d].epoch, {}, {}, job[d].key)]
             /\ UNCHANGED failures
    BY <1>3, <1>4, <1>6, <2>1, <2>2 DEF Phases
  <2>3. CASE job' = Recovering(d) /\ Fail
    BY <1>3, <1>4, <1>6, <2>1, <2>3 DEF Recovering, Phases
  <2> QED
    BY <1>13, <2>2, <2>3 DEF Upload
<1>14. CASE NotUploaded(d)
  BY <1>3, <1>4, <1>6, <1>14 DEF NotUploaded, Recovering, Phases
<1>15. CASE Recovered(d)
  <2>1. cache' \in [Devices -> SUBSET Entry] /\ cache'[d] \in SUBSET Entry
    BY <1>8, <1>15 DEF Recovered
  <2> QED
    BY <1>5, <1>6, <1>7, <1>15, <2>1 DEF Recovered
<1>16. CASE StoreOwn(d)
  <2> DEFINE own == [from |-> Owner(d), ver |-> job[d].epoch, key |-> job[d].key,
                     distributed |-> TRUE]
  <2>1. own \in Entry
    BY <1>1, <1>3, <1>16 DEF StoreOwn, Entry
  <2>2. /\ cache' = [cache EXCEPT ![d] = StoreSenderKey(cache[d], {own})]
        /\ Finish(d, {own} \cap cache'[d]) /\ failures' = failures
    BY <1>1, <1>16 DEF StoreOwn, DeviceTypeOK
  <2> HIDE DEF own
  <2>3. StoreSenderKey(cache[d], {own}) \in SUBSET Entry
    BY <1>1, <2>1 DEF StoreSenderKey
  <2>4. cache' \in [Devices -> SUBSET Entry] /\ {own} \cap cache'[d] \in SUBSET Entry
    BY <1>1, <2>1, <2>2, <2>3 DEF DeviceTypeOK
  <2> QED
    BY <1>5, <1>6, <2>2, <2>4
<1>17. CASE JobFails(d)
  <2>1. /\ cache' \in [Devices -> SUBSET Entry] /\ failures' \in 0..MaxFailures
        /\ Finish(d, {})
    BY <1>1, <1>6, <1>17 DEF JobFails, DeviceTypeOK
  <2>2. {} \in SUBSET Entry
    OBVIOUS
  <2> QED
    BY <1>5, <2>1, <2>2
<1> QED
  BY <1>9, <1>10, <1>11, <1>12, <1>13, <1>14, <1>15, <1>16, <1>17 DEF Job

\* Asking for a job, and retiring keys, keeps the types.
LEMMA EnsuredTyped ==
  ASSUME DeviceTypeOK, JobInv, NEW d \in Devices, job' = Ensured(d)
  PROVE  /\ job' \in [Devices -> JobType]
         /\ \A x \in sending \cup {d} : job'[x] # NoJob
         /\ JobInv'
<1>1. CASE job[d] = NoJob
  <2> DEFINE j == JobAt("detail", 0, {}, {}, NoKey)
  <2>1. j \in JobType /\ j.phase = "detail"
    BY GroupAssumption DEF JobAt, JobType, Phases
  <2> HIDE DEF j
  <2>2. job' = [job EXCEPT ![d] = j]
    BY <1>1 DEF Ensured, j
  <2> QED
    BY <2>1, <2>2, JobMoves
<1>2. CASE job[d] # NoJob
  BY <1>2 DEF Ensured, DeviceTypeOK, JobInv
<1> QED
  BY <1>1, <1>2

LEMMA RetiredTyped ==
  ASSUME DeviceTypeOK, NEW d \in Devices
  PROVE  RetireOwn(d) \in SUBSET Entry
<1>1. ASSUME NEW e \in cache[d]
      PROVE  [from |-> e.from, ver |-> e.ver, key |-> e.key,
              distributed |-> e.distributed /\ e.from # Owner(d)] \in Entry
  <2> DEFINE still == e.distributed /\ e.from # Owner(d)
  <2>1. still \in BOOLEAN
    BY Zenon
  <2>2. e \in Entry
    BY DEF DeviceTypeOK
  <2> HIDE DEF still
  <2>3. [from |-> e.from, ver |-> e.ver, key |-> e.key, distributed |-> still] \in Entry
    BY <2>1, <2>2 DEF Entry
  <2> QED
    BY <2>3, Zenon DEF still
<1> QED
  BY <1>1, Zenon DEF RetireOwn

\* A step of the devices keeps the types.
LEMMA TypedStep ==
  ASSUME Typed, [DeviceNext]_all
  PROVE  Typed'
<1>1. TypeOK' /\ pushed' = {}
  BY ServerStep, TypeStep DEF Typed
<1>2. DeviceTypeOK /\ JobInv
  BY DEF Typed
<1>3. ASSUME UNCHANGED all \/ Change
      PROVE  DeviceTypeOK' /\ JobInv'
  <2>1. UNCHANGED <<cache, job, sending, sealed, failures>>
    BY <1>3 DEF all, local, Change
  <2>2. DeviceTypeOK'
    BY <1>2, <2>1 DEF DeviceTypeOK
  <2>3. JobInv'
    BY <1>2, <2>1 DEF JobInv
  <2> QED
    BY <2>2, <2>3
<1>4. ASSUME NEW d \in Devices, Job(d)
      PROVE  DeviceTypeOK' /\ JobInv'
  BY <1>4, JobTyped
<1>5. ASSUME NEW d \in Devices, EncryptGroupMessage(d)
      PROVE  DeviceTypeOK' /\ JobInv'
  <2>1. /\ sending' = sending \cup {d} /\ job' = Ensured(d)
        /\ UNCHANGED <<cache, sealed, failures>>
    BY <1>5 DEF EncryptGroupMessage
  <2> QED
    BY <1>2, <2>1, EnsuredTyped DEF DeviceTypeOK
<1>6. ASSUME NEW d \in Devices, NEW entries \in SUBSET Entry,
             cache' = [cache EXCEPT ![d] = entries] \/ UNCHANGED cache,
             job' = Ensured(d) \/ UNCHANGED job,
             UNCHANGED <<sending, sealed, failures>>
      PROVE  DeviceTypeOK' /\ JobInv'
  <2>1. CASE job' = Ensured(d)
    BY <1>2, <1>6, <2>1, EnsuredTyped DEF DeviceTypeOK
  <2>2. CASE UNCHANGED job
    BY <1>2, <1>6, <2>2 DEF DeviceTypeOK, JobInv
  <2> QED
    BY <1>6, <2>1, <2>2
<1>7. ASSUME NEW d \in Devices, RecoverGroups(d)
      PROVE  DeviceTypeOK' /\ JobInv'
  BY <1>6, <1>7 DEF RecoverGroups
<1>8. ASSUME NEW d \in Devices, Event(d)
      PROVE  DeviceTypeOK' /\ JobInv'
  <2>1. ASSUME NEW f \in outgoing, ImportGroupDistribution(d, f.body)
        PROVE  DeviceTypeOK' /\ JobInv'
    <3>1. f.body \in Publication
      BY DEF Typed
    <3>2. Imported(d, {f.body}) \in SUBSET Entry
      BY <1>2, <3>1, ImportedType DEF Publication
    <3> QED
      BY <1>6, <2>1, <3>2 DEF ImportGroupDistribution
  <2>2. CASE HandleRotate(d) \/ HandleFailed(d)
    BY <1>2, <1>6, <2>2, RetiredTyped DEF HandleRotate, HandleFailed
  <2>3. CASE HandleRemoved(d)
    BY <1>6, <2>3 DEF HandleRemoved
  <2> QED
    BY <1>8, <2>1, <2>2, <2>3 DEF Event
<1>9. \A f \in outgoing' : f.body \in Publication
  BY OutgoingStep DEF Typed
<1> QED
  BY <1>1, <1>3, <1>4, <1>5, <1>7, <1>8, <1>9 DEF DeviceNext, Typed

LEMMA TypedInit == DeviceInit => Typed
<1> SUFFICES ASSUME DeviceInit PROVE Typed
  OBVIOUS
<1>1. TypeOK /\ pushed = {}
  BY GroupAssumption DEF DeviceInit, Init, TypeOK, Epochs, Roles
<1>2. NoJob \in JobType /\ NoJob.phase = "none"
  BY GroupAssumption DEF NoJob, JobAt, JobType, Phases
<1>3. outgoing = {}
  BY DEF DeviceInit, Init
<1>4. /\ cache = [d \in Devices |-> {}] /\ job = [d \in Devices |-> NoJob]
      /\ sending = {} /\ sealed = {} /\ failures = 0
  BY DEF DeviceInit
<1>5. DeviceTypeOK
  BY <1>2, <1>4, DeviceAssumption DEF DeviceTypeOK
<1>6. JobInv
  BY <1>2, <1>4 DEF JobInv
<1> QED
  BY <1>1, <1>3, <1>5, <1>6 DEF Typed

LEMMA AlwaysTyped == DeviceSpec => []Typed
BY TypedInit, TypedStep, PTL DEF DeviceSpec

\* The server that the devices use is GroupEpoch: all that is proved of it holds
\* under any number of devices, whatever they ask for.
THEOREM ServerIsGroupEpoch == DeviceSpec => Spec
<1>1. DeviceInit => Init
  BY DEF DeviceInit
<1>2. Typed /\ [DeviceNext]_all => [Next]_vars
  BY ServerStep
<1> QED
  BY <1>1, <1>2, AlwaysTyped, PTL DEF DeviceSpec, Spec

\* Every variable of the devices keeps its type, and no message waits for a job
\* that is over.
THEOREM DeviceTypes == DeviceSpec => []DeviceTypeOK
<1>1. Typed => DeviceTypeOK
  BY DEF Typed
<1> QED
  BY <1>1, AlwaysTyped, PTL

-----------------------------------------------------------------------------
(* What the server has published.                                             *)

\* What was published once stays published.
LEMMA IssuedStays ==
  ASSUME outgoing \subseteq outgoing', NEW u, NEW p, Issued(u, p)
  PROVE  Issued(u, p)'
BY DEF Issued

\* The fields of publications, and the epochs they can be of.
LEMMA PublishedFields ==
  ASSUME Typed, IInv
  PROVE  /\ \A f \in outgoing :
              /\ f.body \in Publication /\ f.body.from \in Users
              /\ f.body.ver \in Nat \ {0} /\ f.body.ver <= key_epoch
              /\ f.to \subseteq members_at[f.body.ver] /\ f.to \subseteq Users
         /\ \A r \in distributions :
              r.from \in Users /\ r.ver \in Nat /\ r.ver <= key_epoch
         /\ key_epoch \in Nat \ {0}
         /\ \A u \in Users : joined_epoch[u] \in Nat
<1>1. \A f \in outgoing : f \in FanOut /\ f.body \in Publication
  BY DEF Typed, TypeOK
<1>2. Epochs \subseteq Nat \ {0} /\ key_epoch \in Epochs
  BY GroupAssumption DEF Epochs, Typed, TypeOK
<1>3. \A f \in outgoing : f.body.from \in Users /\ f.body.ver \in Epochs /\ f.to \subseteq Users
  BY <1>1 DEF Publication, FanOut
<1>4. \A r \in distributions : r.from \in Users /\ r.ver \in Epochs
  BY DEF Typed, TypeOK, Distribution
<1>5. \A f \in outgoing : f.body.ver <= key_epoch /\ f.to \subseteq members_at[f.body.ver]
  BY DEF IInv, FrameInv
<1>6. \A r \in distributions : r.ver <= key_epoch
  BY DEF IInv, KeyInv
<1>7. \A u \in Users : joined_epoch[u] \in Nat
  BY GroupAssumption DEF Typed, TypeOK
<1> QED
  BY <1>1, <1>2, <1>3, <1>4, <1>5, <1>6, <1>7

\* A new epoch keeps what was published, if only members that go lose their
\* copies and who joins does so in the new epoch.
LEMMA AdvanceIssued ==
  ASSUME Typed, IInv, IssuedInv,
         key_epoch' = key_epoch + 1, outgoing' = outgoing,
         distributions' \subseteq distributions,
         \A r \in distributions \ distributions' : r.to \notin Members',
         \A x \in Members' : \/ x \in Members /\ joined_epoch'[x] = joined_epoch[x]
                             \/ joined_epoch'[x] = key_epoch + 1
  PROVE  IssuedInv'
<1>1. \A f \in outgoing : f.body.ver < key_epoch' /\ f.body.ver \in Nat
  BY PublishedFields
<1>2. \A r \in distributions' : Issued(r.to, r)'
  BY IssuedStays DEF IssuedInv
<1>3. ASSUME NEW f \in outgoing, NEW u \in Members', joined_epoch'[u] <= f.body.ver
      PROVE  [from |-> f.body.from, to |-> u, ver |-> f.body.ver, key |-> f.body.key]
               \in distributions'
  <2> DEFINE r == [from |-> f.body.from, to |-> u, ver |-> f.body.ver, key |-> f.body.key]
  <2>1. u \in Members /\ joined_epoch'[u] = joined_epoch[u]
    BY <1>3, PublishedFields
  <2>2. r \in distributions /\ r.to = u
    BY <1>3, <2>1 DEF IssuedInv
  <2> QED
    BY <2>2
<1>4. \A f, g \in outgoing : SameSlot(f.body, g.body) => f.body.key = g.body.key
  BY DEF IssuedInv
<1>5. \A f \in outgoing : f.body.ver # key_epoch'
  BY <1>1, PublishedFields
<1> QED
  BY <1>2, <1>3, <1>4, <1>5 DEF IssuedInv

\* A publication is the first of its sender and epoch, and has a copy for each
\* member.
LEMMA UploadIssued ==
  ASSUME Typed, IInv, IssuedInv, NEW u \in Users, NEW v \in Epochs,
         NEW r \in SUBSET Users, NEW k \in Keys, UploadSenderKeys(u, v, r, k)
  PROVE  IssuedInv'
<1> DEFINE p == [from |-> u, ver |-> v, key |-> k]
           f0 == [to |-> Members, body |-> p]
<1>1. /\ status = "live" /\ v = key_epoch /\ r = Members /\ sender_keys[u] = 0
      /\ sender_keys' = [sender_keys EXCEPT ![u] = v]
      /\ distributions' = distributions \cup Wrapped(p, Members)
      /\ outgoing' = outgoing \cup {f0}
      /\ UNCHANGED <<status, key_epoch, joined_epoch>> /\ Members' = Members
  BY DEF UploadSenderKeys, group_rows, Members
<1>2. p.from = u /\ p.ver = v /\ p.key = k /\ f0.to = Members /\ f0.body = p
  OBVIOUS
<1>3. ASSUME NEW f \in outgoing
      PROVE  ~(f.body.from = u /\ f.body.ver = v)
  BY <1>1 DEF IssuedInv
<1>4. \A f, g \in outgoing' : SameSlot(f.body, g.body) => f.body.key = g.body.key
  BY <1>1, <1>2, <1>3 DEF IssuedInv, SameSlot
<1>5. ASSUME NEW f \in outgoing', f.body.ver = key_epoch
      PROVE  sender_keys'[f.body.from] # 0
  <2>1. v # 0
    BY GroupAssumption DEF Epochs
  <2>2. sender_keys \in [Users -> 0..MaxEpoch]
    BY DEF Typed, TypeOK
  <2>3. CASE f \in outgoing
    BY <1>1, <1>5, <2>1, <2>2, <2>3, PublishedFields DEF IssuedInv
  <2>4. CASE f = f0
    BY <1>1, <1>2, <2>1, <2>2, <2>4
  <2> QED
    BY <1>1, <2>3, <2>4
<1>6. ASSUME NEW f \in outgoing', NEW x \in Members, joined_epoch[x] <= f.body.ver
      PROVE  [from |-> f.body.from, to |-> x, ver |-> f.body.ver, key |-> f.body.key]
               \in distributions'
  <2>1. CASE f \in outgoing
    BY <1>1, <1>6, <2>1 DEF IssuedInv
  <2>2. CASE f = f0
    BY <1>1, <1>2, <2>2 DEF Wrapped
  <2> QED
    BY <1>1, <2>1, <2>2
<1>7. ASSUME NEW d \in distributions'
      PROVE  Issued(d.to, d)'
  <2>1. CASE d \in distributions
    BY <1>1, <2>1, IssuedStays DEF IssuedInv
  <2>2. CASE d \in Wrapped(p, Members)
    <3>1. d.to \in Members /\ d.from = u /\ d.ver = v /\ d.key = k
      BY <2>2 DEF Wrapped
    <3> QED
      BY <1>1, <1>2, <3>1 DEF Issued
  <2> QED
    BY <1>1, <2>1, <2>2
<1> HIDE DEF p, f0
<1> QED
  BY <1>1, <1>4, <1>5, <1>6, <1>7 DEF IssuedInv

\* The handlers that change the membership, each by what it does to the epoch.
LEMMA ChangeIssued ==
  ASSUME Typed, IInv, IssuedInv, Change
  PROVE  IssuedInv'
<1>1. ASSUME NEW u \in Users, NEW us \in SUBSET Users, CreateGroup(u, us)
      PROVE  IssuedInv'
  <2>1. outgoing = {} /\ distributions = {}
    BY <1>1 DEF CreateGroup, IInv, AttemptInv, KeyInv
  <2>2. outgoing' = {} /\ distributions' = {}
    BY <1>1, <2>1 DEF CreateGroup, frames, key_rows
  <2> QED
    BY <2>2 DEF IssuedInv
<1>2. ASSUME NEW added \in SUBSET Users, Insert(added)
      PROVE  IssuedInv'
  <2>1. /\ key_epoch' = key_epoch + 1 /\ outgoing' = outgoing
        /\ distributions' = distributions
    BY <1>2 DEF Insert, AdvanceEpoch, frames
  <2>2. \A x \in Members' : \/ x \in Members /\ joined_epoch'[x] = joined_epoch[x]
                            \/ joined_epoch'[x] = key_epoch + 1
    BY <1>2 DEF Insert, Members
  <2> QED
    BY <2>1, <2>2, AdvanceIssued
<1>3. ASSUME NEW u \in Users, NEW v \in Users, NEW leaving \in BOOLEAN,
             RevokeMember(u, v, leaving)
      PROVE  IssuedInv'
  <2>1. /\ key_epoch' = key_epoch + 1 /\ outgoing' = outgoing
        /\ distributions' = {d \in distributions : d.to # v}
    BY <1>3 DEF RevokeMember, AdvanceEpoch, frames
  <2>2. /\ v \notin Members'
        /\ \A x \in Members' : x \in Members /\ joined_epoch'[x] = joined_epoch[x]
    BY <1>3 DEF RevokeMember, Members, Typed, TypeOK
  <2> QED
    BY <2>1, <2>2, AdvanceIssued
<1>4. CASE RotateIdentity
  <2>1. /\ key_epoch' = key_epoch + 1 /\ outgoing' = outgoing
        /\ distributions' = distributions
        /\ Members' = Members /\ joined_epoch' = joined_epoch
    BY <1>4 DEF RotateIdentity, AdvanceEpoch, frames, Members
  <2> QED
    BY <2>1, AdvanceIssued
<1>5. ASSUME NEW u \in Users, DisbandGroup(u)
      PROVE  IssuedInv'
  <2>1. /\ status' # "live" /\ Members' = {} /\ distributions' = {}
        /\ outgoing' = outgoing
    BY <1>5 DEF DisbandGroup, frames, Members
  <2> QED
    BY <2>1 DEF IssuedInv
<1> QED
  BY <1>1, <1>2, <1>3, <1>4, <1>5
     DEF Change, AddMembers, JoinByInvite, LeaveGroup, RemoveMember

LEMMA IssuedStep ==
  ASSUME Typed, IInv, IssuedInv, [DeviceNext]_all
  PROVE  IssuedInv'
<1>1. CASE Change
  BY <1>1, ChangeIssued
<1>2. ASSUME NEW d \in Devices, Upload(d)
      PROVE  IssuedInv'
  <2>1. UploadSenderKeys(Owner(d), job[d].epoch, job[d].members, job[d].key)
    BY <1>2 DEF Upload
  <2>2. /\ Owner(d) \in Users /\ job[d].epoch \in Epochs
        /\ job[d].members \in SUBSET Users /\ job[d].key \in Keys
    BY <1>2, DeviceAssumption DEF Upload, Typed, DeviceTypeOK, JobInv, JobType
  <2> QED
    BY <2>1, <2>2, UploadIssued
<1>3. UNCHANGED vars => IssuedInv'
  BY DEF vars, group_rows, key_rows, frames, IssuedInv, Issued, Members
<1> QED
  BY <1>1, <1>2, <1>3, LocalStep DEF DeviceNext, all

-----------------------------------------------------------------------------
(* What devices hold.                                                         *)

\* Entries of one slot that were both published are of one key.
LEMMA OneIssue ==
  ASSUME Typed, IssuedInv, NEW u, NEW x, NEW p, NEW q,
         Issued(u, p), Issued(x, q), SameSlot(p, q)
  PROVE  p.key = q.key
<1>1. PICK f \in outgoing : f.body = [from |-> p.from, ver |-> p.ver, key |-> p.key]
  BY DEF Issued
<1>2. PICK g \in outgoing : g.body = [from |-> q.from, ver |-> q.ver, key |-> q.key]
  BY DEF Issued
<1>3. SameSlot(f.body, g.body) /\ f.body.key = p.key /\ g.body.key = q.key
  BY <1>1, <1>2 DEF SameSlot
<1> QED
  BY <1>3 DEF IssuedInv

\* Storing keys that were published leaves one entry per slot, each published.
LEMMA StoreHeld ==
  ASSUME CacheHeld, NEW d \in Devices, NEW new,
         \A n \in new : Issued(Owner(d), n),
         \A m, n \in new : SameSlot(m, n) => m = n
  PROVE  \A e \in StoreSenderKey(cache[d], new) :
           /\ Issued(Owner(d), e)
           /\ \A f \in StoreSenderKey(cache[d], new) : SameSlot(e, f) => e = f
BY DEF CacheHeld, StoreSenderKey, SameSlot

LEMMA ImportHeld ==
  ASSUME Typed, IssuedInv, CacheHeld, NEW d \in Devices, NEW rows,
         \A r \in rows : Issued(Owner(d), r)
  PROVE  \A e \in Imported(d, rows) :
           /\ Issued(Owner(d), e)
           /\ \A f \in Imported(d, rows) : SameSlot(e, f) => e = f
<1> DEFINE new == {[from |-> r.from, ver |-> r.ver, key |-> r.key,
                    distributed |-> r.from = Owner(d)] : r \in rows}
<1>1. ASSUME NEW n \in new
      PROVE  Issued(Owner(d), n)
  <2>1. PICK r \in rows : /\ n.from = r.from /\ n.ver = r.ver /\ n.key = r.key
    OBVIOUS
  <2> QED
    BY <2>1 DEF Issued
<1>2. ASSUME NEW m \in new, NEW n \in new, SameSlot(m, n)
      PROVE  m = n
  <2>1. m.key = n.key
    BY <1>1, <1>2, OneIssue
  <2>2. PICK r \in rows : m = [from |-> r.from, ver |-> r.ver, key |-> r.key,
                               distributed |-> r.from = Owner(d)]
    BY Zenon
  <2>3. PICK q \in rows : n = [from |-> q.from, ver |-> q.ver, key |-> q.key,
                               distributed |-> q.from = Owner(d)]
    BY Zenon
  <2>4. r.from = q.from /\ r.ver = q.ver /\ r.key = q.key
    BY <1>2, <2>1, <2>2, <2>3 DEF SameSlot
  <2> QED
    BY <2>2, <2>3, <2>4
<1> HIDE DEF new
<1>3. Imported(d, rows) = StoreSenderKey(cache[d], new)
  BY DEF Imported, new
<1> QED
  BY <1>1, <1>2, <1>3, StoreHeld

\* Retired keys are still the published ones.
LEMMA RetireHeld ==
  ASSUME CacheHeld, NEW d \in Devices
  PROVE  \A e \in RetireOwn(d) :
           /\ Issued(Owner(d), e)
           /\ \A f \in RetireOwn(d) : SameSlot(e, f) => e = f
<1> DEFINE Retired(x) == [from |-> x.from, ver |-> x.ver, key |-> x.key,
                          distributed |-> x.distributed /\ x.from # Owner(d)]
<1>1. RetireOwn(d) = {Retired(x) : x \in cache[d]}
  BY DEF RetireOwn
<1>2. \A x \in cache[d] : /\ Retired(x).from = x.from /\ Retired(x).ver = x.ver
                          /\ Retired(x).key = x.key
  OBVIOUS
<1> HIDE DEF Retired
<1>3. ASSUME NEW x \in cache[d]
      PROVE  Issued(Owner(d), Retired(x))
  BY <1>2 DEF CacheHeld, Issued
<1>4. ASSUME NEW x \in cache[d], NEW y \in cache[d], SameSlot(Retired(x), Retired(y))
      PROVE  Retired(x) = Retired(y)
  <2>1. SameSlot(x, y)
    BY <1>2, <1>4 DEF SameSlot
  <2> QED
    BY <2>1 DEF CacheHeld
<1> QED
  BY <1>1, <1>3, <1>4

\* A cache that is replaced by one that holds what it should.
LEMMA CacheStep ==
  ASSUME Typed, CacheHeld, outgoing \subseteq outgoing', NEW d \in Devices,
         NEW entries,
         \A e \in entries : /\ Issued(Owner(d), e)
                            /\ \A f \in entries : SameSlot(e, f) => e = f,
         cache' = [cache EXCEPT ![d] = entries]
  PROVE  CacheHeld'
<1>1. \A x \in Devices : cache'[x] = IF x = d THEN entries ELSE cache[x]
  BY DEF Typed, DeviceTypeOK
<1>2. ASSUME NEW x \in Devices, NEW e \in cache'[x]
      PROVE  Issued(Owner(x), e)' /\ \A f \in cache'[x] : SameSlot(e, f) => e = f
  <2>1. Issued(Owner(x), e) /\ \A f \in cache'[x] : SameSlot(e, f) => e = f
    BY <1>1, <1>2 DEF CacheHeld
  <2> QED
    BY <2>1, IssuedStays
<1> QED
  BY <1>2 DEF CacheHeld, SameSlot

\* The same as Issued, after the step.
IssuedThen(u, p) ==
  \E f \in outgoing' :
    u \in f.to /\ f.body = [from |-> p.from, ver |-> p.ver, key |-> p.key]

\* A job that moves on with rows that were published, or having published.
LEMMA JobStep ==
  ASSUME Typed, JobHeld, outgoing \subseteq outgoing', NEW d \in Devices, NEW j,
         \A r \in j.rows : Issued(Owner(d), r),
         j.phase = "uploaded" =>
           IssuedThen(Owner(d), [from |-> Owner(d), ver |-> j.epoch, key |-> j.key]),
         job' = [job EXCEPT ![d] = j]
  PROVE  JobHeld'
<1>1. \A x \in Devices : job'[x] = IF x = d THEN j ELSE job[x]
  BY DEF Typed, DeviceTypeOK
<1>2. ASSUME NEW u, NEW p, Issued(u, p)
      PROVE  IssuedThen(u, p)
  BY <1>2 DEF Issued, IssuedThen
<1>3. ASSUME NEW x \in Devices
      PROVE  /\ \A r \in job'[x].rows : IssuedThen(Owner(x), r)
             /\ job'[x].phase = "uploaded" => IssuedThen(Owner(x),
                  [from |-> Owner(x), ver |-> job'[x].epoch, key |-> job'[x].key])
  <2>1. CASE x = d
    BY <1>1, <1>2, <2>1
  <2>2. CASE x # d
    BY <1>1, <1>2, <2>2 DEF JobHeld
  <2> QED
    BY <2>1, <2>2
<1> QED
  BY <1>3 DEF JobHeld, Issued, IssuedThen

\* A job that ends with published keys of its account.
LEMMA FinishHeld ==
  ASSUME Typed, JobHeld, SealedHeld, outgoing \subseteq outgoing',
         NEW d \in Devices, NEW keys, Finish(d, keys),
         \A e \in keys : Issued(Owner(d), e) /\ e.from = Owner(d)
  PROVE  JobHeld' /\ SealedHeld'
<1>1. /\ job' = [job EXCEPT ![d] = NoJob]
      /\ sealed' \subseteq sealed \cup
           {[from |-> e.from, ver |-> e.ver, key |-> e.key] : e \in keys}
  BY DEF Finish
<1>2. NoJob.rows = {} /\ NoJob.phase = "none"
  BY DEF NoJob, JobAt
<1>3. JobHeld'
  BY <1>1, <1>2, JobStep
<1>4. ASSUME NEW s \in sealed'
      PROVE  Issued(s.from, s)'
  <2>1. CASE s \in sealed
    BY <2>1, IssuedStays DEF SealedHeld
  <2>2. CASE s \notin sealed
    <3>1. PICK e \in keys : s = [from |-> e.from, ver |-> e.ver, key |-> e.key]
      BY <1>1, <2>2
    <3>2. Issued(s.from, s)
      BY <3>1 DEF Issued
    <3> QED
      BY <3>2, IssuedStays
  <2> QED
    BY <2>1, <2>2
<1> QED
  BY <1>3, <1>4 DEF SealedHeld

\* Each step of a job.
LEMMA JobHolds ==
  ASSUME Typed, IInv, IssuedInv, HeldInv, NEW d \in Devices, Job(d)
  PROVE  HeldInv'
<1>1. /\ CacheHeld /\ JobHeld /\ SealedHeld /\ Owner(d) \in Users
      /\ job[d] \in JobType
  BY DeviceAssumption DEF HeldInv, Typed, DeviceTypeOK
<1>2. outgoing \subseteq outgoing'
  BY OutgoingStep DEF DeviceNext
<1>3. \A r \in job[d].rows : Issued(Owner(d), r)
  BY DEF HeldInv, JobHeld
<1>4. ASSUME UNCHANGED cache
      PROVE  CacheHeld'
  BY <1>1, <1>2, <1>4, IssuedStays DEF CacheHeld, SameSlot
<1>5. ASSUME UNCHANGED sealed
      PROVE  SealedHeld'
  BY <1>1, <1>2, <1>5, IssuedStays DEF SealedHeld
<1>6. ASSUME NEW phase, NEW epoch, NEW members, NEW rows, NEW key,
             \A r \in rows : Issued(Owner(d), r),
             phase = "uploaded" =>
               IssuedThen(Owner(d), [from |-> Owner(d), ver |-> epoch, key |-> key]),
             job' = [job EXCEPT ![d] = JobAt(phase, epoch, members, rows, key)]
      PROVE  JobHeld'
  <2> DEFINE j == JobAt(phase, epoch, members, rows, key)
  <2>1. j.phase = phase /\ j.epoch = epoch /\ j.rows = rows /\ j.key = key
    BY DEF JobAt
  <2> HIDE DEF j
  <2>2. job' = [job EXCEPT ![d] = j]
    BY <1>6 DEF j
  <2> QED
    BY <1>1, <1>2, <1>6, <2>1, <2>2, JobStep
<1>18. ASSUME NEW phase, NEW epoch, NEW members, NEW key, phase # "uploaded",
              job' = [job EXCEPT ![d] = JobAt(phase, epoch, members, {}, key)]
       PROVE  JobHeld'
  <2> DEFINE j == JobAt(phase, epoch, members, {}, key)
  <2>1. j.phase = phase /\ j.rows = {}
    BY DEF JobAt
  <2> HIDE DEF j
  <2>2. job' = [job EXCEPT ![d] = j] /\ j.phase # "uploaded"
    BY <1>18, <2>1 DEF j
  <2> QED
    BY <1>1, <1>2, <2>1, <2>2, JobStep
<1>7. ASSUME cache' = [cache EXCEPT ![d] = Imported(d, job[d].rows)]
      PROVE  /\ CacheHeld'
             /\ \A e \in cache'[d] : Issued(Owner(d), e)
  <2>1. \A e \in Imported(d, job[d].rows) :
           /\ Issued(Owner(d), e)
           /\ \A f \in Imported(d, job[d].rows) : SameSlot(e, f) => e = f
    BY <1>1, <1>3, ImportHeld
  <2>2. cache'[d] = Imported(d, job[d].rows)
    BY <1>7 DEF Typed, DeviceTypeOK
  <2> QED
    BY <1>1, <1>2, <1>7, <2>1, <2>2, CacheStep
<1>8. ASSUME NEW entries, NEW epoch, \A e \in entries : Issued(Owner(d), e)
      PROVE  \A e \in Usable(d, entries, epoch) : Issued(Owner(d), e) /\ e.from = Owner(d)
  BY <1>8 DEF Usable
<1>9. CASE ReadDetail(d)
  <2>1. job' = [job EXCEPT ![d] = JobAt("check", key_epoch, Members, {}, NoKey)]
    BY <1>9 DEF ReadDetail
  <2>2. JobHeld'
    BY <1>18, <2>1
  <2> QED
    BY <1>4, <1>5, <1>9, <2>2 DEF ReadDetail, HeldInv
<1>10. CASE CheckOwn(d)
  <2>1. \A e \in Usable(d, cache[d], job[d].epoch) : Issued(Owner(d), e) /\ e.from = Owner(d)
    BY <1>1, <1>8 DEF CacheHeld
  <2>2. CASE Usable(d, cache[d], job[d].epoch) # {}
    BY <1>1, <1>2, <1>4, <1>10, <2>1, <2>2, FinishHeld DEF CheckOwn, HeldInv
  <2>3. CASE Usable(d, cache[d], job[d].epoch) = {}
    BY <1>1, <1>4, <1>5, <1>6, <1>10, <2>3 DEF CheckOwn, HeldInv
  <2> QED
    BY <2>2, <2>3
<1>11. CASE ReadKeys(d)
  <2>1. \A r \in Downloadable(Owner(d)) : Issued(Owner(d), r)
    BY DEF Downloadable, IssuedInv
  <2>2. (IF job[d].phase = "fetch" THEN "import" ELSE "recovered") # "uploaded"
    OBVIOUS
  <2> QED
    BY <1>1, <1>4, <1>5, <1>6, <1>11, <2>1, <2>2 DEF ReadKeys, HeldInv
<1>12. CASE ImportKeys(d)
  <2>1. CacheHeld' /\ \A e \in cache'[d] : Issued(Owner(d), e)
    BY <1>7, <1>12 DEF ImportKeys
  <2>2. \A e \in Usable(d, cache'[d], job[d].epoch) : Issued(Owner(d), e) /\ e.from = Owner(d)
    BY <1>8, <2>1
  <2>3. CASE Usable(d, cache'[d], job[d].epoch) # {}
    BY <1>1, <1>2, <1>12, <2>1, <2>2, <2>3, FinishHeld DEF ImportKeys, HeldInv
  <2>4. CASE Usable(d, cache'[d], job[d].epoch) = {}
    <3>1. PICK k \in Keys :
            job' = [job EXCEPT ![d] = JobAt("upload", job[d].epoch, job[d].members, {}, k)]
      BY <1>12, <2>4 DEF ImportKeys
    <3>2. JobHeld'
      BY <1>18, <3>1
    <3>3. UNCHANGED sealed
      BY <1>12, <2>4 DEF ImportKeys
    <3> QED
      BY <1>5, <2>1, <3>2, <3>3 DEF HeldInv
  <2> QED
    BY <2>3, <2>4
<1>13. CASE Upload(d)
  <2>1. CacheHeld' /\ SealedHeld'
    BY <1>4, <1>5, <1>13 DEF Upload
  <2>2. CASE job' = [job EXCEPT ![d] = JobAt("uploaded", job[d].epoch, {}, {}, job[d].key)]
    <3> DEFINE j == JobAt("uploaded", job[d].epoch, {}, {}, job[d].key)
    <3>1. j.epoch = job[d].epoch /\ j.key = job[d].key /\ j.rows = {}
      BY DEF JobAt
    <3> HIDE DEF j
    <3>2. \E f \in outgoing' :
            /\ Owner(d) \in f.to
            /\ f.body = [from |-> Owner(d), ver |-> job[d].epoch, key |-> job[d].key]
      <4> DEFINE own == [from |-> Owner(d), ver |-> job[d].epoch, key |-> job[d].key]
                 f0 == [to |-> job[d].members, body |-> own]
      <4>1. f0.to = job[d].members /\ f0.body = own
        OBVIOUS
      <4>2. Owner(d) \in job[d].members /\ outgoing' = outgoing \cup {f0}
        BY <1>13 DEF Upload, UploadSenderKeys
      <4> HIDE DEF f0
      <4> QED
        BY <4>1, <4>2
    <3>3. IssuedThen(Owner(d), [from |-> Owner(d), ver |-> j.epoch, key |-> j.key])
      BY <3>1, <3>2 DEF IssuedThen
    <3>4. job' = [job EXCEPT ![d] = j]
      BY <2>2 DEF j
    <3>5. JobHeld'
      BY <1>1, <1>2, <3>1, <3>3, <3>4, JobStep
    <3> QED
      BY <2>1, <3>5 DEF HeldInv
  <2>3. CASE job' = Recovering(d)
    <3>1. JobHeld'
      BY <1>18, <2>3 DEF Recovering
    <3> QED
      BY <2>1, <3>1 DEF HeldInv
  <2> QED
    BY <1>13, <2>2, <2>3 DEF Upload
<1>14. CASE NotUploaded(d)
  <2>1. job' = Recovering(d) /\ UNCHANGED <<cache, sealed>>
    BY <1>14 DEF NotUploaded
  <2>2. JobHeld'
    BY <1>18, <2>1 DEF Recovering
  <2> QED
    BY <1>4, <1>5, <2>1, <2>2 DEF HeldInv
<1>15. CASE Recovered(d)
  <2>1. CacheHeld' /\ \A e \in cache'[d] : Issued(Owner(d), e)
    BY <1>7, <1>15 DEF Recovered
  <2>2. \A e \in Usable(d, cache'[d], job[d].epoch) : Issued(Owner(d), e) /\ e.from = Owner(d)
    BY <1>8, <2>1
  <2> QED
    BY <1>1, <1>2, <1>15, <2>1, <2>2, FinishHeld DEF Recovered, HeldInv
<1>16. CASE StoreOwn(d)
  <2> DEFINE own == [from |-> Owner(d), ver |-> job[d].epoch, key |-> job[d].key,
                     distributed |-> TRUE]
  <2>1. Issued(Owner(d), own) /\ own.from = Owner(d)
    BY <1>1, <1>16 DEF StoreOwn, JobHeld, Issued
  <2>2. /\ cache' = [cache EXCEPT ![d] = StoreSenderKey(cache[d], {own})]
        /\ Finish(d, {own} \cap cache'[d])
    BY <1>16 DEF StoreOwn, Typed, DeviceTypeOK
  <2> HIDE DEF own
  <2>3. \A e \in StoreSenderKey(cache[d], {own}) :
           /\ Issued(Owner(d), e)
           /\ \A f \in StoreSenderKey(cache[d], {own}) : SameSlot(e, f) => e = f
    BY <1>1, <2>1, StoreHeld
  <2>4. CacheHeld'
    BY <1>1, <1>2, <2>2, <2>3, CacheStep
  <2>5. JobHeld' /\ SealedHeld'
    BY <1>1, <1>2, <2>1, <2>2, FinishHeld
  <2> QED
    BY <2>4, <2>5 DEF HeldInv
<1>17. CASE JobFails(d)
  <2>1. Finish(d, {}) /\ UNCHANGED cache
    BY <1>17 DEF JobFails
  <2>2. JobHeld' /\ SealedHeld'
    BY <1>1, <1>2, <2>1, FinishHeld
  <2> QED
    BY <1>4, <2>1, <2>2 DEF HeldInv
<1> QED
  BY <1>9, <1>10, <1>11, <1>12, <1>13, <1>14, <1>15, <1>16, <1>17 DEF Job

\* A step of the devices keeps what they hold published for them.
LEMMA HeldStep ==
  ASSUME Typed, IInv, IssuedInv, HeldInv, [DeviceNext]_all
  PROVE  HeldInv'
<1>1. /\ CacheHeld /\ JobHeld /\ SealedHeld
      /\ \A d \in Devices : Owner(d) \in Users
  BY DeviceAssumption DEF HeldInv
<1>2. outgoing \subseteq outgoing'
  BY OutgoingStep
<1>3. UNCHANGED cache => CacheHeld'
  BY <1>1, <1>2, IssuedStays DEF CacheHeld, SameSlot
<1>4. UNCHANGED sealed => SealedHeld'
  BY <1>1, <1>2, IssuedStays DEF SealedHeld
<1>5. ASSUME UNCHANGED job
      PROVE  JobHeld'
  BY <1>1, <1>2, <1>5 DEF JobHeld, Issued
<1>6. ASSUME NEW d \in Devices, job' = Ensured(d)
      PROVE  JobHeld'
  <2>1. CASE job[d] = NoJob
    <3> DEFINE j == JobAt("detail", 0, {}, {}, NoKey)
    <3>1. j.phase # "uploaded" /\ j.rows = {}
      BY DEF JobAt
    <3> HIDE DEF j
    <3>2. job' = [job EXCEPT ![d] = j]
      BY <1>6, <2>1 DEF Ensured, j
    <3> QED
      BY <1>1, <1>2, <3>1, <3>2, JobStep
  <2>2. CASE job[d] # NoJob
    BY <1>5, <1>6, <2>2 DEF Ensured
  <2> QED
    BY <2>1, <2>2
<1>7. ASSUME NEW d \in Devices, NEW entries,
             \A e \in entries : /\ Issued(Owner(d), e)
                                /\ \A f \in entries : SameSlot(e, f) => e = f,
             cache' = [cache EXCEPT ![d] = entries] \/ UNCHANGED cache,
             job' = Ensured(d) \/ UNCHANGED job, UNCHANGED sealed
      PROVE  HeldInv'
  <2>1. CacheHeld'
    BY <1>1, <1>2, <1>3, <1>7, CacheStep
  <2>2. JobHeld'
    BY <1>5, <1>6, <1>7
  <2> QED
    BY <1>4, <1>7, <2>1, <2>2 DEF HeldInv
<1>8. CASE UNCHANGED all \/ Change
  BY <1>3, <1>4, <1>5, <1>8 DEF all, local, Change, HeldInv
<1>9. ASSUME NEW d \in Devices, EncryptGroupMessage(d)
      PROVE  HeldInv'
  BY <1>3, <1>4, <1>6, <1>9 DEF EncryptGroupMessage, HeldInv
<1>10. ASSUME NEW d \in Devices, cache' = [cache EXCEPT ![d] = {}]
       PROVE  CacheHeld'
  <2> DEFINE entries == {}
  <2>1. \A e \in entries : /\ Issued(Owner(d), e)
                           /\ \A f \in entries : SameSlot(e, f) => e = f
    OBVIOUS
  <2>2. cache' = [cache EXCEPT ![d] = entries]
    BY <1>10
  <2> HIDE DEF entries
  <2> QED
    BY <1>1, <1>2, <2>1, <2>2, CacheStep
<1>12. ASSUME NEW d \in Devices, RecoverGroups(d)
       PROVE  HeldInv'
  <2>1. CacheHeld' /\ SealedHeld'
    BY <1>3, <1>4, <1>10, <1>12 DEF RecoverGroups
  <2>2. JobHeld'
    BY <1>5, <1>6, <1>12 DEF RecoverGroups
  <2> QED
    BY <2>1, <2>2 DEF HeldInv
<1>11. ASSUME NEW d \in Devices, Event(d)
       PROVE  HeldInv'
  <2>1. ASSUME NEW f \in outgoing, Owner(d) \in f.to, ImportGroupDistribution(d, f.body)
        PROVE  HeldInv'
    <3>1. f.body = [from |-> f.body.from, ver |-> f.body.ver, key |-> f.body.key]
      BY DEF Typed, Publication
    <3>2. \A r \in {f.body} : Issued(Owner(d), r)
      BY <2>1, <3>1 DEF Issued
    <3>3. \A e \in Imported(d, {f.body}) :
             /\ Issued(Owner(d), e)
             /\ \A x \in Imported(d, {f.body}) : SameSlot(e, x) => e = x
      BY <1>1, <3>2, ImportHeld
    <3>4. cache' = [cache EXCEPT ![d] = Imported(d, {f.body})] /\ UNCHANGED <<job, sealed>>
      BY <2>1 DEF ImportGroupDistribution
    <3> QED
      BY <1>7, <3>3, <3>4
  <2>2. CASE HandleRotate(d) \/ HandleFailed(d)
    <3>1. /\ cache' = [cache EXCEPT ![d] = RetireOwn(d)]
          /\ job' = Ensured(d) \/ UNCHANGED job
          /\ UNCHANGED sealed
      BY <2>2 DEF HandleRotate, HandleFailed
    <3> QED
      BY <1>1, <1>7, <3>1, RetireHeld
  <2>3. CASE HandleRemoved(d)
    BY <1>4, <1>5, <1>10, <2>3 DEF HandleRemoved, HeldInv
  <2> QED
    BY <1>11, <2>1, <2>2, <2>3 DEF Event
<1> QED
  BY <1>8, <1>9, <1>11, <1>12, JobHolds DEF DeviceNext

-----------------------------------------------------------------------------
(* The properties of the runs.                                                *)

LEMMA IssuedInit == DeviceInit => IssuedInv /\ HeldInv
<1> SUFFICES ASSUME DeviceInit PROVE IssuedInv /\ HeldInv
  OBVIOUS
<1>1. /\ outgoing = {} /\ distributions = {} /\ sealed = {}
      /\ cache = [d \in Devices |-> {}] /\ job = [d \in Devices |-> NoJob]
  BY DEF DeviceInit, Init
<1>2. NoJob.rows = {} /\ NoJob.phase = "none"
  BY DEF NoJob, JobAt
<1>3. IssuedInv
  BY <1>1 DEF IssuedInv
<1> QED
  BY <1>1, <1>2, <1>3 DEF HeldInv, CacheHeld, JobHeld, SealedHeld

\* What every device holds was published once, for its account, at every time.
LEMMA AlwaysIssued == DeviceSpec => [](Typed /\ IInv /\ IssuedInv /\ HeldInv)
<1>1. Spec => []IInv
  BY Invariance
<1>2. Typed /\ IInv /\ IssuedInv /\ HeldInv /\ [DeviceNext]_all => (IssuedInv /\ HeldInv)'
  BY IssuedStep, HeldStep
<1>3. DeviceSpec => [](Typed /\ IInv)
  BY <1>1, AlwaysTyped, ServerIsGroupEpoch, PTL
<1> QED
  BY <1>2, <1>3, IssuedInit, PTL DEF DeviceSpec

\* Whoever was a member when a message was encrypted and still is can get the key
\* it is encrypted with, whatever uploads of the sender's devices were lost or
\* came second.
THEOREM SealedReadable == DeviceSpec => []SealedIsReadable
<1>1. Typed /\ IInv /\ IssuedInv /\ HeldInv => SealedIsReadable
  <2> SUFFICES ASSUME Typed, IInv, IssuedInv, HeldInv,
                      NEW s \in sealed, NEW u \in Members, joined_epoch[u] <= s.ver
               PROVE  [from |-> s.from, to |-> u, ver |-> s.ver, key |-> s.key]
                        \in distributions
    BY DEF SealedIsReadable
  <2>1. PICK f \in outgoing : f.body = [from |-> s.from, ver |-> s.ver, key |-> s.key]
    BY DEF HeldInv, SealedHeld, Issued
  <2>2. f.body.from = s.from /\ f.body.ver = s.ver /\ f.body.key = s.key
    BY <2>1
  <2> QED
    BY <2>2 DEF IssuedInv
<1> QED
  BY <1>1, AlwaysIssued, PTL

\* No two devices ever disagree on the key of a sender in an epoch, and none has
\* a key of an epoch in which its account was no member.
THEOREM AgreeingCaches == DeviceSpec => []CachesAgree
<1>1. Typed /\ IInv /\ IssuedInv /\ HeldInv => CachesAgree
  <2> SUFFICES ASSUME Typed, IInv, IssuedInv, HeldInv,
                      NEW d \in Devices, NEW e \in cache[d]
               PROVE  /\ Owner(d) \in members_at[e.ver]
                      /\ \A f \in cache[d] : SameSlot(e, f) => e = f
                      /\ \A x \in Devices : \A f \in cache[x] :
                           SameSlot(e, f) => e.key = f.key
    BY DEF CachesAgree
  <2>1. Issued(Owner(d), e) /\ \A f \in cache[d] : SameSlot(e, f) => e = f
    BY DEF HeldInv, CacheHeld
  <2>2. Owner(d) \in members_at[e.ver]
    <3>1. PICK f \in outgoing : /\ Owner(d) \in f.to
                               /\ f.body = [from |-> e.from, ver |-> e.ver, key |-> e.key]
      BY <2>1 DEF Issued
    <3>2. f.body.ver = e.ver
      BY <3>1
    <3> QED
      BY <3>1, <3>2, PublishedFields
  <2>3. ASSUME NEW x \in Devices, NEW f \in cache[x], SameSlot(e, f)
        PROVE  e.key = f.key
    <3>1. Issued(Owner(x), f)
      BY DEF HeldInv, CacheHeld
    <3> QED
      BY <2>1, <2>3, <3>1, OneIssue
  <2> QED
    BY <2>1, <2>2, <2>3
<1> QED
  BY <1>1, AlwaysIssued, PTL
-----------------------------------------------------------------------------
(* What devices keep.                                                         *)

\* Who leaves with a new epoch has been removed.
LEMMA AdvanceGone ==
  ASSUME Typed, IInv, GoneInv, status = "live", status' = "live",
         Members' \in SUBSET Users, AdvanceEpoch(Members')
  PROVE  GoneInv'
<1>1. /\ key_epoch' = key_epoch + 1 /\ key_epoch \in Nat \ {0}
      /\ members_at'[key_epoch'] = Members'
      /\ \A e \in 1..key_epoch : members_at'[e] = members_at[e]
  BY AdvanceFacts DEF Typed
<1>2. members_at[key_epoch] = Members
  BY DEF IInv, IntervalInv
<1>3. ASSUME NEW e \in 1..key_epoch', NEW u \in members_at'[e], u \notin Members'
      PROVE  WasRemoved(u)'
  <2>1. e \in 1..key_epoch /\ u \in members_at[e]
    BY <1>1, <1>3
  <2>2. CASE u \in Members
    BY <1>1, <1>2, <1>3, <2>2 DEF WasRemoved
  <2>3. CASE u \notin Members
    <3>1. PICK x \in 1..key_epoch :
            /\ u \in members_at[x]
            /\ IF x < key_epoch THEN u \notin members_at[x + 1] ELSE u \notin Members
      BY <2>1, <2>3 DEF GoneInv, WasRemoved
    <3>2. x < key_epoch
      BY <1>1, <1>2, <2>3, <3>1
    <3> QED
      BY <1>1, <3>1, <3>2 DEF WasRemoved
  <2> QED
    BY <2>2, <2>3
<1> QED
  BY <1>3 DEF GoneInv

LEMMA GoneStep ==
  ASSUME Typed, IInv, GoneInv, [DeviceNext]_all
  PROVE  GoneInv'
<1>1. key_epoch \in Nat \ {0}
  BY GroupAssumption DEF Typed, TypeOK, Epochs
<1>2. ASSUME UNCHANGED <<status, key_epoch, role, members_at>>
      PROVE  GoneInv'
  BY <1>2 DEF GoneInv, WasRemoved, Members
<1>3. ASSUME NEW u \in Users, NEW us \in SUBSET Users, CreateGroup(u, us)
      PROVE  GoneInv'
  <2>1. key_epoch' = 1 /\ status' = "live"
    BY <1>3 DEF CreateGroup, IInv, IntervalInv
  <2>2. members_at'[1] = us \cup {u} /\ Members' = us \cup {u}
    BY <1>3, GroupAssumption DEF CreateGroup, Members, Typed, TypeOK, Epochs
  <2> QED
    BY <2>1, <2>2 DEF GoneInv
<1>4. ASSUME NEW added \in SUBSET Users, Insert(added), status = "live"
      PROVE  GoneInv'
  <2>1. Members' = Members \cup added /\ status' = "live" /\ AdvanceEpoch(Members \cup added)
    BY <1>4 DEF Insert, Members, Typed, TypeOK
  <2> QED
    BY <1>4, <2>1, AdvanceGone DEF Members
<1>5. ASSUME NEW u \in Users, NEW v \in Users, NEW leaving \in BOOLEAN,
             RevokeMember(u, v, leaving)
      PROVE  GoneInv'
  <2>1. /\ Members' = Members \ {v} /\ status = "live" /\ status' = "live"
        /\ AdvanceEpoch(Members \ {v})
    BY <1>5 DEF RevokeMember, Members, Typed, TypeOK
  <2> QED
    BY <2>1, AdvanceGone DEF Members
<1>6. CASE RotateIdentity
  <2>1. Members' = Members /\ status = "live" /\ status' = "live" /\ AdvanceEpoch(Members)
    BY <1>6 DEF RotateIdentity, Members
  <2> QED
    BY <2>1, AdvanceGone DEF Members
<1>7. ASSUME NEW u \in Users, DisbandGroup(u)
      PROVE  GoneInv'
  <2>1. /\ status = "live" /\ status' = "disbanded" /\ Members' = {}
        /\ UNCHANGED <<key_epoch, members_at>>
    BY <1>7 DEF DisbandGroup, Members
  <2>2. members_at[key_epoch] = Members
    BY <2>1 DEF IInv, IntervalInv
  <2>3. ASSUME NEW e \in 1..key_epoch, NEW x \in members_at[e]
        PROVE  WasRemoved(x)'
    <3>1. CASE x \in Members
      BY <1>1, <2>1, <2>2, <3>1 DEF WasRemoved
    <3>2. CASE x \notin Members
      BY <1>1, <2>1, <2>3, <3>2 DEF GoneInv, WasRemoved
    <3> QED
      BY <3>1, <3>2
  <2> QED
    BY <2>1, <2>3 DEF GoneInv
<1>8. CASE Change
  BY <1>3, <1>4, <1>5, <1>6, <1>7, <1>8
     DEF Change, AddMembers, JoinByInvite, LeaveGroup, RemoveMember
<1>9. ASSUME NEW d \in Devices, Upload(d)
      PROVE  GoneInv'
  BY <1>2, <1>9 DEF Upload, UploadSenderKeys, group_rows
<1>10. UNCHANGED vars => GoneInv'
  BY <1>2 DEF vars, group_rows
<1> QED
  BY <1>8, <1>9, <1>10, LocalStep DEF DeviceNext, all

\* A stored key takes the place of an entry of the same key only.
LEMMA StoreKeeps ==
  ASSUME NEW entries, NEW new, NEW e \in entries
  PROVE  \E f \in StoreSenderKey(entries, new) : SameSlot(e, f) /\ f.key = e.key
BY DEF StoreSenderKey, SameSlot

LEMMA RetireKeeps ==
  ASSUME NEW d, NEW e \in cache[d]
  PROVE  \E f \in RetireOwn(d) : SameSlot(e, f) /\ f.key = e.key
<1> DEFINE f == [from |-> e.from, ver |-> e.ver, key |-> e.key,
                 distributed |-> e.distributed /\ e.from # Owner(d)]
<1>1. f.from = e.from /\ f.ver = e.ver /\ f.key = e.key
  OBVIOUS
<1>2. f \in RetireOwn(d)
  BY Zenon DEF RetireOwn
<1> HIDE DEF f
<1> QED
  BY <1>1, <1>2 DEF SameSlot

\* A cache that is cleared for an account that is no member is one of an account
\* that has been removed.
LEMMA HolderRemoved ==
  ASSUME Typed, IInv, GoneInv, HeldInv, NEW d \in Devices, NEW e \in cache[d],
         Owner(d) \notin Members
  PROVE  WasRemoved(Owner(d))
<1>1. PICK f \in outgoing : /\ Owner(d) \in f.to
                           /\ f.body = [from |-> e.from, ver |-> e.ver, key |-> e.key]
  BY DEF HeldInv, CacheHeld, Issued
<1>2. /\ f.body.ver \in Nat \ {0} /\ f.body.ver <= key_epoch /\ key_epoch \in Nat
      /\ f.to \subseteq members_at[f.body.ver]
  BY PublishedFields
<1>3. Owner(d) \in members_at[f.body.ver] /\ f.body.ver \in 1..key_epoch
  BY <1>1, <1>2
<1> QED
  BY <1>3 DEF GoneInv

\* A key is kept through rotations, failures, fetches and conflicts, until the
\* account loses the group.
THEOREM HistoryKept == DeviceSpec => KeepsHistory
<1> DEFINE Kept(d, e) == \/ \E f \in cache'[d] : SameSlot(e, f) /\ f.key = e.key
                         \/ WasRemoved(Owner(d))
<1>1. ASSUME Typed, IInv, GoneInv, HeldInv, [DeviceNext]_all,
             NEW d \in Devices, NEW e \in cache[d]
      PROVE  Kept(d, e)
  <2>1. ASSUME cache'[d] = cache[d]
        PROVE  Kept(d, e)
    BY <2>1 DEF SameSlot
  <2>2. ASSUME NEW x \in Devices, NEW new,
               cache' = [cache EXCEPT ![x] = StoreSenderKey(cache[x], new)]
        PROVE  Kept(d, e)
    <3>1. cache'[d] = IF d = x THEN StoreSenderKey(cache[d], new) ELSE cache[d]
      BY <1>1, <2>2 DEF Typed, DeviceTypeOK
    <3> QED
      BY <1>1, <2>1, <3>1, StoreKeeps
  <2>3. ASSUME NEW x \in Devices, NEW rows,
               cache' = [cache EXCEPT ![x] = Imported(x, rows)]
        PROVE  Kept(d, e)
    <3> DEFINE new == {[from |-> r.from, ver |-> r.ver, key |-> r.key,
                        distributed |-> r.from = Owner(x)] : r \in rows}
    <3>1. Imported(x, rows) = StoreSenderKey(cache[x], new)
      BY DEF Imported
    <3> HIDE DEF new
    <3> QED
      BY <2>2, <2>3, <3>1
  <2>4. ASSUME NEW x \in Devices, cache' = [cache EXCEPT ![x] = RetireOwn(x)]
        PROVE  Kept(d, e)
    <3>1. cache'[d] = IF d = x THEN RetireOwn(d) ELSE cache[d]
      BY <1>1, <2>4 DEF Typed, DeviceTypeOK
    <3> QED
      BY <1>1, <2>1, <3>1, RetireKeeps
  <2>5. ASSUME NEW x \in Devices, cache' = [cache EXCEPT ![x] = {}],
               Owner(x) \notin Members \/ WasRemoved(Owner(x))
        PROVE  Kept(d, e)
    <3>1. CASE d = x
      BY <1>1, <2>5, <3>1, HolderRemoved
    <3>2. CASE d # x
      BY <1>1, <2>1, <2>5, <3>2 DEF Typed, DeviceTypeOK
    <3> QED
      BY <3>1, <3>2
  <2> HIDE DEF Kept
  <2>6. CASE UNCHANGED all \/ Change
    BY <2>1, <2>6 DEF all, local, Change
  <2>7. ASSUME NEW x \in Devices, Job(x)
        PROVE  Kept(d, e)
    <3>1. CASE UNCHANGED cache
      BY <2>1, <3>1
    <3>2. CASE ImportKeys(x) \/ Recovered(x)
      BY <2>3, <3>2 DEF ImportKeys, Recovered
    <3>3. CASE StoreOwn(x)
      <4> DEFINE own == [from |-> Owner(x), ver |-> job[x].epoch, key |-> job[x].key,
                         distributed |-> TRUE]
      <4>1. cache' = [cache EXCEPT ![x] = StoreSenderKey(cache[x], {own})]
        BY <1>1, <3>3 DEF StoreOwn, Typed, DeviceTypeOK
      <4> HIDE DEF own
      <4> QED
        BY <2>2, <4>1
    <3>4. UNCHANGED cache \/ ImportKeys(x) \/ Recovered(x) \/ StoreOwn(x)
      BY <2>7 DEF Job, ReadDetail, CheckOwn, ReadKeys, Upload, NotUploaded, JobFails
    <3> QED
      BY <3>1, <3>2, <3>3, <3>4
  <2>8. ASSUME NEW x \in Devices, EncryptGroupMessage(x) \/ RecoverGroups(x)
        PROVE  Kept(d, e)
    BY <2>1, <2>5, <2>8 DEF EncryptGroupMessage, RecoverGroups
  <2>9. ASSUME NEW x \in Devices, Event(x)
        PROVE  Kept(d, e)
    BY <2>3, <2>4, <2>5, <2>9
       DEF Event, ImportGroupDistribution, HandleRotate, HandleFailed, HandleRemoved
  <2> QED
    BY <1>1, <2>6, <2>7, <2>8, <2>9 DEF DeviceNext
<1>2. DeviceInit => GoneInv
  BY GroupAssumption DEF DeviceInit, Init, GoneInv, Epochs
<1>3. Typed /\ IInv /\ GoneInv /\ [DeviceNext]_all => GoneInv'
  BY GoneStep
<1>4. Typed /\ IInv /\ GoneInv /\ HeldInv /\ [DeviceNext]_all =>
        [\A d \in Devices : \A e \in cache[d] : Kept(d, e)]_all
  BY <1>1
<1>5. DeviceSpec => [](Typed /\ IInv /\ GoneInv /\ HeldInv)
  BY <1>2, <1>3, AlwaysIssued, PTL DEF DeviceSpec
<1> QED
  BY <1>4, <1>5, PTL DEF DeviceSpec, KeepsHistory
==============================================================================
