----------------------------- MODULE GroupEpoch -----------------------------
(***************************************************************************)
(* The signed-group protocol as the server enforces it: one group, its     *)
(* membership, its key epoch, the sender keys its members publish and the   *)
(* messages they send (server/src/routes/groups.rs and the group branch of  *)
(* server/src/ws/server.rs).  Every handler locks the row of the group      *)
(* first, so a transaction is one step; what it pushes to sockets after the *)
(* commit is a step of its own, and a restart of the server loses it.       *)
(***************************************************************************)
EXTENDS Integers, FiniteSets

CONSTANTS
  Users,        \* accounts
  ClientIds,    \* client_msg_id values
  Keys,         \* sender-key material a device may generate
  MaxEpoch,     \* the largest key_epoch (u32::MAX in the code)
  MaxMembers    \* MAX_GROUP_MEMBERS

ASSUME GroupAssumption ==
  /\ IsFiniteSet(Users)
  /\ MaxEpoch \in Nat \ {0}
  /\ MaxMembers \in Nat \ {0}

VARIABLES
  status,         \* "absent", "live" or "disbanded"
  key_epoch,      \* groups.key_epoch
  role,           \* group_members.role, "none" for no row
  joined_epoch,   \* group_members.joined_epoch, 0 for no row
  sender_keys,    \* group_sender_keys.key_version, 0 for no row
  distributions,  \* rows of group_sender_key_distributions
  messages,       \* group rows of the messages table
  attempts,       \* messages that clients encrypted and may (re)send
  refused,        \* attempts answered with message_failed
  outgoing,       \* fan-outs that a handler runs after its commit
  acked,          \* attempts whose ack was queued to the sender's socket
  pushed,         \* the frames the last step pushed: <<user, epoch>>
  members_at      \* history: who was a member in each epoch

group_rows == <<status, key_epoch, role, joined_epoch>>
key_rows   == <<sender_keys, distributions>>
traffic    == <<messages, attempts, refused>>
frames     == <<outgoing, acked>>
vars       == <<group_rows, key_rows, traffic, frames, pushed, members_at>>

Epochs       == 1..MaxEpoch
Roles        == {"owner", "admin", "member"}
Message      == [from : Users, cid : ClientIds, ver : Epochs]
Distribution == [from : Users, to : Users, ver : Epochs, key : Keys]
Publication  == [from : Users, ver : Epochs, key : Keys]
FanOut       == [to : SUBSET Users, body : Message \cup Publication]

Members == {u \in Users : role[u] # "none"}

-----------------------------------------------------------------------------
Init ==
  /\ status = "absent"
  /\ key_epoch = 1
  /\ role = [u \in Users |-> "none"]
  /\ joined_epoch = [u \in Users |-> 0]
  /\ sender_keys = [u \in Users |-> 0]
  /\ distributions = {}
  /\ messages = {}
  /\ attempts = {}
  /\ refused = {}
  /\ outgoing = {}
  /\ acked = {}
  /\ pushed = {}
  /\ members_at = [e \in Epochs |-> {}]

\* create_group: the creator is the owner, everyone joins in epoch 1.
CreateGroup(owner, others) ==
  LET members == others \cup {owner} IN
  /\ status = "absent"
  /\ Cardinality(members) <= MaxMembers
  /\ status' = "live"
  /\ role' = [u \in Users |-> CASE u = owner -> "owner"
                                [] u \in members \ {owner} -> "member"
                                [] OTHER -> "none"]
  /\ joined_epoch' = [u \in Users |-> IF u \in members THEN 1 ELSE 0]
  /\ members_at' = [members_at EXCEPT ![1] = members]
  /\ UNCHANGED <<key_epoch, key_rows, traffic, frames>>

\* Mutant: published sender keys survive the rotation.
AdvanceEpoch_KeepsKeys(members) ==
  /\ key_epoch < MaxEpoch
  /\ key_epoch' = key_epoch + 1
  /\ sender_keys' = sender_keys
  /\ members_at' = [members_at EXCEPT ![key_epoch + 1] = members]

\* advance_epoch: checked increment, and every published sender key is retired.
AdvanceEpoch(members) ==
  /\ key_epoch < MaxEpoch
  /\ key_epoch' = key_epoch + 1
  /\ sender_keys' = [u \in Users |-> 0]
  /\ members_at' = [members_at EXCEPT ![key_epoch + 1] = members]

\* The rows INSERT IGNORE creates for those who are not members yet.
Insert(added) ==
  /\ role' = [u \in Users |-> IF u \in added THEN "member" ELSE role[u]]
  /\ joined_epoch' = [u \in Users |-> IF u \in added THEN key_epoch + 1
                                                     ELSE joined_epoch[u]]
  /\ AdvanceEpoch(Members \cup added)
  /\ UNCHANGED <<status, distributions, traffic, frames>>

\* add_members: the limit counts every requested id, also present members.
AddMembers(actor, user_ids) ==
  /\ status = "live"
  /\ actor \in Members
  /\ Cardinality(Members) + Cardinality(user_ids) <= MaxMembers
  /\ user_ids \ Members # {}
  /\ Insert(user_ids \ Members)

\* join_by_invite, with an invite that has not expired.
JoinByInvite(user) ==
  /\ status = "live"
  /\ Cardinality(Members) < MaxMembers
  /\ user \notin Members
  /\ Insert({user})

\* revoke_member's permission check.
MayRevoke(actor, user, leaving) ==
  /\ actor \in Members /\ user \in Members
  /\ role[user] # "owner"
  /\ \/ leaving
     \/ role[actor] = "owner"
     \/ role[actor] = "admin" /\ role[user] # "admin"

\* Mutant: the keys the target authored are deleted as well.
RevokeMember_DropsAuthored(actor, user, leaving) ==
  /\ status = "live"
  /\ MayRevoke(actor, user, leaving)
  /\ role' = [role EXCEPT ![user] = "none"]
  /\ joined_epoch' = [joined_epoch EXCEPT ![user] = 0]
  /\ distributions' = {d \in distributions : user \notin {d.to, d.from}}
  /\ AdvanceEpoch(Members \ {user})
  /\ UNCHANGED <<status, traffic, frames>>

\* revoke_member: the target loses its row and every key addressed to it.
RevokeMember(actor, user, leaving) ==
  /\ status = "live"
  /\ MayRevoke(actor, user, leaving)
  /\ role' = [role EXCEPT ![user] = "none"]
  /\ joined_epoch' = [joined_epoch EXCEPT ![user] = 0]
  /\ distributions' = {d \in distributions : d.to # user}
  /\ AdvanceEpoch(Members \ {user})
  /\ UNCHANGED <<status, traffic, frames>>

RemoveMember(actor, user) == RevokeMember(actor, user, FALSE)
LeaveGroup(user) == RevokeMember(user, user, TRUE)

\* The loop body of rotate_identity_groups for this group.  The member whose
\* identity changed was read before the lock and is not checked again under it.
RotateIdentity ==
  /\ status = "live"
  /\ AdvanceEpoch(Members)
  /\ UNCHANGED <<status, role, joined_epoch, distributions, traffic, frames>>

\* disband_group: ON DELETE CASCADE empties every table but messages.
DisbandGroup(actor) ==
  /\ status = "live"
  /\ role[actor] = "owner"
  /\ status' = "disbanded"
  /\ role' = [u \in Users |-> "none"]
  /\ joined_epoch' = [u \in Users |-> 0]
  /\ sender_keys' = [u \in Users |-> 0]
  /\ distributions' = {}
  /\ UNCHANGED <<key_epoch, traffic, frames, members_at>>

\* The rows one publication inserts: the same key, wrapped for each recipient.
Wrapped(p, recipients) ==
  {[from |-> p.from, to |-> r, ver |-> p.ver, key |-> p.key] : r \in recipients}

\* Mutant: an earlier publication of the same epoch is not looked up.
UploadSenderKeys_Again(user, key_version, recipients, key) ==
  LET p == [from |-> user, ver |-> key_version, key |-> key] IN
  /\ status = "live"
  /\ key_version = key_epoch
  /\ user \in Members
  /\ recipients = Members
  /\ sender_keys' = [sender_keys EXCEPT ![user] = key_version]
  /\ distributions' = distributions \cup Wrapped(p, recipients)
  /\ outgoing' = outgoing \cup {[to |-> recipients, body |-> p]}
  /\ UNCHANGED <<group_rows, traffic, acked, members_at>>

\* upload_sender_keys: the version, the recipients and the absence of an
\* earlier publication are all compared under the row lock.
UploadSenderKeys(user, key_version, recipients, key) ==
  LET p == [from |-> user, ver |-> key_version, key |-> key] IN
  /\ status = "live"
  /\ key_version = key_epoch
  /\ user \in Members
  /\ recipients = Members
  /\ sender_keys[user] = 0
  /\ sender_keys' = [sender_keys EXCEPT ![user] = key_version]
  /\ distributions' = distributions \cup Wrapped(p, recipients)
  /\ outgoing' = outgoing \cup {[to |-> recipients, body |-> p]}
  /\ UNCHANGED <<group_rows, traffic, acked, members_at>>

-----------------------------------------------------------------------------
\* A client encrypts a message under the key its account published.  The frame
\* waits in the outbox, so it can reach the server late and more than once.
Compose(user, cid) ==
  /\ sender_keys[user] # 0
  /\ attempts' = attempts \cup
       {[from |-> user, cid |-> cid, ver |-> sender_keys[user]]}
  /\ UNCHANGED <<group_rows, key_rows, messages, refused, frames, members_at>>

\* A row with the same sender and client_msg_id is already stored.
Stored(a) == \E m \in messages : m.from = a.from /\ m.cid = a.cid

\* The membership and epoch checks of the group branch of the socket handler.
InEpoch(a) ==
  /\ a.from \in Members
  /\ a.ver = key_epoch
  /\ sender_keys[a.from] = key_epoch

\* An exact committed duplicate is acknowledged, whatever the epoch is now.
AckDuplicate(a) ==
  /\ a \in messages
  /\ outgoing' = outgoing \cup {[to |-> {a.from}, body |-> a]}
  /\ UNCHANGED <<group_rows, key_rows, traffic, acked, members_at>>

\* Mutant: membership and epoch are checked before the duplicate is looked up.
RefuseMessage_EpochFirst(a) ==
  /\ ~InEpoch(a) \/ (Stored(a) /\ a \notin messages)
  /\ refused' = refused \cup {a}
  /\ UNCHANGED <<group_rows, key_rows, messages, attempts, frames, members_at>>

\* message_failed: another content under the same client_msg_id, or a check.
RefuseMessage(a) ==
  /\ IF Stored(a) THEN a \notin messages ELSE ~InEpoch(a)
  /\ refused' = refused \cup {a}
  /\ UNCHANGED <<group_rows, key_rows, messages, attempts, frames, members_at>>

\* The row is committed; the fan-out goes to the members read in the
\* transaction, the sender's share of it being the ack.
StoreMessage(a) ==
  /\ ~Stored(a)
  /\ InEpoch(a)
  /\ messages' = messages \cup {a}
  /\ outgoing' = outgoing \cup {[to |-> Members, body |-> a]}
  /\ UNCHANGED <<group_rows, key_rows, attempts, refused, acked, members_at>>

SendMessage(a) == AckDuplicate(a) \/ RefuseMessage(a) \/ StoreMessage(a)

\* Mutant: the recipients are read when the fan-out runs, not in the transaction.
Push_CurrentMembers(job) ==
  /\ outgoing' = outgoing \ {job}
  /\ pushed' = Members \X {job.body.ver}
  /\ \/ acked' = acked
     \/ job.body \in Message /\ acked' = acked \cup {job.body}
  /\ UNCHANGED <<group_rows, key_rows, traffic, members_at>>

\* The fan-out runs over the recipients the handler holds; the sender of a
\* message may have lost its connection, and with it the ack.
Push(job) ==
  /\ outgoing' = outgoing \ {job}
  /\ pushed' = job.to \X {job.body.ver}
  /\ \/ acked' = acked
     \/ job.body \in Message /\ acked' = acked \cup {job.body}
  /\ UNCHANGED <<group_rows, key_rows, traffic, members_at>>

\* The process restarts: fan-outs that had not run are gone.
Restart ==
  /\ outgoing # {}
  /\ outgoing' = {}
  /\ UNCHANGED <<group_rows, key_rows, traffic, acked, members_at>>

Handler ==
  \/ \E u \in Users, us \in SUBSET Users : CreateGroup(u, us)
  \/ \E u \in Users, us \in SUBSET Users : AddMembers(u, us)
  \/ \E u \in Users : JoinByInvite(u)
  \/ \E u, v \in Users : RemoveMember(u, v)
  \/ \E u \in Users : LeaveGroup(u)
  \/ RotateIdentity
  \/ \E u \in Users : DisbandGroup(u)
  \/ \E u \in Users, v \in Epochs, r \in SUBSET Users, k \in Keys :
       UploadSenderKeys(u, v, r, k)
  \/ \E u \in Users, c \in ClientIds : Compose(u, c)
  \/ \E a \in attempts : SendMessage(a)
  \/ Restart

Next ==
  \/ Handler /\ pushed' = {}
  \/ \E job \in outgoing : Push(job)

Spec == Init /\ [][Next]_vars

-----------------------------------------------------------------------------
TypeOK ==
  /\ status \in {"absent", "live", "disbanded"}
  /\ key_epoch \in Epochs
  /\ role \in [Users -> Roles \cup {"none"}]
  /\ joined_epoch \in [Users -> 0..MaxEpoch]
  /\ sender_keys \in [Users -> 0..MaxEpoch]
  /\ distributions \subseteq Distribution
  /\ messages \subseteq Message
  /\ attempts \subseteq Message
  /\ refused \subseteq Message
  /\ outgoing \subseteq FanOut
  /\ acked \subseteq Message
  /\ pushed \subseteq Users \X Epochs
  /\ members_at \in [Epochs -> SUBSET Users]

\* What GET /messages/sync and GET /messages/group return to a member.
Visible(u) == {m \in messages : u \in Members /\ m.ver >= joined_epoch[u]}

\* What GET /groups/{id}/sender-keys returns to a member.
Downloadable(u) == {d \in distributions : /\ d.to = u /\ u \in Members
                                          /\ d.ver >= joined_epoch[u]}

\* A member that catches up can decrypt all it is given: for every message its
\* sync returns, the sender's key of that epoch is among the keys it may still
\* download, also when the sender has left since ("offline members retain
\* pre-departure distributions", groups_security_tests.rs).
CatchUpDecryptable ==
  \A u \in Users : \A m \in Visible(u) :
    \E d \in Downloadable(u) : d.from = m.from /\ d.ver = m.ver

\* Nothing of an epoch reaches an account that was not a member in it: not by
\* sync, not by a key download, and not by a fan-out, however late it runs after
\* its commit ("Rejoining starts a new membership interval").
MembershipIntervals ==
  /\ \A u \in Users : \A m \in Visible(u) \cup Downloadable(u) :
       u \in members_at[m.ver]
  /\ \A f \in pushed : f[1] \in members_at[f[2]]

\* All holders of one sender's key of one epoch hold the same key, whichever of
\* the sender's devices published first ("each sender can publish only once
\* per epoch").
OneKeyPerEpoch ==
  \A d, e \in distributions :
    d.from = e.from /\ d.ver = e.ver => d.key = e.key

\* The answers a sender gets are true: an acknowledged message is stored, and
\* one reported as failed never is, also when the answer to the first copy was
\* lost and the epoch moved on before the retry.
AnswersAreTrue ==
  /\ acked \subseteq messages
  /\ refused \cap messages = {}

\* A live group keeps exactly one owner and at most MAX_GROUP_MEMBERS members;
\* a group that is not live has none left.
GroupShape ==
  IF status = "live"
  THEN /\ \E u \in Users : \A v \in Users : role[v] = "owner" <=> v = u
       /\ Cardinality(Members) <= MaxMembers
  ELSE Members = {} /\ distributions = {}

\* Every change of the membership of a live group opens the next epoch with no
\* sender key published, so no key is ever used for two memberships.
MembershipFence ==
  [][status = "live" /\ status' = "live" /\ Members' # Members
     => /\ key_epoch' = key_epoch + 1
        /\ \A u \in Users : sender_keys'[u] = 0]_vars

-----------------------------------------------------------------------------
(* The inductive invariant behind the properties above, in named parts.     *)

\* Within a membership interval the history agrees with the rows.
IntervalInv ==
  /\ status = "absent" => key_epoch = 1
  /\ status # "live" => Members = {}
  /\ status = "live" => members_at[key_epoch] = Members
  /\ \A u \in Members : /\ joined_epoch[u] \in 1..key_epoch
                        /\ \A e \in joined_epoch[u]..key_epoch :
                             u \in members_at[e]

\* A published key is a current member's, of the current epoch, and every
\* current member has a copy.
KeyInv ==
  /\ \A u \in Users : sender_keys[u] # 0 =>
       /\ status = "live" /\ u \in Members /\ sender_keys[u] = key_epoch
       /\ \A v \in Members : \E d \in distributions :
            d.from = u /\ d.to = v /\ d.ver = key_epoch
  /\ status # "live" => distributions = {}
  /\ \A d \in distributions :
       /\ d.ver <= key_epoch
       /\ d.to \in members_at[d.ver]
       /\ d.ver = key_epoch => sender_keys[d.from] # 0

\* A stored message is readable by whoever was a member then and still is.
MessageInv ==
  \A m \in messages :
    /\ m.ver <= key_epoch
    /\ m.from \in members_at[m.ver]
    /\ \A u \in Members : joined_epoch[u] <= m.ver =>
         \E d \in distributions : d.from = m.from /\ d.to = u /\ d.ver = m.ver

\* An attempt is of the epoch its key was published in, and a refused one can
\* never be stored later.
AttemptInv ==
  /\ status = "absent" => attempts = {} /\ messages = {} /\ outgoing = {}
  /\ \A a \in attempts :
       /\ a.ver <= key_epoch
       /\ a.ver = key_epoch /\ status = "live" => sender_keys[a.from] = key_epoch
  /\ \A a \in refused :
       /\ a \notin messages
       /\ status # "absent"
       /\ Stored(a) \/ a.ver < key_epoch \/ status = "disbanded"

\* Pending fan-outs, and the frames just pushed, belong to members of their epoch.
FrameInv ==
  /\ \A job \in outgoing :
       /\ job.body.ver <= key_epoch
       /\ job.to \subseteq members_at[job.body.ver]
       /\ job.body \in Message => job.body \in messages
  /\ acked \subseteq messages
  /\ \A f \in pushed : f[2] <= key_epoch /\ f[1] \in members_at[f[2]]

IInv == IntervalInv /\ KeyInv /\ MessageInv /\ AttemptInv /\ FrameInv
=============================================================================
