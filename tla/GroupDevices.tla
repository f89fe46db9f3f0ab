---------------------------- MODULE GroupDevices ----------------------------
(***************************************************************************)
(* The sender keys of a group on the devices of its members                 *)
(* (client/src/crypto/signedGroups.ts, groupCrypto.ts and the group events  *)
(* of hooks/useSocket.ts), composed with the server of GroupEpoch.  A device *)
(* publishes a key per epoch, fetches those of others, and encrypts under    *)
(* the key that its one running job returns.  Requests, answers and events   *)
(* of several devices interleave, and each of them may be lost.  What the    *)
(* server does with an encrypted message is left to GroupEpoch.              *)
(***************************************************************************)
EXTENDS GroupEpoch

CONSTANTS
  Devices,       \* devices that are logged in
  Owner(_),      \* the account of a device
  MaxFailures    \* bound: requests that fail or whose answer is lost

ASSUME DeviceAssumption ==
  /\ \A d \in Devices : Owner(d) \in Users
  /\ MaxFailures \in Nat

VARIABLES
  cache,     \* senderKeyCache, without the unsigned keys of old groups
  job,       \* the running ensureGroupSenderKey job of a device
  sending,   \* devices on which Chat waits for that job with a message
  sealed,    \* history: sender, epoch and key of the encrypted messages
  failures

local == <<cache, job, sending, sealed>>
all   == <<vars, local, failures>>

NoKey == "none"
JobAt(phase, epoch, members, rows, key) ==
  [phase |-> phase, epoch |-> epoch, members |-> members, rows |-> rows, key |-> key]
NoJob == JobAt("none", 0, {}, {}, NoKey)
Entry == [from : Users, ver : Epochs, key : Keys, distributed : BOOLEAN]

-----------------------------------------------------------------------------
(* The cache of sender keys.                                                 *)

SameSlot(e, f) == e.from = f.from /\ e.ver = f.ver

\* Mutant: the earlier entry of the same epoch is not filtered out.
StoreSenderKey_Appends(entries, new) == entries \cup new

\* storeSenderKey: an entry keeps its key once it is authenticated.
StoreSenderKey(entries, new) ==
  LET taken == {n \in new : \A e \in entries : SameSlot(e, n) => e.key = n.key}
  IN {e \in entries : \A n \in taken : ~SameSlot(e, n)} \cup taken

\* importGroupDistribution: a key of one's own account counts as distributed.
Imported(d, rows) ==
  StoreSenderKey(cache[d], {[from |-> r.from, ver |-> r.ver, key |-> r.key,
                             distributed |-> r.from = Owner(d)] : r \in rows})

\* Mutant: the retired keys are deleted.
RetireOwn_Deletes(d) == {e \in cache[d] : e.from # Owner(d)}

\* retireOwnSenderKeys: no sending with them, but they still decrypt.
RetireOwn(d) ==
  {[from |-> e.from, ver |-> e.ver, key |-> e.key,
    distributed |-> e.distributed /\ e.from # Owner(d)] : e \in cache[d]}

\* The key ensureGroupSenderKey may return for an epoch.
Usable(d, entries, epoch) ==
  {e \in entries : e.from = Owner(d) /\ e.ver = epoch /\ e.distributed}

-----------------------------------------------------------------------------
DeviceInit ==
  /\ Init
  /\ cache = [d \in Devices |-> {}]
  /\ job = [d \in Devices |-> NoJob]
  /\ sending = {}
  /\ sealed = {}
  /\ failures = 0

Fail == failures < MaxFailures /\ failures' = failures + 1

-----------------------------------------------------------------------------
(* ensureGroupSenderKey.  Who calls it while a job runs is given that job.   *)

Ensured(d) ==
  IF job[d] = NoJob THEN [job EXCEPT ![d] = JobAt("detail", 0, {}, {}, NoKey)] ELSE job

\* The job is over: a waiting encryptGroupMessage goes on with its key, or is
\* rejected when there is none.
Finish(d, keys) ==
  /\ job' = [job EXCEPT ![d] = NoJob]
  /\ sending' = sending \ {d}
  /\ sealed' = sealed \cup
       {[from |-> e.from, ver |-> e.ver, key |-> e.key] : e \in {k \in keys : d \in sending}}

\* GET /groups/{id} is served.
ReadDetail(d) ==
  /\ job[d].phase = "detail"
  /\ Owner(d) \in Members
  /\ job' = [job EXCEPT ![d] = JobAt("check", key_epoch, Members, {}, NoKey)]
  /\ UNCHANGED <<vars, cache, sending, sealed, failures>>

\* Its answer: a key that is published for this epoch is used at once.
CheckOwn(d) ==
  LET own == Usable(d, cache[d], job[d].epoch) IN
  /\ job[d].phase = "check"
  /\ IF own # {} THEN Finish(d, own)
     ELSE /\ job' = [job EXCEPT ![d] =
                        JobAt("fetch", job[d].epoch, job[d].members, {}, NoKey)]
          /\ UNCHANGED <<sending, sealed>>
  /\ UNCHANGED <<vars, cache, failures>>

\* GET /groups/{id}/sender-keys is served, before or after the upload.
ReadKeys(d) ==
  /\ job[d].phase \in {"fetch", "recover"}
  /\ Owner(d) \in Members
  /\ job' = [job EXCEPT ![d] =
       JobAt(IF job[d].phase = "fetch" THEN "import" ELSE "recovered",
             job[d].epoch, job[d].members, Downloadable(Owner(d)), NoKey)]
  /\ UNCHANGED <<vars, cache, sending, sealed, failures>>

\* Its answer before the upload: the own key of the epoch, or a new one.
ImportKeys(d) ==
  /\ job[d].phase = "import"
  /\ cache' = [cache EXCEPT ![d] = Imported(d, job[d].rows)]
  /\ LET own == Usable(d, cache'[d], job[d].epoch) IN
     IF own # {} THEN Finish(d, own)
     ELSE /\ \E k \in Keys : job' = [job EXCEPT ![d] =
               JobAt("upload", job[d].epoch, job[d].members, {}, k)]
          /\ UNCHANGED <<sending, sealed>>
  /\ UNCHANGED <<vars, failures>>

\* Mutant: a failed upload counts as done.
Recovering_Trusts(d) ==
  [job EXCEPT ![d] = JobAt("uploaded", job[d].epoch, {}, {}, job[d].key)]

\* After a failed upload the keys are fetched again.
Recovering(d) == [job EXCEPT ![d] = JobAt("recover", job[d].epoch, {}, {}, NoKey)]

\* POST /groups/{id}/sender-keys is accepted; its answer arrives or is lost.
Upload(d) ==
  /\ job[d].phase = "upload"
  /\ UploadSenderKeys(Owner(d), job[d].epoch, job[d].members, job[d].key)
  /\ \/ /\ job' = [job EXCEPT ![d] = JobAt("uploaded", job[d].epoch, {}, {}, job[d].key)]
        /\ UNCHANGED failures
     \/ job' = Recovering(d) /\ Fail
  /\ UNCHANGED <<pushed, cache, sending, sealed>>

\* It is not: a request is lost, or the server answers with a conflict because
\* another device has published or the group has changed since.
NotUploaded(d) ==
  /\ job[d].phase = "upload"
  /\ \/ Fail
     \/ /\ ~(/\ status = "live" /\ job[d].epoch = key_epoch
             /\ job[d].members = Members /\ sender_keys[Owner(d)] = 0)
        /\ UNCHANGED failures
  /\ job' = Recovering(d)
  /\ UNCHANGED <<vars, cache, sending, sealed>>

\* The keys fetched after a failed upload hold the one that was published, or none.
Recovered(d) ==
  /\ job[d].phase = "recovered"
  /\ cache' = [cache EXCEPT ![d] = Imported(d, job[d].rows)]
  /\ Finish(d, Usable(d, cache'[d], job[d].epoch))
  /\ UNCHANGED <<vars, failures>>

\* The upload was answered: the generated key is stored and returned.
StoreOwn(d) ==
  LET own == [from |-> Owner(d), ver |-> job[d].epoch, key |-> job[d].key,
              distributed |-> TRUE]
  IN /\ job[d].phase = "uploaded"
     /\ cache' = [cache EXCEPT ![d] = StoreSenderKey(@, {own})]
     /\ Finish(d, {own} \cap cache'[d])
     /\ UNCHANGED <<vars, failures>>

\* Any other request fails, or is refused to who is not a member: the job ends.
JobFails(d) ==
  /\ job[d].phase \in {"detail", "fetch", "recover"}
  /\ \/ Fail
     \/ Owner(d) \notin Members /\ UNCHANGED failures
  /\ Finish(d, {})
  /\ UNCHANGED <<vars, cache>>

-----------------------------------------------------------------------------
(* The callers, and the events.  A frame may be late or lost, so a device may *)
(* handle each event at any time after its cause, or never.                   *)

\* encryptGroupMessage; Chat encrypts one message at a time.
EncryptGroupMessage(d) ==
  /\ d \notin sending
  /\ sending' = sending \cup {d}
  /\ job' = Ensured(d)
  /\ UNCHANGED <<vars, cache, sealed, failures>>

\* recoverGroups, after auth_ok or group_member_added.  A list of groups that is
\* out of date when it arrives has the effect of HandleRemoved.
RecoverGroups(d) ==
  /\ job[d] = NoJob
  /\ IF Owner(d) \in Members THEN job' = Ensured(d) /\ cache' = cache
                             ELSE cache' = [cache EXCEPT ![d] = {}] /\ job' = job
  /\ UNCHANGED <<vars, sending, sealed, failures>>

\* A key in a sender_key_distribution frame, or in the answer to a
\* fetchGroupKeys that the job has not asked for.
ImportGroupDistribution(d, p) ==
  /\ cache' = [cache EXCEPT ![d] = Imported(d, {p})]
  /\ UNCHANGED <<vars, job, sending, sealed, failures>>

\* sender_key_rotate: own keys are retired, then the job is awaited.
HandleRotate(d) ==
  /\ \E e \in 2..key_epoch : Owner(d) \in members_at[e]
  /\ cache' = [cache EXCEPT ![d] = RetireOwn(d)]
  /\ job' = Ensured(d)
  /\ UNCHANGED <<vars, sending, sealed, failures>>

\* message_failed, for a message of an earlier epoch: own keys are retired.
HandleFailed(d) ==
  /\ \E m \in sealed : m.from = Owner(d) /\ ~InEpoch(m)
  /\ cache' = [cache EXCEPT ![d] = RetireOwn(d)]
  /\ UNCHANGED <<vars, job, sending, sealed, failures>>

\* The account has lost the group, now or at some time.
WasRemoved(u) ==
  \E e \in 1..key_epoch : /\ u \in members_at[e]
                          /\ IF e < key_epoch THEN u \notin members_at[e + 1] ELSE u \notin Members

\* group_removed: all keys of the group are cleared.
HandleRemoved(d) ==
  /\ WasRemoved(Owner(d))
  /\ cache' = [cache EXCEPT ![d] = {}]
  /\ UNCHANGED <<vars, job, sending, sealed, failures>>

-----------------------------------------------------------------------------
\* The handlers of the server that change who may publish.
Change ==
  /\ \/ \E u \in Users, us \in SUBSET Users : CreateGroup(u, us) \/ AddMembers(u, us)
     \/ \E u \in Users : JoinByInvite(u) \/ LeaveGroup(u) \/ DisbandGroup(u)
     \/ \E u, v \in Users : RemoveMember(u, v)
     \/ RotateIdentity
  /\ UNCHANGED <<pushed, local, failures>>

Job(d) ==
  \/ ReadDetail(d) \/ CheckOwn(d) \/ ReadKeys(d) \/ ImportKeys(d) \/ Upload(d)
  \/ NotUploaded(d) \/ Recovered(d) \/ StoreOwn(d) \/ JobFails(d)

Event(d) ==
  \/ \E f \in outgoing : Owner(d) \in f.to /\ ImportGroupDistribution(d, f.body)
  \/ HandleRotate(d) \/ HandleFailed(d) \/ HandleRemoved(d)

DeviceNext ==
  \/ Change
  \/ \E d \in Devices : Job(d) \/ EncryptGroupMessage(d) \/ RecoverGroups(d) \/ Event(d)

DeviceSpec == DeviceInit /\ [][DeviceNext]_all

-----------------------------------------------------------------------------
Phases == {"none", "detail", "check", "fetch", "import", "upload", "uploaded",
           "recover", "recovered"}

JobType == [phase : Phases, epoch : 0..MaxEpoch, members : SUBSET Users,
            rows : SUBSET Distribution, key : Keys \cup {NoKey}]

DeviceTypeOK ==
  /\ cache \in [Devices -> SUBSET Entry]
  /\ job \in [Devices -> JobType]
  /\ sending \subseteq Devices
  /\ \A d \in sending : job[d] # NoJob
  /\ sealed \subseteq Publication
  /\ failures \in 0..MaxFailures

\* Whoever was a member when a message was encrypted and still is can get the
\* very key it is encrypted with, whichever device of the sender wrote it, which
\* of them published first, and whatever answers were lost ("Recover an upload
\* whose response was lost, or a concurrent publisher", signedGroups.ts).
SealedIsReadable ==
  \A s \in sealed : \A u \in Members :
    u \in members_at[s.ver] /\ joined_epoch[u] <= s.ver =>
      [from |-> s.from, to |-> u, ver |-> s.ver, key |-> s.key] \in distributions

\* A device has one entry per sender and epoch, devices never hold different
\* keys for them, also when two devices of one account generate theirs at the
\* same time, and none holds a key of an epoch its account was not a member in.
CachesAgree ==
  \A d \in Devices : \A e \in cache[d] :
    /\ Owner(d) \in members_at[e.ver]
    /\ \A f \in cache[d] : SameSlot(e, f) => e = f
    /\ \A x \in Devices : \A f \in cache[x] : SameSlot(e, f) => e.key = f.key

\* A device keeps every key it holds through rotations, failures, fetches and
\* conflicts, until its account loses the group ("Retain historical epochs so
\* offline members can decrypt across rotations", groupCrypto.ts).
KeepsHistory ==
  [][\A d \in Devices : \A e \in cache[d] :
       \/ \E f \in cache'[d] : SameSlot(e, f) /\ f.key = e.key
       \/ WasRemoved(Owner(d))]_all

-----------------------------------------------------------------------------
(* The inductive invariant behind the properties above, in named parts.       *)

\* A job that has read the group has its epoch, and one that publishes a key.
JobInv ==
  \A d \in Devices :
    /\ job[d].phase \notin {"none", "detail"} => job[d].epoch \in Epochs
    /\ job[d].phase \in {"upload", "uploaded"} => job[d].key \in Keys

\* The types of both modules; the frames of this module are publications.
Typed ==
  /\ TypeOK /\ DeviceTypeOK /\ JobInv
  /\ pushed = {} /\ \A f \in outgoing : f.body \in Publication

\* The key of p was published for its sender and epoch, with a copy for u.
Issued(u, p) ==
  \E f \in outgoing :
    u \in f.to /\ f.body = [from |-> p.from, ver |-> p.ver, key |-> p.key]

\* What the server has published: once per sender and epoch, with a copy that is
\* kept for every member of that time who still is one.
IssuedInv ==
  /\ \A f, g \in outgoing : SameSlot(f.body, g.body) => f.body.key = g.body.key
  /\ \A f \in outgoing :
       status = "live" /\ f.body.ver = key_epoch => sender_keys[f.body.from] # 0
  /\ \A f \in outgoing : \A u \in Members :
       joined_epoch[u] <= f.body.ver =>
         [from |-> f.body.from, to |-> u, ver |-> f.body.ver, key |-> f.body.key]
           \in distributions
  /\ \A r \in distributions : Issued(r.to, r)

\* What devices hold was published for their account: the keys in their caches,
\* those on their way to a job, and those they have encrypted with.
CacheHeld ==
  \A d \in Devices : \A e \in cache[d] :
    /\ Issued(Owner(d), e)
    /\ \A f \in cache[d] : SameSlot(e, f) => e = f

JobHeld ==
  \A d \in Devices :
    /\ \A r \in job[d].rows : Issued(Owner(d), r)
    /\ job[d].phase = "uploaded" =>
         Issued(Owner(d), [from |-> Owner(d), ver |-> job[d].epoch, key |-> job[d].key])

SealedHeld == \A s \in sealed : Issued(s.from, s)

HeldInv == CacheHeld /\ JobHeld /\ SealedHeld

\* Who was a member in some epoch is one now, or has been removed.
GoneInv ==
  /\ status = "absent" => members_at[1] = {}
  /\ \A e \in 1..key_epoch : \A u \in members_at[e] : u \in Members \/ WasRemoved(u)
=============================================================================
