# Verification of PaperPhonePlus

TLA+ models of the PaperPhonePlus server (`src/server`, Rust) and web client
(`src/client`, TypeScript), the TLC configurations that check them, and proofs
that TLAPS checks. Every definition is translated from the source; the file
and the lines each one stands for are listed in `PROJECT.json` under `map`.

```
tlc -workers 2 -config MCGroupEpoch.cfg MCGroupEpoch     # a run
tlapm MessageSyncProofs.tla                              # proofs
```

Sections: 1 the system, 2 the modules, 3 the runs, 4 what they showed about the
code, 5 the proofs, 6 what is not modelled, 7 the plan.

## 1. The system

| Component | State it keeps | Operations | Talks to |
|---|---|---|---|
| Group routes (`routes/groups.rs`) | `groups.key_epoch`, `group_members`, `group_sender_keys`, `group_sender_key_distributions` | create, invite, join, remove, leave, disband, identity rotation, publication and download of sender keys | MySQL under the row lock of the group; sockets after the commit |
| Socket handler (`ws/server.rs`) | one task per socket, `WsClients`, presence in MySQL and Redis, pending calls in Redis | authentication, storing and answering messages, pushes, offline flush, call signalling, clean-up | MySQL, Redis, push services, all other sockets |
| Message routes (`routes/messages.rs`) | `messages`, `message_sync_barrier`, read and delivered flags | sync pages, histories, auto-delete | MySQL, sockets |
| Outbox and socket (`api/socket.ts`) | `localStorage` outbox, socket, timers | send, flush, reconnect, acknowledge | the socket handler |
| Sync (`api/sync.ts`), store (`store/index.ts`) | cursor, message cache, in-memory store, debounced save, the running job | catch-up, flush, save, login, logout | message routes, `useSocket` |
| Chat page (`pages/Chat.tsx`, `hooks/useSocket.ts`, `hooks/useAutoDeleteCleanup.ts`) | the open chat, history loads, reply, uploads, badges, ticks | open, load, write, answer, receipts, expiry | store, socket, message routes |
| Signed groups (`crypto/signedGroups.ts`, `crypto/groupCrypto.ts`) | sender keys and distributions on a device | ensure, publish, fetch, encrypt, decrypt | group routes |
| Sessions (`routes/auth.rs`, `routes/sessions.rs`, `auth/middleware.rs`, `api/http.ts`, `utils/session.ts`) | `sessions` rows, refresh hashes, tokens in `localStorage` and in each tab | login, refresh, upgrade, revoke, logout | every request and socket |
| Account on a device (`pages/Login.tsx`, `App.tsx`, `pages/Profile.tsx`, `crypto/keystore.ts`, `crypto/presentationCrypto.ts`) | identity keys in memory, on disk and on the server; the presentation password | register, sign in, hydrate, sign out, delete; enable, unlock, disable, lock | auth and user routes |
| Proxies (`store/index.ts`, `api/proxy-bridge.ts`) | the list, the active proxy, the route of the WebView | add, edit, remove, activate, test | the Android plugin |
| Identity verification (`crypto/authenticatedMessaging.ts`, `pages/UserProfile.tsx`) | a trust record per contact, proofs | start, answer, replay, revoke, show | private messages, user routes |
| Friends and contacts (`routes/friends.rs`, `pages/Contacts.tsx`) | one row per direction; lists of the store | request, accept; tags, groups | MySQL without transactions, socket events |
| Group page (`pages/GroupInfo.tsx`) | details, members, their trust | load, invite, edit, mute, leave, disband | group routes |
| Moments, timeline, user page (`pages/Moments.tsx`, `Timeline.tsx`, `UserProfile.tsx`) | a feed, a wall, composers, switches | publish, like, comment, delete, report, block | their routes |
| Calls (`hooks/useCall.ts`, `hooks/useGroupCall.ts`, `routes/calls.rs`) | call state, room, timers; `pending_call:*` | offer, answer, reject, cancel, end, replay; host commands | socket handler, LiveKit |
| The rest: files, push, stickers, TOTP, start-up | rows or objects of their own | independent requests | MySQL, external services |

What is hard about them, and what makes each correct:

* **Group routes and the group branch of the handler.** Membership changes, key
  publications and sends run concurrently, several devices publish for one
  account, fan-outs run after the commit, and frames are retried across epochs.
  Correct means: what a member may read it can decrypt; nothing crosses a
  membership interval; a membership change fences every key; one key per sender
  and epoch; answers are true.
* **Catch-up.** Row numbers are taken before the commit makes the row visible;
  pushes, offline flush and sync pages reach the store in any order; a tab may
  die between any two writes. Correct means: the durable cursor never passes
  what is not saved, a successful catch-up misses nothing, and it ends.
* **Sending.** A frame may be in the hands of two handlers at once; acks are
  lost; a retry may arrive in a later epoch. Correct means: stored once, pushed
  once, in order, told the truth, answered in the end.
* **Chat page.** One component serves all chats and goes on with what it awaits
  when the user moves on; the store changes behind a history page. Correct
  means: badges, receipts, ticks and quotes are true, and nothing vanishes.
* **Registry and presence.** Tasks register and clean up in single steps on two
  concurrent maps, MySQL and Redis. Correct means: offline when all sockets are
  gone, reachable while one is open.
* **Sessions.** Tabs share tokens, refresh at once and lose answers; a
  revocation races the registration of a socket. Correct means: the login ends
  only when the user asked for it, and does end when a session is revoked.
* **Accounts, keys and password.** `setAuth` starts two tasks on one keystore, and
  key derivations overlap. Correct means: device and server agree on the
  identity after a sign-in, keys outlive every sign-out, and the password in
  memory is one that opens the messages.
* **Identity verification.** Proofs are delivered in any order and again, keys
  change under them, and results are recomputed by overlapping tasks. Correct
  means: a badge stands for both directions, and an undisturbed handshake ends.
* **Calls.** Ringing state lives in two clients, two handlers, a Redis key with
  a lifetime of 60 s and a LiveKit room, with timers and awaits between them.
  Correct means: the microphone is open only in the room of the current call, a
  connected call has its other side, and a meeting follows its host.
* **Social pages.** Lists overtake each other, answers arrive after their page
  is gone, and the server changes two rows in two statements. Correct means: a
  friendship is mutual, and pages show what the server holds once all is quiet.

`PROJECT.json` lists every component with its status, and the hazards at their
lines with the properties that watch them.

## 2. Modules

| Module | Models | Run |
|---|---|---|
| `GroupEpoch` | group routes, group branch of the handler | `group_epoch`; proved in `GroupProofs` |
| `GroupDevices` | key cache, `ensure` job and group events of devices; EXTENDS `GroupEpoch` | `group_devices`; proved in `GroupProofs` |
| `MessageSync` | numbering and commit order, pushes, sync pages, cursor, cache, store | `message_sync`; proved in `MessageSyncProofs` |
| `ReliableSend` | abstract: what sending promises | refined by `Outbox`, which is proved |
| `Outbox` | outbox, sockets, handlers, duplicates | `outbox`; proved in `OutboxProofs` |
| `ChatPage` | chat page, receipts, badges, history | `chat`; proved in `DeviceProofs` |
| `Sessions` | sessions, tokens, refresh, revocation of one browser | `sessions`; proved in `SessionsProofs` |
| `DeviceAccount` | sign-in, identity keys, presentation password | `account`; proved in `DeviceProofs` |
| `ProxyList` | proxies of the Android application | `account`; proved in `DeviceProofs` |
| `IdentityVerification` | trust records and proofs of two contacts | `identity`; proved in `VerificationProofs` |
| `Connections` | registry and presence of one account | `calls`, `connections_lost`; proved in `CallsProofs` |
| `DirectCalls` | `useCall`, signalling, pending offers, rooms | `calls`; proved in part in `CallsProofs` |
| `GroupCalls` | `useGroupCall`, commands of the host, rooms | `calls`, `meeting_left_early`; proved in part in `CallsProofs` |
| `Friendships` | `routes/friends.rs` | `social`; proved in `SocialProofs` |
| `Contacts`, `GroupPage`, `UserPage` | contacts page, group page, user page; over `Friendships` | `social`; the first two proved in `SocialProofs` |
| `Composer`, `Moments`, `Timeline` | composer of both feeds, moments, timeline | `social`; both feeds proved in `SocialProofs` |
| `Social` | the pages together, over one store and one address bar | `social`; proved in `SocialProofs` |
| `MC*` | instances for TLC: model values, symmetry, state constraints | |

Each name in a model is the name in the source where TLA+ allows it, and each
action is one atomic step of the code: a transaction under a row lock, a single
query or Redis command, or the code between two `await`s of a task. Definitions
called `X_Something` under a comment "Mutant" are faulty variants of `X`: putting
one in the place of `X` makes a property fail, which shows that the property
depends on that line of the code. They take no part in the specifications. Most
modules also have a type invariant (`TypeOK` or a name of its own); the ones that
matter are proved, the others document the state.

### GroupEpoch

One group. `role` and `joined_epoch` are the rows of `group_members`;
`sender_keys` and `distributions` are the two key tables; `messages` holds the
group rows of the message table as sender, `client_msg_id` and key version.
Every handler begins with `SELECT ... FOR UPDATE` on the group (`lock_epoch`),
so a handler's transaction is one action; after the commit it pushes to the
recipients it has read (`outgoing`, `Push`), and `Restart` loses such fan-outs.
Clients encrypt under the key their account published (`Compose`) and may send
each attempt at any later time and any number of times. `members_at` (who was a
member in each epoch), `refused` and `pushed` are history for the properties.

Simplifications: creation is an action with any initial members; invitations
that have expired are not offered; `RotateIdentity` is the part of
`rotate_identity_groups` for this group, enabled at any time, since the caller
reads the list of groups before it locks any. No route sets the role `admin`, so
states with an admin occur only as the branch of `MayRevoke` that reads it. Not
modelled here: renaming, mute, notice, groups of the old unsigned protocol
(version 0), auto-delete, and failing queries (those are in `Outbox`).

### GroupDevices

The devices of members, composed with the server: `Upload` is the server's
`UploadSenderKeys` and the step of the device at once, `Change` is every
membership handler, and the rows a device fetches are `Downloadable`. `cache` is
`senderKeyCache`, `job` the one promise per group in `jobs`, with a phase for each
`await` of `ensureGroupSenderKey`; `sending` are the devices whose
`encryptGroupMessage` waits for it. A request may fail before or after the server
has served it, which is where two devices of one account or a lost answer could
leave a device with a key nobody else has. Events of the group (rotation,
distribution, removal, `message_failed`) may reach a device at any time after
their cause, or never, and so may the rows of a `fetchGroupKeys` outside the job:
this allows more than the sockets do, so what is checked holds for them. The
message itself goes to the server in `GroupEpoch`, not here. Not modelled:
switching the account (`requireAccount`), unsigned keys of old groups, identity
verification (a failure of it is a failed request), decryption, and
`group_encryption_changed`, which the server never sends.

### MessageSync

One account in one browser. The server side takes the barrier, inserts (which
takes the next `server_seq`), commits or aborts, and pushes, as separate actions
per message. A socket is registered, greeted and given the offline messages. A
tab receives frames, and runs `syncMessages`: request, page, dispatch,
`flushMessageCache`, cursor. The debounced save is a timer that holds the store
of the moment it was set. The offline flush sends its rows by `created_at`; rows of
one moment come in any order, so the model sends them in any. `localStorage` is
shared by all tabs. Faults: lost
sockets, reloads, failed requests and writes (quota), logout and login.
`dropped` records what the cache limits cut on purpose. The conversations have no
auto-delete: with one, `useSocket.ts:92-108` skips an offline message that is older
than the limit before `addMessage`, which `ChatPage` models (`Receive`).

### Outbox and ReliableSend

`ReliableSend` says what a sender may rely on: a message is accepted at most
once, not after its context has closed, and what the sender is told about it is
true. `Outbox` has the persistent outbox, the sockets with their two directions,
one handler per socket working frame by frame, the store of messages, lost
answers, dropped frames, reloads, restarts and logouts. The mapping is
`accepted <- stored`, `closed <- expired` (messages encrypted for an epoch that
has passed), `told <-` what the chat shows. `SendOrder` speaks of behaviours
without failed inserts, failed lookups or logouts, and of no more messages than the
outbox holds; each of the four can change the order or lose a frame. A lookup that fails (`misread`) waives
the promise for that frame.

### ChatPage

One device with private chats and groups against the rows of the server. The
page is one component for all chats: `screen.route` is what is mounted, `fetches` and
`sends` are its async functions, which go on after it is left. `store` is the
message store, `unread` the badges, `outbox` what the socket has not had
answered. `wire` holds the frames on their way; messages go from there to the `queue`
of those to be decrypted, where the acks and receipts behind them overtake them
(`EnqueueSequenced`, `Receive`). `useSocket`'s handlers run between any two steps. `last` is
`window.__pendingMsg`, the message that was sent last. `tagged` says that an entry has the
client id of its message: a row of the history has none until, in a group, a replay of
the message gives it one (`AddMessage`). An ack settles the entry that `last` names and
the first one with the client id (`Settled`); which of two is the first depends on their
times, so it may be either. The messages of a chat are a set of entries, since no property is about their order. What a
message says is left out, but for the message it quotes. Not modelled: the recorder,
stickers, downloads, search, the image viewer, and the rest of the message menu.

### Sessions

One browser with several tabs and one account. Each tab has at most one request
under way: an API call, a refresh, an upgrade (a refresh token for a login that
has none), a logout or a socket authentication; the server's part, the answer
and the write to `localStorage` are separate steps. Tokens are a session and a
version; a bounded number of times the tokens in use expire. Revocations come
from the list of sessions on another device (`RevokeElsewhere`). A logout asks to
end the session whose token the tab sends and the login that `localStorage` holds:
both count as asked for in `ended`, since `logout` clears the storage of all tabs.

### DeviceAccount and ProxyList

`DeviceAccount`: one device, several accounts. `login`, `loads` and `leaving` are the
async functions of the login page, of App's hydration effect and of the profile
page, with a phase for each `await`; `mem`, `disk` and `server` are the three
places of the identity keys. `deriving` are the key derivations under way, in
order. Another device may publish keys of its own. Assumed: nobody signs in again
before the requests of the earlier sign-in have ended; a derivation ends before
an absence that is long enough to lock, and in the order of the calls; no second
dialog is answered while a password is being set; writes to the browser's store
succeed.

`ProxyList`: `proxyList` and `activeProxyId` are the store (the list as a function from
ids, which are times and order it, to addresses), `calls` the calls of the plugin, `route` what the WebView uses, `tests` the latency tests of the page. The
plugin carries calls out in order and may fail; after a failure nothing is
promised until the next success. Pages wait 300 ms before they test, which is
assumed to be enough. On the web platform the plugin does nothing, and nothing is
modelled.

### IdentityVerification

Two accounts, each with one device. A generation is a pair of identity and
signing keys; `trust[d]` is the record in the encrypted store, and each read and
each write after a read is a step. `queue` is `proofQueue`, `inbox` a live message in
`decryptSignedMessage`, `starting` and `refresh` the two entry points of the page.
The server delivers proofs in any order and again. Simplifications: proofs are
decrypted one at a time; signing in and publishing happen only while no
decrypted proof is handled, by the inbox or by a refresh; keys that are made are
nobody else's; the 30 s throttle of a replay is a choice; a logout
keeps the keys, and new keys stand for a deletion or a new device.

### Connections, DirectCalls and GroupCalls

`Connections`: the tasks of several sockets of one account. `RegisterInner`,
`RegisterSender`, `RemoveInner`, `RemoveEntry`, `RemoveSender` are the single steps on
the two concurrent maps; the rest are the queries and Redis commands around
them. `Expire` is the end of the heartbeat key; a restart leaves MySQL and Redis
as they are.

`DirectCalls`: `ui` is the state of `useCall`, `at` the progress of each
`connectToCall`, `sees` what the LiveKit room has reported; `todo` is what a socket
handler has still to do with `pending`, the stored offer. Timers are pending
clean-ups. LiveKit is modelled by the events that `useCall` handles.

`GroupCalls`: `gc` is the state of `useGroupCall`, `seat` the progress of each
`connectMeeting`, `press` what the last press of the host has still to publish,
`commands` what is on its way to a member. Assumed: leaving a room is over before
the user's next press (a late Disconnected event of an old room would clean a new
call up, since `cleanup` does not compare rooms), and the host presses nothing
until its last press is carried out. `group_call_join` and `group_call_leave` are
relayed, but no client handles them.

### Friendships, Contacts, GroupPage, UserPage, Composer, Moments, Timeline

`Friendships` is `routes/friends.rs` statement by statement: `handlers` are the calls
under way, `broken` the pairs whose acceptance failed after its first statement.
`Contacts` puts the contacts page over it: GETs that arrive late or never and hold
the table of either moment, POSTs that are answered after the page is left, and
socket events. `GroupPage`, `UserPage`, `Moments` and `Timeline` are the other pages,
`Composer` the writing of a post with its uploads; each page module has its state,
`...Init`, one action per handler and per answer, and `...Stays`, what the
navigation of another page does to it. `Social` composes them: a page that opens
closes the one before it, and an answer that navigates closes whichever page is
open by then. Left out: names that are empty, a tag's renaming (no page offers
it), the single comments list, paging, and the large view of a picture.

## 3. Runs

| Run | Asks | Bounds | States |
|---|---|---|---|
| `group_epoch` | `CatchUpDecryptable`, `MembershipIntervals`, `OneKeyPerEpoch`, `AnswersAreTrue`, `MembershipFence` | 3 accounts, 3 epochs, 2 members at a time, 2 keys, 2 attempts, 1 pending fan-out | 397,057 |
| `group_devices` | `SealedIsReadable`, `CachesAgree`, `KeepsHistory` | 2 devices of one account, 2 accounts, 2 epochs, 2 keys, 2 failures | 498,919 |
| `message_sync` | `NoSkip`, `CaughtUp`, `SyncEnds` | 2 messages, pages of 1, 1 cached, 3 faults, 1 tab | 881,223 |
| `outbox` | `PushedOnce`, `SendOrder`, `Reliable`, `EventuallyAnswered` | 2 messages, 3 sockets, 2 faults | 495,000 |
| `chat` | `BadgeHonest`, `ReadMeansSeen`, `TicksAreTrue`, `AnswerSettles`, `ShownStays` | 2 chats, 1 incoming message, 1 text, 1 picture, 2 loads, 1 fault | 1,368,782 |
| `sessions` | `KeepsLogin`, `RefreshWorks`, `RevocationEndsLogin` | 2 tabs, 1 login, 1 expiry, 1 fault, 2 upgrades | 641,000 |
| `account` | `LoginAgrees`, `PasswordHeld`, `KeepsIdentity`, `ShownIsUsed` | 2 accounts, 2 passwords, 7 acts; 2 addresses, 3 proxies, a limit of 2, 5 acts | 707,231 |
| `identity` | `VerifiedIsMutual`, `Completes`, `LockShown` | 2 passwords, 1 explicit start, 2 acts or faults | 389,471 |
| `calls` | `OfflineWhenGone`, `NoStrayRoom`, `TalksToPeer`, `GlareEnds`, `FollowsHost`, `ClosedMeansOut` | 3 sockets, 1 restart; 2 calls that cross, 1 fault, 1 attempt and 1 timer at once; 1 meeting of 3 or 2 meetings of 2, 1 connection at once, 1 trouble, 2 presses | 1,148,481 |
| `social` | `Mutual`, `ListsShowFriends`, `TrustFreshest`, `FeedsAgree` | 2 users, 1 group, 1 tag, 1 moment, 2 posts, 4 acts in one of three tours | 1,989,588 |
| `connections_lost` | `Reachable`: violated | 2 sockets | |
| `meeting_left_early` | `OneConnection`: violated | 2 members, 2 meetings | |

"Violated" means that TLC finds the counterexample that the finding describes.
`calls` and `account` hold parts that share no state; TLC explores the parts in
turn, and each property speaks of one of them.

Why the bounds are enough to show something. Three accounts and a limit of two
members let the limit bite, a member leave and come back while another one
sends, and an owner watch both; three epochs are a join, a removal and a return,
the shortest history with two membership intervals. Two keys and two attempts
are what two devices and a reused `client_msg_id` need. `group_devices` has the
two devices that race for one epoch, one change of the epoch under their jobs and
two failures, enough to lose an answer and then the recovery from it. In
`MessageSync` two open transactions are the shortest way for a commit to overtake
another, and pages of one row make every page full and the last one empty. In
`Outbox` the third socket lets a handler of a lost socket overlap a retry that is
itself retried. In `ChatPage` two loads let a page of the history overtake another,
and the fault is a loss, a replay, an expiry or a receipt at any moment. Two tabs
are what a race of two refreshes takes. Seven acts of `DeviceAccount` are a
registration on one account, a sign-out, a sign-in on the other and a fault; five
of `ProxyList` are two proxies, a switch, a removal and a failure. Two acts of
`IdentityVerification` let keys change and the page be refreshed under one
handshake. In `Connections` the race takes two sockets, and the third shows what
later sockets repair. Two crossing calls with a fault are the shortest glare; three
members let a third one enter while the host mutes the second. Four acts of `Social`
let two acts overlap, their answers cross a page change, and one fail. The mutants
confirm it: each property fails within the same bounds when the code is changed
in the way it is there to prevent.

Other limits of the instances. `Bounded` of `MCGroupEpoch` limits the attempts and
the fan-outs that are pending at once; other fan-outs are still explored one after
the other, in any order. `Owned` of `MCGroupDevices` lets the account without a
device own the group, and does not go on after the group is disbanded. `Explored` of
`MCCalls` keeps the third member out of behaviours with two meetings, and the
second meeting out of those with three members, and lets the host press a
second time only in a meeting of two in which nothing has gone wrong. `Explored` of `MCChatPage` lets the second page of the
history be asked for while a message is still to be written or nothing has gone
wrong yet. `Tours` of `Social` are the pages
one behaviour visits: {contacts, group}, {moments, user} or {timeline}; what other
pages keep starts empty, and the pages of posts have one act less. All other
bounds are guards that stop faults or counters, named `Max...`. Deadlock is not
checked: with the bounds used up, every model may come to rest, and the system
itself may be idle. Symmetry is used only in runs without liveness.

Fairness, all of it weak. `MessageSync`: a transaction that has started commits
or aborts (MySQL's lock timeout aborts it), and the event loop goes on with a
sync job, whose request is answered once the barrier is free. `Outbox`: the
reconnect timer fires, frames arrive, and each handler goes on reading. Nothing
requires sockets to close or users to act. `Sessions`: requests are served and
answered, and a tab goes on making requests, as the reconnecting socket and the
pages do. `SyncEnds` says that a job cannot wait for ever; `EventuallyAnswered`
speaks of behaviours without failed inserts, since a frame that is dropped by a
failed insert is retried only at the next `auth_ok`; `RevocationEndsLogin` needs no
user action. The other modules state no fairness; "in the end" is said there by
invariants over states in which nothing is under way (`Completes`, `GlareEnds`,
`ListsShowFriends`, `FeedsAgree`, `FollowsHost`, `LoginAgrees`).

## 4. What the runs showed about the code

Two disagreements between the code and its own statements are findings of
`PROJECT.json`, each with its run:

* `connections_lost`: a connection that registers while the last other one is
  removed is lost from the registry.
* `meeting_left_early`: `connectMeeting` does not look after its awaits whether the
  meeting is still wanted. Leaving while the token is awaited joins the room
  nonetheless, with the microphone open, and a second meeting replaces `roomRef`.
  The run `calls` therefore has `MaxConnecting = 1`: a member may leave at any moment,
  but begins no other connection until the last one has been given up or is in.

The bounds and conditions of the passing runs exclude further behaviours. They
are what the code does, and can be seen by changing a constant or by dropping the
condition that a property's comment names.

**Catch-up and sending.**
* `StaleJobs = TRUE` in `MessageSync`: a job that outlives a logout and a new login
  writes its cursor over the cleared one, and `NoSkip` fails. A job that began for
  an earlier socket can also answer the catch-up of the next one and miss what was
  committed between the two.
* `Tabs = {a, b}`: `NoSkip` fails, because every tab overwrites the one cache key with
  its own store (`store/index.ts:33`) while the cursor is shared.
* Beyond `OutboxLimit` `writeOutbox` drops the oldest frame while its entry still
  shows as queued.
* The lookups of the group branch end in `.ok().flatten()`: a failed query reads
  as an absent row, and the retry of a stored message may be answered with
  `message_failed`.
* With one failed insert a frame stays unanswered while its socket stays open.

**Sessions.**
* A failed session query counts as a revoked session (`ws/server.rs:135`,
  `auth/middleware.rs:48`, `routes/auth.rs:215`), and the client ends its login.
* `MaxSessions = 2`: a tab that still uses an earlier session clears the tokens of a
  later login.
* `SharedUpgrade = TRUE`: each upgrade replaces the hash of the token that the
  other tab was given, and `RefreshWorks` fails.
* A refresh that is under way at a logout stores its token afterwards, without a
  user (`api/http.ts:92`). No property excludes it.

**Presence.** An account can be shown offline while a socket that registered during
the clean-up of the last one is open (`ws/server.rs:501`), and online after a restart.
`OfflineWhenGone` speaks of neither.

**Chat page.** A picture whose upload ends while another message is being
encrypted is dropped in silence. A reply to a message that is not yet
acknowledged quotes its client id. In a group an own message can be shown twice for good: a
history page loaded before the ack brings its row beside the optimistic entry, a
replay gives the row the client id (`store/index.ts:369`), and the ack of a message
that is not the last one sent then updates the row, as the first entry with that id
(`useSocket.ts:226`), and leaves the other one queued. `AnswerSettles` allows this
case and no other. Receipts without a socket are not sent again,
and a read tick can be overwritten by an older page. The badge does not count a
message that arrives on `/user/:id` or `/group/:id` of its chat. A send clears a
reply that was chosen meanwhile in another chat; a draft is carried to the next
chat.

**Identity verification.** "Explicit initiation is the only action that can replace
an old pin" (`authenticatedMessaging.ts:104`) holds when no write overlaps the start: a
revocation (`checkPeer`) or a proof that read the record before the new challenge was
stored writes the old pin back after it, and the challenge is then refused as one for
changed keys. `VerifiedIsMutual` is proved with such overlaps included. The reads of
the trust store that follow a change of trust on an open profile (`UserProfile.tsx:94`)
are one step here; `TrustFreshest` looks at the overlaps of the group page.

**Account and password.** A token refresh runs App's hydration effect again,
which clears the password in memory without an event: decrypted text stays in
the store. A wrong password locks without a word. The one request that resets
sender keys after new keys (`Login.tsx:126`) is not repeated when it is lost.
`LoginAgrees` and `PasswordHeld` say what holds beside these.

**Proxies.** Sockets are told to reconnect before the plugin has applied a proxy,
and not at all when the active one is removed. Editing the active proxy leaves its
old latency shown. Two tests that overlap can show a latency measured through
the other proxy; `ShownIsUsed` speaks of tests that ran alone.

**Direct calls.** With `MaxAttempts = 2` (a second call started while a cancelled
one still connects) `TalksToPeer` and `NoStrayRoom` fail: the clean-up timer of a
failed call and the late connection both act on the call of that moment. With
three accounts `TalksToPeer` fails even for one attempt and no fault: bob accepts
alice's call, hangs up while its room is still connecting, and carol's offer comes
in; then the old `room.connect` resolves, alice is still in that room, and the
page shows carol's call as connected (`JoinRoom`). A busy client rejects a replay
of its own call, and the offer that `flush_pending_call` deletes may be a newer one
than it has sent (`FlushGet`, `FlushSend`): `GlareEnds` speaks of calls without a fault.

**Meetings.** A microphone permission that comes after LiveKit has given up the
mute leaves a member heard in a lecture whom its own screen calls muted
(`unheeded`). A host that leaves a lecture leaves the members muted, and cannot
come back as host. With `MaxConnecting = 2` a third meeting makes `ClosedMeansOut` fail: a
connection is lost while it waits for the microphone, the next invitation is
accepted, and the rejection of the first one cleans the screen while the second one
still waits for its token. Ringing does not time out. Direct calls and meetings do not
exclude each other.

**Friends and contacts.** `friends.rs:195`: a failure after the first statement
leaves a one-way friendship until a later request. Of two crossing requests one
stays listed after `friend_accepted` (`Contacts.tsx:76` reloads friends only).
Deleting a tag writes a list read before (`:203`). An answer that navigates does
so after the user has gone elsewhere.

**Group page.** Inviting does not reload while a reload runs. A change of identity
during a reload is dropped. `saveEdit` closes whichever editor is open, and a reload
in flight can bring the old name back.

**Moments, timeline, user page.** A restricted moment is visible until its rules
are inserted (`moments.rs:65`), and `list_moments` does not look at
`moment_privacy`. A privacy switch pressed before its load overwrites the other
field. A deletion's answer closes whichever post is open, and that to a like or a comment shows
the cached post until it is read again; a deleted post that is
opened from a stale list shows its cached copy. The answer to a post closes a
newer composer, selections that overlap may exceed the limit of images (the server
refuses them), and a video's thumbnail outlives the video.

## 5. Proofs

`GroupProofs` proves of `GroupEpoch` for every finite set of accounts, every `ClientIds`
and `Keys`, and all positive `MaxEpoch` and `MaxMembers`
(`GroupAssumption`, its only assumption):

| Theorem | States |
|---|---|
| `TypeCorrect` | `TypeOK`; the epoch never passes its maximum |
| `Invariance` | `IInv` |
| `CatchUp` | `CatchUpDecryptable` |
| `Intervals` | `MembershipIntervals` |
| `Answers` | `AnswersAreTrue` |
| `OneKey` | `OneKeyPerEpoch` |
| `Fence` | `MembershipFence`, an action property |
| `Shape` | `GroupShape` |

None of the properties is inductive. `CatchUpDecryptable` speaks of stored
messages; to show that a send keeps it one must know that a published key of
the current epoch has been distributed to every current member, which holds only
because membership changes retire keys. `IInv` collects these facts:

* `IntervalInv`: the history `members_at` agrees with the rows within each
  membership interval. Without it nothing connects `joined_epoch` to who was a
  member in the epochs since.
* `KeyInv`: a published key is of a current member and of the current epoch, and
  every current member has a copy; no distribution is of a later epoch, or
  addressed to an account that was not a member then.
* `MessageInv`: for each stored message, every current member that was in already
  has a distribution of its key.
* `AttemptInv`: an attempt of the current epoch was encrypted under a key that is
  still published; one that was refused can never be stored later, as its epoch
  has passed, its id is taken or the group is gone.
* `FrameInv`: pending fan-outs and pushed frames are for members of their epoch.

There is one lemma per action. The actions that open an epoch (adding, joining,
removing, leaving, identity rotation) share `AdvanceStep`, which shows that `IInv`
survives `advance_epoch` for any new membership if distributions are removed
only from non-members. `OneKey` and `Shape` have short inductions of their own;
`Fence` follows from a case split over the actions.

It proves of `GroupDevices` for every set of devices, any assignment of devices to
accounts and any `MaxFailures` (`DeviceAssumption`, with `GroupAssumption`):

| Theorem | States |
|---|---|
| `ServerIsGroupEpoch` | `DeviceSpec => Spec`: the devices use the server of `GroupEpoch` and do nothing else to it |
| `DeviceTypes` | `DeviceTypeOK`; no message waits for a job that is over |
| `SealedReadable` | `SealedIsReadable` |
| `AgreeingCaches` | `CachesAgree` |
| `HistoryKept` | `KeepsHistory`, an action property |

`ServerIsGroupEpoch` comes first: each step of a device is a step of the server or
changes none of its variables, so `IInv` holds under the devices without a second
proof. On top of it stand three parts:

* `IssuedInv`: a key is published once per sender and epoch, and its copies are
  kept for every member of that time who still is one. A second device of the
  sender is excluded by the row of `sender_keys`, in the current epoch only; that
  earlier epochs stay closed follows from `IInv`, which bounds every publication by
  the current epoch. Membership changes share `AdvanceIssued`.
* `HeldInv`: every key on a device (in the cache, in an answer on its way to the
  job, in a job that has just published, in a message it has encrypted) was
  published for its account. `SealedIsReadable` alone is not inductive: whether the
  key that `Finish` returns was published depends on the phase of the job and on
  what the answer it reads had in it when it was sent. `JobInv`, a part of `Typed`,
  says which fields of a job mean something in which phase.
* `GoneInv`: who was a member in some epoch is one now or has been removed. It
  makes the clearing in `recoverGroups` legitimate: a device that holds a key of a
  group its account is not in belongs to an account that was removed.

`SocialProofs` proves for any sets of users, groups, tags, moments and posts, any
number of acts and any tours (the named assumptions of the modules, of which
`NoPostAssumption` says that `None` is no row of a table of posts):

| Theorem | States |
|---|---|
| `FriendshipIsMutual` | `FriendsSpec => []Mutual`: a friendship holds in both directions, except between the two statements of an acceptance or after one failed there |
| `PagesUseFriendships` | `SocialSpec => FriendsSpec`: the pages use the handlers of `Friendships` and change its tables in no other way |
| `PagesKeepFriendsMutual` | `Mutual`, under the pages |
| `FriendsAreListed` | `ListsShowFriends` |
| `FeedsShowTheServer` | `FeedsAgree` |
| `TrustIsFreshest` | `TrustFreshest`, an action property |

`Mutual` alone is not inductive: the second statement of an acceptance makes one
row accepted, which is right only because the first one made the other row so and
no statement takes an accepted row back. `Reversing` says this, and the lemmas on the
statements of the handlers keep `FriendsInv`, the conjunction of both with the
types. The other properties speak of states in which nothing is under way, or of one
step of the trust, so each needs an invariant of its own for the states between:

* `ListsInv`, of the contacts page. Unless something was lost or overtaken, the friends
  that were asked for last are those of the table (`Latest`), or something that
  is under way will make the page ask again (`Announced`): the event
  `friend_accepted`, an acceptance between its two statements, or a call of the user
  whose answer will say that the two are friends. The lemmas follow each statement of the handlers that makes a row of the
  user accepted, and show that it leaves such a promise behind.
* `MomentsInv` and `TimelineInv`, of the feeds. `ShownLast` says that of the answers a
  page waits for, the one asked for last holds what the server holds, and that
  without any the page shows it. It is about sets of positions in the queue, so that
  appending a request (`EndsAppended`) and taking one out of the middle (`EndsTaken`)
  are each proved once, for the moments, the list of posts and the open post. The
  timeline needs in addition that an answer for a post is shown on that post only
  (`OfThePost`), and that a list holds numbers that are in use (`ListsUsed`): a
  number that has been used is not given to another post.
* `GroupInv`, of the page of a group. `Sound` says that there is one reload at most and
  no check has started after it, and that a check with the current generation and
  revision is the last one that started, with no reload under way. So whatever
  result is accepted is that of the last check, and its number is no smaller than
  the one shown.

`MessageSyncProofs` proves for any number of messages, any page size and cache limit,
any number of faults and logins, and one tab:

| Theorem | States |
|---|---|
| `TypeCorrect` | `TypeOK` and `Numbered`, for any number of tabs |
| `Invariance` | the inductive invariant |
| `CursorSkipsNothing` | `NoSkip` |
| `CatchUpMissesNothing` | `CaughtUp` |

The last three assume `Alone` (one tab) and `~StaleJobs`; section 4 says how the
properties fail without these. The argument:

* `Numbered`: row numbers are unique, and only the holder of the barrier has one
  that is not committed. So while nobody holds the barrier every number up to the
  highest is settled. A number is a *frontier* when nothing at or below it can be
  committed any more.
* A page of `syncMessages` is read without the barrier being held, so it ends at a
  frontier (lemma `Page`), and a page that is not full is the last one. A
  frontier stays one (lemma `Behind`).
* `Cursors`: the durable cursor is at a frontier, and everything below it has been in
  the cache and is shown. The end of a page under way is at a frontier, too, and
  everything below that is shown or one of the rows still to be dispatched; in the
  step before the cursor is written it is in the cache.
* `CatchUp`: once the last page is read for a socket that was registered before the job
  began, a message the tab does not show (`Missing` leaves out what is on the
  socket or about to be pushed) is one of the rows still to be dispatched; once
  the catch-up has succeeded there is none.

`OutboxProofs` proves for any number of messages, sockets, failures, reloads,
restarts and logouts:

| Theorem | States |
|---|---|
| `PushedAtMostOnce` | `PushedOnce` |
| `StoredInOrder` | `SendOrder` |
| `KeepsPromise` | `Spec => Reliable`: `Outbox` implements `ReliableSend` |

The invariant has four parts. `Sound`: the types, and that everything outbox, sockets
and store hold was composed, each message once. `Pushes`: only the handler that
has stored a message pushes it, and has not yet. `Answers`: an acknowledgement on its way
stands for a stored row, a refusal for a message whose epoch has passed unstored.
`Order`: a message that is neither stored nor expired is in the outbox and, once the
socket is ready, on it, behind everything sent before (`Placed`), so that no
stored message has an open one before it. For the refinement each step of `Outbox` is
shown to be a step of `ReliableSend` under the mapping, or to leave its three
variables alone; `Answers` is what makes an answer that arrives late a true one.

`SessionsProofs` proves for any number of tabs, expiries, faults and upgrades:

| Theorem | States | Assumes |
|---|---|---|
| `TypeCorrect` | `TypeOK` | |
| `RefreshTokenWorks` | `RefreshWorks` | `~SharedUpgrade` |
| `LoginLasts` | `KeepsLogin`, an action property | `MaxSessions = 1`, `~SharedUpgrade` |

`RefreshInv` says of every refresh token in `localStorage`, in a request or in an answer
that the server accepts it, and that a tab that asks for a first one is alone in
that: nobody else holds a token of the session whose hash it replaces. `LoginInv`
follows a signal to log out back to its cause: a refusal, a frame or an answer that
ends a login stands for a revocation, which the user asked for (`Asked`), or for
a login of before refresh tokens whose token has expired (`Stuck`), which
`KeepsLogin` leaves out. The two assumptions are the cases in which section 4 reports
the failure.

`CallsProofs` proves `GoneIsOffline` (`OfflineWhenGone`) for any number of sockets,
restarts and expiries. The invariant says that each of the three marks of an account
that is online (the column in MySQL, the two keys in Redis) has a socket whose task
is still to look at it: a task that finds other sockets leaves the mark to them.

It also proves, for any accounts, calls, members, meetings, faults, timers and presses:

| Theorem | States | Assumes |
|---|---|---|
| `NoMicrophoneLeft` | `NoStrayRoom` | `MaxAttempts = 1` |
| `GlareIsResolved` | `GlareEnds` | |
| `LeavingLeavesNoRoom` | `ClosedMeansOut` | `MaxConnecting = 1` |
| `MembersFollowHost` | `FollowsHost` | `MaxConnecting = 1` |

The assumptions are the cases in which section 4 reports the failures. Both hooks keep
one room object in a ref, which is all that a clean-up disconnects. So the invariants
(`RoomInv`, `SeatInv`) say that a room that is being joined, waits for its microphone or
is in is the one the ref names, and that only one connection is under way and none
beside a room that is in: then a token that arrives late cannot replace a ref that
still matters. `NoStrayRoom` needs besides that a screen that is idle or rings has no
room that is in (`NotYetIn`), `ClosedMeansOut` that a member in a room shows the meeting
(`Shown`), although `cleanup` runs on the events of any room object.

`GlareEnds` speaks of two accounts that both ring while nothing else is on its way. The
invariant `RingInv` says of the calls of two such accounts what goes on until then: one
of them has its attempt under way, its offer on the way or its rejection on the way
(`Pressing`). An account begins to ring with its attempt under way, the attempt ends with
the offer, and a client that is busy answers an offer with a rejection.

`FollowsHost` speaks of meetings in which nothing is on its way; the invariants say
how the mode gets there:

* `TalkInv`: while the host is in a room, each member in it has an arrival that the
  host's room object is still to report, or a press that is still to send the mode, or
  a queue whose last mode is the host's, and which shows that mode if it holds none
  (`Told`, `Heard`). Before the host is in, nothing was told there (`Before`): so whoever
  came first shows the mode that the host starts with.
* `EnteredOnce`: an invitation goes to members who were never in the meeting, so the
  host does not come back to a room in which its old mode was told.
* `TidyInv`: a lecture on the screen belongs to the room the member is in, whose
  microphone is closed, waits for a mute, or was given up by LiveKit.

`VerificationProofs` proves for any passwords, starts and acts (`VerificationAssumption`;
`RecordAssumption`: no record is no record):

| Theorem | States |
|---|---|
| `RecordsTypeOK` | `TypeOK` |
| `VerificationIsMutual` | `VerifiedIsMutual` |
| `HandshakesComplete` | `Completes` |
| `LockIsShownRight` | `LockShown` |

A device cannot see for which keys the proof was sealed that an acknowledgement
answers: the payload holds the nonce only. That a receipt with the right nonce comes
from the keys that are pinned rests on what both sides did before:

* `LogInv`: an acknowledgement answers a proof that was sealed for the keys that sign
  it. `Good`: the nonce of a record was sent for the keys it pins, if at all. Both hold
  because a nonce is used for one record (`NonceInv`: one that `refreshContactVerification`
  has made and not yet stored is in nothing else) and a send looks at the pin again.
* A record of keys that its contact has no longer is `Dead` unless it was acknowledged:
  nobody can make the receipt. So a proof of other keys may be stored in it
  (`received`) without ever making it verified.
* `OpenedInv`: between the decryption of a proof and `receiveProof` the server publishes
  no other keys, and every record of the device, stored or about to be written, is of the
  published keys or dead. This is where the assumption is used that a proof that was
  decrypted is handled before anybody signs in: it is in `OpenedInv` that the keys of the
  sender, which `decryptSignedMessage` asked for, are still those the record pins.

`SendsLog` is the step that reaches both devices: a proof enters the log of the other one, and
must acknowledge nothing that is dead there. `LockIsShownRight` has an induction of its
own: a page with the status "locked" is right or has `again` set.

`HandshakesComplete` speaks of handshakes that nothing disturbed. `UnharmedInv` says what
that leaves: all keys and pins are the first ones, so no check fails and every send succeeds.
`HandshakeInv` follows both halves of the exchange to where they are settled:

* `Going`: the challenge of a record is in a proof, or a task is about to send it
  (`Carried`), and what the record received is acknowledged or about to be (`Receipted`).
* `Heeds`: the record has every receipt that reached the device and does not wait any more to
  be decrypted or read (`Waits`); `LogFits`: every challenge that reached it waits or is
  answered.
* `NotBegun`: a device without a record has sent nothing, and all that it was sent waits: so a
  proof that is only a receipt never makes a record.
* A proof without a challenge of its own answers one that was itself an answer (`Answers`),
  and a record whose challenge went out in an answer has received something (`Going`, third
  part). So a device that gets only a receipt had the other one's challenge before.

`queue[d].pc = "save"` is why `Heeds` speaks of the record about to be written and not of
the stored one: between the two the stored record is older than what was read.

`DeviceProofs` proves for any accounts, passwords, addresses and bounds
(`AccountAssumption`, `ProxyAssumption`), and for any chats, messages and bounds
(`ChatAssumption`):

| Theorem | States |
|---|---|
| `SignInAgrees` | `LoginAgrees` |
| `IdentityIsKept` | `KeepsIdentity`, an action property |
| `PasswordIsHeld` | `PasswordHeld` |
| `ActiveIsUsed` | `ShownIsUsed`, of `ProxySpec` |
| `ChatTypesAlways` | `ChatTypeOK`, of `ChatSpec` like the rest |
| `BadgesAreHonest` | `BadgeHonest` |
| `ReadIsSeen` | `ReadMeansSeen` |
| `TicksTellTheTruth` | `TicksAreTrue` |
| `AnswersSettle` | `AnswerSettles` |
| `ChatsKeepWhatTheyShow` | `ShownStays`, an action property |

* `AccountInv` is `AccountTypes` with four facts. `Owners`: the keystore works for the
  account that signs in or is signed in. `Stores`: keys in memory are those in the
  browser's store or about to be written there, and keys are made only for an
  account that has none in the store, which is `KeepsIdentity`. `Published`: an account
  with keys in the store has published ones, and sender keys are stale only
  where their reset is under way or was missed. `Agreeing`: what each phase of a sign-in
  without a fault has already reached. `LoginAgrees` alone says nothing of a sign-in
  under way, hence the phases.
* `PasswordInv`: what is to be derived is checked against the verifier of the
  moment, although it was read when the derivation started, because the settings
  change only at the end of an enabling, which comes last, or of a disabling.
* `ProxyInv`: the last call of the plugin under way, or the route when there is none
  and none failed, is the proxy that is active; a test that was not disturbed
  measures it.
* `ChatInv` is `ChatTypeOK` and `ReadMeansSeen` with eight facts. `StoreFits`, `PagesFit` and
  `FramesFit`: whatever says something of a message - an entry of the store, an entry of
  a history page on its way, a frame - says what the server knows, or knew, since rows
  are only ever stored, read and dropped. `WritingFits`: a reply, a send and an upload stay in
  the chat they began in, and a picture is sent once. These give `TicksAreTrue`.
* `Lone`, `Queueing` and `Settles` are for `AnswerSettles`: a private chat has one entry of an
  own message with its client id, so that `find` has no choice; and what is left in the queue without being in the outbox
  is in a group, beside an entry with the server's id, which no step but an expiry takes
  away, together with the one in the queue.
* `NewOnce`: a message is pushed as new once, before any replay of it, in the queue
  as on the wire behind it. `BadgesFit` needs it: a badge counts at most the `Countable`
  messages, those that are unseen, are not to come as new any more and are in the
  store unless they expired. So whatever raises a badge adds its message to that set, and
  whatever takes a message out of it has put it on the screen, where the badge is zero.
* `EntryStays` is the lemma behind `ShownStays`: each step leaves of each entry one of
  the same message, or the message expired.

TLC checked each of these invariants before it was proved, on instances of the
size of the runs (318,000 states for `Outbox`, 5.4 million for `HandshakeInv`, up to 17
million for `Sessions`).

Only model-checked, beside the liveness properties: `TalksToPeer` of `DirectCalls`. It is
true of the two calls that cross in the run and not of any calls, so there is nothing
to prove for every value of `Call` (section 4 reports three accounts; two calls of one
account and a lost socket can leave an old offer stored).

Out of reach of the prover and therefore left to TLC: liveness under fairness
(`SyncEnds`, `EventuallyAnswered`, `RevocationEndsLogin`), `ENABLED`, and what recursive
definitions compute. No module uses a RECURSIVE operator.
`GroupShape` is proved and in no run.

## 6. Not modelled

* Encryption primitives and encodings (`ratchet.ts`, `presentationCodec.ts`): pure
  constructions of libsodium calls. The models treat a key as a name and a
  ciphertext as what it is sealed with.
* Files, uploads, stickers and push services: I/O without shared state. The pages
  that upload are modelled up to the request.
* Two-factor login beside the step that asks for a code. A recovery code is looked
  up and marked as used in two statements (`totp.rs:210`).
* Configuration, start-up, rendering and translations.
* The deletion of expired messages on the server: chats see rows disappear at any
  moment (`ChatPage`), but catch-up under it is not checked. The membership check of
  `get_group_messages`, which reads the membership before the rows
  (`messages.rs:139`).
* Several groups in one request: `update_keys` and the deletion of an account go
  through the groups one by one. Two tabs that share one outbox. The expiry of
  refresh tokens after 90 days (`session.ts:10`). Groups of the old protocol.
* The decryption of single group messages, and their retry after a new key.
* Cameras, voice effects and the layout of calls; the recorder, search, and the
  image viewer of a chat; the paging of the timeline.

The reasons differ: the first four hold nothing that two actors could disturb;
the others are left for later.

## 7. Plan

Built so far, the behaviour the product depends on most first: `GroupEpoch` and
its proofs, `MessageSync`, `Outbox`, `Connections`, `Sessions`, `GroupDevices` and
its proofs, `DirectCalls`, `ChatPage`, `IdentityVerification`, `DeviceAccount`,
`Friendships` and its proof, the social pages, `GroupCalls`, `ProxyList`; then the
proofs about catch-up, sending, sessions, presence, the device, the chat page, calls and
rooms, verification and its handshake, and the social pages.

Next, in this order:

1. `GroupDevices`, continued: live messages of the epoch that has just passed and
   the retry of their decryption; a pushed message is decrypted in the end.
2. Identity rotation and account deletion over several groups, with failures in
   between.
3. The composition of `MessageSync` and `ChatPage`: the merge of a history page
   under the cursor, and the purge of expired rows on the server.
4. `totp.rs` and the reads of `messages.rs` that take two statements.

Abstract specifications worth stating: the log a member may read (for
`GroupEpoch` with `GroupDevices`), and an at-least-once inbox (for `MessageSync`).

Next theorems: the refinement of the two abstract specifications above, and `TalksToPeer` under a
bound on calls that makes it true, once the code checks the call after `room.connect`.
