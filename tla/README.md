# KonvoPro in TLA+

KonvoPro is an end-to-end encrypted messenger: a Fastify/PostgreSQL/Redis API
(`apps/api`), a React client (`apps/web`), a crypto package (X3DH, double
ratchet) and a wire protocol package. This directory holds TLA+ specifications
of it, TLC configurations and TLAPS proofs. `PROJECT.json` relates every
definition to the lines it models.

Paths below are relative to the repository root (`src/` in PROJECT.json);
`ws/`, `routes/`, `services/`, `push/` are under `apps/api/src`, `features/`,
`app/`, `db/` under `apps/web/src`.

## 1. Inventory

| Component | State | Operations | Hard behaviour | What makes it correct |
|---|---|---|---|---|
| Envelope routing, `ws/gateway.ts` `onSendEnvelope`, `ws/rate-limit.ts`, `infra/postgres/init.sql` | rows of `ciphertext_envelopes`, token buckets, `connectedDevices` | SEND_ENVELOPE, DELETE /devices/:id | handlers overlap at every await; lost replies; failed publishes; crash between INSERT and publish; retries | one row and one publish per (sender, nonce); no unexplained refusal; it does what EnvelopeStore promises |
| Channel registry, `ws/redis-publisher.ts` | listener arrays per channel, Redis subscriptions | add, remove, message | the array is held across `await subscribe` | what is registered is fed |
| Connection and inbox, `ws/gateway.ts`, `ws/redis-fanout.ts` | socket, HELLO progress, dedup set, handle | HELLO, attach, replay, live publish, close | subscribe / replay / publish race; close during attach; two tabs | no gap, no late duplicate, no push to a socket that listens but after a rejected publish |
| Rooms, `ws/gateway.ts` | `subscribedRooms`, `__roomListeners` | SUBSCRIBE_ROOM, UNSUBSCRIBE_ROOM, drain, post | overlapping frames for one slug; close in between | sockets, registry and Redis agree; a post reaches all |
| Broadcast, `routes/broadcast.ts`, `features/broadcast` | rooms, members, messages; feed of a view | create, post, page, frame, compose | page of history against live frames; lost answers | the view misses nothing but what the page replaces |
| Live broadcast, `GoLiveButton.tsx`, `ViewerPanel.tsx`, `routes/broadcast-live.ts` | LiveKit room, captures | go live, stop, join, leave | join-then-count | the cap holds |
| WebSocket client, `apps/web/src/ws/client.ts` | `#state`, `#socket`, timer | connect, close, callbacks | token promise, timer and old sockets interleave | exactly one thing under way about the connection |
| Outbox and sending, `apps/web/src/ws/outbox.ts`, `db/repositories/outbox.ts`, `features/dm/plaintext-controller.ts` | tables `outbox`, `messages`; replay flags | sendMessage, enqueue, replay, queued | reload anywhere; reconnect during a pass; refusals; a frame too large; sweeps | nothing persisted is lost; acknowledged in the end |
| Threads and screens, `plaintext-controller.ts`, `useDmStore.ts`, `ThreadList.tsx` | tables `messages`, `threads`; rendered rows | inbound, send, acknowledge, read, open | handlers and unordered reads overlap | an idle screen shows the tables; counts are right |
| Peer directory, `features/dm/DmHost.tsx` | owner cache, device cache | look-up, resolve owner | two writers of one list | a reply reaches every device heard from |
| Refresh tokens, `services/auth/tokens.ts`, `routes/auth.ts` | `refresh_tokens`, cookies | issue, rotate, revoke | concurrent transactions, lost answers, two tabs, deadlocks | a token rotates once; no accusation without a cause |
| Sign-in, `routes/auth.ts`, `services/auth/csrf.ts`, `features/auth`, `app/screens/AuthScreen.tsx` | accounts, cookies, access token, device id | signup, login, enrol, bind, sign out | overlapping flows; first visit | the token is bound to a device of the user |
| Ratchet and sessions, `packages/crypto/src/ratchet.ts`, `session.ts`, `features/dm/controller.ts` | chain keys, counters, skipped keys; saved states | send, inbound | overlapping calls, loss, reordering, redelivery, reload between awaits | a key seals one message; each message shown once |
| Prekeys and devices, `packages/crypto/src/prekeys.ts`, `routes/prekeys.ts`, `routes/devices.ts`, `features/devices`, `opkReplenishment.ts` | devices, prekeys on both sides | enrol, revoke, fetch bundle, replenish | overlapping tasks, batches that stop half-way, lost answers, overlapping fetches | given once; ids clash, and the browser lacks what is served, only after named overlaps |
| Calls, `features/calls/peer.ts`, `signaling.ts` | peer, media, timers, signals | start, offer, answer, hang up | timeouts racing answers; a grant after the end; reloads | nothing held outside a call but by a late grant; both ends come down |
| Web push, `routes/push.ts`, `push/sender.ts`, `PushToggle.tsx` | subscription, its row | enable, disable, mount, send | late DELETE / POST / 410; calls of a toggle that was left | push that is on stays on |
| Attachments, `routes/attachments.ts`, `features/attachments` | rows, blobs, caches | upload, view, cache, evict | evict in a second transaction, or never; view changes | the cache settles; views show what they are given |
| Voice notes, `features/dm/voice-note.ts` | recorder, clips, uploads | press, release, watchdog | late prompt, unmount, retries | the microphone goes off |
| Local keys, `packages/crypto/src/identity.ts`, `db/repositories/identity.ts`, `key-backup.ts` | KEK, identity, prekeys, backup | first run, rotate, export, restore | reload between puts; backup during rotation | what is kept can be unwrapped; a backup serves |
| Wire protocol, `packages/protocol/src/codec.ts` | - | encode, decode | number, bigint and text representations | what is read is what was made |
| Service worker, `pwa/sw-push-handler.ts`, `pwa/sw.ts` | - | - | - | not modelled (section 6) |
| Server start, configuration, metrics | - | - | - | not modelled (section 6) |

Calls go client → gateway (frames) → PostgreSQL (row) → Redis (publish of the
id on `dev:{device}`) → every API process with a listener → SELECT of the row →
ENVELOPE frame. `delivered_at` is written nowhere in `apps/api/src`, so each
HELLO replays every row of the device.

## 2. Modules

```
EnvelopeStore            what the server promises about an envelope
   ^ refines
EnvelopeRouter           onSendEnvelope: all calls, database, publish
ChannelRegistry          redis-publisher.ts
   ^ extended by Inbox   connections; EnvelopeStore instantiated for the senders
   ^ extended by Rooms   room subscriptions
RateLimiter              token bucket with a clock
WsClient                 the reconnecting socket
   ^ instantiated by Outbox (sendMessage, outbox, replay)
RefreshTokens            store, routes, cookies
Ratchet                  functions on ratchet states
   ^ extended by Session (two devices, a faulty network, reloads)
Devices  Push            prekeys and enrolment; web push
DmThreads  PeerDirectory  AsyncViews  Wire
Calls  LocalKeys  LiveSession
Broadcast  VoiceNote  Attachments  SignIn
MC*                      instances for TLC

RegistryProofs           lemmas about ChannelRegistry
   ^ extended by InboxProofs, RoomsProofs
EnvelopeRouterProofs     EnvelopeRouter, RateLimiter, SignIn
DevicesProofs            Devices, Push, Session with Ratchet
FeaturesProofs           Calls, LocalKeys, LiveSession, Broadcast, PeerDirectory,
                         AsyncViews, DmThreads, Attachments
OutboxProofs             Outbox with WsClient, Wire
RefreshTokensProofs      RefreshTokens
```

`MCTransport`, `MCFeatures` and `MCClient` each hold several modules that share
no state, extended or, where the names of two modules meet (VoiceNote),
instantiated. Parts whose liveness is checked are in the first two. A
variable `focus`, chosen at the start, says which of them a behaviour is about;
the others stay in their initial state. The state space is the sum, not the
product, of the parts, and each property is that of its module.

**EnvelopeRouter.** A call is one run of `onSendEnvelope`; `pc` says at which
await it is suspended. `RejectSender`, `RejectRate` and `Accept` are synchronous
with the frame. `InsertFresh`, `InsertConflict`, `InsertRefused`, `QueryFault`
and `InsertUnconfirmed` are the outcomes of the INSERT, the last one with the
row committed and its reply lost. `LookupFound` is the idempotent answer.
`DeleteDevice` cascades; `Crash` drops the calls in progress and the buckets. An
envelope is its nonce, since the client derives one nonce per message and
recipient. `Refill` adds a token at any moment.

**EnvelopeStore.** Per key: absent, stored or gone; announced; acknowledged.
`EnvelopeRouter!Promise` is the refinement mapping.

**RateLimiter.** `tryConsume` with the clock of the host, which may be set back.
Tokens are counted in the milliseconds that refill them.

**ChannelRegistry.** An array is its identity, because `addChannelListener`
keeps the reference across the await while `channelListeners` may move on.
Commands reach Redis in order; replies and messages come back in one ordered
stream, which is what a Redis connection guarantees. `SubscribeMayFail` lets a
SUBSCRIBE be rejected.

**Inbox.** A connection is a listener of the registry, its device the channel.
`phase` follows `handleHello` and `attachInbox`; `sock` the socket, which may
close at any of them. `Register` is the `.then` of `handleConnection`, which
runs whatever has become of the socket. `Announce` is the publish with the push
decision; in `PublishFails` it rejects, executed by Redis or not, so that there
is no listener count and `connectedDevices` alone decides (gateway.ts:863-898).
EnvelopeStore stands for the senders.

**Rooms.** A listener of the registry is one SUBSCRIBE_ROOM frame. Handlers of a
socket overlap; `draining` is the close handler with its detaches under way.

**WsClient.** One action per callback. `tokens` counts suspended `#openSocket`
calls. `attemptCount` only chooses a delay and is left out.

**Outbox.** Dexie transactions are atomic, every other await is a point of
interleaving. `EnqueueCommit` is the transaction with both sweeps,
`EnqueueResume` the immediate send; `replay` says at which await the pass is
suspended. `send` throws without a socket, and for a nonce in `TooLarge`, whose
frame `encodeC2S` refuses: the pass then ends, and the row stays. The server is
the promise of EnvelopeRouter reduced to `stored` and an answer; it may refuse.
`ReloadPage` keeps IndexedDB only.

**DmThreads.** The same controller seen from its tables: handlers of sends,
inbound envelopes and acknowledgements write `messages` and `threads` step by
step and announce; the mounted screen starts a read per announcement.

**PeerDirectory.** The two caches of `DmHost.tsx` and the requests under way.

**RefreshTokens.** A row is named by its token. A request is sent with the
cookie of that moment, served by a transaction (`Lock` is SELECT FOR UPDATE;
`Rotate`/`RotateCommit`; `Replay`, `RevokeRow`, `RevokeCommit`; `RefuseExpired`;
`Abort`), and its answer sets or clears the cookie when it arrives. READ
COMMITTED: the family revoke fixes its rows when it begins (`sees`), takes their
locks one by one (`scan`) and looks at each again. `parent`, `faulted` and
`abandoned` are history.

**SignIn.** A flow is one submission with the enrolment and the binding refresh;
sign-out, another sign-in and a reload may fall in between.

**Ratchet, Session.** Keys are symbolic: a shared secret is the set of both
public keys, a root key the sequence of secrets mixed in. `Ratchet` is the state
functions of `ratchet.ts`; `Session` runs them in two devices whose calls load,
compute and save, over a network that delivers late, again, in any order or
never, from either outcome of X3DH.

Calls of a device overlap; `overwritten` counts the saves of a session over what
another call has saved since this one loaded it.

**Devices.** The actors are tasks: an enrolment, a check of the pool or a
revocation that some tab of a browser has begun. Several of one browser, and of
one tab, are under way at a time. Each await and each SQL statement is a step,
one INSERT per prekey of a batch. `Abandon` ends a task anywhere: a reload, a
lost request or reply, an error or a crash of the server between two statements;
what was inserted stays. `NextKeyId` reads the newest id, `SaveKey` adds the row
later, as `buildOneTimePreKey` does.

**LocalKeys.** Workers are the asynchronous calls of a browser (enrolment,
rotation, export); keys are numbered, and a record notes the KEK it is under.

**Broadcast.** A room of two users: creation, the rate limit, posts from the
composer to the fan-out, and a viewer that joins a page with frames.

**Calls.** Two peers. The signals may be late and reordered. The host of
a peer is not in the repository and is modelled from what the comments of
`peer.ts` ask of it; RTCPeerConnection by its contract. An end may be terminated
while the browser asks for the microphone; `late` records it, and the grant then
revives the peer, as `start()` does.

**LiveSession, VoiceNote, Attachments.** One screen and its server each, with
every await a step and the platform (LiveKit, MediaRecorder, the object store)
external. In Attachments several writes of one ciphertext may be under way
(`Writes` names them), and a page load or a failed transaction may end one
between the commit of its row and its eviction (`PutCutOff`).

**Push.** The toggle, the routes, the browser's subscription and the sender.
`Remount` and `Reload` mount the toggle anew: calls of `enable()` and
`disable()` go on for a toggle that was left (`for`, `closing`), and write
`localStorage` without being shown; after a reload only their requests go on.
The effect of a mounted toggle reads the subscription (`GetSubscription`) and
may learn later that there was none (`Reconciled`), after the user has switched
it off and on. The permission prompt is part of `Subscribe`.

**AsyncViews.** Five components that compute in an effect; React commits, then
cleans up, then runs. A run that was cancelled goes on until it looks at its
flag.

**Wire.** All messages by the kinds of their fields; msgpack packs, the row of
an envelope and the JSON of a post are the two other representations.

## 3. Runs

| Run | Instance | Shows |
|---|---|---|
| `router` | 2 devices, a message and an ACK, 3 calls, bucket of 1; 1.3 million states | `OnePublishPerKey`, `RefusalNeedsFault`, `ImplementsStore` |
| `router_session` (violated) | 2 calls, no row in `sessions` | every send refused: nothing inserts into `sessions` |
| `transport` | rooms: 2 sockets, 3 SUBSCRIBE_ROOM frames, 1 room, 1 post, 590,000 states; outbox: 2 messages, one too large, 2 rows, 2 sockets, 40,000 states | `LevelsAgree`, `PostReaches`; `ConnectionKept`, `NothingLost`, `EventuallyAcknowledged` |
| `rooms_deaf` (violated) | the same rooms | a confirmed subscription that no message reaches |
| `refresh` | 2 browsers of a user, 2 requests at a time, 3 tokens | `SpentStaysUnused`, `ReuseNeedsFault`, `NoForgottenSession`, `SomeoneGoesOn` |
| `features` | inbox of 2 sockets and 1 envelope, broadcast, calls, voice notes, local keys, sign-in; 340,000 states | `HandoffComplete`, `NoRepeatAfterReplay`, `ListenerIsNotPushed`, `LiveDelivery`; `CaughtUp`; `HeldOnlyInCall`, `OfferEnds`, `OtherEndFollows`; `MicGoesOff`; `KeysReadable`, `BackupServes`; `SignInBinds` |
| `sign_in` (violated) | SignIn, 1 user | after the first login a browser has no csrf token |
| `calls` (violated) | Calls | a peer hung up during the media prompt holds what the grant then brings |
| `client` | rate limiter, sessions, views, threads, directory, wire, devices, push, live, attachments; 1.4 million states | `GrantsBounded`; `KeyUsedOnce`, `ShownOnce`, `OnlyOverrunRefuses`; `ShowsCurrent`; `ScreenSettles`, `ThreadsMatch`; `RepliesReachSenders`; `ReadAsMade`; `GivenOnce`, `ServedKeysHeld`, `NoConflict`; `LiveRowKept`; `CapKept`; `CacheSettles` |
| `each_key` (violated) | Session, 2 sends at once | two messages sealed with one key |
| `key_ids` (violated) | Devices, 2 tasks of a browser | two prekeys saved under one id |
| `newest` (violated) | DmThreads, 1 peer | a thread above the page limit never shows a new message |

**Bounds.** Three calls are an original, a retry and an overlapping third, and
with two nonces also a foreign key; a bucket of 1 makes refusals common. Two
sockets cover a reconnect that overlaps the old socket and a second tab; one
envelope suffices for properties that speak of one each. Three room frames are
one that is suspended, one that leaves and one that joins; `MaxLeaving` lets two
UNSUBSCRIBE_ROOM overlap. Of the two rows of the outbox one can be sent and one
not, in either order, and a pass can be suspended between them; `MaxEntries = 2`
lets the age sweep act; eviction by capacity needs a third nonce and is covered
by the proof of `NothingLost`. Three tokens are a chain of two rotations, or one
rotation beside the token of the other browser; reuse, the wait of a family
revoke and a deadlock of two are all reached. In `features`: two posts and a page
of one (the page always lacks something), two recordings, two workers and four
keys, two users, two flows and three submissions.

In `client`: three tasks of one browser are two that overlap and a revocation
beside them; two devices, three enrolments and five keys allow a repeated
enrolment, a partial batch and its repetition, and `Threshold = Target = 2` makes
every consumed key a reason to replenish. Three messages one way and two the
other with one skipped key are an overrun by the third message and one change of
chain each way (two roots that have parted need a fourth message, or three each
way, and are covered by the proof); two calls of a device overlap among the first
two messages (`FewOverlap`), which suffices for a send beside a send, a send
beside an inbound, and two inbounds. Two peers, three runs of the effect, page
limit 1, two look-ups and three devices, a bucket of two and a half calls; three
viewers and a cap of three; three subscriptions and two POSTs; two uploads of
which one fills the cache, with two writes at a time, of one upload or of both.
Symmetry is used for safety only (calls of `router`, tasks of `client`). Deadlock
is not checked: every instance ends when its calls, sockets, messages or bounds
are used up.

**Conditions.** Where the code does not keep a property in every case, the
property names the case, and a history variable records it:

- `first` in Inbox: sockets whose own attach issued the SUBSCRIBE. A second
  socket of the device that attaches meanwhile replays before Redis is
  subscribed, and can miss what is published in between until it reconnects.
- `uncounted` and `ForgottenWith` in Inbox: a device with a listening socket is
  pushed to when the publish was rejected, which leaves no listener count, and
  the close of another of its sockets had removed it from `connectedDevices`.
  Both are needed; with a count, or without that close, nothing is pushed.
- `stuck` in Outbox: rows a pass gave up, for a frame too large among them or
  before them. They wait until a later pass, which meets the same frame first.
- `late` in Calls: ends whose media prompt was open when they ended.
- `cutOff` in Attachments: a write ended between the commit of its row and its
  eviction, and no call has read the total since.
- `untidy` in Rooms: sockets whose handlers of one slug have overlapped, which
  registers two listeners of which one is never removed.
- `gap` in Broadcast: posts shown live and then replaced by the page, because
  RoomView sets the page and does not merge it (RoomView.tsx:206).
- `excused` in Session: devices with more than `MaxSkipped + 1` envelopes on
  their way at once, or misled by an old envelope whose number, or `pn`, is above
  the threshold: nothing of it is verified then, and it costs the device its
  receiving chain or, taken for the start of a new chain, moves its root. In that
  case both ends are excused, since neither opens what the other sends from then
  on. `overlapped` in VoiceNote and LocalKeys, `crossed` in SignIn, `torn`
  in Push, `overtaken` in AsyncViews, `replaced` in PeerDirectory,
  `interleaved`, `outOfOrder` and `failed` in DmThreads: see the comments of the
  properties and section 5. In `MCFeatures` and `MCClient` a behaviour of LocalKeys, SignIn,
  AsyncViews, DmThreads, Session or Devices ends at such a state, beyond which its properties
  claim nothing.
- `overwritten` in Session: saves of a session over what another call of the
  device had saved since this one loaded it. Calls may overlap in any way short
  of that; `Intact` are the devices without such a save. With it, a key seals two
  messages (run `each_key`).
- `overlapped` in Devices: browsers of which two tasks took one key id at once,
  one wiped the store while another had keys not yet uploaded, or one cached its
  enrolment while another was about to wipe. Tasks may overlap in any other way,
  and a batch may stop anywhere. With them, ids clash (run `key_ids`), the server
  refuses an upload, or serves keys whose private half is gone.
- `DmThreads` starts with the conversation of one peer open; the other may be
  opened later, and envelopes of both arrive.

**Fairness.** `Inbox`: the steps of an attach, of the live path and of Redis are
weakly fair: promise continuations, queries and commands are settled either way.
No client has to connect, no sender to send; queries may fail. `Rooms`: weak
fairness of the dispatch of a message and of Redis. `Outbox`: weak fairness of
the replay pass, of `EnqueueResume`, of the handling of a received answer and of
the server's answer; nothing makes the socket open or the page stay, so
`EventuallyAcknowledged` is conditional on the connection that is ready, on the
server not refusing, on IndexedDB not failing and on no pass giving up before the
row. `Calls`: timers fire,
descriptions settle, and a connection whose other end is gone is noticed; no
user acts, no signal has to arrive. `VoiceNote`: the watchdog fires and the
recorder answers `stop()`. The other modules have safety properties only.
`RefreshTokens` has no fairness: `SomeoneGoesOn` says of every state with an
unanswered request that the server can go on with some request or that Postgres
finds a deadlock to break.

## 4. Proofs

Every invariant and action property of the runs is proved for all values of the
constants, except where this section ends. Each proof has the same shape: an
inductive invariant `Inv` that strengthens the property, `Init => Inv`, one
lemma per action or group of actions for `Inv /\ [Next]_vars => Inv'`, and
`Inv => Property`. What makes each property inductive:

*Server.* `EnvelopeRouterProofs`, with `IInv`: the safety properties of `router`
and the refinement `Spec => ImplementsStore`, for all devices, nonces, calls and
bucket sizes; also one row per key, right acknowledgements, attribution, and at
most one push. That a key is never inserted twice needs `GoneMeansDeviceGone` (a
row leaves only with a device its foreign keys name, and a device never comes
back), that a publish is unique needs `OutputsByWriter` and `IssuedByCall` (only
the call that wrote the row publishes), and both need `CallProgress` for what a
suspended call may assume. `RefusalsExplained` assumes that every nonce has a
session; `router_session` shows why. The refinement maps every action to an
action of EnvelopeStore or to a stutter. The same module proves `GrantsBounded`
of RateLimiter for every capacity, cost and clock (`BudgetKept` adds to what was
granted what is in the bucket and what the time since its anchor is still going
to refill) and `SignInBinds` for any number of users, submissions and devices.
`BindInv` holds until two flows cross: one flow is pending at a time, and
`FlowInv` says at each of its awaits whose cookie, token and device the browser
holds.

`RefreshTokensProofs`, for all users, browsers, requests and tokens. `RInv` is
about rotation: that a token has one successor follows because row locks exclude
each other (`LockInv`), because the row under rotation stays unspent until the
commit (`RotateInv`), and because no two requests draw the same successor
(`DrawnInv`); `SpentStaysUnused` is a step of it. `UInv` adds the browsers: no
two of them use one token (`HoldInv`), a family revoke only finds rows of its
user (`OwnerInv`), and a browser of a user without a fault has one request at a
time and presents an unspent token (`CalmInv`), from which `ReuseNeedsFault`
follows; `DoneInv` gives `NoForgottenSession`.

Of `SomeoneGoesOn` the same module proves `NobodyWaitsInVain`, for any finite
number of requests: while a request is unanswered, some request `CanServe`, or a
deadlock is there for Postgres to break. Suppose not: whoever holds a row is then
blocked itself (`HolderBlocked`), since no lock outlives an answer, so that the
blocked requests wait only for each other (`Closed`), and the smallest set with
that property is a deadlock (`BlockedDeadlock`). That the guards in `CanServe`
are what ENABLED makes of the actions is the other conjunct of `SomeoneGoesOn`,
and is TLC's. `DeadlocksAreOfOneUser` says when such a circle can form at all:
the requests in it are of one user, and that user has a fault on record.

*Registry, rooms, inboxes.* `RegistryProofs` holds the lemmas about
ChannelRegistry that both users of it cite. `RegInv` says of each entry (`Fed`)
that its SUBSCRIBE is queued behind every UNSUBSCRIBE of the channel, or is
executed with none queued, or was rejected; that a rejection stays on record
needs `Waiting` and `Once` (what is under way for a listener is under way once).
`RoomsProofs`: `LevelsAgree` for any number of sockets, rooms and posts and any
finite number of frames. `OneMap` says that `subscribedRooms` and
`__roomListeners` are one map, of listeners that no suspended handler has, and
`Tidy` what a suspended handler may find and leave attached. Of `SetToSeq`, which
orders the UNSUBSCRIBEs of a drain, only that it stays within its set is used
(`EmptiedOrder`, from the finiteness of `Listeners`).

`InboxProofs`: `HandoffComplete`, `NoRepeatAfterReplay` and `ListenerIsNotPushed`
for any number of devices, sockets and envelopes. `LinkInv` follows a socket that
issued the SUBSCRIBE of its array: the command is queued with no UNSUBSCRIBE of
the channel behind it, or executed with its answer in the stream, or answered
(`Supplied`). Arrays are allocated in order (`Numbered`), which rules out that a
later array takes the place of the one a handler holds. `PathsInv` then says
where an envelope of the device is once such a socket listens: in the rows its
SELECT has read, in the stream, being hydrated, sent or missed by a failed query.

*Client.* `OutboxProofs`: `NothingLost` for every number of messages, shards,
sockets and entries, from `LossInv`: an answer, read or unread, and a pending
delete exist only for stored envelopes. `ConnectionKept` from `ConnInv`: of a
token, a socket and a timer exactly one is there while a connection is wanted,
and every other socket is closed.

Also in `OutboxProofs`: `ReadAsMade` of Wire, with no hypothesis. `Underway` says
what the fields are at each stage in terms of the message that was made: its
JSON text on Redis, the hydrated row, the packed frame. Each representation is
then read back field by field (`PostReadBack`, `RowReadBack`, `FrameReadBack`),
which needs that a valid message of a type without optional fields has all of
them, and none that is `undefined` (`ValidFields`). The attempt found the model at
fault: arms of the CASE in `FromText` overlapped, which leaves open what it
returns, although TLC takes the first; each arm now tests the schema alone.

`DevicesProofs`: `GivenOnce` for any number of tabs, devices and senders
(`GivenInv`: an unused key was given to nobody); `NoConflict` and
`ServedKeysHeld` from `KeysInv`, which says of each batch on its way that the
browser holds its private halves, that its ids are distinct and that none of
them is in the pool it is for, nor in the batch of another task; for every
browser outside `overlapped`, with any number of tasks of each under way and
batches cut off anywhere. That the server hands out the least unused id is used through
well-foundedness of the order of Nat. The module also proves `LiveRowKept` of
Push: the row is there or on its way (`RowIsDue`), a late DELETE names a row of
an older subscription (`LateDeletes`), and one `enable()` is heard at a time
(`OneEnabling`). The first attempt at this proof failed, and showed that the
model had left out toggles that are mounted anew and calls that overlap; with
them the property holds only outside what `torn` names, which now includes an
`enable()` begun while the flag was on or while another was under way: the late
`setState` of the mount effect shows a toggle off that is on.

Also in `DevicesProofs`: `KeyUsedOnce` and `ShownOnce` of Session, for any number
of messages and every `MaxSkipped`. Roots only grow, so that a chain, which is
named by the root it was split from, never comes back. `DecryptsSafely` says of
every state and every envelope, forged ones included, that what opens had a key
that was not `Retired`, which is retired afterwards for good: behind the
receiving chain, and not in the store, whose keys are distinct (`KeysDiffer`).
`SessionInv` says of every device that the states it has saved and loaded are
sound, under roots whose length has its parity (`Turn`), so that the two devices
never share a key (`DeviceOk`, `NamesOk`); and of one that no call has overwritten
that the keys of the opened envelopes are retired (`RowsOk`) and those of the
sealed ones are `Past` (`SentOk`). There is no hypothesis on the calls under way
together: a save either finds the state the call has loaded, and then keeps both,
or it is counted as an overwrite.

`OnlyOverrunRefuses` is proved there too, as long as both devices are intact.
`RefusalInv` relates the two ends. They are `Paired` until one is misled into a root of its
own: the root of one (it `Leads`) is that of the other with one more secret; the
keys of each state follow from the length of its root (`Keyed`); and what a
device has sealed is of roots its own has grown from, with no number missing in a
chain (`Genuine`). A device that is not excused is `Prepared`: at most
`MaxSkipped + 1` envelopes wait for it, its store has keys of these only, and the
key of each is in the store, or ahead on the receiving chain (`Ahead`), or on the
chain its peer has begun and it has not. So the gap up to any of them, being made
of the numbers of others that wait, has at most `MaxSkipped` keys, and the store
takes them without evicting one (`NothingEvicted`, `Collects`). Opening one leaves
the state prepared for the rest: `StoredReady`, `AheadReady` and `NewReady` are
the three places the key can be. The first attempt failed, and showed what the
model and the property had left out: an old envelope above the threshold moves
the root, and the ends then part, which takes more messages than the run has
(section 5); and what is outstanding has to be counted from the sealing on, not
from the send.

`FeaturesProofs`:
- `HeldOnlyInCall` for any order and any loss of signals, prompts and timers.
  `CallInv` adds that a set description and a pending `describing` belong to a
  started peer, because candidates, answers and connection events arm timers
  from these and not from `peer`; and `EndedIsLate` that an end which came back
  was `late`, and has no description, so that nothing arms a timer for it.
- `KeysReadable` for any number of workers. `KInv` says what a suspended call may
  rely on: whoever wraps or saves a key holds the KEK that is saved, and whoever
  is about to save the first KEK is the only enrolment (`OneEnrolment`), so that
  nothing is saved under another (`NoneSaved`). Ids are typed only as members of
  some set `U`, which grows with each id: that the prekeys are finitely many, and
  the newest id so a number, is not needed.
- `BackupServes` from `BackupKept`: what the server serves is known here
  (`Known`) at each await of an enrolment, and what an export has read of one
  table agrees with the others, since prekeys are only added.
- `CapKept` for any cap and any number of viewers, from `LastCounted`: of every
  group in the room somebody, the last to join, has counted the whole group. The
  group of those who stay is then smaller than the cap.
- `CaughtUp` for any number of posts and any page limit, from `NewestDue`: from
  the moment the page is read, a published post among the newest ever stored is
  shown, in the page, or has its frame in the stream. The page holds the newest
  rows that are left; that a post among the newest ever stored is among them is
  the lemma `NewestOfFewer`.
- `RepliesReachSenders`: the answer of a look-up under way may lack a device
  heard from after it was sent, which is what `replaced` records.
- `ShowsCurrent`: of the runs of one effect only the last is current, and only
  one that waits for the write of the cache (`put`) may reach the screen after
  its cleanup. `OneNumber` says that both ends compute one safety number.
- `ScreenSettles` and `ThreadsMatch` for any number of conversations, messages,
  handlers and reads under way together. `ScreenFollows` says of the newest read
  that it is not made yet, or agrees with the tables, or that an inbound message
  is stored and its handler has still to announce it. `UnreadCounts` leaves out
  of the count the rows whose handler has still to record them, and `Timed` says
  who is going to write the time of a row that is later than its thread's.
- `CacheSettles` for any uploads of any sizes, any cap and any number of writes
  under way. A call reads the total in one transaction and deletes by it in
  another, so the property is about the last call to finish. `StillEvicted` says
  of a cache over its cap, unless a write was cut off since the total was last
  read, that some call has not read the total yet, or has read
  one no smaller than what is there now: a later write adds a call of the first
  kind, and a deletion by a total that was too small leaves the call that
  witnesses the difference (`CacheEvictKeeps`). That `evictOverflow` stops at
  the right row is `OldestEvicted`. A sum of sizes is defined as the number of
  bytes of a set of rows, which the theorems about cardinality reach and a
  recursive sum is not.

Assumptions: the named `ASSUME`s of the modules, which type the constants, and
the hypotheses named above: that every nonce has a session
(`RefusalsExplained`) and the finiteness of `Requests` (`NobodyWaitsInVain`). TLC
evaluates the first in the runs; the others hold in them by the values of the
constants.

*Left to TLC.* Liveness under fairness (`LiveDelivery`, `PostReaches`,
`EventuallyAcknowledged`, `OfferEnds`, `OtherEndFollows`, `MicGoesOff`), and
ENABLED: that `CanServe` in `SomeoneGoesOn` is the enabledness of the server's
steps. The provers reach neither. Every other property of the runs is proved.

## 5. Where the code differs from its documentation

Seven runs show a disagreement; their findings are in PROJECT.json. The models
reproduce more behaviours that a comment rules out or does not mention. Each is
reached in the modelled states, and the properties are stated around it:

- *Envelopes.* A retry after a crash between commit and publish is acknowledged
  without a publish (gateway.ts:820-823). A live message that arrives during the
  replay is sent twice (redis-fanout.ts:33-36). A socket that closes during the
  attach leaves its listener (gateway.ts:1637, redis-fanout.ts:15-19). After a
  rejected SUBSCRIBE the array stays, and later listeners are not fed.
- *Client connection.* `close()` while a token is pending does not stop the
  socket from being opened (client.ts:303-306, 376). When the flip of a message
  fails, no later acknowledgement repeats it (plaintext-controller.ts:128). A row whose
  frame is over 1 MiB ends every pass and blocks the rows behind it, where
  outbox.ts:225-226 says that "the next `hello_ok` retries".
- *Threads.* `insertIncoming` has no uniqueness, so that a redelivered envelope
  is stored again and counted unread. `markRead` and `markFailed` have no
  callers. A send that overlaps another handler can set `lastMessageAt` back
  (plaintext-controller.ts:220-226). Screen reads are neither ordered nor
  cancelled. A look-up answered before a device enrolled, arriving after its
  message, drops that device from the fan-out for good (DmHost.tsx:228).
- *Refresh tokens.* A family revoke that waits for a rotation misses the
  successor (tokens.ts:193-195, 329). Sign-out clears the store and never calls
  /auth/logout; a refresh that is answered after it signs in again.
- *Ratchet and sessions.* A redelivered envelope is shown as tampered
  (ratchet.ts:18-23). A gap above the threshold on the current chain forgets the
  chain key (ratchet.ts:38-42, 1282-1284). An old envelope whose keys were evicted
  and whose number is above the threshold is taken for the start of a new chain
  and moves the root before anything is verified (ratchet.ts:1156-1203), where
  ratchet.ts:1096-1101 says that it is answered `invalid_message`: the two ends
  have parted, and every later message is turned down. Two overlapping sends of the
  E2EE controller use one message key, against controller.ts:60-66 (run
  `each_key`). A reload between the
  save of the session and the row loses the message (controller.ts:548-557).
- *Devices and keys.* A repeated enrolment wipes the private halves of keys the
  server still serves, against enrollment.ts:235-238. A failed upload of prekeys
  is never repeated (opkReplenishment.ts:272-274), and the ticks of its timer overlap
  (opkReplenishment.ts:294-306). Two mints at once can take one key id, against
  prekeys.ts:50-53 (run `key_ids`). The route for a new
  signed prekey does not exist. Two first runs at once may leave the identity
  under the lost KEK (repositories/identity.ts:104-112).
- *Calls.* A hangup during the media prompt followed by a grant revives the peer
  (peer.ts:258-309), against peer.ts:90-91 (run `calls`); a refusal after it fires
  `onTerminated` a second time.
- *Attachments, voice notes, live.* A view whose props change during
  `putPlaintext` shows the old attachment under a revoked URL
  (AttachmentView.tsx:173-185). Two releases upload a clip twice
  (voice-note.ts:505-512). Stopping while going live can leave captures on
  (GoLiveButton.tsx:97-132).
- *Broadcast.* A lost answer to a POST makes the admin submit the post a second
  time. The cursor `created_at < before` skips ties. RoomView replaces live posts
  by the page.
- *Push.* The mount effect may turn a toggle off after the user has switched it
  on again, because it compares nothing when its read settles
  (PushToggle.tsx:212-218). A POST overtaken by a newer one deletes its
  row (push.ts:170-174); the DELETE and the INSERT are not one transaction.
- *Rate limiter.* A clock set back and forward refills one stretch twice, against
  rate-limit.ts:71-75.

## 6. Not modelled

- The service worker. A click on a notification opens `/thread/:conversationId`
  (sw-push-handler.ts:179), which `parseRoute` (router.tsx:46-72) maps to
  not-found, or posts `konvo.navigate` to a tab that is open
  (sw-push-handler.ts:380-382), for which nothing in `apps/web/src` listens,
  against sw-push-handler.ts:41 and 315-318: of where a click leads nothing true
  can be claimed. The rest is the caches of Workbox, the registration and the
  `konvo:reconnect` event, which has no listener.
- Server start, configuration, migrations, health, metrics and logs.
- Presence and ENVELOPE_RECEIVED: written, never read back. `revokeAllForUser`,
  `markOpkUsed`, the store of remote identities, `precache-messages.ts`: no
  caller.
- Password hashing, TOTP, TURN credentials, passphrase derivation, rendering.
- A second HELLO on one socket; several API processes (Redis counts this process
  as the only subscriber); two tabs on one outbox; a HELLO that arrives while
  the upgrade is authenticated.
- In the ratchet, authentication tags beyond "a ciphertext opens under the key
  that sealed it"; in Wire, ids of more than 64 bits and fractional numbers.
- Properties for three hazards the code is exposed to and does not exclude (see
  the notes in PROJECT.json): there is nothing true to state about them.

What would come next: a composition of Session with Outbox and Inbox, in which
the faulty network is the modelled server.
