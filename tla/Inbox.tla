------------------------------ MODULE Inbox ------------------------------
(***************************************************************************)
(* The receiving side of the WebSocket gateway: the life of a connection   *)
(* (handleConnection and handleHello of apps/api/src/ws/gateway.ts) and    *)
(* its inbox (attachInbox, the offline replay and the live path of         *)
(* apps/api/src/ws/redis-fanout.ts).                                       *)
(*                                                                         *)
(* It extends ChannelRegistry, whose listeners are the connections, whose  *)
(* channels are the devices (dev:{id}) and whose payloads are the          *)
(* envelopes, and composes it with EnvelopeStore, which stands for every   *)
(* SEND_ENVELOPE handler: envelopes appear in the table and are announced  *)
(* on the channel some time later, or never.                               *)
(*                                                                         *)
(* One API process.  A connection is one socket; a device that reconnects, *)
(* or that has two tabs, uses several.  delivered_at is written nowhere in *)
(* apps/api/src, so that every replay selects every row of the device.     *)
(***************************************************************************)
EXTENDS ChannelRegistry

CONSTANT RecipientOf   \* the recipient device of an envelope

Conns == Listeners     \* sockets accepted by the gateway, one inbox listener each
Devices == Channels
DeviceOf == ChannelOf  \* the device of a socket's token
Envelopes == Payloads

ASSUME InboxAssumptions == RecipientOf \in [Envelopes -> Devices]

VARIABLES
    status, announced, acked,                                    \* EnvelopeStore
    sock,        \* the socket
    phase,       \* how far handleHello has come
    handle,      \* sockets whose __inboxHandle is set
    registered,  \* sockets whose closure has connectedRegistered = true
    connected,   \* connectedDevices
    snap,        \* rows the replay SELECT of a socket returned
    seen,        \* seenEnvelopeIds
    hydrating,   \* ids whose row handleLivePublish is fetching
    sent,        \* ENVELOPE frames written to the socket, per envelope
    pushes,      \* envelopes for which a push was scheduled
    uncounted,   \* envelopes whose publish was rejected: no listener count
    first,       \* history: sockets whose attach issued the SUBSCRIBE
    missed       \* history: envelopes a failed query kept from a socket

Store == INSTANCE EnvelopeStore WITH Keys <- Envelopes

storeVars == <<status, announced, acked>>
lifeVars == <<sock, phase, handle, registered, connected>>
pathVars == <<snap, seen, hydrating, sent>>
pushVars == <<pushes, uncounted>>
vars == <<storeVars, regVars, lifeVars, pathVars, pushVars, first, missed>>

\* Two copies of an envelope, one from the replay and one live, are the most a
\* socket ever sees: the bound of `sent`.
TypeOK ==
    /\ RegTypeOK
    /\ status \in [Envelopes -> {"absent", "stored", "gone"}]
    /\ announced \in SUBSET Envelopes
    /\ sock \in [Conns -> {"none", "open", "closing", "closed"}]
    /\ phase \in [Conns -> {"new", "open", "counting", "failed", "subscribing",
                            "selecting", "attached", "noInbox"}]
    /\ handle \in SUBSET Conns
    /\ registered \in SUBSET Conns
    /\ connected \in SUBSET Devices
    /\ snap \in [Conns -> SUBSET Envelopes]
    /\ seen \in [Conns -> SUBSET Envelopes]
    /\ hydrating \in [Conns -> SUBSET Envelopes]
    /\ sent \in [Conns -> [Envelopes -> 0..2]]
    /\ pushes \in SUBSET Envelopes
    /\ uncounted \in SUBSET Envelopes
    /\ first \in SUBSET Conns
    /\ missed \in [Conns -> SUBSET Envelopes]

Init ==
    /\ Store!StoreInit
    /\ RegInit
    /\ sock = [c \in Conns |-> "none"]
    /\ phase = [c \in Conns |-> "new"]
    /\ handle = {} /\ registered = {} /\ connected = {}
    /\ snap = [c \in Conns |-> {}]
    /\ seen = [c \in Conns |-> {}]
    /\ hydrating = [c \in Conns |-> {}]
    /\ sent = [c \in Conns |-> [e \in Envelopes |-> 0]]
    /\ pushes = {} /\ uncounted = {}
    /\ first = {}
    /\ missed = [c \in Conns |-> {}]

RowsOf(d) == {e \in Envelopes : status[e] = "stored" /\ RecipientOf[e] = d}
HelloReceived(c) == phase[c] \in {"subscribing", "selecting", "attached", "noInbox"}

\* ctx.send writes only to an open socket.
SendAll(c, S) ==
    sent' = IF sock[c] = "open"
            THEN [sent EXCEPT ![c] = [e \in Envelopes |-> @[e] + IF e \in S THEN 1 ELSE 0]]
            ELSE sent

\* The `.then` of a frame: whatever has become of the socket, its device is
\* added to connectedDevices unless this socket did so before.
Register(c) ==
    /\ registered' = registered \cup {c}
    /\ connected' = IF c \in registered THEN connected ELSE connected \cup {DeviceOf[c]}

(***************************************************************************)
(* handleConnection, handleHello                                           *)
(***************************************************************************)

Open(c) ==
    /\ sock[c] = "none"
    /\ sock' = [sock EXCEPT ![c] = "open"]
    /\ phase' = [phase EXCEPT ![c] = "open"]
    /\ UNCHANGED <<storeVars, regVars, handle, registered, connected, pathVars,
                   pushVars, first, missed>>

\* HELLO arrives; queuedCountForDevice is awaited.
Hello(c) ==
    /\ sock[c] = "open"
    /\ phase[c] = "open"
    /\ phase' = [phase EXCEPT ![c] = "counting"]
    /\ UNCHANGED <<storeVars, regVars, sock, handle, registered, connected, pathVars,
                   pushVars, first, missed>>

\* HELLO_OK is sent and attachInbox starts, on a socket that may be closed.
CountOk(c) ==
    /\ phase[c] = "counting"
    /\ phase' = [phase EXCEPT ![c] = "subscribing"]
    /\ Add(c)
    /\ first' = IF entry[DeviceOf[c]] = 0 THEN first \cup {c} ELSE first
    /\ UNCHANGED <<storeVars, sock, handle, registered, connected, pathVars,
                   pushVars, missed>>

CountFails(c) ==
    /\ phase[c] = "counting"
    /\ phase' = [phase EXCEPT ![c] = "failed"]
    /\ sock' = [sock EXCEPT ![c] = IF @ = "open" THEN "closing" ELSE @]
    /\ UNCHANGED <<storeVars, regVars, handle, registered, connected, pathVars,
                   pushVars, first, missed>>

\* The HELLO timer: five seconds passed and helloReceived is still false.
HelloTimeout(c) ==
    /\ sock[c] = "open"
    /\ ~HelloReceived(c)
    /\ sock' = [sock EXCEPT ![c] = "closing"]
    /\ UNCHANGED <<storeVars, regVars, phase, handle, registered, connected, pathVars,
                   pushVars, first, missed>>

\* Any other frame is handled while the attach is still under way.
OtherFrame(c) ==
    /\ sock[c] = "open"
    /\ HelloReceived(c)
    /\ c \notin registered
    /\ Register(c)
    /\ UNCHANGED <<storeVars, regVars, sock, phase, handle, pathVars,
                   pushVars, first, missed>>

\* The 'close' event.  (An 'error' event does the first half and is always
\* followed by 'close'.)
Close(c) ==
    /\ sock[c] \in {"open", "closing"}
    /\ sock' = [sock EXCEPT ![c] = "closed"]
    /\ registered' = registered \ {c}
    /\ connected' = IF c \in registered THEN connected \ {DeviceOf[c]} ELSE connected
    /\ handle' = handle \ {c}
    /\ IF c \in handle THEN Remove(c) ELSE UNCHANGED regVars
    /\ UNCHANGED <<storeVars, phase, pathVars, pushVars, first, missed>>

(***************************************************************************)
(* attachInbox: subscribe, then replay, then seed the dedup set            *)
(***************************************************************************)

\* Mutant of SelectRows: subscribeDevice is not awaited.
SelectRowsEarly(c) ==
    /\ phase[c] = "subscribing"
    /\ snap' = [snap EXCEPT ![c] = RowsOf(DeviceOf[c])]
    /\ phase' = [phase EXCEPT ![c] = "selecting"]
    /\ UNCHANGED <<storeVars, regVars, sock, handle, registered, connected, seen,
                   hydrating, sent, pushVars, first, missed>>

\* subscribeDevice resolved and the database executes the replay SELECT.
SelectRows(c) ==
    /\ phase[c] = "subscribing"
    /\ state[c] = "attached"
    /\ snap' = [snap EXCEPT ![c] = RowsOf(DeviceOf[c])]
    /\ phase' = [phase EXCEPT ![c] = "selecting"]
    /\ UNCHANGED <<storeVars, regVars, sock, handle, registered, connected, seen,
                   hydrating, sent, pushVars, first, missed>>

\* subscribeDevice rejected: logged by handleHello, the socket stays open.
AttachFails(c) ==
    /\ phase[c] = "subscribing"
    /\ state[c] = "failed"
    /\ phase' = [phase EXCEPT ![c] = "noInbox"]
    /\ Register(c)
    /\ UNCHANGED <<storeVars, regVars, sock, handle, pathVars, pushVars, first, missed>>

\* Mutant of ReplayRows: the dedup set is not seeded.
ReplayUnseeded(c) ==
    /\ phase[c] = "selecting"
    /\ SendAll(c, snap[c])
    /\ snap' = [snap EXCEPT ![c] = {}]
    /\ phase' = [phase EXCEPT ![c] = "attached"]
    /\ handle' = handle \cup {c}
    /\ Register(c)
    /\ UNCHANGED <<storeVars, regVars, sock, seen, hydrating, pushVars, first, missed>>

\* The rows arrive: send every one, seed seenEnvelopeIds, return the handle.
ReplayRows(c) ==
    /\ phase[c] = "selecting"
    /\ SendAll(c, snap[c])
    /\ seen' = [seen EXCEPT ![c] = @ \cup snap[c]]
    /\ snap' = [snap EXCEPT ![c] = {}]
    /\ phase' = [phase EXCEPT ![c] = "attached"]
    /\ handle' = handle \cup {c}
    /\ Register(c)
    /\ UNCHANGED <<storeVars, regVars, sock, hydrating, pushVars, first, missed>>

\* The replay query fails: logged, nothing is replayed on this connection.
ReplayFails(c) ==
    /\ phase[c] = "selecting"
    /\ missed' = [missed EXCEPT ![c] = @ \cup snap[c]]
    /\ snap' = [snap EXCEPT ![c] = {}]
    /\ phase' = [phase EXCEPT ![c] = "attached"]
    /\ handle' = handle \cup {c}
    /\ Register(c)
    /\ UNCHANGED <<storeVars, regVars, sock, seen, hydrating, sent, pushVars, first>>

(***************************************************************************)
(* handleLivePublish                                                       *)
(***************************************************************************)

\* Mutant of Dispatch: live messages are ignored until the replay has ended.
DispatchIfAttached(d, e) ==
    LET fresh == {c \in Receivers(d) : e \notin seen[c] /\ phase[c] = "attached"}
        with(f) == [c \in Conns |-> IF c \in fresh THEN f[c] \cup {e} ELSE f[c]]
    IN  /\ stream # <<>>
        /\ Head(stream) = [kind |-> "message", chan |-> d, payload |-> e]
        /\ ReadMessage
        /\ seen' = with(seen)
        /\ hydrating' = with(hydrating)
        /\ UNCHANGED <<storeVars, lifeVars, snap, sent, pushVars, first, missed>>

\* A message on dev:{d} is handed to every listener in the registered array.
Dispatch(d, e) ==
    LET fresh == {c \in Receivers(d) : e \notin seen[c]}
        with(f) == [c \in Conns |-> IF c \in fresh THEN f[c] \cup {e} ELSE f[c]]
    IN  /\ stream # <<>>
        /\ Head(stream) = [kind |-> "message", chan |-> d, payload |-> e]
        /\ ReadMessage
        /\ seen' = with(seen)
        /\ hydrating' = with(hydrating)
        /\ UNCHANGED <<storeVars, lifeVars, snap, sent, pushVars, first, missed>>

\* The hydrate SELECT returns the row, or no row if it is gone.
Hydrate(c, e) ==
    /\ e \in hydrating[c]
    /\ hydrating' = [hydrating EXCEPT ![c] = @ \ {e}]
    /\ SendAll(c, {e} \cap RowsOf(DeviceOf[c]))
    /\ UNCHANGED <<storeVars, regVars, lifeVars, snap, seen, pushVars, first, missed>>

\* The hydrate SELECT fails: logged, and the id stays in seenEnvelopeIds.
HydrateFails(c, e) ==
    /\ e \in hydrating[c]
    /\ hydrating' = [hydrating EXCEPT ![c] = @ \ {e}]
    /\ missed' = [missed EXCEPT ![c] = @ \cup {e}]
    /\ UNCHANGED <<storeVars, regVars, lifeVars, snap, seen, sent, pushVars, first>>

(***************************************************************************)
(* The senders and Redis                                                   *)
(***************************************************************************)

Insert(e) ==
    /\ Store!Store(e)
    /\ UNCHANGED <<regVars, lifeVars, pathVars, pushVars, first, missed>>

\* Mutant of Announce: connectedDevices alone decides the push.
AnnounceByRegistry(e) ==
    /\ Store!Announce(e)
    /\ e \notin uncounted
    /\ Publish(RecipientOf[e], e)
    /\ pushes' = IF RecipientOf[e] \notin connected THEN pushes \cup {e} ELSE pushes
    /\ UNCHANGED <<uncounted, lifeVars, pathVars, first, missed>>

\* publishEnvelopeToRecipient and the push decision of step 4b, taken as one
\* moment.  Redis counts this process as the only possible subscriber.
Announce(e) ==
    LET d == RecipientOf[e]
        offline == d \notin connected /\ d \notin upstream
    IN  /\ Store!Announce(e)
        /\ e \notin uncounted
        /\ Publish(d, e)
        /\ pushes' = IF offline THEN pushes \cup {e} ELSE pushes
        /\ UNCHANGED <<uncounted, lifeVars, pathVars, first, missed>>

\* publishEnvelopeToRecipient rejects, Redis having executed the PUBLISH or
\* not: there is no count, and connectedDevices alone decides the push.
PublishFails(e) ==
    /\ status[e] # "absent"
    /\ e \notin announced \cup uncounted
    /\ uncounted' = uncounted \cup {e}
    /\ pushes' = IF RecipientOf[e] \notin connected THEN pushes \cup {e} ELSE pushes
    /\ \/ Store!Announce(e) /\ Publish(RecipientOf[e], e)
       \/ UNCHANGED <<storeVars, regVars>>
    /\ UNCHANGED <<lifeVars, pathVars, first, missed>>

\* The sender's device is deleted and its envelopes with it.
Vanish(e) ==
    /\ Store!Cascade({e})
    /\ UNCHANGED <<regVars, lifeVars, pathVars, pushVars, first, missed>>

Redis ==
    /\ RedisStep
    /\ UNCHANGED <<storeVars, lifeVars, pathVars, pushVars, first, missed>>

Resume(c) ==
    /\ AddResume(c)
    /\ UNCHANGED <<storeVars, lifeVars, pathVars, pushVars, first, missed>>

Attach(c) ==
    CountOk(c) \/ Resume(c) \/ SelectRows(c) \/ AttachFails(c) \/ ReplayRows(c)

Live ==
    \/ \E d \in Devices, e \in Envelopes : Dispatch(d, e)
    \/ \E c \in Conns, e \in Envelopes : Hydrate(c, e)

Next ==
    \/ \E c \in Conns :
          \/ Open(c) \/ Hello(c) \/ CountFails(c) \/ HelloTimeout(c) \/ OtherFrame(c)
          \/ Close(c) \/ Attach(c) \/ ReplayFails(c)
    \/ \E c \in Conns, e \in Envelopes : HydrateFails(c, e)
    \/ \E e \in Envelopes : Insert(e) \/ Announce(e) \/ PublishFails(e) \/ Vanish(e)
    \/ Live
    \/ Redis

Spec == Init /\ [][Next]_vars

\* The event loop, the database and Redis keep working; nothing obliges a
\* client to connect, a sender to send or a query to fail.
Fairness ==
    /\ \A c \in Conns : WF_vars(Attach(c))
    /\ WF_vars(Live)
    /\ WF_vars(Redis)

FairSpec == Spec /\ Fairness

(***************************************************************************)
(* Properties                                                              *)
(***************************************************************************)

InFlight(c, e) ==
    \/ e \in hydrating[c]
    \/ \E i \in 1..Len(stream) :
          stream[i] = [kind |-> "message", chan |-> DeviceOf[c], payload |-> e]

\* Nothing that keeps e from reaching c: e is stored for c's device.
Covered(c, e) ==
    \/ sent[c][e] > 0
    \/ InFlight(c, e)
    \/ e \notin announced
    \/ e \in missed[c]

Ready(c) == sock[c] = "open" /\ phase[c] = "attached"

\* Subscribe-then-replay leaves no gap (redis-fanout.ts:29-34): once a socket
\* that issued the SUBSCRIBE has its inbox, every row of its device was sent
\* to it, or is on its way, or its publish is still to come, or a query
\* failed.  Rows, publishes, SUBSCRIBE replies and the SELECT interleave.
HandoffComplete ==
    \A c \in Conns :
        Ready(c) /\ c \in first /\ c \in Receivers(DeviceOf[c]) =>
            \A e \in RowsOf(DeviceOf[c]) : Covered(c, e)

\* Once a socket has had its replay, an envelope already sent on it is neither
\* sent nor fetched again, unless a fetch was under way when the replay ended:
\* seeding seenEnvelopeIds stops every later publish.
NoRepeatAfterReplay ==
    [][\A c \in Conns, e \in Envelopes :
          /\ phase[c] = "attached"
          /\ sent[c][e] > 0
          /\ e \notin hydrating[c]
          => sent'[c][e] = sent[c][e] /\ e \notin hydrating'[c]]_vars

\* A close of one socket takes the device out of connectedDevices, its other
\* sockets notwithstanding.
ForgottenWith(c) ==
    \E c2 \in Conns \ {c} : DeviceOf[c2] = DeviceOf[c] /\ sock[c2] = "closed"

\* A device with a socket that is being fed is woken by a push only when both
\* signals of "offline" (gateway.ts:891-898) fail it: the close of another of
\* its sockets took it out of connectedDevices, and the publish was rejected,
\* so that there is no listener count.  Either one alone is not enough.
ListenerIsNotPushed ==
    [][\A e \in Envelopes, c \in Conns :
          /\ Ready(c) /\ c \in first /\ c \in Receivers(RecipientOf[e])
          /\ e \in pushes' \ pushes
          => e \in uncounted' /\ ForgottenWith(c)]_vars

\* A socket that issued the SUBSCRIBE and keeps its inbox gets every announced
\* envelope in the end, unless the row vanishes or a query fails.
LiveDelivery ==
    \A c \in Conns, e \in Envelopes :
        /\ Ready(c) /\ c \in first /\ c \in Receivers(DeviceOf[c])
        /\ e \in announced /\ e \in RowsOf(DeviceOf[c])
        ~> \/ sent[c][e] > 0
           \/ ~Ready(c) \/ status[e] = "gone" \/ e \in missed[c]

===========================================================================
