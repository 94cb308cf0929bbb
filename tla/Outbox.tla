------------------------------ MODULE Outbox ------------------------------
(***************************************************************************)
(* Sending a direct message from the web client: PlaintextDmController     *)
(* stores the message and hands one envelope per recipient device to       *)
(* OutboxCoordinator (apps/web/src/ws/outbox.ts), which persists it in     *)
(* DexieOutboxStore and sends it over WsClient, again after every          *)
(* HELLO_OK, until ENVELOPE_QUEUED comes back.                             *)
(*                                                                         *)
(* Every await of the client is a point where any other callback may run,  *)
(* the page may be reloaded and the socket may close.  The server is what  *)
(* EnvelopeRouter was shown to be: it stores an envelope once and answers  *)
(* every submission of a stored one with ENVELOPE_QUEUED.  It handles the  *)
(* frames of a socket concurrently, so that frames and answers in flight   *)
(* are sets.                                                               *)
(***************************************************************************)
EXTENDS Naturals, Sequences, FiniteSets

CONSTANTS
    MaxSockets,  \* bound of WsClient
    Nonces,      \* client nonces, one per message and recipient device
    Messages,    \* messages the user composes
    Shards,      \* the nonces of a message, in the order they are enqueued
    TooLarge,    \* nonces whose frame encodeC2S refuses: over MAX_FRAME_BYTES
    MaxEntries   \* OUTBOX_MAX_ENTRIES

ASSUME OutboxAssumptions ==
    /\ MaxSockets \in Nat
    /\ MaxEntries \in Nat \ {0}
    /\ Shards \in [Messages -> Seq(Nonces)]
    /\ TooLarge \subseteq Nonces

VARIABLES
    connection, current, life, tokens, timer, explicit, wasClosed,  \* WsClient
    rows,      \* Dexie table outbox
    nextId,    \* its auto-increment key
    message,   \* state of each row of table messages
    todo,      \* shards sendMessage has not enqueued yet
    resuming,  \* nonces whose enqueue transaction has committed
    replay,    \* where the replay pass is suspended
    batch,     \* rows the pass has still to send
    pending,   \* #replayPending
    removing,  \* queued events whose deleteByClientNonce is under way
    flipping,  \* queued events the controller is handling
    inFlight,  \* SEND_ENVELOPE frames under way on each socket
    replies,   \* ENVELOPE_QUEUED frames under way on each socket
    stored,    \* nonces of ciphertext_envelopes
    sent,      \* history: nonces sent since the last HELLO_OK
    refused,   \* history: nonces answered with ERROR since the last HELLO_OK
    enqueued,  \* history: nonces whose enqueue transaction committed
    evicted,   \* history: nonces a sweep removed
    bailed,    \* history: IndexedDB failed a pass or a delete on this connection
    stuck      \* history: unsent nonces a pass gave up, for a frame too large
               \*          among them or before them, since the last HELLO_OK

Ws == INSTANCE WsClient WITH state <- connection

wsVars == <<connection, current, life, tokens, timer, explicit, wasClosed>>
table == <<rows, nextId, enqueued, evicted>>
passVars == <<replay, batch, pending, bailed, stuck>>
sendVars == <<todo, resuming>>
ackVars == <<removing, flipping>>
net == <<inFlight, replies, stored, sent, refused>>
outboxVars == <<wsVars, table, message, passVars, sendVars, ackVars, net>>

WsSockets == 1..MaxSockets
Row == [id: Nat \ {0}, nonce: Nonces]

\* The table never exceeds its capacity and holds a nonce at most once.
OutboxTypeOK ==
    /\ Ws!WsTypeOK
    /\ rows \in SUBSET Row
    /\ Cardinality(rows) <= MaxEntries
    /\ \A r, q \in rows : r.id = q.id \/ r.nonce = q.nonce => r = q
    /\ nextId \in Nat \ {0}
    /\ message \in [Messages -> {"none", "sending", "delivered"}]
    /\ \A m \in Messages : \E k \in 0..Len(Shards[m]) :
          todo[m] = SubSeq(Shards[m], Len(Shards[m]) - k + 1, Len(Shards[m]))
    /\ resuming \in SUBSET Nonces
    /\ replay \in {"off", "listing", "recording"}
    /\ batch \in SUBSET Row
    /\ pending \in BOOLEAN
    /\ removing \in SUBSET Nonces
    /\ flipping \in SUBSET Nonces
    /\ inFlight \in [WsSockets -> SUBSET Nonces]
    /\ replies \in [WsSockets -> SUBSET Nonces]
    /\ stored \in SUBSET Nonces
    /\ sent \in SUBSET Nonces
    /\ refused \in SUBSET Nonces
    /\ enqueued \in SUBSET Nonces
    /\ evicted \in SUBSET Nonces
    /\ bailed \in BOOLEAN
    /\ stuck \in SUBSET Nonces

OutboxInit ==
    /\ Ws!WsInit
    /\ rows = {} /\ nextId = 1 /\ enqueued = {} /\ evicted = {}
    /\ message = [m \in Messages |-> "none"]
    /\ todo = [m \in Messages |-> <<>>]
    /\ resuming = {}
    /\ replay = "off" /\ batch = {} /\ pending = FALSE /\ bailed = FALSE /\ stuck = {}
    /\ removing = {} /\ flipping = {}
    /\ inFlight = [s \in WsSockets |-> {}]
    /\ replies = [s \in WsSockets |-> {}]
    /\ stored = {}
    /\ sent = {} /\ refused = {}

Oldest(S) == {r \in S : \A q \in S : r.id <= q.id}
NoncesOf(S) == {r.nonce : r \in S}
MessageOf(n) == CHOOSE m \in Messages : \E i \in 1..Len(Shards[m]) : Shards[m][i] = n
CanSend == Ws!Ready /\ current # 0

Sendable(n) == CanSend /\ n \notin TooLarge

\* WsClient.send: one frame on the socket of the moment, or an exception, for
\* want of a socket or from encodeC2S.
Send(n) ==
    IF Sendable(n)
    THEN /\ inFlight' = [inFlight EXCEPT ![current] = @ \cup {n}]
         /\ sent' = sent \cup {n}
    ELSE UNCHANGED <<inFlight, sent>>

(***************************************************************************)
(* sendMessage and enqueue                                                 *)
(***************************************************************************)

\* insertOutgoing committed.
SendMessage(m) ==
    /\ message[m] = "none"
    /\ message' = [message EXCEPT ![m] = "sending"]
    /\ todo' = [todo EXCEPT ![m] = Shards[m]]
    /\ UNCHANGED <<wsVars, table, passVars, resuming, ackVars, net>>

\* sweepCapacity(MaxEntries - 1): the oldest rows go.
Surplus(S) ==
    {r \in S : Cardinality({q \in S : q.id > r.id}) >= MaxEntries - 1}

\* The enqueue transaction.  `aged` is what sweepAged finds too old: the
\* rows are as old as their ids are small.
EnqueueCommit(m, aged) ==
    LET n == Head(todo[m])
        kept == rows \ aged
    IN  /\ todo[m] # <<>>
        /\ n \notin resuming
        /\ aged \subseteq rows
        /\ \A r \in aged, q \in kept : r.id < q.id
        /\ IF n \in NoncesOf(rows)
           THEN aged = {} /\ UNCHANGED table
           ELSE /\ rows' = (kept \ Surplus(kept)) \cup {[id |-> nextId, nonce |-> n]}
                /\ evicted' = evicted \cup NoncesOf(aged \cup Surplus(kept))
                /\ nextId' = nextId + 1
                /\ enqueued' = enqueued \cup {n}
        /\ resuming' = resuming \cup {n}
        /\ UNCHANGED <<wsVars, message, passVars, todo, ackVars, net>>

\* Mutant of EnqueueResume: what was sent is taken out of the outbox.
EnqueueForgets(m) ==
    /\ todo[m] # <<>>
    /\ Head(todo[m]) \in resuming
    /\ Send(Head(todo[m]))
    /\ rows' = IF Sendable(Head(todo[m])) THEN {r \in rows : r.nonce # Head(todo[m])} ELSE rows
    /\ resuming' = resuming \ {Head(todo[m])}
    /\ todo' = [todo EXCEPT ![m] = Tail(@)]
    /\ UNCHANGED <<wsVars, nextId, enqueued, evicted, message, passVars, ackVars,
                   replies, stored, refused>>

\* enqueue resumes: send at once if the client is ready now; an exception goes
\* to the error sink and the row stays.
EnqueueResume(m) ==
    /\ todo[m] # <<>>
    /\ Head(todo[m]) \in resuming
    /\ Send(Head(todo[m]))
    /\ resuming' = resuming \ {Head(todo[m])}
    /\ todo' = [todo EXCEPT ![m] = Tail(@)]
    /\ UNCHANGED <<wsVars, table, message, passVars, ackVars, replies, stored, refused>>

\* IndexedDB failed under the transaction: sendMessage rejects, and the shards
\* that are left are never enqueued.
EnqueueFails(m) ==
    /\ todo[m] # <<>>
    /\ Head(todo[m]) \notin resuming
    /\ todo' = [todo EXCEPT ![m] = <<>>]
    /\ UNCHANGED <<wsVars, table, message, passVars, resuming, ackVars, net>>

(***************************************************************************)
(* kickReplay and runReplay                                                *)
(***************************************************************************)

\* Mutant of Kick: no second pass for a hello_ok that comes during a pass.
KickOnce ==
    /\ replay' = IF replay = "off" THEN "listing" ELSE replay
    /\ UNCHANGED <<batch, pending>>

\* hello_ok: start a pass, or ask for another after the one in flight.
Kick ==
    /\ replay' = IF replay = "off" THEN "listing" ELSE replay
    /\ pending' = (replay # "off")
    /\ UNCHANGED batch

\* The pass is over; `do ... while` starts the next one if one is pending.
EndPass ==
    /\ batch' = {}
    /\ pending' = FALSE
    /\ replay' = IF pending /\ Ws!Ready THEN "listing" ELSE "off"

\* The body of the loop up to its await, for the rows S that are left.  An
\* exception of sendFrame ends the pass; the row stays where it is, in front
\* of those behind it, and a later pass comes no further.
Advance(S) ==
    \/ /\ S = {} \/ ~Ws!Ready
       /\ EndPass
       /\ UNCHANGED <<inFlight, sent, bailed, stuck>>
    \/ \E r \in Oldest(S) :
          /\ Sendable(r.nonce)
          /\ Send(r.nonce)
          /\ batch' = S \ {r}
          /\ replay' = "recording"
          /\ UNCHANGED <<pending, bailed, stuck>>
    \/ \E r \in Oldest(S) :
          /\ Ws!Ready /\ ~Sendable(r.nonce)
          /\ EndPass
          /\ bailed' = (bailed \/ ~CanSend)
          /\ stuck' = IF CanSend THEN stuck \cup (NoncesOf(S) \ sent) ELSE stuck
          /\ UNCHANGED <<inFlight, sent>>

\* listInOrder returned.
List ==
    /\ replay = "listing"
    /\ Advance(rows)
    /\ UNCHANGED <<wsVars, table, message, sendVars, ackVars, replies, stored, refused>>

\* recordReplayAttempt returned; it changed nothing that matters here.
Recorded ==
    /\ replay = "recording"
    /\ Advance(batch)
    /\ UNCHANGED <<wsVars, table, message, sendVars, ackVars, replies, stored, refused>>

\* IndexedDB failed under recordReplayAttempt: the pass gives up.
RecordFails ==
    /\ replay = "recording"
    /\ EndPass
    /\ bailed' = TRUE
    /\ UNCHANGED <<stuck, wsVars, table, message, sendVars, ackVars, net>>

\* IndexedDB failed under listInOrder: kickReplay rejects, pending stays.
ListFails ==
    /\ replay = "listing"
    /\ replay' = "off"
    /\ bailed' = TRUE
    /\ UNCHANGED <<wsVars, table, message, sendVars, ackVars, net, batch, pending, stuck>>

(***************************************************************************)
(* ENVELOPE_QUEUED                                                         *)
(***************************************************************************)

\* Both listeners of `queued` start.
QueuedArrives(s, n) ==
    /\ life[s] = "open"
    /\ n \in replies[s]
    /\ replies' = [replies EXCEPT ![s] = @ \ {n}]
    /\ removing' = removing \cup {n}
    /\ flipping' = flipping \cup {n}
    /\ UNCHANGED <<wsVars, table, message, passVars, sendVars, inFlight, stored, sent, refused>>

DeleteRow(n) ==
    /\ n \in removing
    /\ rows' = {r \in rows : r.nonce # n}
    /\ removing' = removing \ {n}
    /\ UNCHANGED <<wsVars, nextId, enqueued, evicted, message, passVars, sendVars, flipping, net>>

Flip(n) ==
    /\ n \in flipping
    /\ message' = [message EXCEPT ![MessageOf(n)] = IF @ = "sending" THEN "delivered" ELSE @]
    /\ flipping' = flipping \ {n}
    /\ UNCHANGED <<wsVars, table, passVars, sendVars, removing, net>>

\* IndexedDB failed under either listener: both errors are swallowed.
HandlerFails(n) ==
    /\ \/ /\ n \in removing
          /\ removing' = removing \ {n}
          /\ bailed' = TRUE
          /\ UNCHANGED flipping
       \/ /\ n \in flipping
          /\ flipping' = flipping \ {n}
          /\ UNCHANGED <<removing, bailed>>
    /\ UNCHANGED <<wsVars, table, message, replay, batch, pending, stuck, sendVars, net>>

(***************************************************************************)
(* The socket, the page and the server                                     *)
(***************************************************************************)

\* HELLO_OK: the histories of the connection start afresh.
HelloOk(s) ==
    /\ ~Ws!Ready
    /\ Ws!HelloOk(s)
    /\ Kick
    /\ bailed' = FALSE /\ stuck' = {} /\ sent' = {} /\ refused' = {}
    /\ UNCHANGED <<table, message, sendVars, ackVars, inFlight, replies, stored>>

\* Answers not yet read are lost with the socket; frames may still arrive.
SocketCloses(s) ==
    /\ Ws!SocketCloses(s)
    /\ replies' = [replies EXCEPT ![s] = {}]
    /\ UNCHANGED <<table, message, passVars, sendVars, ackVars, inFlight, stored, sent, refused>>

\* DmHost connects a client once; its close() comes with the unmount of
\* everything here, for which ReloadPage stands too.
OtherWsStep ==
    /\ \/ connection = "idle" /\ Ws!Connect
       \/ Ws!TokenOk \/ Ws!TokenFails \/ Ws!TimerFires
       \/ \E s \in WsSockets : Ws!SocketOpens(s)
    /\ UNCHANGED <<table, message, passVars, sendVars, ackVars, net>>

\* The page is loaded again: only IndexedDB survives.
ReloadPage ==
    /\ Ws!Reload
    /\ todo' = [m \in Messages |-> <<>>]
    /\ resuming' = {}
    /\ replay' = "off" /\ batch' = {} /\ pending' = FALSE /\ bailed' = FALSE /\ stuck' = {}
    /\ removing' = {} /\ flipping' = {}
    /\ replies' = [s \in WsSockets |-> {}]
    /\ UNCHANGED <<table, message, inFlight, stored, sent, refused>>

\* EnvelopeRouter stores the envelope, now or earlier, and answers.
ServerAccepts(s, n) ==
    /\ n \in inFlight[s]
    /\ inFlight' = [inFlight EXCEPT ![s] = @ \ {n}]
    /\ stored' = stored \cup {n}
    /\ replies' = IF life[s] = "open" THEN [replies EXCEPT ![s] = @ \cup {n}] ELSE replies
    /\ UNCHANGED <<wsVars, table, message, passVars, sendVars, ackVars, sent, refused>>

\* RATE_LIMITED or INTERNAL: an ERROR frame that carries no nonce.
ServerRefuses(s, n) ==
    /\ n \in inFlight[s]
    /\ inFlight' = [inFlight EXCEPT ![s] = @ \ {n}]
    /\ refused' = refused \cup (IF s = current THEN {n} ELSE {})
    /\ UNCHANGED <<wsVars, table, message, passVars, sendVars, ackVars, replies, stored, sent>>

FrameLost(s, n) ==
    /\ n \in inFlight[s]
    /\ life[s] = "closed"
    /\ inFlight' = [inFlight EXCEPT ![s] = @ \ {n}]
    /\ UNCHANGED <<wsVars, table, message, passVars, sendVars, ackVars, replies, stored,
                   sent, refused>>

Enqueue(m) == (\E aged \in SUBSET rows : EnqueueCommit(m, aged)) \/ EnqueueResume(m)
Pass == List \/ Recorded
Acks == \E n \in Nonces : DeleteRow(n) \/ Flip(n) \/ \E s \in WsSockets : QueuedArrives(s, n)
Server == \E s \in WsSockets, n \in Nonces : ServerAccepts(s, n)

OutboxNext ==
    \/ \E m \in Messages : SendMessage(m) \/ Enqueue(m) \/ EnqueueFails(m)
    \/ Pass \/ RecordFails \/ ListFails
    \/ Acks \/ \E n \in Nonces : HandlerFails(n)
    \/ \E s \in WsSockets : HelloOk(s) \/ SocketCloses(s)
    \/ OtherWsStep \/ ReloadPage
    \/ Server
    \/ \E s \in WsSockets, n \in Nonces : ServerRefuses(s, n) \/ FrameLost(s, n)

OutboxSpec == OutboxInit /\ [][OutboxNext]_outboxVars

\* IndexedDB, the event loop and the server make progress.  Nothing makes the
\* user send, the socket open or the page stay.
OutboxFairness ==
    /\ WF_outboxVars(Pass)
    /\ \A m \in Messages : WF_outboxVars(EnqueueResume(m))
    /\ \A n \in Nonces : WF_outboxVars(DeleteRow(n))
    /\ \A s \in WsSockets, n \in Nonces :
          WF_outboxVars(QueuedArrives(s, n)) /\ WF_outboxVars(ServerAccepts(s, n))

FairOutboxSpec == OutboxSpec /\ OutboxFairness

(***************************************************************************)
(* Properties                                                              *)
(***************************************************************************)

Waiting == {n \in Nonces : \E r \in rows : r.nonce = n}

\* The client is always doing exactly one thing about its connection, and
\* holds the socket it calls ready (see WsClient), while passes, enqueues and
\* page loads come between its callbacks.
ConnectionKept == Ws!OneAttempt /\ Ws!ReadyHasSocket

\* The inductive invariant behind ConnectionKept: what is under way about the
\* connection, case by case, and which socket is in use.
ConnInv ==
    /\ life \in [WsSockets -> {"unused", "connecting", "open", "closed"}]
    /\ tokens \in Nat
    /\ timer \in BOOLEAN
    /\ explicit = FALSE /\ wasClosed = FALSE
    /\ Ws!Live \subseteq {current}
    /\ connection = "idle" => tokens = 0 /\ Ws!Live = {} /\ timer = FALSE
    /\ connection # "idle" =>
          \/ tokens = 1 /\ Ws!Live = {} /\ timer = FALSE
          \/ tokens = 0 /\ Ws!Live = {current} /\ timer = FALSE
          \/ tokens = 0 /\ Ws!Live = {} /\ timer = TRUE
    /\ Ws!Ready => current \in WsSockets /\ life[current] = "open"

\* An envelope that was persisted leaves the outbox only when the server has
\* stored it or a sweep has evicted it, whatever page loads, sockets, lost
\* frames and lost answers come between.
NothingLost == enqueued \subseteq stored \cup Waiting \cup evicted

\* The inductive invariant behind NothingLost: an answer, read or not, is only
\* given for what is stored; rows and shards name nonces.
LossInv ==
    /\ rows \subseteq [id: Nat, nonce: Nonces]
    /\ nextId \in Nat
    /\ todo \in [Messages -> Seq(Nonces)]
    /\ replies \in [WsSockets -> SUBSET stored]
    /\ removing \subseteq stored
    /\ NothingLost

\* A row leaves the outbox while the connection lasts: what is ready to send
\* is sent, stored, acknowledged and deleted, unless the server refuses the
\* frame (an ERROR names no nonce, so nothing sends it again), IndexedDB fails,
\* or a pass gave up before it at a row whose frame is too large.
EventuallyAcknowledged ==
    \A n \in Nonces \ TooLarge :
        n \in Waiting /\ CanSend /\ ~bailed
        ~> \/ n \notin Waiting
           \/ ~CanSend \/ bailed
           \/ n \in refused \cup stuck

=============================================================================
