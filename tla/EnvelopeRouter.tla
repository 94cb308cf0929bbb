-------------------------- MODULE EnvelopeRouter --------------------------
(***************************************************************************)
(* onSendEnvelope of apps/api/src/ws/gateway.ts: what the server does with *)
(* a SEND_ENVELOPE frame.  Every frame is one call of the handler; calls   *)
(* of one socket and of different sockets overlap at every await.  The     *)
(* database decides idempotency: ciphertext_envelopes has a unique index   *)
(* on (sender_device, client_nonce) and foreign keys on both devices and   *)
(* on the session (infra/postgres/init.sql).                               *)
(*                                                                         *)
(* An envelope is abstracted to its nonce: the client derives one nonce    *)
(* per message and recipient device, so the nonce fixes the recipient, the *)
(* router type and the session of the envelope.                            *)
(***************************************************************************)
EXTENDS Naturals, FiniteSets

CONSTANTS
    Devices,      \* enrolled devices
    Nonces,       \* client nonces
    Calls,        \* SEND_ENVELOPE frames received, retries included
    RecipientOf,  \* recipient device of the envelope a nonce names
    IsAck,        \* whether its router type is ACK
    HasSession,   \* whether its session_id names a row of table sessions
    Burst         \* capacity of the token bucket of a device

ASSUME RouterAssumptions ==
    /\ RecipientOf \in [Nonces -> Devices]
    /\ IsAck \in [Nonces -> BOOLEAN]
    /\ HasSession \in [Nonces -> BOOLEAN]
    /\ Burst \in Nat \ {0}

VARIABLES
    pc,         \* where each call is
    frame,      \* the frame a call handles: chosen initially, never changed
    ret,        \* the id a call read back from the database, 0 before
    heard,      \* whether the publish reported a subscriber
    reply,      \* the answer sent to the client
    faulted,    \* calls that met a database fault
    rows,       \* ciphertext_envelopes
    issued,     \* every row ever inserted
    nextId,     \* BIGSERIAL
    tokens,     \* sendEnvelopeBuckets
    alive,      \* rows of table devices
    published,  \* publishes executed by Redis
    pushes      \* push notifications scheduled

vars == <<pc, frame, ret, heard, reply, faulted, rows, issued, nextId, tokens,
          alive, published, pushes>>
data == <<rows, issued, nextId>>
out == <<published, pushes>>

Keys == Devices \X Nonces
Frame == [auth: Devices, sender: Devices, nonce: Nonces]
KeyOf(f) == <<f.sender, f.nonce>>
Row == [id: Nat, key: Keys, call: Calls]
PublishRecord == [id: Nat, key: Keys, call: Calls, channel: Devices]
PushRecord == [key: Keys, call: Calls, device: Devices]
Reply == [kind: {"none", "QUEUED", "INVALID_PAYLOAD", "RATE_LIMITED", "INTERNAL"}, id: Nat]
NoReply == [kind |-> "none", id |-> 0]
PCs == {"idle", "inserting", "lookup", "committed", "fannedOut", "done", "dead"}
Active == {"inserting", "lookup", "committed", "fannedOut"}

\* The bucket of a device never leaves 0..Burst, and every record the handler
\* keeps or sends out is one of a frame, a row and an enrolled device.
TypeOK ==
    /\ pc \in [Calls -> PCs]
    /\ frame \in [Calls -> Frame]
    /\ ret \in [Calls -> Nat]
    /\ heard \in [Calls -> BOOLEAN]
    /\ reply \in [Calls -> Reply]
    /\ faulted \in SUBSET Calls
    /\ rows \in SUBSET Row
    /\ issued \in SUBSET Row
    /\ nextId \in Nat \ {0}
    /\ tokens \in [Devices -> 0..Burst]
    /\ alive \in SUBSET Devices
    /\ published \in SUBSET PublishRecord
    /\ pushes \in SUBSET PushRecord

Init ==
    /\ pc = [c \in Calls |-> "idle"]
    /\ frame \in [Calls -> Frame]
    /\ ret = [c \in Calls |-> 0]
    /\ heard = [c \in Calls |-> FALSE]
    /\ reply = [c \in Calls |-> NoReply]
    /\ faulted = {}
    /\ rows = {}
    /\ issued = {}
    /\ nextId = 1
    /\ tokens = [d \in Devices |-> Burst]
    /\ alive = Devices
    /\ published = {}
    /\ pushes = {}

\* The call answers and ends.
Finish(c, kind, id) ==
    /\ pc' = [pc EXCEPT ![c] = "done"]
    /\ reply' = [reply EXCEPT ![c] = [kind |-> kind, id |-> id]]

(***************************************************************************)
(* Steps 1 and 2, synchronous with the arrival of the frame.               *)
(***************************************************************************)

RejectSender(c) ==
    /\ pc[c] = "idle"
    /\ frame[c].sender # frame[c].auth
    /\ Finish(c, "INVALID_PAYLOAD", 0)
    /\ UNCHANGED <<frame, ret, heard, faulted, data, tokens, alive, out>>

RejectRate(c) ==
    /\ pc[c] = "idle"
    /\ frame[c].sender = frame[c].auth
    /\ tokens[frame[c].auth] = 0
    /\ Finish(c, "RATE_LIMITED", 0)
    /\ UNCHANGED <<frame, ret, heard, faulted, data, tokens, alive, out>>

Accept(c) ==
    /\ pc[c] = "idle"
    /\ frame[c].sender = frame[c].auth
    /\ tokens[frame[c].auth] > 0
    /\ tokens' = [tokens EXCEPT ![frame[c].auth] = @ - 1]
    /\ pc' = [pc EXCEPT ![c] = "inserting"]
    /\ UNCHANGED <<frame, ret, heard, reply, faulted, data, alive, out>>

(***************************************************************************)
(* Step 3: INSERT ... ON CONFLICT (sender_device, client_nonce) DO NOTHING *)
(***************************************************************************)

Conflicts(k) == {r \in rows : r.key = k}

\* Mutant of ForeignKeysHold: the columns reference no device.
SessionKeyHolds(k) == HasSession[k[2]]

ForeignKeysHold(k) ==
    k[1] \in alive /\ RecipientOf[k[2]] \in alive /\ HasSession[k[2]]

InsertRow(c) ==
    LET k == KeyOf(frame[c])
        row == [id |-> nextId, key |-> k, call |-> c]
    IN  /\ Conflicts(k) = {}
        /\ ForeignKeysHold(k)
        /\ rows' = rows \cup {row}
        /\ issued' = issued \cup {row}
        /\ nextId' = nextId + 1

InsertFresh(c) ==
    /\ pc[c] = "inserting"
    /\ InsertRow(c)
    /\ ret' = [ret EXCEPT ![c] = nextId]
    /\ pc' = [pc EXCEPT ![c] = "committed"]
    /\ UNCHANGED <<frame, heard, reply, faulted, tokens, alive, out>>

\* The row was committed but the query still rejects: its reply was lost.
InsertUnconfirmed(c) ==
    /\ pc[c] = "inserting"
    /\ InsertRow(c)
    /\ faulted' = faulted \cup {c}
    /\ Finish(c, "INTERNAL", 0)
    /\ UNCHANGED <<frame, ret, heard, tokens, alive, out>>

\* Mutant of InsertConflict: a retry is answered as an error.
InsertConflictRefused(c) ==
    /\ pc[c] = "inserting"
    /\ Conflicts(KeyOf(frame[c])) # {}
    /\ Finish(c, "INTERNAL", 0)
    /\ UNCHANGED <<frame, ret, heard, faulted, data, tokens, alive, out>>

InsertConflict(c) ==
    /\ pc[c] = "inserting"
    /\ Conflicts(KeyOf(frame[c])) # {}
    /\ pc' = [pc EXCEPT ![c] = "lookup"]
    /\ UNCHANGED <<frame, ret, heard, reply, faulted, data, tokens, alive, out>>

\* A foreign key fails: the statement rejects.
InsertRefused(c) ==
    /\ pc[c] = "inserting"
    /\ Conflicts(KeyOf(frame[c])) = {}
    /\ ~ForeignKeysHold(KeyOf(frame[c]))
    /\ Finish(c, "INTERNAL", 0)
    /\ UNCHANGED <<frame, ret, heard, faulted, data, tokens, alive, out>>

\* INSERT or the follow-up SELECT fails without effect.
QueryFault(c) ==
    /\ pc[c] \in {"inserting", "lookup"}
    /\ faulted' = faulted \cup {c}
    /\ Finish(c, "INTERNAL", 0)
    /\ UNCHANGED <<frame, ret, heard, data, tokens, alive, out>>

\* Mutants of LookupFound: the retry publishes too; it acknowledges the id of
\* the INSERT, which returned none.
LookupPublishes(c) ==
    \E r \in Conflicts(KeyOf(frame[c])) :
        /\ pc[c] = "lookup"
        /\ ret' = [ret EXCEPT ![c] = r.id]
        /\ pc' = [pc EXCEPT ![c] = "committed"]
        /\ UNCHANGED <<frame, heard, reply, faulted, data, tokens, alive, out>>

\* The idempotent retry: acknowledge with the original id, publish nothing.
LookupFound(c) ==
    \E r \in Conflicts(KeyOf(frame[c])) :
        /\ pc[c] = "lookup"
        /\ ret' = [ret EXCEPT ![c] = r.id]
        /\ Finish(c, "QUEUED", r.id)
        /\ UNCHANGED <<frame, heard, faulted, data, tokens, alive, out>>

LookupGone(c) ==
    /\ pc[c] = "lookup"
    /\ Conflicts(KeyOf(frame[c])) = {}
    /\ Finish(c, "INTERNAL", 0)
    /\ UNCHANGED <<frame, ret, heard, faulted, data, tokens, alive, out>>

(***************************************************************************)
(* Steps 4, 4b and 5: publish, push fallback, confirmation.                *)
(***************************************************************************)

RecordPublish(c) ==
    LET k == KeyOf(frame[c])
    IN  published' = published \cup
            {[id |-> ret[c], key |-> k, call |-> c, channel |-> RecipientOf[k[2]]]}

\* Redis executed the publish; `subscribers` is whether it counted any.
PublishOk(c, subscribers) ==
    /\ pc[c] = "committed"
    /\ RecordPublish(c)
    /\ heard' = [heard EXCEPT ![c] = subscribers]
    /\ pc' = [pc EXCEPT ![c] = "fannedOut"]
    /\ UNCHANGED <<frame, ret, reply, faulted, data, tokens, alive, pushes>>

\* The publish rejects, whether or not Redis executed it: logged, carry on.
PublishFails(c) ==
    /\ pc[c] = "committed"
    /\ RecordPublish(c) \/ UNCHANGED published
    /\ pc' = [pc EXCEPT ![c] = "fannedOut"]
    /\ UNCHANGED <<frame, ret, heard, reply, faulted, data, tokens, alive, pushes>>

\* `connected` is whether connectedDevices has the recipient at this moment.
Confirm(c, connected) ==
    LET k == KeyOf(frame[c])
        offline == ~connected /\ ~heard[c]
    IN  /\ pc[c] = "fannedOut"
        /\ pushes' = IF offline /\ ~IsAck[k[2]]
                     THEN pushes \cup {[key |-> k, call |-> c, device |-> RecipientOf[k[2]]]}
                     ELSE pushes
        /\ Finish(c, "QUEUED", ret[c])
        /\ UNCHANGED <<frame, ret, heard, faulted, data, tokens, alive, published>>

(***************************************************************************)
(* The environment of the handler.                                         *)
(***************************************************************************)

\* Time passes: tryConsume finds one more token in the bucket.
Refill(d) ==
    /\ tokens[d] < Burst
    /\ tokens' = [tokens EXCEPT ![d] = @ + 1]
    /\ UNCHANGED <<pc, frame, ret, heard, reply, faulted, data, alive, out>>

\* DELETE /devices/:id cascades to the envelopes of the device.
DeleteDevice(d) ==
    /\ d \in alive
    /\ alive' = alive \ {d}
    /\ rows' = {r \in rows : r.key[1] # d /\ RecipientOf[r.key[2]] # d}
    /\ UNCHANGED <<pc, frame, ret, heard, reply, faulted, issued, nextId, tokens, out>>

\* The API process dies: calls in progress and the buckets are lost.
Crash ==
    /\ pc' = [c \in Calls |-> IF pc[c] \in Active THEN "dead" ELSE pc[c]]
    /\ tokens' = [d \in Devices |-> Burst]
    /\ UNCHANGED <<frame, ret, heard, reply, faulted, data, alive, out>>

Receive(c) == RejectSender(c) \/ RejectRate(c) \/ Accept(c)

Handle(c) ==
    \/ InsertFresh(c) \/ InsertUnconfirmed(c) \/ InsertConflict(c)
    \/ InsertRefused(c) \/ QueryFault(c) \/ LookupFound(c) \/ LookupGone(c)
    \/ \E b \in BOOLEAN : PublishOk(c, b) \/ Confirm(c, b)
    \/ PublishFails(c)

Next ==
    \/ \E c \in Calls : Receive(c) \/ Handle(c)
    \/ \E d \in Devices : Refill(d) \/ DeleteDevice(d)
    \/ Crash

Spec == Init /\ [][Next]_vars

(***************************************************************************)
(* Properties                                                              *)
(***************************************************************************)

\* A key is given one row and one id for ever, however many calls submit it
\* and wherever they are interrupted (Requirement 12.9 / P13).
OneRowPerKey == \A r, s \in issued : r.key = s.key => r = s

\* Across all retries of a key, overlapping ones included, at most one call
\* publishes, and it publishes the row it committed itself (P13, P18): no
\* id reaches Redis that was not committed first, even when a device is
\* deleted between the INSERT and the publish.
OnePublishPerKey ==
    /\ \A p, q \in published : p.key = q.key => p = q
    /\ \A p \in published : [id |-> p.id, key |-> p.key, call |-> p.call] \in issued

\* Every ENVELOPE_QUEUED names the one id of the key its call submitted, so
\* that the client may take any of them for the answer to its message.
AckNamesTheRow ==
    \A c \in Calls :
        reply[c].kind = "QUEUED" =>
            \E r \in issued : r.key = KeyOf(frame[c]) /\ r.id = reply[c].id

\* A row is attributed to the device whose token opened the connection that
\* submitted it (P17), is announced on its recipient's channel only (P14),
\* and wakes no other device.
Attribution ==
    /\ \A r \in issued : r.key[1] = frame[r.call].auth
    /\ \A p \in published : p.channel = RecipientOf[p.key[2]]
    /\ \A q \in pushes : q.device = RecipientOf[q.key[2]]

\* A recipient is woken at most once per envelope and never for an ACK,
\* however often the sender retries (gateway.ts:899-902).
OnePushPerEnvelope ==
    /\ \A p, q \in pushes : p.key = q.key => p = q
    /\ \A p \in pushes : ~IsAck[p.key[2]]

\* A send that passed the sender and rate checks is refused only because
\* the database failed or one of the two devices is gone.
RefusalNeedsFault ==
    \A c \in Calls :
        reply[c].kind = "INTERNAL" =>
            \/ c \in faulted
            \/ frame[c].sender \notin alive
            \/ RecipientOf[frame[c].nonce] \notin alive

(***************************************************************************)
(* The inductive invariant behind the five safety properties               *)
(***************************************************************************)

Submitted(c) == [id |-> ret[c], key |-> KeyOf(frame[c]), call |-> c]

\* A row leaves the table only with a device its foreign keys name, and that
\* device never returns: this is why a key can never be inserted again.
GoneMeansDeviceGone ==
    \A r \in issued : r \in rows \/ r.key[1] \notin alive \/ RecipientOf[r.key[2]] \notin alive

\* Who wrote a row, and how far that call must have come.
IssuedByCall ==
    \A r \in issued :
        /\ r.key = KeyOf(frame[r.call])
        /\ frame[r.call].sender = frame[r.call].auth
        /\ pc[r.call] \in {"committed", "fannedOut", "done", "dead"}

\* What a suspended call already knows.
CallProgress ==
    \A c \in Calls :
        /\ pc[c] \in Active => frame[c].sender = frame[c].auth
        /\ pc[c] \in {"committed", "fannedOut"} => Submitted(c) \in issued
        /\ pc[c] = "lookup" => \E r \in issued : r.key = KeyOf(frame[c])
        /\ pc[c] # "done" => reply[c] = NoReply

\* A publish or a push comes from the call that wrote the row, once.
OutputsByWriter ==
    /\ \A p \in published :
          /\ [id |-> p.id, key |-> p.key, call |-> p.call] \in issued
          /\ p.channel = RecipientOf[p.key[2]]
          /\ pc[p.call] \in {"fannedOut", "done", "dead"}
    /\ \A q \in pushes :
          /\ \E r \in issued : r.key = q.key /\ r.call = q.call
          /\ q.device = RecipientOf[q.key[2]]
          /\ ~IsAck[q.key[2]]
          /\ pc[q.call] = "done"

\* IInv holds initially, every step preserves it, and it implies the five.
IInv ==
    /\ TypeOK
    /\ rows \subseteq issued
    /\ OneRowPerKey
    /\ GoneMeansDeviceGone
    /\ IssuedByCall
    /\ CallProgress
    /\ OutputsByWriter
    /\ AckNamesTheRow

(***************************************************************************)
(* The promise of EnvelopeStore                                            *)
(***************************************************************************)

StatusOf(k) ==
    IF Conflicts(k) # {} THEN "stored"
    ELSE IF \E r \in issued : r.key = k THEN "gone" ELSE "absent"

Promise == INSTANCE EnvelopeStore WITH
    status <- [k \in Keys |-> StatusOf(k)],
    announced <- {p.key : p \in published},
    acked <- {KeyOf(frame[c]) : c \in {d \in Calls : reply[d].kind = "QUEUED"}}

\* The handler keeps the store's promise.
ImplementsStore == Promise!StoreSpec
===========================================================================
