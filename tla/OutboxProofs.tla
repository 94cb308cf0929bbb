--------------------------- MODULE OutboxProofs ---------------------------
(***************************************************************************)
(* Nothing that was persisted in the outbox is lost, for every number of   *)
(* sockets, messages and rows, every capacity and every age sweep; and     *)
(* nothing a message says is lost on the wire (Wire).                      *)
(***************************************************************************)
EXTENDS Outbox, Wire, FiniteSetTheorems, TLAPS

USE DEF WsSockets

LEMMA InitLoss == OutboxInit => LossInv
  BY OutboxAssumptions DEF OutboxInit, LossInv, NothingLost, Waiting

\* The steps that touch neither the table, todo, removing, replies nor stored.
LEMMA QuietLoss ==
  ASSUME LossInv, UNCHANGED <<rows, nextId, enqueued, evicted, todo, removing, replies, stored>>
  PROVE  LossInv'
  BY DEF LossInv, NothingLost, Waiting

\* The enqueue transaction: what it sweeps is counted as evicted, and what it
\* counts as enqueued is in the table.
LEMMA CommitLoss ==
  ASSUME LossInv, NEW m \in Messages, NEW aged \in SUBSET rows, EnqueueCommit(m, aged)
  PROVE  LossInv'
<1>1. CASE Head(todo[m]) \in NoncesOf(rows)
  BY <1>1, QuietLoss DEF EnqueueCommit, table, ackVars, net
<1>2. CASE Head(todo[m]) \notin NoncesOf(rows)
  <2> DEFINE n == Head(todo[m])
             kept == rows \ aged
             swept == aged \cup Surplus(kept)
  <2>1. /\ rows' = (kept \ Surplus(kept)) \cup {[id |-> nextId, nonce |-> n]}
        /\ evicted' = evicted \cup NoncesOf(swept)
        /\ nextId' = nextId + 1
        /\ enqueued' = enqueued \cup {n}
        /\ UNCHANGED <<todo, removing, replies, stored>>
    BY <1>2 DEF EnqueueCommit, ackVars, net
  <2>2. n \in Nonces
    BY DEF EnqueueCommit, LossInv
  <2>3. Surplus(kept) \subseteq kept
    BY DEF Surplus
  <2>4. rows' \subseteq [id: Nat, nonce: Nonces]
    BY <2>1, <2>2 DEF LossInv
  <2>5. n \in Waiting'
    <3>1. [id |-> nextId, nonce |-> n].nonce = n /\ [id |-> nextId, nonce |-> n] \in rows'
      BY <2>1
    <3> QED BY <3>1, <2>2 DEF Waiting
  <2>6. Waiting \subseteq Waiting' \cup evicted'
    <3> SUFFICES ASSUME NEW k \in Waiting PROVE k \in Waiting' \cup evicted'
      OBVIOUS
    <3>1. PICK r \in rows : r.nonce = k
      BY DEF Waiting
    <3>2. CASE r \in swept
      BY <3>1, <3>2, <2>1 DEF NoncesOf
    <3>3. CASE r \notin swept
      <4>1. r \in rows'
        BY <3>3, <2>1
      <4> QED BY <4>1, <3>1 DEF Waiting
    <3> QED BY <3>2, <3>3
  <2>7. NothingLost'
    BY <2>1, <2>5, <2>6 DEF LossInv, NothingLost
  <2> QED
    BY <2>1, <2>4, <2>7 DEF LossInv
<1> QED BY <1>1, <1>2

\* Only a nonce that was acknowledged is deleted.
LEMMA DeleteLoss ==
  ASSUME LossInv, NEW n \in Nonces, DeleteRow(n)
  PROVE  LossInv'
<1>1. /\ n \in stored
      /\ rows' = {r \in rows : r.nonce # n}
      /\ removing' = removing \ {n}
      /\ UNCHANGED <<nextId, enqueued, evicted, todo, replies, stored>>
  BY DEF DeleteRow, LossInv, sendVars, net
<1>2. Waiting \ {n} \subseteq Waiting'
  BY <1>1 DEF Waiting
<1> QED
  BY <1>1, <1>2 DEF LossInv, NothingLost

\* An answer is written, read or dropped.
LEMMA AnswerLoss ==
  ASSUME LossInv,
         NEW s \in WsSockets, NEW n \in Nonces,
         QueuedArrives(s, n) \/ ServerAccepts(s, n) \/ SocketCloses(s)
  PROVE  LossInv'
<1>1. CASE QueuedArrives(s, n)
  BY <1>1 DEF QueuedArrives, LossInv, NothingLost, Waiting, table, sendVars
<1>2. CASE ServerAccepts(s, n)
  <2>1. /\ stored' = stored \cup {n}
        /\ replies' \in [WsSockets -> SUBSET stored']
        /\ UNCHANGED <<rows, nextId, enqueued, evicted, todo, removing>>
    BY <1>2 DEF ServerAccepts, LossInv, table, sendVars, ackVars
  <2> QED BY <2>1 DEF LossInv, NothingLost, Waiting
<1>3. CASE SocketCloses(s)
  BY <1>3 DEF SocketCloses, LossInv, NothingLost, Waiting, table, sendVars, ackVars
<1> QED BY <1>1, <1>2, <1>3

\* A step of the send path only shortens todo, or fills it from Shards.
LEMMA SendLoss ==
  ASSUME LossInv, NEW m \in Messages, SendMessage(m) \/ EnqueueResume(m) \/ EnqueueFails(m)
  PROVE  LossInv'
<1>1. todo' \in [Messages -> Seq(Nonces)]
  <2>1. CASE SendMessage(m)
    BY <2>1, OutboxAssumptions DEF SendMessage, LossInv
  <2>2. CASE EnqueueResume(m)
    <3>1. todo[m] \in Seq(Nonces) /\ todo[m] # <<>>
      BY <2>2 DEF EnqueueResume, LossInv
    <3>2. Tail(todo[m]) \in Seq(Nonces)
      BY <3>1
    <3> QED BY <2>2, <3>2 DEF EnqueueResume, LossInv
  <2>3. CASE EnqueueFails(m)
    BY <2>3 DEF EnqueueFails, LossInv
  <2> QED BY <2>1, <2>2, <2>3
<1>2. UNCHANGED <<rows, nextId, enqueued, evicted, removing, replies, stored>>
  BY DEF SendMessage, EnqueueResume, EnqueueFails, table, ackVars, net
<1> QED BY <1>1, <1>2 DEF LossInv, NothingLost, Waiting

\* A page load forgets everything but the table and the server.
LEMMA ReloadLoss ==
  ASSUME LossInv, ReloadPage
  PROVE  LossInv'
  BY DEF ReloadPage, LossInv, NothingLost, Waiting, table

\* Every step preserves the invariant.
LEMMA StepLoss == LossInv /\ [OutboxNext]_outboxVars => LossInv'
<1> SUFFICES ASSUME LossInv, [OutboxNext]_outboxVars PROVE LossInv'
  OBVIOUS
<1> USE DEF table, passVars, sendVars, ackVars, net
<1>1. CASE \E m \in Messages : SendMessage(m) \/ Enqueue(m) \/ EnqueueFails(m)
  BY <1>1, SendLoss, CommitLoss DEF Enqueue
<1>2. CASE Pass \/ RecordFails \/ ListFails
  BY <1>2, QuietLoss DEF Pass, List, Recorded, RecordFails, ListFails
<1>3. CASE Acks
  <2>1. PICK n \in Nonces : DeleteRow(n) \/ Flip(n) \/ \E s \in WsSockets : QueuedArrives(s, n)
    BY <1>3 DEF Acks
  <2>2. CASE DeleteRow(n)
    BY <2>2, DeleteLoss
  <2>3. CASE Flip(n)
    BY <2>3, QuietLoss DEF Flip
  <2>4. CASE \E s \in WsSockets : QueuedArrives(s, n)
    BY <2>4, AnswerLoss
  <2> QED BY <2>1, <2>2, <2>3, <2>4
<1>4. CASE \E n \in Nonces : HandlerFails(n)
  BY <1>4 DEF HandlerFails, LossInv, NothingLost, Waiting
<1>5. CASE \E s \in WsSockets : HelloOk(s)
  BY <1>5, QuietLoss DEF HelloOk
<1>6. CASE \E s \in WsSockets : SocketCloses(s)
  BY <1>6 DEF SocketCloses, LossInv, NothingLost, Waiting
<1>7. CASE OtherWsStep
  BY <1>7, QuietLoss DEF OtherWsStep
<1>8. CASE ReloadPage
  BY <1>8, ReloadLoss
<1>9. CASE Server
  BY <1>9, AnswerLoss DEF Server
<1>10. CASE \E s \in WsSockets, n \in Nonces : ServerRefuses(s, n) \/ FrameLost(s, n)
  BY <1>10, QuietLoss DEF ServerRefuses, FrameLost
<1>11. CASE UNCHANGED outboxVars
  BY <1>11, QuietLoss DEF outboxVars
<1> QED
  BY <1>1, <1>2, <1>3, <1>4, <1>5, <1>6, <1>7, <1>8, <1>9, <1>10, <1>11 DEF OutboxNext

\* An envelope persisted in the outbox leaves it only stored or evicted,
\* whatever reloads, lost inFlight and failing handlers come between.
THEOREM NothingIsLost == OutboxSpec => []NothingLost
<1>1. LossInv => NothingLost
  BY DEF LossInv
<1> QED BY InitLoss, StepLoss, <1>1, PTL DEF OutboxSpec

----------------------------------------------------------------------------
(* The connection.                                                         *)

LEMMA ConnInit == OutboxInit => ConnInv
<1> SUFFICES ASSUME OutboxInit PROVE ConnInv
  OBVIOUS
<1>1. /\ connection = "idle" /\ tokens = 0
      /\ life = [s \in WsSockets |-> "unused"]
      /\ timer = FALSE /\ explicit = FALSE /\ wasClosed = FALSE
  BY DEF OutboxInit, Ws!WsInit, Ws!SocketIds
<1>2. Ws!Live = {}
  BY <1>1 DEF Ws!Live, Ws!SocketIds
<1> QED BY <1>1, <1>2 DEF ConnInv, Ws!Ready

\* Exactly one socket is live in each case of ConnInv, or none.
LEMMA ConnImplies == ConnInv => ConnectionKept
<1> SUFFICES ASSUME ConnInv PROVE ConnectionKept
  OBVIOUS
<1>1. ASSUME connection # "idle"
      PROVE  tokens + Ws!Cardinality(Ws!Live) + (IF timer THEN 1 ELSE 0) = 1
  <2>1. Ws!Cardinality({}) = 0 /\ Ws!Cardinality({current}) = 1
    BY FS_EmptySet, FS_Singleton DEF Ws!Cardinality, Cardinality
  <2>2. CASE tokens = 1 /\ Ws!Live = {} /\ timer = FALSE
    BY <2>1, <2>2
  <2>3. CASE tokens = 0 /\ Ws!Live = {current} /\ timer = FALSE
    BY <2>1, <2>3
  <2>4. CASE tokens = 0 /\ Ws!Live = {} /\ timer = TRUE
    BY <2>1, <2>4
  <2> QED BY <1>1, <2>2, <2>3, <2>4 DEF ConnInv
<1>2. Ws!Ready => current # 0 /\ life[current] = "open"
  BY DEF ConnInv
<1> QED BY <1>1, <1>2, Zenon DEF ConnectionKept, Ws!OneAttempt, Ws!ReadyHasSocket

\* A step that leaves the connection alone.
LEMMA ConnQuiet == ASSUME ConnInv, UNCHANGED wsVars PROVE ConnInv'
  BY DEF ConnInv, wsVars, Ws!Live, Ws!SocketIds, Ws!Ready

\* One lemma per callback of the client.
LEMMA ConnConnect == ASSUME ConnInv, connection = "idle", Ws!Connect PROVE ConnInv'
  BY DEF ConnInv, Ws!Connect, Ws!OpenSocket, Ws!Live, Ws!SocketIds, Ws!Ready

LEMMA ConnToken == ASSUME ConnInv, Ws!TokenOk PROVE ConnInv'
<1>1. PICK s \in WsSockets :
        /\ tokens > 0
        /\ life[s] = "unused"
        /\ tokens' = tokens - 1
        /\ life' = [life EXCEPT ![s] = "connecting"]
        /\ current' = s
        /\ UNCHANGED <<connection, timer, explicit, wasClosed>>
  BY DEF Ws!TokenOk, Ws!SocketIds
<1>2. /\ connection # "idle" /\ tokens = 1 /\ ~timer
      /\ Ws!Live = {} /\ ~Ws!Ready
  BY <1>1 DEF ConnInv, Ws!Live, Ws!SocketIds, Ws!Ready
<1>3. Ws!Live' = {s}
  BY <1>1, <1>2 DEF ConnInv, Ws!Live, Ws!SocketIds
<1> QED BY <1>1, <1>2, <1>3 DEF ConnInv, Ws!Ready

LEMMA ConnTokenFails == ASSUME ConnInv, Ws!TokenFails PROVE ConnInv'
<1>1. timer' = TRUE
  BY DEF ConnInv, Ws!TokenFails, Ws!ScheduleReconnect
<1>2. tokens = 1 /\ tokens' = 0 /\ connection # "idle" /\ Ws!Live = {}
  BY DEF ConnInv, Ws!TokenFails
<1> QED BY <1>1, <1>2 DEF ConnInv, Ws!TokenFails, Ws!Live, Ws!SocketIds, Ws!Ready

LEMMA ConnTimer == ASSUME ConnInv, Ws!TimerFires PROVE ConnInv'
<1>1. tokens = 0 /\ tokens' = 1 /\ connection' = "connecting" /\ Ws!Live = {}
  BY DEF ConnInv, Ws!TimerFires, Ws!OpenSocket
<1> QED BY <1>1 DEF ConnInv, Ws!TimerFires, Ws!Live, Ws!SocketIds, Ws!Ready

LEMMA ConnOpens == ASSUME ConnInv, NEW s \in WsSockets, Ws!SocketOpens(s) PROVE ConnInv'
<1>1. s \in Ws!Live /\ Ws!Live' = Ws!Live
  BY DEF ConnInv, Ws!SocketOpens, Ws!Live, Ws!SocketIds
<1> QED BY <1>1 DEF ConnInv, Ws!SocketOpens, Ws!Ready

LEMMA ConnHello == ASSUME ConnInv, NEW s \in WsSockets, Ws!HelloOk(s) PROVE ConnInv'
<1>1. s \in Ws!Live /\ Ws!Live' = Ws!Live
  BY DEF ConnInv, Ws!HelloOk, Ws!Live, Ws!SocketIds
<1> QED BY <1>1 DEF ConnInv, Ws!HelloOk, Ws!Ready

LEMMA ConnCloses == ASSUME ConnInv, NEW s \in WsSockets, Ws!SocketCloses(s) PROVE ConnInv'
<1>1. s = current /\ Ws!Live = {s} /\ tokens = 0
  BY DEF ConnInv, Ws!SocketCloses
<1>2. Ws!Live' = {}
  BY <1>1 DEF ConnInv, Ws!SocketCloses, Ws!Live, Ws!SocketIds
<1> QED BY <1>1, <1>2 DEF ConnInv, Ws!SocketCloses, Ws!ScheduleReconnect, Ws!Ready

LEMMA ConnReload == ASSUME ConnInv, Ws!Reload PROVE ConnInv'
  BY DEF ConnInv, Ws!Reload, Ws!Live, Ws!SocketIds, Ws!Ready

LEMMA ConnStep == ConnInv /\ [OutboxNext]_outboxVars => ConnInv'
<1> SUFFICES ASSUME ConnInv, [OutboxNext]_outboxVars PROVE ConnInv'
  OBVIOUS
<1>1. CASE \E s \in WsSockets : HelloOk(s) \/ SocketCloses(s)
  BY <1>1, ConnHello, ConnCloses DEF HelloOk, SocketCloses
<1>2. CASE OtherWsStep
  BY <1>2, ConnConnect, ConnToken, ConnTokenFails, ConnTimer, ConnOpens DEF OtherWsStep
<1>3. CASE ReloadPage
  BY <1>3, ConnReload DEF ReloadPage
<1>4. CASE \E m \in Messages : SendMessage(m) \/ Enqueue(m) \/ EnqueueFails(m)
  BY <1>4, ConnQuiet DEF SendMessage, Enqueue, EnqueueCommit, EnqueueResume, EnqueueFails
<1>5. CASE Pass \/ RecordFails \/ ListFails
  BY <1>5, ConnQuiet DEF Pass, List, Recorded, RecordFails, ListFails
<1>6. CASE Acks \/ \E n \in Nonces : HandlerFails(n)
  BY <1>6, ConnQuiet DEF Acks, DeleteRow, Flip, QueuedArrives, HandlerFails
<1>7. CASE Server \/ \E s \in WsSockets, n \in Nonces : ServerRefuses(s, n) \/ FrameLost(s, n)
  BY <1>7, ConnQuiet DEF Server, ServerAccepts, ServerRefuses, FrameLost
<1>8. CASE UNCHANGED outboxVars
  BY <1>8, ConnQuiet DEF outboxVars
<1> QED
  BY <1>1, <1>2, <1>3, <1>4, <1>5, <1>6, <1>7, <1>8 DEF OutboxNext

\* The client is always doing exactly one thing about its connection and holds
\* the open socket it calls ready, for any number of sockets, failing tokens
\* and page loads.
THEOREM ConnectionIsKept == OutboxSpec => []ConnectionKept
  BY ConnInit, ConnStep, ConnImplies, PTL DEF OutboxSpec

-----------------------------------------------------------------------------
(* Wire.  What the codec of shared/wire, the Redis payload of the server   *)
(* and the row of an envelope do to a message, for every number its fields *)
(* may hold.                                                               *)

(* The values of fields, and what a field may have to be.                  *)
Kinds == {"number", "bigint", "string", "bytes", "record", "nil", "undefined", "fraction"}
Value == [kind: Kinds, v: Values \cup {0, 1}]
Needs == {"integer", "enum", "one", "bigint", "string", "bytes", "record"}
Carried == {"number", "bigint", "string", "bytes", "record"}

LEMMA EnvelopeFields ==
  /\ DOMAIN EnvelopeShape = {"envelope", "type", "sessionId", "senderDeviceId",
                             "recipientDeviceId", "ciphertext", "id", "createdAt"}
  /\ \A f \in DOMAIN EnvelopeShape : EnvelopeShape[f] \in Needs
  /\ EnvelopeShape["id"] = "bigint" /\ EnvelopeShape["createdAt"] = "integer"
BY DEF EnvelopeShape, Needs

LEMMA PostFields ==
  /\ DOMAIN PostShape = {"post", "postId", "roomId", "authorUserId", "authorHandle",
                         "authorIdentityPub", "body", "authorSignature", "postedAt"}
  /\ \A f \in DOMAIN PostShape : PostShape[f] \in {"record", "bigint", "string", "bytes", "integer"}
  /\ \A f \in DOMAIN PostShape :
       /\ PostShape[f] = "record" <=> f = "post"
       /\ PostShape[f] = "bigint" <=> f = "postId"
       /\ PostShape[f] = "integer" <=> f = "postedAt"
BY DEF PostShape

LEMMA Shapes ==
  /\ Sorts = {"HELLO", "SEND_ENVELOPE", "ENVELOPE_RECEIVED", "PRESENCE_PING", "SUBSCRIBE_ROOM",
              "UNSUBSCRIBE_ROOM", "HELLO_OK", "ENVELOPE", "ENVELOPE_QUEUED", "ROOM_POST", "ERROR"}
  /\ Shape["ENVELOPE"] = EnvelopeShape /\ Shape["ROOM_POST"] = PostShape
  /\ \A s \in Sorts : \A f \in DOMAIN Shape[s] : Shape[s][f] \in Needs
<1>1. DOMAIN C2SShape = {"HELLO", "SEND_ENVELOPE", "ENVELOPE_RECEIVED", "PRESENCE_PING",
                         "SUBSCRIBE_ROOM", "UNSUBSCRIBE_ROOM"}
  BY DEF C2SShape
<1>2. DOMAIN S2CShape = {"HELLO_OK", "ENVELOPE", "ENVELOPE_QUEUED", "ROOM_POST", "ERROR"}
  BY DEF S2CShape
<1>3. DOMAIN Shape = DOMAIN C2SShape \cup DOMAIN S2CShape
      /\ \A s \in DOMAIN Shape : Shape[s] = IF s \in DOMAIN C2SShape THEN C2SShape[s] ELSE S2CShape[s]
  BY DEF Shape, Merge
<1>4. Sorts = {"HELLO", "SEND_ENVELOPE", "ENVELOPE_RECEIVED", "PRESENCE_PING", "SUBSCRIBE_ROOM",
              "UNSUBSCRIBE_ROOM", "HELLO_OK", "ENVELOPE", "ENVELOPE_QUEUED", "ROOM_POST", "ERROR"}
  BY <1>1, <1>2, <1>3 DEF Sorts
<1>5. Shape["ENVELOPE"] = S2CShape["ENVELOPE"] /\ Shape["ROOM_POST"] = S2CShape["ROOM_POST"]
  BY <1>1, <1>2, <1>3
<1>6. Shape["ENVELOPE"] = EnvelopeShape /\ Shape["ROOM_POST"] = PostShape
  BY <1>5 DEF S2CShape
<1>7. \A f \in DOMAIN C2SShape["SEND_ENVELOPE"] : C2SShape["SEND_ENVELOPE"][f] \in Needs
  <2>1. C2SShape["SEND_ENVELOPE"] = Merge([clientNonce |-> "string"], EnvelopeShape)
    BY DEF C2SShape
  <2>2. \A f \in DOMAIN [clientNonce |-> "string"] : [clientNonce |-> "string"][f] \in Needs
    BY DEF Needs
  <2>3. ASSUME NEW g, NEW h, \A f \in DOMAIN g : g[f] \in Needs, \A f \in DOMAIN h : h[f] \in Needs
        PROVE  \A f \in DOMAIN Merge(g, h) : Merge(g, h)[f] \in Needs
    BY <2>3 DEF Merge
  <2> QED BY <2>1, <2>2, <2>3, EnvelopeFields
<1>8. ASSUME NEW s \in DOMAIN C2SShape \ {"SEND_ENVELOPE"}
      PROVE  \A f \in DOMAIN C2SShape[s] : C2SShape[s][f] \in Needs
  <2>1. CASE s = "HELLO"
    BY <2>1 DEF C2SShape, Needs
  <2>2. CASE s = "ENVELOPE_RECEIVED"
    BY <2>2 DEF C2SShape, Needs
  <2>3. CASE s = "PRESENCE_PING"
    BY <2>3 DEF C2SShape, Needs
  <2>4. CASE s = "SUBSCRIBE_ROOM"
    BY <2>4 DEF C2SShape, Needs
  <2>5. CASE s = "UNSUBSCRIBE_ROOM"
    BY <2>5 DEF C2SShape, Needs
  <2> QED BY <1>1, <2>1, <2>2, <2>3, <2>4, <2>5
<1>9. ASSUME NEW s \in DOMAIN S2CShape PROVE \A f \in DOMAIN S2CShape[s] : S2CShape[s][f] \in Needs
  <2>1. CASE s = "HELLO_OK"
    BY <2>1 DEF S2CShape, Needs
  <2>2. CASE s = "ENVELOPE"
    BY <2>2, EnvelopeFields DEF S2CShape
  <2>3. CASE s = "ENVELOPE_QUEUED"
    BY <2>3 DEF S2CShape, Needs
  <2>4. CASE s = "ROOM_POST"
    BY <2>4, PostFields DEF S2CShape, Needs
  <2>5. CASE s = "ERROR"
    BY <2>5 DEF S2CShape, Needs
  <2> QED BY <1>2, <2>1, <2>2, <2>3, <2>4, <2>5
<1>10. ASSUME NEW s \in Sorts PROVE \A f \in DOMAIN Shape[s] : Shape[s][f] \in Needs
  BY <1>3, <1>7, <1>8, <1>9 DEF Sorts
<1> QED BY <1>4, <1>6, <1>10

(* The codec gives back every value a field of its type may hold; one that *)
(* is undefined it does not, which no type allows.                         *)
LEMMA ReadBack ==
  ASSUME NEW value \in Value, value.kind \in Carried
  PROVE  Unpacked(Packed(value)) = value
<1>1. Of(value.kind, value.v) = value
  BY DEF Of, Value
<1>2. CASE value.kind = "number"
  <2>1. Packed(value) = Of("float64", value.v) \/ Packed(value) = Of("uint32", value.v)
    BY <1>2 DEF Packed
  <2>2. Unpacked(Of("float64", value.v)) = Of("number", value.v)
    BY DEF Unpacked, Of
  <2>3. Unpacked(Of("uint32", value.v)) = Of("number", value.v)
    BY DEF Unpacked, Of
  <2> QED BY <1>1, <1>2, <2>1, <2>2, <2>3
<1>3. CASE value.kind = "bigint"
  <2>1. Packed(value) = Of("int64", value.v)
    BY <1>3 DEF Packed
  <2>2. Unpacked(Of("int64", value.v)) = Of("bigint", value.v)
    BY DEF Unpacked, Of
  <2> QED BY <1>1, <1>3, <2>1, <2>2
<1>4. CASE value.kind \in {"string", "bytes", "record"}
  <2>1. Packed(value) = value
    BY <1>1, <1>4 DEF Packed
  <2>2. Unpacked(value) = value
    BY <1>1, <1>4 DEF Unpacked
  <2> QED BY <2>1, <2>2
<1> QED BY <1>2, <1>3, <1>4 DEF Carried

(* A field that its schema takes is of the kind the schema names.          *)
LEMMA MetKind ==
  ASSUME NEW value \in Value, NEW need \in Needs, Meets(value, need)
  PROVE  /\ value.kind \in Carried
         /\ need \in {"integer", "enum", "one"} => value.kind = "number"
         /\ need \in {"bigint", "string", "bytes", "record"} => value.kind = need
<1>1. CASE need = "integer"
  BY <1>1 DEF Meets, Carried
<1>2. CASE need = "enum"
  BY <1>2 DEF Meets, Carried
<1>3. CASE need = "one"
  BY <1>3 DEF Meets, Carried, Of
<1>4. CASE need \in {"bigint", "string", "bytes", "record"}
  BY <1>4 DEF Meets, Carried
<1> QED BY <1>1, <1>2, <1>3, <1>4 DEF Needs

(* An object with fields of a message only, whatever is in them.           *)
IsMessage(m, s) == m \in [DOMAIN m -> Value] /\ DOMAIN m \subseteq DOMAIN Shape[s]

LEMMA ValidFields ==
  ASSUME NEW s \in Sorts, NEW m, IsMessage(m, s), Valid(s, m)
  PROVE  /\ \A f \in DOMAIN m : m[f] \in Value /\ m[f].kind \in Carried /\ Meets(m[f], Shape[s][f])
         /\ s \notin {"SEND_ENVELOPE", "ENVELOPE"} => DOMAIN m = DOMAIN Shape[s]
<1>1. ASSUME NEW f \in DOMAIN m
      PROVE  m[f] \in Value /\ m[f].kind \in Carried /\ Meets(m[f], Shape[s][f])
  <2>1. f \in DOMAIN Shape[s] /\ m[f] \in Value
    BY DEF IsMessage
  <2>2. Meets(m[f], Shape[s][f])
    BY <2>1 DEF Valid
  <2>3. Shape[s][f] \in Needs
    BY <2>1, Shapes
  <2> QED BY <2>1, <2>2, <2>3, MetKind
<1>2. ASSUME s \notin {"SEND_ENVELOPE", "ENVELOPE"} PROVE DOMAIN m = DOMAIN Shape[s]
  <2>1. \A f \in DOMAIN Shape[s] : Needed(s, f)
    BY <1>2 DEF Needed
  <2>2. \A f \in DOMAIN Shape[s] : f \in DOMAIN m
    BY <2>1 DEF Valid
  <2> QED BY <2>2 DEF IsMessage
<1> QED BY <1>1, <1>2

(* decode gives back the message encode was given, field by field.         *)
LEMMA FrameReadBack ==
  ASSUME NEW s \in Sorts, NEW m, IsMessage(m, s), Valid(s, m), NEW packed,
         packed = [f \in DOMAIN m |-> Packed(m[f])]
  PROVE  [f \in DOMAIN packed |-> Unpacked(packed[f])] = m
<1>1. \A f \in DOMAIN m : Unpacked(packed[f]) = m[f]
  BY ValidFields, ReadBack
<1>2. DOMAIN packed = DOMAIN m /\ m = [f \in DOMAIN m |-> m[f]]
  BY DEF IsMessage
<1> QED BY <1>1, <1>2

(* What a post looks like on the Redis channel, and after it.              *)
PostText(m) == [f \in {g \in DOMAIN m : m[g].kind # "undefined"} |-> ToText(m[f])]

LEMMA PostReadBack ==
  ASSUME NEW m, IsMessage(m, "ROOM_POST"), Valid("ROOM_POST", m), fields = PostText(m)
  PROVE  AcceptsPayload /\ [f \in DOMAIN fields |-> FromText(f, fields[f])] = m
<1>1. "ROOM_POST" \in Sorts /\ Shape["ROOM_POST"] = PostShape
  BY Shapes
<1>2. /\ \A f \in DOMAIN m : m[f] \in Value /\ m[f].kind \in Carried /\ Meets(m[f], PostShape[f])
      /\ DOMAIN m = DOMAIN PostShape
  BY <1>1, ValidFields
<1>3. \A f \in DOMAIN m : m[f].kind # "undefined"
  BY <1>2 DEF Carried
<1>4. {g \in DOMAIN m : m[g].kind # "undefined"} = DOMAIN m
  BY <1>3
<1>5. DOMAIN fields = DOMAIN PostShape /\ \A f \in DOMAIN PostShape : fields[f] = ToText(m[f])
  BY <1>2, <1>4 DEF PostText
<1>6. \A f \in DOMAIN m : m[f] = Of(m[f].kind, m[f].v)
  BY <1>2 DEF Of, Value
<1>7. ASSUME NEW f \in DOMAIN PostShape
      PROVE  /\ CASE f = "post" -> fields[f].kind = "record"
                  [] f = "postId" -> fields[f].kind = "digits"
                  [] f = "postedAt" -> fields[f].kind \in {"number", "fraction"}
                  [] OTHER -> fields[f].kind \in Text
             /\ FromText(f, fields[f]) = m[f]
  <2>0. PostShape[f] \in Needs /\ m[f] \in Value /\ Meets(m[f], PostShape[f])
    BY <1>2, PostFields DEF Needs
  <2>1. CASE f = "post"
    <3>1. PostShape[f] = "record"
      BY <2>1, PostFields
    <3>2. m[f].kind = "record"
      BY <3>1, <2>0, MetKind
    <3>3. fields[f] = m[f]
      BY <3>2, <1>5 DEF ToText
    <3>4. FromText(f, m[f]) = m[f]
      BY <3>1, <3>2 DEF FromText, Text
    <3> QED BY <2>1, <3>2, <3>3, <3>4
  <2>2. CASE f = "postId"
    <3>1. PostShape[f] = "bigint"
      BY <2>2, PostFields
    <3>2. m[f].kind = "bigint"
      BY <3>1, <2>0, MetKind
    <3>3. fields[f] = Of("digits", m[f].v)
      BY <3>2, <1>5 DEF ToText
    <3>4. fields[f].kind = "digits" /\ fields[f].v = m[f].v
      BY <3>3 DEF Of
    <3>5. FromText(f, fields[f]) = Of("bigint", m[f].v)
      BY <3>1, <3>4 DEF FromText
    <3> QED BY <2>2, <3>2, <3>4, <3>5, <1>2, <1>6
  <2>3. CASE f = "postedAt"
    <3>1. PostShape[f] = "integer"
      BY <2>3, PostFields
    <3>2. m[f].kind = "number"
      BY <3>1, <2>0, MetKind
    <3>3. fields[f] = m[f]
      BY <3>2, <1>5 DEF ToText
    <3>4. FromText(f, m[f]) = m[f]
      BY <3>1, <3>2 DEF FromText, Text
    <3> QED BY <2>3, <3>2, <3>3, <3>4
  <2>4. CASE f \notin {"post", "postId", "postedAt"}
    <3>1. PostShape[f] = "bytes" \/ PostShape[f] = "string"
      BY <2>4, PostFields
    <3>2. CASE PostShape[f] = "bytes"
      <4>1. m[f].kind = "bytes"
        BY <3>2, <2>0, MetKind
      <4>2. fields[f] = Of("base64", m[f].v)
        BY <4>1, <1>5 DEF ToText
      <4>3. fields[f].kind = "base64" /\ fields[f].v = m[f].v
        BY <4>2 DEF Of
      <4>4. FromText(f, fields[f]) = Of("bytes", m[f].v)
        BY <3>2, <4>3 DEF FromText
      <4> QED BY <2>4, <4>1, <4>3, <4>4, <1>2, <1>6 DEF Text
    <3>3. CASE PostShape[f] = "string"
      <4>1. m[f].kind = "string"
        BY <3>3, <2>0, MetKind
      <4>2. fields[f] = m[f]
        BY <4>1, <1>5 DEF ToText
      <4>3. FromText(f, m[f]) = Of("string", m[f].v)
        BY <3>3, <4>1 DEF FromText, Text
      <4> QED BY <2>4, <4>1, <4>2, <4>3, <1>2, <1>6 DEF Text
    <3> QED BY <3>1, <3>2, <3>3
  <2> QED BY <2>1, <2>2, <2>3, <2>4
<1>8. AcceptsPayload
  BY <1>5, <1>7 DEF AcceptsPayload
<1>9. [f \in DOMAIN fields |-> FromText(f, fields[f])] = m
  <2>1. m = [f \in DOMAIN PostShape |-> m[f]]
    BY <1>2 DEF IsMessage
  <2> QED BY <2>1, <1>5, <1>7
<1> QED BY <1>8, <1>9

(* A row of an envelope, and what Hydrate makes of it.                     *)
AsRow(m) == [m EXCEPT !.id.kind = "digits", !.createdAt.kind = "date"]
FromRow(m) == [m EXCEPT !.id.kind = "bigint", !.createdAt.kind = "number"]

LEMMA RowReadBack ==
  ASSUME NEW m, IsMessage(m, "ENVELOPE"), Valid("ENVELOPE", m), Optional \subseteq DOMAIN m
  PROVE  FromRow(AsRow(m)) = m
<1>1. "ENVELOPE" \in Sorts /\ Shape["ENVELOPE"] = EnvelopeShape
  BY Shapes
<1>2. "id" \in DOMAIN m /\ "createdAt" \in DOMAIN m
  BY DEF Optional
<1>3. \A f \in DOMAIN m : m[f] \in Value /\ Meets(m[f], EnvelopeShape[f])
  BY <1>1, ValidFields
<1>4. m["id"].kind = "bigint" /\ m["createdAt"].kind = "number"
  BY <1>2, <1>3, EnvelopeFields DEF Meets
<1>5. ASSUME NEW value \in Value, NEW k, NEW l, value.kind = l
      PROVE  [[value EXCEPT !.kind = k] EXCEPT !.kind = l] = value
  <2>1. value = [kind |-> value.kind, v |-> value.v]
    BY DEF Value
  <2> QED BY <2>1, <1>5
<1>6. m = [f \in DOMAIN m |-> m[f]]
  BY DEF IsMessage
<1> DEFINE r == AsRow(m)
<1>7. /\ r = [f \in DOMAIN m |-> r[f]]
      /\ r["id"] = [m["id"] EXCEPT !.kind = "digits"]
      /\ r["createdAt"] = [m["createdAt"] EXCEPT !.kind = "date"]
      /\ \A f \in DOMAIN m \ {"id", "createdAt"} : r[f] = m[f]
  BY <1>2, <1>6 DEF AsRow
<1> HIDE DEF r
<1>8. DOMAIN r = DOMAIN m
  BY <1>7
<1> DEFINE t == FromRow(r)
<1>9. /\ t = [f \in DOMAIN m |-> t[f]]
      /\ t["id"] = [r["id"] EXCEPT !.kind = "bigint"]
      /\ t["createdAt"] = [r["createdAt"] EXCEPT !.kind = "number"]
      /\ \A f \in DOMAIN m \ {"id", "createdAt"} : t[f] = r[f]
  BY <1>2, <1>7, <1>8 DEF FromRow
<1> HIDE DEF t
<1>10. m["id"] \in Value /\ m["createdAt"] \in Value
  BY <1>2, <1>3
<1>11. t["id"] = m["id"]
  <2>1. [[m["id"] EXCEPT !.kind = "digits"] EXCEPT !.kind = "bigint"] = m["id"]
    BY <1>4, <1>5, <1>10
  <2> QED BY <2>1, <1>7, <1>9
<1>12. t["createdAt"] = m["createdAt"]
  <2>1. [[m["createdAt"] EXCEPT !.kind = "date"] EXCEPT !.kind = "number"] = m["createdAt"]
    BY <1>4, <1>5, <1>10
  <2> QED BY <2>1, <1>7, <1>9
<1>13. \A f \in DOMAIN m : t[f] = m[f]
  BY <1>7, <1>9, <1>11, <1>12
<1>14. t = m
  BY <1>6, <1>9, <1>13
<1> QED BY <1>14 DEF t, r

(* The fields at each stage, as far as a message of its type goes.         *)
Underway(m, s) ==
  /\ at = "made" => fields = m
  /\ at = "published" => s = "ROOM_POST" /\ fields = PostText(m)
  /\ at = "stored" =>
       /\ s = "ENVELOPE" /\ Optional \subseteq DOMAIN m /\ Valid(s, m)
       /\ fields = AsRow(m)
  /\ at = "typed" => (Valid(s, m) => fields = m)
  /\ at = "framed" =>
       /\ frame = [f \in DOMAIN fields |-> Packed(fields[f])]
       /\ Valid(s, m) => fields = m

WireInv ==
  /\ sort \in Sorts /\ IsMessage(made, sort)
  /\ at \in {"made", "published", "stored", "typed", "framed", "read", "refused"}
  /\ Underway(made, sort)
  /\ ReadAsMade

(* What a caller makes, right, with a field missing or with a wrong one.   *)
LEMMA MadeIsMessage ==
  ASSUME NEW s \in Sorts, NEW m \in Typed(s)
  PROVE  /\ IsMessage(m, s)
         /\ \A f \in DOMAIN m : IsMessage(Without(m, f), s)
         /\ \A f \in DOMAIN m, v \in Others : IsMessage([m EXCEPT ![f] = v], s)
<1>1. PICK n \in Values, b \in Values :
        m = [f \in DOMAIN Shape[s] |-> Sample(Shape[s][f], n, b)]
  BY DEF Typed
<1>2. ASSUME NEW need \in Needs PROVE Sample(need, n, b) \in Value
  <2>1. CASE need = "integer"
    BY <2>1 DEF Sample, Of, Value, Kinds
  <2>2. CASE need = "bigint"
    BY <2>2 DEF Sample, Of, Value, Kinds
  <2>3. CASE need \in {"enum", "one"}
    BY <2>3 DEF Sample, Of, Value, Kinds
  <2>4. CASE need \in {"string", "bytes", "record"}
    BY <2>4 DEF Sample, Of, Value, Kinds
  <2> QED BY <2>1, <2>2, <2>3, <2>4 DEF Needs
<1>3. DOMAIN m = DOMAIN Shape[s] /\ m \in [DOMAIN Shape[s] -> Value]
  BY <1>1, <1>2, Shapes
<1>4. IsMessage(m, s)
  BY <1>3 DEF IsMessage
<1>5. ASSUME NEW f \in DOMAIN m PROVE IsMessage(Without(m, f), s)
  BY <1>3 DEF IsMessage, Without
<1>6. ASSUME NEW f \in DOMAIN m, NEW v \in Others PROVE IsMessage([m EXCEPT ![f] = v], s)
  <2>1. v \in Value
    BY DEF Others, Of, Value, Kinds
  <2> QED BY <1>3, <2>1 DEF IsMessage
<1> QED BY <1>4, <1>5, <1>6

(* At every stage of its way, over Redis, through the database or straight *)
(* to the socket, a message's fields are those its stage makes of the ones *)
(* it was made with.                                                       *)
THEOREM WireInvariant == WireSpec => []WireInv
<1>1. WireInit => WireInv
  <2> SUFFICES ASSUME WireInit PROVE WireInv
    OBVIOUS
  <2>1. PICK m \in Typed(sort) :
          \/ made = m
          \/ \E f \in DOMAIN m : made = Without(m, f)
          \/ \E f \in DOMAIN m, v \in Others : made = [m EXCEPT ![f] = v]
    BY DEF WireInit
  <2>2. sort \in Sorts /\ at = "made" /\ fields = made
    BY DEF WireInit
  <2>3. IsMessage(made, sort)
    BY <2>1, <2>2, MadeIsMessage
  <2> QED BY <2>2, <2>3 DEF WireInv, Underway, ReadAsMade
<1>2. WireInv /\ [WireNext]_wireVars => WireInv'
  <2> SUFFICES ASSUME WireInv, [WireNext]_wireVars PROVE WireInv'
    OBVIOUS
  <2>1. CASE UNCHANGED wireVars
    BY <2>1 DEF wireVars, WireInv, Underway, ReadAsMade
  <2>2. CASE Publish
    <3>1. fields = made /\ at' = "published" /\ sort = "ROOM_POST" /\ fields' = PostText(made)
          /\ made' = made /\ sort' = sort
      <4>1. \A f \in DOMAIN made : fields[f] = made[f]
        BY <2>2 DEF Publish, WireInv, Underway
      <4> QED BY <2>2 DEF Publish, WireInv, Underway, PostText
    <3> QED BY <3>1 DEF WireInv, Underway, ReadAsMade
  <2>3. CASE DecodePayload
    <3>1. /\ at = "published" /\ sort = "ROOM_POST" /\ fields = PostText(made)
          /\ IsMessage(made, "ROOM_POST")
          /\ made' = made /\ sort' = sort
      BY <2>3 DEF DecodePayload, WireInv, Underway
    <3>2. CASE AcceptsPayload
      <4>1. at' = "typed" /\ fields' = [f \in DOMAIN fields |-> FromText(f, fields[f])]
        BY <2>3, <3>2 DEF DecodePayload
      <4>2. Valid("ROOM_POST", made) => fields' = made
        BY <3>1, <4>1, PostReadBack
      <4> QED BY <3>1, <4>1, <4>2 DEF WireInv, Underway, ReadAsMade
    <3>3. CASE ~AcceptsPayload
      <4>1. at' = "refused"
        BY <2>3, <3>3 DEF DecodePayload
      <4>2. ~Valid("ROOM_POST", made)
        BY <3>1, <3>3, PostReadBack
      <4> QED BY <3>1, <4>1, <4>2 DEF WireInv, Underway, ReadAsMade
    <3> QED BY <3>2, <3>3
  <2>4. CASE Hydrate
    <3>1. /\ sort = "ENVELOPE" /\ Optional \subseteq DOMAIN made /\ Valid(sort, made)
          /\ at' = "stored" /\ fields' = AsRow(made)
          /\ made' = made /\ sort' = sort
      BY <2>4 DEF Hydrate, AsRow
    <3> QED BY <3>1 DEF WireInv, Underway, ReadAsMade
  <2>5. CASE RowToEnvelope
    <3>1. /\ sort = "ENVELOPE" /\ Optional \subseteq DOMAIN made /\ Valid("ENVELOPE", made)
          /\ fields = AsRow(made) /\ IsMessage(made, "ENVELOPE")
      BY <2>5 DEF RowToEnvelope, WireInv, Underway
    <3>2. at' = "typed" /\ fields' = FromRow(fields) /\ made' = made /\ sort' = sort
      BY <2>5 DEF RowToEnvelope, FromRow
    <3>3. fields' = made
      BY <3>1, <3>2, RowReadBack
    <3> QED BY <3>2, <3>3 DEF WireInv, Underway, ReadAsMade
  <2>6. CASE Encode
    <3>1. /\ Valid(sort, made) => fields = made
          /\ made' = made /\ sort' = sort /\ fits' = fits /\ fields' = fields
      BY <2>6 DEF Encode, WireInv, Underway
    <3>2. CASE fits
      <4>1. at' = "framed" /\ frame' = [f \in DOMAIN fields |-> Packed(fields[f])]
        BY <2>6, <3>2 DEF Encode
      <4> QED BY <3>1, <4>1 DEF WireInv, Underway, ReadAsMade
    <3>3. CASE ~fits
      <4>1. at' = "refused"
        BY <2>6, <3>3 DEF Encode
      <4> QED BY <3>1, <3>3, <4>1 DEF WireInv, Underway, ReadAsMade
    <3> QED BY <3>2, <3>3
  <2>7. CASE Decode
    <3>1. /\ frame = [f \in DOMAIN fields |-> Packed(fields[f])]
          /\ Valid(sort, made) => fields = made
          /\ fields' = [f \in DOMAIN frame |-> Unpacked(frame[f])]
          /\ at' = IF Valid(sort, fields') THEN "read" ELSE "refused"
          /\ made' = made /\ sort' = sort
      BY <2>7 DEF Decode, WireInv, Underway
    <3>2. sort \in Sorts /\ IsMessage(made, sort)
      BY DEF WireInv
    <3>3. ASSUME Valid(sort, made) PROVE fields' = made
      <4>1. frame = [f \in DOMAIN made |-> Packed(made[f])]
        BY <3>1, <3>3
      <4> QED BY <3>1, <3>2, <3>3, <4>1, FrameReadBack
    <3>4. ReadAsMade'
      <4>1. CASE Valid(sort, fields')
        <5>1. at' = "read" /\ Valid(sort', fields')
          BY <3>1, <4>1
        <5> QED BY <5>1, <3>1, <3>3 DEF ReadAsMade
      <4>2. CASE ~Valid(sort, fields')
        <5>1. at' = "refused"
          BY <3>1, <4>2
        <5>2. ~Valid(sort, made)
          BY <3>3, <4>2
        <5>3. ~Valid(sort', made')
          BY <5>2, <3>1
        <5> QED BY <5>1, <5>3 DEF ReadAsMade
      <4> QED BY <4>1, <4>2
    <3>5. Underway(made, sort)' /\ at' \in {"read", "refused"}
      BY <3>1 DEF Underway
    <3>6. sort' \in Sorts /\ IsMessage(made', sort')
      BY <3>1, <3>2
    <3> QED BY <3>4, <3>5, <3>6 DEF WireInv
  <2> QED BY <2>1, <2>2, <2>3, <2>4, <2>5, <2>6, <2>7 DEF WireNext
<1> QED BY <1>1, <1>2, PTL DEF WireSpec

(* What a peer reads is of its type, and is the message that was made if   *)
(* that one was valid: parsePayload, rowToEnvelope, encode and decode lose *)
(* and change no field of it, and refuse none that fits in a frame.        *)
THEOREM MessagesReadAsMade == WireSpec => []ReadAsMade
<1>1. WireInv => ReadAsMade
  BY DEF WireInv
<1> QED BY <1>1, WireInvariant, PTL
===========================================================================
