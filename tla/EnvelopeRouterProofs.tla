----------------------- MODULE EnvelopeRouterProofs -----------------------
(***************************************************************************)
(* Proofs about EnvelopeRouter for every set of devices, nonces and calls, *)
(* about the RateLimiter it asks, for every capacity, cost and clock, and  *)
(* about SignIn, which makes the tokens of its connections.                *)
(***************************************************************************)
EXTENDS EnvelopeRouter, RateLimiter, SignIn, TLAPS

\* The handler starts with an empty table and no call in progress.
LEMMA InitEstablishes == Init => IInv
<1> SUFFICES ASSUME Init PROVE IInv
  OBVIOUS
<1>1. TypeOK
  BY RouterAssumptions DEF Init, TypeOK, PCs, Reply, NoReply
<1> QED
  BY <1>1 DEF Init, IInv, OneRowPerKey, GoneMeansDeviceGone, IssuedByCall, CallProgress,
     OutputsByWriter, AckNamesTheRow, Active, NoReply

\* Type correctness is preserved by every step.
LEMMA TypeStep == TypeOK /\ [Next]_vars => TypeOK'
<1> SUFFICES ASSUME TypeOK, [Next]_vars PROVE TypeOK'
  OBVIOUS
<1> USE RouterAssumptions DEF TypeOK, PCs, data, out
<1>1. ASSUME NEW c \in Calls, RejectSender(c) \/ RejectRate(c) PROVE TypeOK'
  <2>1. /\ pc' = [pc EXCEPT ![c] = "done"]
        /\ \E kind \in {"INVALID_PAYLOAD", "RATE_LIMITED"} :
              reply' = [reply EXCEPT ![c] = [kind |-> kind, id |-> 0]]
        /\ UNCHANGED <<frame, ret, heard, faulted, data, tokens, alive, out>>
    BY <1>1 DEF RejectSender, RejectRate, Finish
  <2> QED
    BY <2>1 DEF Reply
<1>12. ASSUME NEW c \in Calls, Accept(c) PROVE TypeOK'
  <2>1. /\ frame[c].auth \in Devices
        /\ tokens[frame[c].auth] \in 0..Burst
        /\ tokens[frame[c].auth] - 1 \in 0..Burst
    BY <1>12 DEF Accept, Frame
  <2> QED
    BY <1>12, <2>1 DEF Accept
<1>2. ASSUME NEW c \in Calls, InsertFresh(c) PROVE TypeOK'
  BY <1>2 DEF InsertFresh, InsertRow, Row, KeyOf, Keys, Frame
<1>3. ASSUME NEW c \in Calls, InsertUnconfirmed(c) PROVE TypeOK'
  BY <1>3 DEF InsertUnconfirmed, InsertRow, Finish, Reply, Row, KeyOf, Keys, Frame
<1>4. ASSUME NEW c \in Calls, InsertRefused(c) \/ QueryFault(c) \/ LookupGone(c)
      PROVE TypeOK'
  <2>1. /\ pc' = [pc EXCEPT ![c] = "done"]
        /\ reply' = [reply EXCEPT ![c] = [kind |-> "INTERNAL", id |-> 0]]
        /\ faulted' \in {faulted, faulted \cup {c}}
        /\ UNCHANGED <<frame, ret, heard, data, tokens, alive, out>>
    BY <1>4 DEF InsertRefused, QueryFault, LookupGone, Finish
  <2> QED
    BY <2>1 DEF Reply
<1>13. ASSUME NEW c \in Calls, InsertConflict(c) PROVE TypeOK'
  BY <1>13 DEF InsertConflict
<1>5. ASSUME NEW c \in Calls, LookupFound(c) PROVE TypeOK'
  BY <1>5 DEF LookupFound, Conflicts, Finish, Reply, Row
<1>6. ASSUME NEW c \in Calls, NEW b \in BOOLEAN, PublishOk(c, b) PROVE TypeOK'
  BY <1>6 DEF PublishOk, RecordPublish, PublishRecord, KeyOf, Keys, Frame
<1>7. ASSUME NEW c \in Calls, PublishFails(c) PROVE TypeOK'
  BY <1>7 DEF PublishFails, RecordPublish, PublishRecord, KeyOf, Keys, Frame
<1>8. ASSUME NEW c \in Calls, NEW b \in BOOLEAN, Confirm(c, b) PROVE TypeOK'
  BY <1>8 DEF Confirm, Finish, Reply, PushRecord, KeyOf, Keys, Frame
<1>9. ASSUME NEW d \in Devices, Refill(d) \/ DeleteDevice(d) PROVE TypeOK'
  BY <1>9 DEF Refill, DeleteDevice
<1>10. CASE Crash
  BY <1>10 DEF Crash
<1>11. CASE UNCHANGED vars
  BY <1>11 DEF vars
<1> QED
  BY <1>1, <1>2, <1>3, <1>4, <1>5, <1>6, <1>7, <1>8, <1>9, <1>10, <1>11, <1>12, <1>13
     DEF Next, Handle, Receive

\* Every reachable state has its type.
THEOREM TypeCorrect == Spec => []TypeOK
<1>1. Init => TypeOK
  BY InitEstablishes DEF IInv
<1> QED
  BY <1>1, TypeStep, PTL DEF Spec

(***************************************************************************)
(* IInv is inductive.  One lemma per group of actions; TypeOK' comes from  *)
(* TypeStep.                                                               *)
(***************************************************************************)

\* A call that only moves from `idle`, `inserting` or `lookup` to a state
\* without output, possibly with an error reply, preserves IInv.
LEMMA QuietStep ==
    ASSUME IInv, TypeOK',
           NEW c \in Calls, NEW p \in {"inserting", "lookup", "done"},
           pc[c] \in {"idle", "inserting", "lookup"},
           pc' = [pc EXCEPT ![c] = p],
           p # "done" => /\ frame[c].sender = frame[c].auth
                         /\ UNCHANGED reply,
           p = "lookup" => \E r \in issued : r.key = KeyOf(frame[c]),
           p = "done" => \E kind \in {"INVALID_PAYLOAD", "RATE_LIMITED", "INTERNAL"} :
                            reply' = [reply EXCEPT ![c] = [kind |-> kind, id |-> 0]],
           UNCHANGED <<frame, ret, rows, issued, nextId, alive, published, pushes>>
    PROVE  IInv'
<1> USE DEF IInv, TypeOK
<1>1. (rows \subseteq issued)' /\ OneRowPerKey' /\ GoneMeansDeviceGone'
  BY DEF OneRowPerKey, GoneMeansDeviceGone
<1>2. IssuedByCall'
  BY DEF IssuedByCall, Row, KeyOf
<1>3. CallProgress'
  BY DEF CallProgress, Active, PCs, Submitted, KeyOf, NoReply
<1>4. OutputsByWriter'
  BY DEF OutputsByWriter, PublishRecord, PushRecord
<1>5. AckNamesTheRow'
  <2>1. \A d \in Calls : d # c => reply'[d] = reply[d]
    BY DEF Reply
  <2>2. reply'[c].kind = "QUEUED" => reply'[c] = reply[c]
    BY DEF Reply
  <2>3. ASSUME NEW d \in Calls, reply'[d].kind = "QUEUED"
        PROVE  \E r \in issued : r.key = KeyOf(frame[d]) /\ r.id = reply'[d].id
    <3>1. reply'[d] = reply[d]
      BY <2>1, <2>2, <2>3
    <3> QED
      BY <2>3, <3>1 DEF AckNamesTheRow
  <2> QED
    BY <2>3 DEF AckNamesTheRow, KeyOf
<1> QED
  BY <1>1, <1>2, <1>3, <1>4, <1>5

\* The steps on arrival of a frame are quiet.
LEMMA ReceiveStep ==
    ASSUME IInv, TypeOK', NEW c \in Calls, Receive(c)
    PROVE  IInv'
<1>1. CASE RejectSender(c)
  BY <1>1, QuietStep DEF RejectSender, Finish, data, out
<1>2. CASE RejectRate(c)
  BY <1>2, QuietStep DEF RejectRate, Finish, data, out
<1>3. CASE Accept(c)
  BY <1>3, QuietStep DEF Accept, data, out
<1> QED
  BY <1>1, <1>2, <1>3 DEF Receive

\* So are the steps in which the database adds no row.
LEMMA NoRowStep ==
    ASSUME IInv, TypeOK', NEW c \in Calls,
           InsertConflict(c) \/ InsertRefused(c) \/ QueryFault(c) \/ LookupGone(c)
    PROVE  IInv'
<1>1. CASE InsertConflict(c)
  <2>1. \E r \in issued : r.key = KeyOf(frame[c])
    BY <1>1 DEF InsertConflict, Conflicts, IInv
  <2>2. frame[c].sender = frame[c].auth
    BY <1>1 DEF InsertConflict, IInv, CallProgress, Active
  <2> QED
    BY <1>1, <2>1, <2>2, QuietStep DEF InsertConflict, data, out
<1>2. CASE InsertRefused(c)
  BY <1>2, QuietStep DEF InsertRefused, Finish, data, out
<1>3. CASE QueryFault(c)
  BY <1>3, QuietStep DEF QueryFault, Finish, data, out
<1>4. CASE LookupGone(c)
  BY <1>4, QuietStep DEF LookupGone, Finish, data, out
<1> QED
  BY <1>1, <1>2, <1>3, <1>4

\* No row was ever issued under a key that the INSERT accepts.
LEMMA FreshKey ==
    ASSUME IInv, NEW k \in Keys, Conflicts(k) = {}, ForeignKeysHold(k)
    PROVE  \A r \in issued : r.key # k
  BY DEF IInv, GoneMeansDeviceGone, Conflicts, ForeignKeysHold

\* Committing a row, whether or not the call learns of it.
LEMMA InsertStep ==
    ASSUME IInv, TypeOK', NEW c \in Calls, InsertFresh(c) \/ InsertUnconfirmed(c)
    PROVE  IInv'
<1> DEFINE k == KeyOf(frame[c])
           row == [id |-> nextId, key |-> k, call |-> c]
<1> USE DEF IInv, TypeOK
<1>1. /\ pc[c] = "inserting"
      /\ rows' = rows \cup {row}
      /\ issued' = issued \cup {row}
      /\ UNCHANGED <<frame, alive, published, pushes>>
      /\ Conflicts(k) = {} /\ ForeignKeysHold(k)
    BY DEF InsertFresh, InsertUnconfirmed, InsertRow, out
<1>2. \/ /\ ret' = [ret EXCEPT ![c] = nextId]
         /\ pc' = [pc EXCEPT ![c] = "committed"]
         /\ UNCHANGED reply
      \/ /\ UNCHANGED ret
         /\ pc' = [pc EXCEPT ![c] = "done"]
         /\ reply' = [reply EXCEPT ![c] = [kind |-> "INTERNAL", id |-> 0]]
  BY DEF InsertFresh, InsertUnconfirmed, Finish
<1>3. k \in Keys /\ row \in Row /\ k = KeyOf(frame[c])
  BY DEF KeyOf, Keys, Frame, Row
<1>4. \A r \in issued : r.key # k
  BY <1>1, <1>3, FreshKey
<1>5. frame[c].sender = frame[c].auth
  BY <1>1 DEF CallProgress, Active
<1>6. (rows \subseteq issued)' /\ OneRowPerKey' /\ GoneMeansDeviceGone'
  BY <1>1, <1>4 DEF OneRowPerKey, GoneMeansDeviceGone
<1>7. IssuedByCall'
  <2>1. \A r \in issued : r.call # c
    BY <1>1 DEF IssuedByCall
  <2>2. \A r \in issued : r \in Row /\ pc'[r.call] = pc[r.call]
    BY <2>1, <1>2 DEF Row
  <2>3. pc'[c] \in {"committed", "done"}
    BY <1>2
  <2> QED
    BY <1>1, <1>3, <1>5, <2>2, <2>3 DEF IssuedByCall, KeyOf
<1>8. CallProgress'
  <2>1. ASSUME NEW d \in Calls, d # c
        PROVE  pc'[d] = pc[d] /\ ret'[d] = ret[d] /\ reply'[d] = reply[d]
    BY <1>2, <2>1
  <2>2. pc'[c] = "committed" => Submitted(c)' = row
    BY <1>1, <1>2 DEF Submitted, KeyOf
  <2>3. pc'[c] = "committed" => reply'[c] = NoReply
    BY <1>1, <1>2 DEF CallProgress
  <2>4. pc'[c] \in {"committed", "done"}
    BY <1>2
  <2> QED
    BY <1>1, <1>5, <2>1, <2>2, <2>3, <2>4 DEF CallProgress, Submitted, KeyOf, Active
<1>9. OutputsByWriter'
  <2>1. \A p \in published : p.call # c
    BY <1>1 DEF OutputsByWriter
  <2>2. \A p \in pushes : p.call # c
    BY <1>1 DEF OutputsByWriter
  <2> QED
    BY <1>1, <1>2, <2>1, <2>2 DEF OutputsByWriter, PublishRecord, PushRecord
<1>10. AckNamesTheRow'
  <2>1. ASSUME NEW d \in Calls, reply'[d].kind = "QUEUED"
        PROVE  \E r \in issued : r.key = KeyOf(frame[d]) /\ r.id = reply'[d].id
    <3>1. reply'[d] = reply[d]
      BY <1>2, <2>1
    <3> QED
      BY <2>1, <3>1 DEF AckNamesTheRow
  <2> QED
    BY <1>1, <2>1 DEF AckNamesTheRow, KeyOf
<1> QED
  BY <1>6, <1>7, <1>8, <1>9, <1>10

\* The idempotent retry answers with the id of the row it found.
LEMMA LookupStep ==
    ASSUME IInv, TypeOK', NEW c \in Calls, LookupFound(c)
    PROVE  IInv'
<1> USE DEF IInv, TypeOK
<1>1. PICK r \in Conflicts(KeyOf(frame[c])) :
         /\ pc[c] = "lookup"
         /\ ret' = [ret EXCEPT ![c] = r.id]
         /\ pc' = [pc EXCEPT ![c] = "done"]
         /\ reply' = [reply EXCEPT ![c] = [kind |-> "QUEUED", id |-> r.id]]
         /\ UNCHANGED <<frame, rows, issued, alive, published, pushes>>
  BY DEF LookupFound, Finish, data, out
<1>2. (rows \subseteq issued)' /\ OneRowPerKey' /\ GoneMeansDeviceGone'
  BY <1>1 DEF OneRowPerKey, GoneMeansDeviceGone
<1>3. IssuedByCall'
  BY <1>1 DEF IssuedByCall, Row, KeyOf
<1>4. CallProgress'
  BY <1>1 DEF CallProgress, Active, PCs, Submitted, KeyOf, NoReply
<1>5. OutputsByWriter'
  BY <1>1 DEF OutputsByWriter, PublishRecord, PushRecord
<1>6. AckNamesTheRow'
  <2>1. r \in issued /\ r.key = KeyOf(frame[c])
    BY DEF Conflicts
  <2>2. ASSUME NEW d \in Calls, reply'[d].kind = "QUEUED"
        PROVE  \E s \in issued : s.key = KeyOf(frame[d]) /\ s.id = reply'[d].id
    <3>1. CASE d = c
      BY <1>1, <2>1, <3>1
    <3>2. CASE d # c
      BY <1>1, <2>2, <3>2 DEF AckNamesTheRow
    <3> QED
      BY <3>1, <3>2
  <2> QED
    BY <1>1, <2>2 DEF AckNamesTheRow, KeyOf
<1> QED
  BY <1>2, <1>3, <1>4, <1>5, <1>6

\* Publishing the row the call committed, or failing to.
LEMMA PublishStep ==
    ASSUME IInv, TypeOK', NEW c \in Calls,
           PublishFails(c) \/ \E b \in BOOLEAN : PublishOk(c, b)
    PROVE  IInv'
<1> DEFINE k == KeyOf(frame[c])
           record == [id |-> ret[c], key |-> k, call |-> c, channel |-> RecipientOf[k[2]]]
<1> USE DEF IInv, TypeOK
<1>1. /\ pc[c] = "committed"
      /\ published' \in {published, published \cup {record}}
      /\ pc' = [pc EXCEPT ![c] = "fannedOut"]
      /\ UNCHANGED <<frame, ret, reply, rows, issued, alive, pushes>>
  BY DEF PublishFails, PublishOk, RecordPublish, data
<1>2. (rows \subseteq issued)' /\ OneRowPerKey' /\ GoneMeansDeviceGone'
  BY <1>1 DEF OneRowPerKey, GoneMeansDeviceGone
<1>3. IssuedByCall'
  BY <1>1 DEF IssuedByCall, Row, KeyOf
<1>4. CallProgress'
  BY <1>1 DEF CallProgress, Active, PCs, Submitted, KeyOf, NoReply
<1>5. OutputsByWriter'
  <2>1. [id |-> ret[c], key |-> k, call |-> c] \in issued
    BY <1>1 DEF CallProgress, Submitted
  <2>2. ASSUME NEW p \in published'
        PROVE  /\ [id |-> p.id, key |-> p.key, call |-> p.call] \in issued
               /\ p.channel = RecipientOf[p.key[2]]
               /\ pc'[p.call] \in {"fannedOut", "done", "dead"}
    <3>1. CASE p \in published
      BY <1>1, <3>1 DEF OutputsByWriter, PublishRecord
    <3>2. CASE p = record
      BY <1>1, <2>1, <3>2
    <3> QED
      BY <1>1, <3>1, <3>2
  <2>3. \A q \in pushes : pc'[q.call] = pc[q.call]
    BY <1>1 DEF OutputsByWriter, PushRecord
  <2> QED
    BY <1>1, <2>2, <2>3 DEF OutputsByWriter
<1>6. AckNamesTheRow'
  BY <1>1 DEF AckNamesTheRow, KeyOf
<1> QED
  BY <1>2, <1>3, <1>4, <1>5, <1>6

\* The confirmation of a fresh row, with or without a push.
LEMMA ConfirmStep ==
    ASSUME IInv, TypeOK', NEW c \in Calls, NEW b \in BOOLEAN, Confirm(c, b)
    PROVE  IInv'
<1> DEFINE k == KeyOf(frame[c])
           record == [key |-> k, call |-> c, device |-> RecipientOf[k[2]]]
<1> USE DEF IInv, TypeOK
<1>1. /\ pc[c] = "fannedOut"
      /\ pushes' = pushes \/ (pushes' = pushes \cup {record} /\ ~IsAck[k[2]])
      /\ pc' = [pc EXCEPT ![c] = "done"]
      /\ reply' = [reply EXCEPT ![c] = [kind |-> "QUEUED", id |-> ret[c]]]
      /\ UNCHANGED <<frame, ret, rows, issued, alive, published>>
  BY DEF Confirm, Finish, data
<1>2. (rows \subseteq issued)' /\ OneRowPerKey' /\ GoneMeansDeviceGone'
  BY <1>1 DEF OneRowPerKey, GoneMeansDeviceGone
<1>3. IssuedByCall'
  BY <1>1 DEF IssuedByCall, Row, KeyOf
<1>4. CallProgress'
  BY <1>1 DEF CallProgress, Active, PCs, Submitted, KeyOf, NoReply
<1>5. Submitted(c) \in issued
  BY <1>1 DEF CallProgress
<1>6. OutputsByWriter'
  <2>1. \A p \in published : pc'[p.call] \in {"fannedOut", "done", "dead"}
    BY <1>1 DEF OutputsByWriter, PublishRecord
  <2>2. ASSUME NEW q \in pushes'
        PROVE  /\ \E r \in issued : r.key = q.key /\ r.call = q.call
               /\ q.device = RecipientOf[q.key[2]]
               /\ ~IsAck[q.key[2]]
               /\ pc'[q.call] = "done"
    <3>1. CASE q \in pushes
      BY <1>1, <3>1 DEF OutputsByWriter, PushRecord
    <3>2. CASE q = record /\ ~IsAck[k[2]]
      <4>1. Submitted(c).key = q.key /\ Submitted(c).call = q.call
        BY <3>2 DEF Submitted
      <4> QED
        BY <1>1, <1>5, <3>2, <4>1
    <3> QED
      BY <1>1, <3>1, <3>2
  <2> QED
    BY <1>1, <2>1, <2>2 DEF OutputsByWriter
<1>7. AckNamesTheRow'
  <2>1. ASSUME NEW d \in Calls, reply'[d].kind = "QUEUED"
        PROVE  \E s \in issued : s.key = KeyOf(frame[d]) /\ s.id = reply'[d].id
    <3>1. CASE d = c
      BY <1>1, <1>5, <3>1 DEF Submitted
    <3>2. CASE d # c
      BY <1>1, <2>1, <3>2 DEF AckNamesTheRow
    <3> QED
      BY <3>1, <3>2
  <2> QED
    BY <1>1, <2>1 DEF AckNamesTheRow, KeyOf
<1> QED
  BY <1>2, <1>3, <1>4, <1>6, <1>7

\* The steps of the environment: a refilled bucket, a deleted device, a crash.
LEMMA EnvironmentStep ==
    ASSUME IInv, TypeOK', (\E d \in Devices : Refill(d) \/ DeleteDevice(d)) \/ Crash
    PROVE  IInv'
<1> USE DEF IInv, TypeOK
<1>1. ASSUME NEW d \in Devices, Refill(d) PROVE IInv'
  BY <1>1 DEF Refill, data, out, OneRowPerKey, GoneMeansDeviceGone, IssuedByCall,
              CallProgress, Submitted, KeyOf, OutputsByWriter, AckNamesTheRow
<1>2. ASSUME NEW d \in Devices, DeleteDevice(d) PROVE IInv'
  <2>1. (rows \subseteq issued)' /\ OneRowPerKey'
    BY <1>2 DEF DeleteDevice, OneRowPerKey
  <2>2. GoneMeansDeviceGone'
    BY <1>2 DEF DeleteDevice, GoneMeansDeviceGone
  <2> QED
    BY <1>2, <2>1, <2>2 DEF DeleteDevice, data, out, IssuedByCall, CallProgress,
                            Submitted, KeyOf, OutputsByWriter, AckNamesTheRow
<1>3. CASE Crash
  <2>1. /\ UNCHANGED <<frame, ret, reply, rows, issued, alive, published, pushes>>
        /\ \A c \in Calls : pc'[c] = IF pc[c] \in Active THEN "dead" ELSE pc[c]
    BY <1>3 DEF Crash, data, out
  <2>2. (rows \subseteq issued)' /\ OneRowPerKey' /\ GoneMeansDeviceGone'
    BY <2>1 DEF OneRowPerKey, GoneMeansDeviceGone
  <2>3. IssuedByCall'
    BY <2>1 DEF IssuedByCall, Row, KeyOf, Active
  <2>4. CallProgress'
    BY <2>1 DEF CallProgress, Active, Submitted, KeyOf
  <2>5. OutputsByWriter'
    BY <2>1 DEF OutputsByWriter, PublishRecord, PushRecord, Active
  <2>6. AckNamesTheRow'
    BY <2>1 DEF AckNamesTheRow, KeyOf
  <2> QED
    BY <2>1, <2>2, <2>3, <2>4, <2>5, <2>6
<1> QED
  BY <1>1, <1>2, <1>3

\* The inductive step over the whole next-state relation.
LEMMA InductiveStep == IInv /\ [Next]_vars => IInv'
<1> SUFFICES ASSUME IInv, [Next]_vars PROVE IInv'
  OBVIOUS
<1>1. TypeOK'
  BY TypeStep DEF IInv
<1>2. ASSUME NEW c \in Calls, Receive(c) PROVE IInv'
  BY <1>1, <1>2, ReceiveStep
<1>3. ASSUME NEW c \in Calls, Handle(c) PROVE IInv'
  BY <1>1, <1>3, NoRowStep, InsertStep, LookupStep, PublishStep, ConfirmStep DEF Handle
<1>4. CASE (\E d \in Devices : Refill(d) \/ DeleteDevice(d)) \/ Crash
  BY <1>1, <1>4, EnvironmentStep
<1>5. CASE UNCHANGED vars
  BY <1>1, <1>5 DEF vars, IInv, OneRowPerKey, GoneMeansDeviceGone, IssuedByCall,
                    CallProgress, Submitted, KeyOf, OutputsByWriter, AckNamesTheRow
<1> QED
  BY <1>2, <1>3, <1>4, <1>5 DEF Next

\* The inductive invariant holds in every reachable state.
THEOREM Invariance == Spec => []IInv
  BY InitEstablishes, InductiveStep, PTL DEF Spec

\* P13: a key has one row, for any number of retries, overlaps and crashes.
THEOREM RowOnce == Spec => []OneRowPerKey
<1>1. IInv => OneRowPerKey
  BY DEF IInv
<1> QED
  BY <1>1, Invariance, PTL

\* P13 and P18: a key is published at most once, by the call that wrote its
\* row, and only after the row was committed.
THEOREM PublishOnce == Spec => []OnePublishPerKey
<1>1. IInv => OnePublishPerKey
  <2> SUFFICES ASSUME IInv PROVE OnePublishPerKey
    OBVIOUS
  <2>1. ASSUME NEW p \in published, NEW q \in published, p.key = q.key
        PROVE  p = q
    <3>1. [id |-> p.id, key |-> p.key, call |-> p.call]
            = [id |-> q.id, key |-> q.key, call |-> q.call]
      BY <2>1 DEF IInv, OneRowPerKey, OutputsByWriter
    <3>2. p.id = q.id /\ p.call = q.call /\ p.channel = q.channel
      BY <2>1, <3>1 DEF IInv, OutputsByWriter
    <3> QED
      BY <2>1, <3>2 DEF IInv, TypeOK, PublishRecord
  <2> QED
    BY <2>1 DEF OnePublishPerKey, IInv, OutputsByWriter
<1> QED
  BY <1>1, Invariance, PTL

\* Every acknowledgement of a key carries the same id.
THEOREM AckIsRight == Spec => []AckNamesTheRow
<1>1. IInv => AckNamesTheRow
  BY DEF IInv
<1> QED
  BY <1>1, Invariance, PTL

\* P14 and P17: rows are attributed to the authenticated device, publishes
\* and pushes go to the recipient alone.
THEOREM AttributionHolds == Spec => []Attribution
<1>1. IInv => Attribution
  <2> SUFFICES ASSUME IInv PROVE Attribution
    OBVIOUS
  <2>1. \A r \in issued : r.key[1] = frame[r.call].auth
    BY DEF IInv, IssuedByCall, KeyOf
  <2> QED
    BY <2>1 DEF Attribution, IInv, OutputsByWriter
<1> QED
  BY <1>1, Invariance, PTL

\* A recipient is woken at most once per envelope.
THEOREM PushOnce == Spec => []OnePushPerEnvelope
<1>1. IInv => OnePushPerEnvelope
  <2> SUFFICES ASSUME IInv PROVE OnePushPerEnvelope
    OBVIOUS
  <2>1. ASSUME NEW p \in pushes, NEW q \in pushes, p.key = q.key
        PROVE  p = q
    <3>1. p.call = q.call /\ p.device = q.device
      BY <2>1 DEF IInv, OneRowPerKey, OutputsByWriter
    <3> QED
      BY <2>1, <3>1 DEF IInv, TypeOK, PushRecord
  <2> QED
    BY <2>1 DEF OnePushPerEnvelope, IInv, OutputsByWriter
<1> QED
  BY <1>1, Invariance, PTL

\* With its session on record, a send that passed the sender and rate checks
\* is refused only for a database fault or a deleted device; in particular
\* the conflict that a retry meets always leads to a row or a deleted device.
THEOREM RefusalsExplained ==
    ASSUME \A n \in Nonces : HasSession[n]
    PROVE  Spec => []RefusalNeedsFault
<1>1. Init => RefusalNeedsFault
  BY DEF Init, RefusalNeedsFault, NoReply
<1>2. IInv /\ IInv' /\ RefusalNeedsFault /\ [Next]_vars => RefusalNeedsFault'
  <2> SUFFICES ASSUME IInv, IInv', RefusalNeedsFault, [Next]_vars,
                      NEW c \in Calls, reply'[c].kind = "INTERNAL"
               PROVE  \/ c \in faulted'
                      \/ frame'[c].sender \notin alive'
                      \/ RecipientOf[frame'[c].nonce] \notin alive'
    BY DEF RefusalNeedsFault
  <2>1. frame' = frame /\ faulted \subseteq faulted' /\ alive' \subseteq alive
    BY DEF Next, vars, Receive, RejectSender, RejectRate, Accept, Handle, InsertFresh,
           InsertUnconfirmed, InsertConflict, InsertRefused, QueryFault, LookupFound,
           LookupGone, PublishOk, PublishFails, Confirm, Refill, DeleteDevice, Crash, data, out
  <2>2. CASE reply'[c] = reply[c]
    BY <2>1, <2>2 DEF RefusalNeedsFault
  <2>3. CASE InsertRefused(c)
    BY <2>3 DEF InsertRefused, ForeignKeysHold, KeyOf, IInv, TypeOK, Frame
  <2>4. CASE QueryFault(c) \/ InsertUnconfirmed(c)
    BY <2>4 DEF QueryFault, InsertUnconfirmed
  <2>5. CASE LookupGone(c)
    <3>1. PICK r \in issued : r.key = KeyOf(frame[c])
      BY <2>5 DEF LookupGone, IInv, CallProgress
    <3>2. r \notin rows
      BY <2>5, <3>1 DEF LookupGone, Conflicts
    <3> QED
      BY <2>1, <3>1, <3>2, <2>5 DEF LookupGone, IInv, GoneMeansDeviceGone, KeyOf
  <2>6. ASSUME reply'[c] # reply[c]
        PROVE  InsertRefused(c) \/ QueryFault(c) \/ InsertUnconfirmed(c) \/ LookupGone(c)
    <3>1. PICK d \in Calls : Receive(d) \/ Handle(d)
      BY <2>6 DEF Next, vars, Refill, DeleteDevice, Crash
    <3>2. d = c
      BY <2>6, <3>1 DEF IInv, TypeOK, Receive, RejectSender, RejectRate, Accept, Handle,
         InsertFresh, InsertUnconfirmed, InsertConflict, InsertRefused, QueryFault,
         LookupFound, LookupGone, PublishOk, PublishFails, Confirm, Finish
    <3>3. \A kind, id : Finish(c, kind, id) => kind = "INTERNAL"
      BY DEF Finish, IInv, TypeOK
    <3> QED
      BY <2>6, <3>1, <3>2, <3>3 DEF Receive, RejectSender, RejectRate, Accept, Handle,
         InsertFresh, InsertConflict, LookupFound, PublishOk, PublishFails, Confirm
  <2> QED
    BY <2>2, <2>3, <2>4, <2>5, <2>6
<1> QED
  BY <1>1, <1>2, Invariance, PTL DEF Spec

(***************************************************************************)
(* The handler implements EnvelopeStore.                                   *)
(***************************************************************************)

StoreStatus == [k \in Keys |-> StatusOf(k)]
AnnouncedKeys == {p.key : p \in published}
QueuedCalls == {c \in Calls : reply[c].kind = "QUEUED"}
AckedKeys == {KeyOf(frame[c]) : c \in QueuedCalls}

\* A step that changes neither the table nor the set of announced keys nor
\* that of acknowledged keys is a stutter of the store.
LEMMA StoreStutter ==
    ASSUME UNCHANGED <<rows, issued, published, frame>>, UNCHANGED QueuedCalls
    PROVE  UNCHANGED Promise!storeVars
<1>1. UNCHANGED StoreStatus
  BY DEF StoreStatus, StatusOf, Conflicts
<1>2. UNCHANGED AckedKeys
  BY DEF AckedKeys, KeyOf
<1> QED
  BY <1>1, <1>2 DEF Promise!storeVars, StoreStatus, AckedKeys, QueuedCalls

\* A call that ends with an error acknowledges nothing.
LEMMA ErrorAcksNothing ==
    ASSUME IInv, NEW c \in Calls, pc[c] # "done", NEW kind,
           kind \in {"INVALID_PAYLOAD", "RATE_LIMITED", "INTERNAL"}, Finish(c, kind, 0)
    PROVE  UNCHANGED QueuedCalls
<1>1. reply[c].kind # "QUEUED"
  BY DEF IInv, CallProgress, NoReply
<1>2. reply'[c].kind # "QUEUED" /\ \A d \in Calls : d # c => reply'[d] = reply[d]
  BY DEF IInv, TypeOK, Finish
<1> QED
  BY <1>1, <1>2 DEF QueuedCalls

\* A call that ends with ENVELOPE_QUEUED acknowledges the key of its frame.
LEMMA QueuedAcksKey ==
    ASSUME IInv, NEW c \in Calls, NEW id, Finish(c, "QUEUED", id), UNCHANGED frame
    PROVE  AckedKeys' = AckedKeys \cup {KeyOf(frame[c])}
<1>1. QueuedCalls' = QueuedCalls \cup {c}
  BY DEF IInv, TypeOK, Finish, QueuedCalls
<1> QED
  BY <1>1 DEF AckedKeys, KeyOf

\* The INSERT stores an absent key.
LEMMA InsertStores ==
    ASSUME IInv, NEW c \in Calls, InsertRow(c), NEW k \in Keys, k = KeyOf(frame[c])
    PROVE  /\ StoreStatus[k] = "absent"
           /\ StoreStatus' = [StoreStatus EXCEPT ![k] = "stored"]
<1>2. Conflicts(k) = {} /\ \A r \in issued : r.key # k
  BY FreshKey DEF InsertRow
<1>3. Conflicts(k)' # {}
  <2> DEFINE row == [id |-> nextId, key |-> k, call |-> c]
  <2>1. row \in rows' /\ row.key = k
    BY DEF InsertRow
  <2> QED
    BY <2>1 DEF Conflicts
<1>4. ASSUME NEW j \in Keys, j # k
      PROVE  StatusOf(j)' = StatusOf(j)
  <2>1. Conflicts(j)' = Conflicts(j)
    BY <1>4 DEF InsertRow, Conflicts
  <2>2. (\E r \in issued' : r.key = j) <=> \E r \in issued : r.key = j
    BY <1>4 DEF InsertRow
  <2> QED
    BY <2>1, <2>2 DEF StatusOf
<1>5. StatusOf(k) = "absent" /\ StatusOf(k)' = "stored"
  BY <1>2, <1>3 DEF StatusOf
<1> QED
  BY <1>4, <1>5 DEF StoreStatus

\* A key that was ever issued is not absent.
LEMMA IssuedIsPresent ==
    ASSUME NEW k \in Keys, \E r \in issued : r.key = k
    PROVE  StoreStatus[k] # "absent"
  BY DEF StoreStatus, StatusOf

\* Every step of the handler is a step of the store or a stutter.
LEMMA StepImplementsStore ==
    IInv /\ [Next]_vars => [Promise!StoreNext]_(Promise!storeVars)
<1> SUFFICES ASSUME IInv, [Next]_vars
             PROVE  Promise!StoreNext \/ UNCHANGED Promise!storeVars
  OBVIOUS
<1> USE DEF data, out
<1>0. ASSUME NEW c \in Calls PROVE KeyOf(frame[c]) \in Keys
  BY DEF IInv, TypeOK, KeyOf, Keys, Frame
<1>1. ASSUME NEW c \in Calls, RejectSender(c) \/ RejectRate(c) \/ InsertRefused(c)
                               \/ QueryFault(c) \/ LookupGone(c)
      PROVE  UNCHANGED Promise!storeVars
  <2>1. pc[c] # "done" /\ UNCHANGED <<rows, issued, published, frame>>
    BY <1>1 DEF RejectSender, RejectRate, InsertRefused, QueryFault, LookupGone
  <2>2. \E kind \in {"INVALID_PAYLOAD", "RATE_LIMITED", "INTERNAL"} : Finish(c, kind, 0)
    BY <1>1 DEF RejectSender, RejectRate, InsertRefused, QueryFault, LookupGone
  <2> QED
    BY <2>1, <2>2, ErrorAcksNothing, StoreStutter
<1>2. ASSUME NEW c \in Calls, Accept(c) \/ InsertConflict(c)
      PROVE  UNCHANGED Promise!storeVars
  BY <1>2, StoreStutter DEF Accept, InsertConflict, QueuedCalls
<1>3. ASSUME NEW c \in Calls, InsertFresh(c) \/ InsertUnconfirmed(c)
      PROVE  Promise!StoreNext
  <2>1. InsertRow(c) /\ UNCHANGED <<published, frame>>
    BY <1>3 DEF InsertFresh, InsertUnconfirmed
  <2>2. UNCHANGED QueuedCalls
    <3>1. CASE InsertFresh(c)
      BY <3>1 DEF InsertFresh, QueuedCalls
    <3>2. CASE InsertUnconfirmed(c)
      BY <3>2, ErrorAcksNothing DEF InsertUnconfirmed
    <3> QED
      BY <1>3, <3>1, <3>2
  <2>3. UNCHANGED AckedKeys
    BY <2>1, <2>2 DEF AckedKeys, KeyOf
  <2> QED
    BY <1>0, <2>1, <2>3, InsertStores
       DEF Promise!StoreNext, Promise!Store, StoreStatus, AckedKeys, QueuedCalls
<1>4. ASSUME NEW c \in Calls, LookupFound(c) \/ \E b \in BOOLEAN : Confirm(c, b)
      PROVE  Promise!StoreNext
  <2>1. \E id : Finish(c, "QUEUED", id)
    BY <1>4 DEF LookupFound, Confirm
  <2>2. UNCHANGED <<frame, rows, issued, published>>
    BY <1>4 DEF LookupFound, Confirm
  <2>3. \E r \in issued : r.key = KeyOf(frame[c])
    BY <1>4 DEF LookupFound, Confirm, IInv, CallProgress, Submitted
  <2>4. StoreStatus[KeyOf(frame[c])] # "absent"
    BY <1>0, <2>3, IssuedIsPresent
  <2>5. AckedKeys' = AckedKeys \cup {KeyOf(frame[c])}
    BY <2>1, <2>2, QueuedAcksKey
  <2>6. UNCHANGED StoreStatus
    BY <2>2 DEF StoreStatus, StatusOf, Conflicts
  <2> QED
    BY <1>0, <2>2, <2>4, <2>5, <2>6
       DEF Promise!StoreNext, Promise!Acknowledge, StoreStatus, AckedKeys, QueuedCalls
<1>5. ASSUME NEW c \in Calls, PublishFails(c) \/ \E b \in BOOLEAN : PublishOk(c, b)
      PROVE  Promise!StoreNext \/ UNCHANGED Promise!storeVars
  <2> DEFINE k == KeyOf(frame[c])
  <2>1. pc[c] = "committed" /\ UNCHANGED <<frame, reply, rows, issued>>
    BY <1>5 DEF PublishFails, PublishOk
  <2>2. CASE UNCHANGED published
    BY <2>1, <2>2, StoreStutter DEF QueuedCalls
  <2>3. CASE RecordPublish(c)
    <3>1. Submitted(c) \in issued /\ Submitted(c).key = k /\ Submitted(c).call = c
      BY <2>1 DEF IInv, CallProgress, Submitted
    <3>2. k \notin AnnouncedKeys
      <4>1. ASSUME NEW p \in published, p.key = k PROVE FALSE
        <5>1. [id |-> p.id, key |-> p.key, call |-> p.call] = Submitted(c)
          <6> DEFINE s == [id |-> p.id, key |-> p.key, call |-> p.call]
          <6>1. s \in issued /\ s.key = k
            BY <4>1 DEF IInv, OutputsByWriter
          <6> QED
            BY <3>1, <6>1 DEF IInv, OneRowPerKey
        <5>2. p.call = c
          BY <5>1 DEF Submitted
        <5> QED
          BY <2>1, <5>2 DEF IInv, OutputsByWriter
      <4> QED
        BY <4>1 DEF AnnouncedKeys
    <3>3. AnnouncedKeys' = AnnouncedKeys \cup {k}
      <4> DEFINE record == [id |-> ret[c], key |-> k, call |-> c, channel |-> RecipientOf[k[2]]]
      <4>1. published' = published \cup {record} /\ record.key = k
        BY <2>3 DEF RecordPublish
      <4> QED
        BY <4>1 DEF AnnouncedKeys
    <3>4. StoreStatus[k] # "absent"
      BY <1>0, <3>1, IssuedIsPresent
    <3>5. UNCHANGED <<StoreStatus, AckedKeys>>
      BY <2>1 DEF StoreStatus, StatusOf, Conflicts, AckedKeys, QueuedCalls, KeyOf
    <3> QED
      BY <1>0, <3>2, <3>3, <3>4, <3>5
         DEF Promise!StoreNext, Promise!Announce, StoreStatus, AnnouncedKeys,
             AckedKeys, QueuedCalls
  <2> QED
    BY <1>5, <2>2, <2>3 DEF PublishFails, PublishOk
<1>6. ASSUME NEW d \in Devices, DeleteDevice(d)
      PROVE  Promise!StoreNext
  <2> DEFINE S == {k \in Keys : Conflicts(k) # {} /\ Conflicts(k)' = {}}
  <2>1. ASSUME NEW k \in Keys
        PROVE  StatusOf(k)' = IF k \in S THEN "gone" ELSE StatusOf(k)
    <3>1. Conflicts(k)' = {} \/ Conflicts(k)' = Conflicts(k)
      BY <1>6 DEF DeleteDevice, Conflicts
    <3>2. UNCHANGED issued
      BY <1>6 DEF DeleteDevice
    <3>3. Conflicts(k) # {} => \E r \in issued : r.key = k
      BY DEF Conflicts, IInv
    <3> QED
      BY <3>1, <3>2, <3>3 DEF StatusOf
  <2>2. \A k \in S : StatusOf(k) = "stored"
    BY DEF StatusOf
  <2>3. UNCHANGED <<published, reply, frame>>
    BY <1>6 DEF DeleteDevice
  <2>4. S \in SUBSET Keys
    OBVIOUS
  <2>5. UNCHANGED AckedKeys
    BY <2>3 DEF AckedKeys, QueuedCalls, KeyOf
  <2>6. Promise!Cascade(S)
    BY <2>1, <2>2, <2>3, <2>5 DEF Promise!Cascade, AckedKeys, QueuedCalls
  <2> QED
    BY <2>4, <2>6 DEF Promise!StoreNext
<1>7. ASSUME (\E d \in Devices : Refill(d)) \/ Crash \/ UNCHANGED vars
      PROVE  UNCHANGED Promise!storeVars
  BY <1>7, StoreStutter DEF Refill, Crash, vars, QueuedCalls
<1> QED
  BY <1>1, <1>2, <1>3, <1>4, <1>5, <1>6, <1>7 DEF Next, Receive, Handle

\* SEND_ENVELOPE keeps the store's promise for every number of devices,
\* envelopes, retries and crashes.
THEOREM RouterImplementsStore == Spec => ImplementsStore
<1>1. Init => Promise!StoreInit
  BY DEF Init, Promise!StoreInit, StatusOf, Conflicts, NoReply
<1> QED
  BY <1>1, StepImplementsStore, Invariance, PTL DEF Spec, ImplementsStore, Promise!StoreSpec

-----------------------------------------------------------------------------
(* RateLimiter.  What a device may send.                                   *)

LimiterInv ==
  /\ LimiterTypeOK
  /\ BudgetKept
  /\ ~bucket.known => granted = 0

(* In every reachable state the bucket, its anchor and what was granted    *)
(* keep their types and within the budget: the invariant tryConsume needs. *)
THEOREM BudgetInvariance == LimiterSpec => []LimiterInv
<1> USE BucketAssumption
<1>1. LimiterInit => LimiterInv
  BY DEF LimiterInit, LimiterInv, LimiterTypeOK, BudgetKept
<1>2. LimiterInv /\ [LimiterNext]_limiterVars => LimiterInv'
  <2> SUFFICES ASSUME LimiterInv, [LimiterNext]_limiterVars PROVE LimiterInv'
    OBVIOUS
  <2>1. ASSUME NEW t \in 0..MaxClock, Tick(t) PROVE LimiterInv'
    BY <2>1 DEF Tick, LimiterInv, LimiterTypeOK, BudgetKept, Since
  <2>2. ASSUME NEW t \in 0..MaxClock, SetBack(t) PROVE LimiterInv'
    BY <2>2 DEF SetBack, LimiterInv, LimiterTypeOK, BudgetKept, Since
  <2>3. CASE TryConsume
    <3>1. Refilled \in 0..Capacity
      BY DEF Refilled, Least, Since, LimiterInv, LimiterTypeOK
    <3>2. granted + Refilled <= Capacity + elapsed
      BY DEF Refilled, Least, Since, LimiterInv, LimiterTypeOK, BudgetKept
    <3>3. CASE Refilled >= Cost /\ Consume(Refilled - Cost) /\ granted' = granted + Cost
      BY <3>1, <3>2, <3>3 DEF Consume, LimiterInv, LimiterTypeOK, BudgetKept, Since
    <3>4. CASE Refilled < Cost /\ Consume(Refilled) /\ UNCHANGED granted
      BY <3>1, <3>2, <3>4 DEF Consume, LimiterInv, LimiterTypeOK, BudgetKept, Since
    <3> QED BY <2>3, <3>3, <3>4 DEF TryConsume
  <2>4. CASE UNCHANGED limiterVars
    BY <2>4 DEF limiterVars, LimiterInv, LimiterTypeOK, BudgetKept, Since
  <2> QED BY <2>1, <2>2, <2>3, <2>4 DEF LimiterNext
<1> QED BY <1>1, <1>2, PTL DEF LimiterSpec

(* A device is never granted more than a full bucket and what the clock's  *)
(* forward moves have refilled, wherever the clock is set back.            *)
THEOREM GrantsAreBounded == LimiterSpec => []GrantsBounded
<1>1. LimiterInv => GrantsBounded
  BY BucketAssumption DEF LimiterInv, LimiterTypeOK, BudgetKept, GrantsBounded, Since
<1> QED BY <1>1, BudgetInvariance, PTL

-----------------------------------------------------------------------------
(* SignIn.  A login, an enrolment and a refresh follow one another, and    *)
(* what the last of them binds has to be what the others left.             *)

Names == Users \cup {Nobody}
Tokens == [sub : Names, did : Nat, valid : BOOLEAN]
FormStages == {"login", "loggedIn", "enroll", "created", "refresh"}
FlowStates ==
  [at : {"idle", "done"}] \cup [at : FormStages, user : Users, did : Nat]
    \cup [at : {"refreshed"}, token : Tokens]

SignInTypes ==
  /\ accounts \subseteq Users
  /\ owners \in Seq(Names) /\ deviceId \in 0..Len(owners)
  /\ jar \in Names /\ signedIn \in Names /\ token \in Tokens
  /\ flow \in [Flows -> FlowStates]
  /\ \A f \in Flows : flow[f].at \in FormStages => flow[f].did \in 0..Len(owners)
  /\ crossed \in BOOLEAN

OwnedBy(d, u) == d \in 1..Len(owners) /\ owners[d] = u

(* What one flow may rely on at each of its awaits.                        *)
FlowInv(r) ==
  /\ r.at \in {"login", "loggedIn"} => r.did = deviceId
  /\ r.at = "loggedIn" => jar = r.user
  /\ r.at \in {"enroll", "created", "refresh"} =>
       jar = r.user /\ signedIn = r.user /\ token.sub = r.user
  /\ r.at \in {"enroll", "created"} => deviceId = 0
  /\ r.at = "created" => OwnedBy(r.did, r.user)
  /\ r.at = "refresh" => r.did = deviceId /\ OwnedBy(r.did, r.user)
  /\ r.at = "refreshed" =>
       r.token.sub = signedIn /\ r.token.did = deviceId /\ OwnedBy(deviceId, signedIn)

OneFlow ==
  /\ \A f, g \in Flows : Pending(f) /\ Pending(g) => f = g
  /\ \A f \in Flows : FlowInv(flow[f])
TokenOwned == token.did # 0 => OwnedBy(token.did, token.sub)
DoneBinds ==
  (\E f \in Flows : flow[f].at = "done") =>
    deviceId # 0 /\ (signedIn # Nobody => token.sub = signedIn /\ token.did = deviceId)
SocketBinds == socket.is = "ready" => OwnedBy(socket.did, socket.sub)

Bound == OneFlow /\ TokenOwned /\ DoneBinds /\ SocketBinds
BindInv == SignInTypes /\ (crossed = FALSE => Bound)

LEMMA NoFlowTypes == NoFlow \in FlowStates /\ NoFlow.at = "idle"
BY DEF NoFlow, FlowStates

LEMMA FlowKinds ==
  ASSUME SignInTypes, NEW f \in Flows
  PROVE  /\ flow[f].at \in FormStages =>
              /\ flow[f] \in [at : FormStages, user : Users, did : Nat]
              /\ flow[f].did \in 0..Len(owners)
         /\ flow[f].at = "refreshed" => flow[f] \in [at : {"refreshed"}, token : Tokens]
BY DEF SignInTypes, FlowStates, FormStages

(* A flow goes on: the types, and what the other flows are at.             *)
LEMMA FlowTypes ==
  ASSUME SignInTypes, NEW f \in Flows, NEW r \in FlowStates, SetFlow(f, r),
         r.at \in FormStages => r.did \in 0..Len(owners'),
         owners' \in Seq(Names), Len(owners') >= Len(owners)
  PROVE  /\ flow' \in [Flows -> FlowStates]
         /\ flow'[f] = r /\ \A g \in Flows \ {f} : flow'[g] = flow[g]
         /\ \A g \in Flows : flow'[g].at \in FormStages => flow'[g].did \in 0..Len(owners')
<1>1. /\ flow' \in [Flows -> FlowStates]
      /\ flow'[f] = r /\ \A g \in Flows \ {f} : flow'[g] = flow[g]
  BY DEF SignInTypes, SetFlow
<1>2. Len(owners) \in Nat /\ Len(owners') \in Nat
  BY DEF SignInTypes
<1>3. ASSUME NEW g \in Flows \ {f}, flow'[g].at \in FormStages
      PROVE  flow'[g].did \in 0..Len(owners')
  BY <1>1, <1>2, <1>3 DEF SignInTypes
<1> QED BY <1>1, <1>3

LEMMA FlowAlone ==
  ASSUME SignInTypes, NEW f \in Flows, NEW r, SetFlow(f, r),
         \A g \in Flows \ {f} : ~Pending(g), FlowInv(r)'
  PROVE  /\ OneFlow'
         /\ r.at # "done" /\ (\E g \in Flows : flow'[g].at = "done") => \E g \in Flows : flow[g].at = "done"
<1>1. flow'[f] = r /\ \A g \in Flows \ {f} : flow'[g] = flow[g]
  BY DEF SignInTypes, SetFlow
<1>2. ASSUME NEW g \in Flows \ {f} PROVE flow'[g].at \in {"idle", "done"}
  BY <1>1, <1>2 DEF Pending
<1>3. ASSUME NEW g \in Flows PROVE FlowInv(flow[g])'
  <2>1. CASE g = f
    BY <1>1, <2>1 DEF FlowInv, OwnedBy
  <2>2. CASE g # f
    BY <1>2, <2>2 DEF FlowInv
  <2> QED BY <2>1, <2>2
<1>4. \A g, h \in Flows : Pending(g)' /\ Pending(h)' => g = h
  BY <1>2 DEF Pending
<1> QED BY <1>1, <1>3, <1>4 DEF OneFlow

(* What does not concern the flows.                                        *)
LEMMA QuietBinds ==
  ASSUME BindInv, UNCHANGED <<owners, deviceId, jar, signedIn, token, flow, socket, crossed>>,
         accounts' \subseteq Users
  PROVE  BindInv'
<1>1. SignInTypes'
  BY DEF BindInv, SignInTypes
<1>2. Bound => Bound'
  BY DEF Bound, OneFlow, FlowInv, OwnedBy, Pending, TokenOwned, DoneBinds, SocketBinds
<1> QED BY <1>1, <1>2 DEF BindInv

LEMMA SubmitBinds ==
  ASSUME BindInv, NEW f \in Flows, NEW u \in Users, SubmitLogin(f, u) PROVE BindInv'
<1>1. PICK r : r = [at |-> "login", user |-> u, did |-> deviceId]
  OBVIOUS
<1>2. /\ r \in FlowStates /\ r.at = "login" /\ r.did = deviceId /\ SetFlow(f, r)
      /\ UNCHANGED <<accounts, owners, deviceId, jar, signedIn, token, socket>>
      /\ crossed' = Disturbed
  BY <1>1 DEF SubmitLogin, FlowStates, FormStages, BindInv, SignInTypes, serverVars,
     browserVars, sessionVars
<1>3. SignInTypes'
  <2>1. owners' \in Seq(Names) /\ Len(owners') >= Len(owners) /\ r.did \in 0..Len(owners')
    BY <1>2 DEF BindInv, SignInTypes
  <2>2. crossed' \in BOOLEAN
    BY <1>2 DEF Disturbed, BindInv, SignInTypes
  <2> QED BY <1>2, <2>1, <2>2, FlowTypes DEF BindInv, SignInTypes
<1>4. ASSUME crossed' = FALSE PROVE Bound'
  <2>1. crossed = FALSE /\ \A g \in Flows : ~Pending(g)
    BY <1>2, <1>4 DEF Disturbed, BindInv, SignInTypes
  <2>2. FlowInv(r)'
    BY <1>2 DEF FlowInv
  <2>3. OneFlow' /\ ((\E g \in Flows : flow'[g].at = "done") => \E g \in Flows : flow[g].at = "done")
    BY <1>2, <2>1, <2>2, FlowAlone DEF BindInv
  <2> QED BY <1>2, <2>1, <2>3 DEF BindInv, Bound, TokenOwned, DoneBinds, SocketBinds, OwnedBy
<1> QED BY <1>3, <1>4 DEF BindInv

(* A pending flow that goes on is the only one.                            *)
LEMMA PendingAlone ==
  ASSUME BindInv, crossed = FALSE, NEW f \in Flows, Pending(f)
  PROVE  Bound /\ FlowInv(flow[f]) /\ \A g \in Flows \ {f} : ~Pending(g)
BY DEF BindInv, Bound, OneFlow

LEMMA LoginBinds ==
  ASSUME BindInv, NEW f \in Flows, Login(f) PROVE BindInv'
<1>1. PICK old : old = flow[f]
  OBVIOUS
<1>2. old.at = "login" /\ old \in [at : FormStages, user : Users, did : Nat] /\ old.did \in 0..Len(owners)
  BY <1>1, FlowKinds DEF Login, BindInv, FormStages
<1>3. PICK r : r = [old EXCEPT !.at = "loggedIn"]
  OBVIOUS
<1>4. /\ r \in FlowStates /\ r.at = "loggedIn" /\ r.did = old.did /\ r.user = old.user
      /\ SetFlow(f, r) /\ jar' = r.user /\ r.user \in Users
      /\ UNCHANGED <<accounts, owners, deviceId, signedIn, token, socket, crossed>>
  BY <1>1, <1>2, <1>3 DEF Login, FlowStates, FormStages, serverVars, sessionVars
<1>5. SignInTypes'
  <2>1. owners' \in Seq(Names) /\ Len(owners') >= Len(owners) /\ r.did \in 0..Len(owners')
    BY <1>2, <1>4 DEF BindInv, SignInTypes
  <2> QED BY <1>4, <2>1, FlowTypes DEF BindInv, SignInTypes, Names
<1>6. ASSUME crossed' = FALSE PROVE Bound'
  <2>1. Bound /\ FlowInv(old) /\ \A g \in Flows \ {f} : ~Pending(g)
    BY <1>1, <1>2, <1>4, <1>6, PendingAlone DEF Pending
  <2>2. FlowInv(r)'
    BY <1>2, <1>4, <2>1 DEF FlowInv
  <2>3. OneFlow' /\ ((\E g \in Flows : flow'[g].at = "done") => \E g \in Flows : flow[g].at = "done")
    BY <1>4, <2>1, <2>2, FlowAlone DEF BindInv
  <2> QED BY <1>4, <2>1, <2>3 DEF Bound, TokenOwned, DoneBinds, SocketBinds, OwnedBy
<1> QED BY <1>5, <1>6 DEF BindInv

(* The token names the cached device; an owner other than the user shows.  *)
LEMMA LoggedInBinds ==
  ASSUME BindInv, NEW f \in Flows, LoggedIn(f) PROVE BindInv'
<1>1. PICK old : old = flow[f]
  OBVIOUS
<1>2. /\ old.at = "loggedIn" /\ old \in [at : FormStages, user : Users, did : Nat]
      /\ old.did \in 0..Len(owners) /\ old.did \in Nat /\ old.user \in Users
  BY <1>1, FlowKinds DEF LoggedIn, BindInv, FormStages
<1>3. PICK r : r = IF deviceId = 0 THEN [old EXCEPT !.at = "enroll"]
                   ELSE [old EXCEPT !.at = "refresh", !.did = deviceId]
  OBVIOUS
<1>4. deviceId \in Nat /\ deviceId \in 0..Len(owners)
  BY DEF BindInv, SignInTypes
<1>5. /\ r \in FlowStates /\ r.user = old.user
      /\ \/ deviceId = 0 /\ r.at = "enroll" /\ r.did = old.did
         \/ deviceId # 0 /\ r.at = "refresh" /\ r.did = deviceId
  BY <1>2, <1>3, <1>4 DEF FlowStates, FormStages
<1>6. /\ SetFlow(f, r) /\ signedIn' = old.user /\ token' = Token(old.user, old.did)
      /\ crossed' = (crossed \/ \E d \in 1..Len(owners) : d = deviceId /\ owners[d] # old.user)
      /\ UNCHANGED <<accounts, owners, deviceId, jar, socket>>
  BY <1>1, <1>3 DEF LoggedIn, serverVars, browserVars
<1>7. token' \in Tokens /\ token'.sub = old.user /\ token'.did = old.did
  BY <1>2, <1>6 DEF Token, Tokens, Names
<1>8. SignInTypes'
  <2>1. owners' \in Seq(Names) /\ Len(owners') >= Len(owners) /\ r.did \in 0..Len(owners')
    BY <1>2, <1>4, <1>5, <1>6 DEF BindInv, SignInTypes
  <2>2. crossed' \in BOOLEAN
    BY <1>6 DEF BindInv, SignInTypes
  <2> QED BY <1>2, <1>5, <1>6, <1>7, <2>1, <2>2, FlowTypes DEF BindInv, SignInTypes, Names
<1>9. ASSUME crossed' = FALSE PROVE Bound'
  <2>0. crossed = FALSE
        /\ ~ \E d \in 1..Len(owners) : d = deviceId /\ owners[d] # old.user
    <3>1. crossed \in BOOLEAN
      BY DEF BindInv, SignInTypes
    <3> QED BY <1>6, <1>9, <3>1
  <2>1. crossed = FALSE /\ (deviceId # 0 => OwnedBy(deviceId, old.user))
    BY <1>4, <2>0 DEF OwnedBy
  <2>2. Bound /\ FlowInv(old) /\ \A g \in Flows \ {f} : ~Pending(g)
    BY <1>1, <1>2, <2>1, PendingAlone DEF Pending
  <2>3. jar = old.user /\ old.did = deviceId
    BY <1>2, <2>2 DEF FlowInv
  <2>4. FlowInv(r)'
    BY <1>5, <1>6, <1>7, <2>1, <2>3 DEF FlowInv, OwnedBy
  <2>5. OneFlow' /\ ((\E g \in Flows : flow'[g].at = "done") => \E g \in Flows : flow[g].at = "done")
    BY <1>5, <1>6, <2>2, <2>4, FlowAlone DEF BindInv
  <2>6. TokenOwned' /\ DoneBinds'
    BY <1>6, <1>7, <2>1, <2>2, <2>3, <2>5 DEF Bound, TokenOwned, DoneBinds, OwnedBy
  <2> QED BY <1>6, <2>2, <2>5, <2>6 DEF Bound, SocketBinds, OwnedBy
<1> QED BY <1>8, <1>9 DEF BindInv

LEMMA CreateBinds ==
  ASSUME BindInv, NEW f \in Flows, CreateDevice(f) PROVE BindInv'
<1>1. PICK old : old = flow[f]
  OBVIOUS
<1>2. /\ old.at = "enroll" /\ old \in [at : FormStages, user : Users, did : Nat]
      /\ owners \in Seq(Names) /\ Len(owners) \in Nat /\ token.sub \in Names
  BY <1>1, FlowKinds DEF CreateDevice, BindInv, SignInTypes, FormStages, Tokens
<1>3. PICK n : n = Len(owners) + 1
  OBVIOUS
<1>4. /\ owners' = Append(owners, token.sub) /\ owners' \in Seq(Names)
      /\ Len(owners') = n /\ n \in Nat /\ owners'[n] = token.sub
      /\ \A d \in 1..Len(owners) : owners'[d] = owners[d] /\ d \in 1..Len(owners')
  BY <1>2, <1>3 DEF CreateDevice
<1>5. PICK r : r = [old EXCEPT !.at = "created", !.did = n]
  OBVIOUS
<1>6. /\ r \in FlowStates /\ r.at = "created" /\ r.did = n /\ r.user = old.user
  BY <1>2, <1>4, <1>5 DEF FlowStates, FormStages
<1>7. /\ SetFlow(f, r) /\ UNCHANGED <<accounts, deviceId, jar, signedIn, token, socket, crossed>>
  BY <1>1, <1>4, <1>5 DEF CreateDevice, browserVars, sessionVars
<1>8. SignInTypes'
  <2>1. Len(owners') >= Len(owners) /\ r.did \in 0..Len(owners') /\ deviceId \in 0..Len(owners')
    BY <1>2, <1>3, <1>4, <1>6 DEF BindInv, SignInTypes
  <2> QED BY <1>4, <1>6, <1>7, <2>1, FlowTypes DEF BindInv, SignInTypes
<1>9. ASSUME crossed' = FALSE PROVE Bound'
  <2>1. Bound /\ FlowInv(old) /\ \A g \in Flows \ {f} : ~Pending(g)
    BY <1>1, <1>2, <1>7, <1>9, PendingAlone DEF Pending
  <2>2. jar = old.user /\ signedIn = old.user /\ token.sub = old.user /\ deviceId = 0
    BY <1>2, <2>1 DEF FlowInv
  <2>3. n \in 1..Len(owners')
    BY <1>2, <1>3, <1>4
  <2>4. FlowInv(r)'
    BY <1>4, <1>6, <1>7, <2>2, <2>3 DEF FlowInv, OwnedBy
  <2>5. OneFlow' /\ ((\E g \in Flows : flow'[g].at = "done") => \E g \in Flows : flow[g].at = "done")
    BY <1>6, <1>7, <2>1, <2>4, FlowAlone DEF BindInv
  <2>6. TokenOwned' /\ SocketBinds'
    BY <1>4, <1>7, <2>1 DEF Bound, TokenOwned, SocketBinds, OwnedBy
  <2> QED BY <1>7, <2>1, <2>5, <2>6 DEF Bound, DoneBinds
<1> QED BY <1>8, <1>9 DEF BindInv

LEMMA CreatedBinds ==
  ASSUME BindInv, NEW f \in Flows, Created(f) PROVE BindInv'
<1>1. PICK old : old = flow[f]
  OBVIOUS
<1>2. /\ old.at = "created" /\ old \in [at : FormStages, user : Users, did : Nat]
      /\ old.did \in 0..Len(owners)
  BY <1>1, FlowKinds DEF Created, BindInv, FormStages
<1>3. PICK r : r = [old EXCEPT !.at = "refresh"]
  OBVIOUS
<1>4. /\ r \in FlowStates /\ r.at = "refresh" /\ r.did = old.did /\ r.user = old.user
      /\ SetFlow(f, r) /\ deviceId' = old.did
      /\ UNCHANGED <<accounts, owners, jar, signedIn, token, socket, crossed>>
  BY <1>1, <1>2, <1>3 DEF Created, FlowStates, FormStages, serverVars, sessionVars
<1>5. SignInTypes'
  <2>1. owners' \in Seq(Names) /\ Len(owners') >= Len(owners) /\ r.did \in 0..Len(owners')
    BY <1>2, <1>4 DEF BindInv, SignInTypes
  <2> QED BY <1>4, <2>1, FlowTypes DEF BindInv, SignInTypes
<1>6. ASSUME crossed' = FALSE PROVE Bound'
  <2>1. Bound /\ FlowInv(old) /\ \A g \in Flows \ {f} : ~Pending(g)
    BY <1>1, <1>2, <1>4, <1>6, PendingAlone DEF Pending
  <2>2. /\ jar = old.user /\ signedIn = old.user /\ token.sub = old.user
        /\ deviceId = 0 /\ OwnedBy(old.did, old.user)
    BY <1>2, <2>1 DEF FlowInv
  <2>3. FlowInv(r)'
    BY <1>4, <2>2 DEF FlowInv, OwnedBy
  <2>4. OneFlow' /\ ((\E g \in Flows : flow'[g].at = "done") => \E g \in Flows : flow[g].at = "done")
    BY <1>4, <2>1, <2>3, FlowAlone DEF BindInv
  <2>5. DoneBinds'
    BY <2>1, <2>2, <2>4 DEF Bound, DoneBinds
  <2> QED BY <1>4, <2>1, <2>4, <2>5 DEF Bound, TokenOwned, SocketBinds, OwnedBy
<1> QED BY <1>5, <1>6 DEF BindInv

LEMMA RefreshBinds ==
  ASSUME BindInv, NEW f \in Flows, Refresh(f) PROVE BindInv'
<1>1. PICK old : old = flow[f]
  OBVIOUS
<1>2. /\ old.at = "refresh" /\ old \in [at : FormStages, user : Users, did : Nat]
  BY <1>1, FlowKinds DEF Refresh, BindInv, FormStages
<1>3. PICK t : t = Token(jar, old.did)
  OBVIOUS
<1>4. t \in Tokens /\ t.sub = jar /\ t.did = old.did
  BY <1>2, <1>3 DEF Token, Tokens, BindInv, SignInTypes
<1>5. PICK r : r = [at |-> "refreshed", token |-> t]
  OBVIOUS
<1>6. /\ r \in FlowStates /\ r.at = "refreshed" /\ r.token = t
      /\ SetFlow(f, r)
      /\ UNCHANGED <<accounts, owners, deviceId, jar, signedIn, token, socket, crossed>>
  BY <1>1, <1>3, <1>4, <1>5
     DEF Refresh, RefreshedToken, FlowStates, serverVars, browserVars, sessionVars
<1>7. SignInTypes'
  <2>1. owners' \in Seq(Names) /\ Len(owners') >= Len(owners) /\ r.at \notin FormStages
    BY <1>6 DEF BindInv, SignInTypes, FormStages
  <2> QED BY <1>6, <2>1, FlowTypes DEF BindInv, SignInTypes
<1>8. ASSUME crossed' = FALSE PROVE Bound'
  <2>1. Bound /\ FlowInv(old) /\ \A g \in Flows \ {f} : ~Pending(g)
    BY <1>1, <1>2, <1>6, <1>8, PendingAlone DEF Pending
  <2>2. /\ jar = old.user /\ signedIn = old.user
        /\ old.did = deviceId /\ OwnedBy(old.did, old.user)
    BY <1>2, <2>1 DEF FlowInv
  <2>3. FlowInv(r)'
    BY <1>4, <1>6, <2>2 DEF FlowInv, OwnedBy
  <2>4. OneFlow' /\ ((\E g \in Flows : flow'[g].at = "done") => \E g \in Flows : flow[g].at = "done")
    BY <1>6, <2>1, <2>3, FlowAlone DEF BindInv
  <2> QED BY <1>6, <2>1, <2>4 DEF Bound, TokenOwned, DoneBinds, SocketBinds, OwnedBy
<1> QED BY <1>7, <1>8 DEF BindInv

(* The token of the refresh is that of the user on the screen.             *)
LEMMA RefreshedBinds ==
  ASSUME BindInv, NEW f \in Flows, Refreshed(f) PROVE BindInv'
<1>1. PICK old : old = flow[f]
  OBVIOUS
<1>2. old.at = "refreshed" /\ old.token \in Tokens
  BY <1>1, FlowKinds DEF Refreshed, BindInv
<1>3. PICK r : r = [at |-> "done"]
  OBVIOUS
<1>4. /\ r \in FlowStates /\ r.at = "done" /\ SetFlow(f, r) /\ token' = old.token
      /\ UNCHANGED <<accounts, owners, deviceId, jar, signedIn, socket, crossed>>
  BY <1>1, <1>3 DEF Refreshed, FlowStates, serverVars, browserVars
<1>5. SignInTypes'
  <2>1. owners' \in Seq(Names) /\ Len(owners') >= Len(owners) /\ r.at \notin FormStages
    BY <1>4 DEF BindInv, SignInTypes, FormStages
  <2> QED BY <1>2, <1>4, <2>1, FlowTypes DEF BindInv, SignInTypes
<1>6. ASSUME crossed' = FALSE PROVE Bound'
  <2>1. Bound /\ FlowInv(old) /\ \A g \in Flows \ {f} : ~Pending(g)
    BY <1>1, <1>2, <1>4, <1>6, PendingAlone DEF Pending
  <2>2. /\ old.token.sub = signedIn /\ old.token.did = deviceId /\ OwnedBy(deviceId, signedIn)
    BY <1>2, <2>1 DEF FlowInv
  <2>3. FlowInv(r)'
    BY <1>4 DEF FlowInv
  <2>4. OneFlow'
    BY <1>4, <2>1, <2>3, FlowAlone DEF BindInv
  <2>5. deviceId # 0
    BY <2>2 DEF OwnedBy
  <2> QED BY <1>4, <2>1, <2>2, <2>4, <2>5
          DEF Bound, TokenOwned, DoneBinds, SocketBinds, OwnedBy
<1> QED BY <1>5, <1>6 DEF BindInv

LEMMA FailsBinds ==
  ASSUME BindInv, NEW f \in Flows, FlowFails(f) PROVE BindInv'
<1>1. PICK r : r = NoFlow
  OBVIOUS
<1>2. /\ r \in FlowStates /\ r.at = "idle" /\ SetFlow(f, r) /\ Pending(f) /\ jar' \in {jar, Nobody}
      /\ UNCHANGED <<accounts, owners, deviceId, signedIn, token, socket, crossed>>
  BY <1>1, NoFlowTypes DEF FlowFails, Pending, serverVars, sessionVars
<1>3. SignInTypes'
  <2>1. owners' \in Seq(Names) /\ Len(owners') >= Len(owners) /\ r.at \notin FormStages
    BY <1>2 DEF BindInv, SignInTypes, FormStages
  <2> QED BY <1>2, <2>1, FlowTypes DEF BindInv, SignInTypes, Names
<1>4. ASSUME crossed' = FALSE PROVE Bound'
  <2>1. Bound /\ \A g \in Flows \ {f} : ~Pending(g)
    BY <1>2, <1>4, PendingAlone
  <2>2. FlowInv(r)'
    BY <1>2 DEF FlowInv
  <2>3. OneFlow' /\ ((\E g \in Flows : flow'[g].at = "done") => \E g \in Flows : flow[g].at = "done")
    BY <1>2, <2>1, <2>2, FlowAlone DEF BindInv
  <2> QED BY <1>2, <2>1, <2>3 DEF Bound, TokenOwned, DoneBinds, SocketBinds, OwnedBy
<1> QED BY <1>3, <1>4 DEF BindInv

(* The store is cleared by its button or by a reload, or the token ends.   *)
LEMMA LeaveBinds ==
  ASSUME BindInv, SignOut \/ ReloadApp \/ AccessExpires PROVE BindInv'
<1>1. UNCHANGED <<accounts, owners, deviceId, jar, socket>>
  BY DEF SignOut, ReloadApp, AccessExpires, serverVars, browserVars
<1>2. /\ token' \in Tokens /\ signedIn' \in Names
      /\ \/ signedIn' = Nobody /\ token'.did = 0
         \/ UNCHANGED <<signedIn, flow>> /\ token'.sub = token.sub /\ token'.did = token.did
  <2>1. NoToken \in Tokens /\ NoToken.did = 0
    BY DEF NoToken, Tokens, Names
  <2>2. [token EXCEPT !.valid = FALSE] \in Tokens
        /\ [token EXCEPT !.valid = FALSE].sub = token.sub
        /\ [token EXCEPT !.valid = FALSE].did = token.did
    BY DEF BindInv, SignInTypes, Tokens
  <2> QED BY <2>1, <2>2 DEF SignOut, ReloadApp, AccessExpires, ClearAuth, Names, BindInv, SignInTypes
<1>3. /\ crossed' \in BOOLEAN
      /\ crossed' = FALSE => crossed = FALSE
      /\ crossed' = FALSE => AccessExpires \/ \A f \in Flows : flow'[f].at \in {"idle", "done"}
      /\ flow' = flow \/ flow' = [f \in Flows |-> NoFlow]
  BY NoFlowTypes DEF SignOut, ReloadApp, AccessExpires, Disturbed, Pending, BindInv, SignInTypes
<1>4. SignInTypes'
  BY <1>1, <1>2, <1>3, NoFlowTypes DEF BindInv, SignInTypes, FormStages
<1>5. ASSUME crossed' = FALSE PROVE Bound'
  <2>1. Bound
    BY <1>3, <1>5 DEF BindInv
  <2>2. OneFlow'
    <3>1. CASE \A f \in Flows : flow'[f].at \in {"idle", "done"}
      BY <3>1 DEF OneFlow, Pending, FlowInv
    <3>2. CASE AccessExpires
      <4>1. UNCHANGED <<signedIn, flow>> /\ token'.sub = token.sub
        BY <3>2 DEF AccessExpires, BindInv, SignInTypes, Tokens
      <4> QED BY <1>1, <2>1, <4>1 DEF Bound, OneFlow, Pending, FlowInv, OwnedBy
    <3> QED BY <1>3, <1>5, <3>1, <3>2
  <2>3. (\E f \in Flows : flow'[f].at = "done") => \E f \in Flows : flow[f].at = "done"
    BY <1>3, NoFlowTypes
  <2> QED BY <1>1, <1>2, <2>1, <2>2, <2>3
          DEF Bound, TokenOwned, DoneBinds, SocketBinds, OwnedBy
<1> QED BY <1>4, <1>5 DEF BindInv

LEMMA UpgradeBinds ==
  ASSUME BindInv, Upgrade PROVE BindInv'
<1>1. UNCHANGED <<accounts, owners, deviceId, jar, signedIn, token, flow, crossed>>
  BY DEF Upgrade, serverVars, browserVars, sessionVars
<1>2. SignInTypes'
  BY <1>1 DEF BindInv, SignInTypes
<1>3. ASSUME crossed' = FALSE PROVE Bound'
  <2>1. Bound
    BY <1>1, <1>3 DEF BindInv
  <2>2. SocketBinds'
    <3>1. socket'.is = "ready" =>
            token.did # 0 /\ socket'.did = token.did /\ socket'.sub = token.sub
      BY DEF Upgrade, Authenticated
    <3> QED BY <1>1, <2>1, <3>1 DEF Bound, TokenOwned, SocketBinds, OwnedBy
  <2> QED BY <1>1, <2>1, <2>2
          DEF Bound, OneFlow, FlowInv, OwnedBy, Pending, TokenOwned, DoneBinds
<1> QED BY <1>2, <1>3 DEF BindInv

(* A flow that nothing crosses leaves a token of the user on the screen,   *)
(* for a device this user enrolled here, and no connection that is made    *)
(* meanwhile speaks for a device of another; for any number of users,      *)
(* flows, devices and submissions.                                         *)
THEOREM SignInIsBound == SignInSpec => []SignInBinds
<1>1. SignInInit => BindInv
  <2> SUFFICES ASSUME SignInInit PROVE BindInv
    OBVIOUS
  <2>1. /\ accounts = {} /\ owners = <<>> /\ owners \in Seq(Names) /\ Len(owners) = 0
        /\ deviceId = 0 /\ jar = Nobody /\ signedIn = Nobody
        /\ token = NoToken /\ flow = [f \in Flows |-> NoFlow] /\ socket.is = "none" /\ crossed = FALSE
    BY DEF SignInInit
  <2>2. NoToken \in Tokens /\ NoToken.did = 0
    BY DEF NoToken, Tokens, Names
  <2>3. \A f \in Flows : flow[f].at = "idle"
    BY <2>1, NoFlowTypes
  <2>4. SignInTypes
    <3>1. Nobody \in Names /\ deviceId \in 0..Len(owners)
      BY <2>1 DEF Names
    <3>0. crossed \in BOOLEAN
      BY <2>1
    <3>2. flow \in [Flows -> FlowStates]
      BY <2>1, NoFlowTypes
    <3>3. \A f \in Flows : flow[f].at \notin FormStages
      BY <2>3 DEF FormStages
    <3> QED BY <2>1, <2>2, <3>0, <3>1, <3>2, <3>3 DEF SignInTypes
  <2> QED BY <2>1, <2>2, <2>3, <2>4
          DEF BindInv, Bound, OneFlow, Pending, FlowInv, TokenOwned, DoneBinds, SocketBinds
<1>2. BindInv /\ [SignInNext]_signInVars => BindInv'
  <2> SUFFICES ASSUME BindInv, [SignInNext]_signInVars PROVE BindInv'
    OBVIOUS
  <2>1. CASE Get \/ (\E u \in Users : Signup(u)) \/ UNCHANGED signInVars
    <3>1. /\ UNCHANGED <<owners, deviceId, jar, signedIn, token, flow, socket, crossed>>
          /\ accounts' \subseteq Users
      BY <2>1 DEF Get, Signup, signInVars, serverVars, browserVars, sessionVars, BindInv,
         SignInTypes
    <3> QED BY <3>1, QuietBinds
  <2> QED BY <2>1, SubmitBinds, LoginBinds, LoggedInBinds, CreateBinds, CreatedBinds,
             RefreshBinds, RefreshedBinds, FailsBinds, LeaveBinds, UpgradeBinds DEF SignInNext
<1>3. BindInv => SignInBinds
  BY DEF BindInv, SignInTypes, Bound, TokenOwned, DoneBinds, SocketBinds, OwnedBy, SignInBinds
<1> QED BY <1>1, <1>2, <1>3, PTL DEF SignInSpec

=============================================================================
