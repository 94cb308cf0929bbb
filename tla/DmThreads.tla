------------------------------ MODULE DmThreads ------------------------------
(* The conversations of the client: the messages and threads tables, the   *)
(* controller that writes them when the user sends, an envelope arrives or *)
(* an acknowledgement comes, and a screen that reads them anew after every *)
(* change the controller announces. Each handler awaits between its steps, *)
(* so that handlers and reads interleave.                                  *)
EXTENDS Naturals, Sequences, FiniteSets

CONSTANTS
  Peers,       \* the users the client converses with
  Limit,       \* rows that listForThread returns
  MaxHandlers, \* bound on the messages sent and received, by screen
  MaxReads,    \* bound on the reads of the screen under way
  MaxSelects   \* bound on the conversations opened

ASSUME DmAssumptions ==
  /\ Limit \in Nat \ {0}
  /\ MaxHandlers \in [{"thread", "list", "none"} -> Nat]
  /\ MaxReads \in Nat /\ MaxSelects \in Nat

VARIABLES
  screenOf,    \* what is mounted: the open "thread", the "list", or "none"
  rows,        \* table messages: [thread, mine, at, state], id = index
  threads,     \* table threads: peer -> [last, unread], unread = 0 and last = 0: none
  clock,       \* Date.now()
  handlers,    \* handlers under way: [does, thread, at, step, row]
  selected,    \* the conversation that is open
  selects,     \* conversations opened so far
  reads,       \* reads of the screen under way, oldest first: [thread, got]
  shownRows,   \* what the screen shows
  outOfOrder,  \* a read was answered before an older one
  interleaved,  \* peers with a send under way while another handler ran
  failed       \* a handler was ended by an error of the database

dmVars == <<screenOf, rows, threads, clock, handlers, selected, selects, reads,
            shownRows, outOfOrder, interleaved, failed>>

Ids(t) == {i \in DOMAIN rows : rows[i].thread = t}

(* The scan of [threadId+createdAt] goes upward and stops at the limit.   *)
ListForThread(t) ==
  {<<i, rows[i].state>> :
     i \in {i \in Ids(t) : Cardinality({j \in Ids(t) : rows[j].at < rows[i].at}) < Limit}}

NotRead == <<>>
Loading == <<>>
Snapshot(t) == <<IF screenOf = "list" THEN threads ELSE ListForThread(t)>>

NewRead(t) == [thread |-> t, got |-> NotRead]

DmInit ==
  /\ screenOf \in {"thread", "list", "none"} /\ selected \in Peers
  /\ rows = <<>> /\ threads = [p \in Peers |-> [last |-> 0, unread |-> 0]]
  /\ clock = 0 /\ handlers = {} /\ selects = 1
  /\ reads = (IF screenOf = "none" THEN <<>> ELSE <<NewRead(selected)>>)
  /\ shownRows = Loading
  /\ outOfOrder = FALSE /\ interleaved = {} /\ failed = FALSE

(* The listener of the open conversation skips changes of another thread.  *)
Listens(t) == screenOf = "list" \/ (screenOf = "thread" /\ selected = t)
Emit(t) ==
  /\ Listens(t) => Len(reads) < MaxReads
  /\ reads' = IF Listens(t) THEN Append(reads, NewRead(selected)) ELSE reads

StartHandler(does, t, step, row) ==
  /\ handlers' = handlers \cup
       {[does |-> does, thread |-> t, at |-> clock + 1, step |-> step, row |-> row]}
  /\ interleaved' = IF \E h \in handlers : h.thread = t /\ "send" \in {does, h.does}
                   THEN interleaved \cup {t} ELSE interleaved
  /\ clock' = clock + 1
  /\ UNCHANGED <<screenOf, rows, threads, selected, selects, reads, shownRows,
                 outOfOrder, failed>>

(* The recipient devices, or the sender's user id, are known: both read    *)
(* the time and write their row.                                           *)
SendMessage(t) == clock < MaxHandlers[screenOf] /\ StartHandler("send", t, "insert", 0)
HandleInbound(t) == clock < MaxHandlers[screenOf] /\ StartHandler("inbound", t, "insert", 0)

Continue(h, step, row) == handlers' = (handlers \ {h}) \cup {[h EXCEPT !.step = step, !.row = row]}
End(h) == handlers' = handlers \ {h}
Screens == <<screenOf, selected, selects, shownRows, outOfOrder>>

Row(h) == [thread |-> h.thread, mine |-> h.does = "send", at |-> h.at,
           state |-> IF h.does = "send" THEN "sending" ELSE "delivered"]

InsertOutgoing(h) ==
  /\ h.does = "send" /\ h.step = "insert"
  /\ rows' = Append(rows, Row(h))
  /\ Continue(h, "enqueue", Len(rows) + 1)
  /\ Emit(h.thread)
  /\ UNCHANGED <<Screens, threads, clock, interleaved, failed>>

(* The first shard is written to the outbox, and the others before the     *)
(* thread row; or an error at one of these ends the handler.               *)
Enqueue(h) ==
  /\ h.does = "send" /\ h.step = "enqueue"
  /\ Continue(h, "upsert", h.row)
  /\ UNCHANGED <<Screens, reads, rows, threads, clock, interleaved, failed>>
EnqueueFails(h) ==
  /\ h.does = "send" /\ h.step \in {"enqueue", "upsert"}
  /\ End(h)
  /\ failed' = TRUE
  /\ UNCHANGED <<Screens, reads, rows, threads, clock, interleaved>>

\* Mutant of Upserted: the update forgets the count of the row
UpsertedAnew(thread, at) == [last |-> at, unread |-> 0]

Upserted(thread, at) == [thread EXCEPT !.last = at]

Upsert(h) ==
  /\ h.does = "send" /\ h.step = "upsert"
  /\ threads' = [threads EXCEPT ![h.thread] = Upserted(@, h.at)]
  /\ End(h)
  /\ Emit(h.thread)
  /\ UNCHANGED <<Screens, rows, clock, interleaved, failed>>

InsertIncoming(h) ==
  /\ h.does = "inbound" /\ h.step = "insert"
  /\ rows' = Append(rows, Row(h))
  /\ Continue(h, "record", Len(rows) + 1)
  /\ UNCHANGED <<Screens, reads, threads, clock, interleaved, failed>>

Recorded(thread, at) ==
  [last |-> IF thread.last > at THEN thread.last ELSE at, unread |-> thread.unread + 1]

\* Mutant of RecordIncoming: the change is announced before the last write
RecordAnnounced(h) ==
  /\ h.does = "inbound"
  /\ \/ /\ h.step = "record"
        /\ Continue(h, "announced", h.row)
        /\ Emit(h.thread)
        /\ UNCHANGED threads
     \/ /\ h.step = "announced"
        /\ threads' = [threads EXCEPT ![h.thread] = Recorded(@, h.at)]
        /\ End(h)
        /\ UNCHANGED reads
  /\ UNCHANGED <<Screens, rows, clock, interleaved, failed>>

RecordIncoming(h) ==
  /\ h.does = "inbound" /\ h.step = "record"
  /\ threads' = [threads EXCEPT ![h.thread] = Recorded(@, h.at)]
  /\ End(h)
  /\ Emit(h.thread)
  /\ UNCHANGED <<Screens, rows, clock, interleaved, failed>>
RecordFails(h) ==
  /\ h.does = "inbound" /\ h.step = "record"
  /\ End(h)
  /\ failed' = TRUE
  /\ UNCHANGED <<Screens, reads, rows, threads, clock, interleaved>>

(* An ENVELOPE_QUEUED of a shard that is written, others perhaps not yet:  *)
(* the row is looked up, and only if it is still sending it is flipped, in *)
(* a transaction of its own.  Two at most are at this of one row.          *)
Acknowledged(i) ==
  /\ rows[i].mine /\ rows[i].state = "sending"
  /\ \A h \in handlers : h.row = i => h.step # "enqueue"
  /\ \E n \in {0, 1} :
       LET ack == [does |-> "ack", thread |-> rows[i].thread, at |-> n, step |-> "flip", row |-> i]
       IN  ack \notin handlers /\ handlers' = handlers \cup {ack}
  /\ UNCHANGED <<Screens, reads, rows, threads, clock, interleaved, failed>>

SetStateByClientNonce(h) ==
  /\ h.does = "ack"
  /\ rows' = [rows EXCEPT ![h.row].state = "delivered"]
  /\ End(h)
  /\ Emit(h.thread)
  /\ UNCHANGED <<Screens, threads, clock, interleaved, failed>>

(* The effect of another thread id unsubscribes, subscribes and reads; the *)
(* reads under way are not cancelled.                                      *)
Select(t) ==
  /\ screenOf = "thread" /\ t # selected /\ selects < MaxSelects /\ Len(reads) < MaxReads
  /\ selected' = t
  /\ selects' = selects + 1
  /\ reads' = Append(reads, NewRead(t))
  /\ UNCHANGED <<screenOf, rows, threads, clock, handlers, shownRows, outOfOrder,
                 interleaved, failed>>

Read(k) ==
  /\ reads[k].got = NotRead
  /\ reads' = [reads EXCEPT ![k].got = Snapshot(reads[k].thread)]
  /\ UNCHANGED <<Screens, rows, threads, clock, handlers, interleaved, failed>>

SetState(k) ==
  /\ reads[k].got # NotRead
  /\ shownRows' = reads[k].got
  /\ reads' = SubSeq(reads, 1, k - 1) \o SubSeq(reads, k + 1, Len(reads))
  /\ outOfOrder' = (outOfOrder \/ k # 1)
  /\ UNCHANGED <<screenOf, selected, selects, rows, threads, clock, handlers,
                 interleaved, failed>>

DmNext ==
  \/ \E t \in Peers : SendMessage(t) \/ HandleInbound(t) \/ Select(t)
  \/ \E h \in handlers :
       \/ InsertOutgoing(h) \/ Enqueue(h) \/ EnqueueFails(h) \/ Upsert(h)
       \/ InsertIncoming(h) \/ RecordIncoming(h) \/ RecordFails(h)
       \/ SetStateByClientNonce(h)
  \/ \E i \in DOMAIN rows : Acknowledged(i)
  \/ \E k \in DOMAIN reads : Read(k) \/ SetState(k)

DmSpec == DmInit /\ [][DmNext]_dmVars

(* When no handler and no read is under way, the screen shows what the     *)
(* database holds for the conversation that is open, or for the list:      *)
(* every handler announces its change after its last write. Only an error  *)
(* between two writes, or the answer of an older read coming last, leaves  *)
(* it behind.                                                              *)
ScreenSettles ==
  screenOf # "none" /\ ~failed /\ ~outOfOrder /\ handlers = {} /\ reads = <<>> =>
    shownRows = Snapshot(selected)

(* When no handler is under way, the row of a thread counts the messages   *)
(* received, which nothing ever marks as read, and its time is that of its *)
(* newest message. A send that overlaps another handler of its thread may  *)
(* set the time back, because it writes the time it began at.              *)
ThreadsMatch ==
  ~failed /\ handlers = {} =>
    \A t \in Peers :
      /\ threads[t].unread = Cardinality({i \in Ids(t) : ~rows[i].mine})
      /\ t \notin interleaved => \A i \in Ids(t) : rows[i].at <= threads[t].last

(* The screen of an open conversation shows its newest message: "Return    *)
(* the most recent `limit` messages in a thread" (messages.ts:185).        *)
NewestIsShown ==
  screenOf = "thread" /\ ~failed /\ ~outOfOrder /\ handlers = {} /\ reads = <<>> =>
    \A i \in Ids(selected) :
      (\A j \in Ids(selected) : rows[j].at <= rows[i].at) => <<i, rows[i].state>> \in shownRows[1]
=============================================================================
