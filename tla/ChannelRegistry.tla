------------------------- MODULE ChannelRegistry -------------------------
(***************************************************************************)
(* The refcounted listener registry of apps/api/src/ws/redis-publisher.ts: *)
(* channelListeners maps a Redis channel to an array of JS listeners, the  *)
(* first listener of a channel issues SUBSCRIBE and the last one to leave  *)
(* issues UNSUBSCRIBE on one shared subscriber connection.                 *)
(*                                                                         *)
(* The array object matters: addChannelListener keeps its reference across *)
(* `await subClient.subscribe(channel)`, so an array is modelled by its    *)
(* identity (a number, 0 is "no array").  A listener function is attached  *)
(* at most once: every caller passes a closure of its own.                 *)
(***************************************************************************)
EXTENDS Naturals, Sequences, FiniteSets

Seqs == INSTANCE SequencesExt

CONSTANTS
    Listeners,     \* listener closures
    Channels,      \* Redis channel names (dev:{id}, room:{slug})
    ChannelOf,     \* the channel each listener is attached to
    Payloads,      \* what may be published on a channel
    SubscribeMayFail  \* whether `subClient.subscribe` may reject

ASSUME ListenersAssumption == IsFiniteSet(Listeners)
ASSUME ChannelOfAssumption == ChannelOf \in [Listeners -> Channels]
ASSUME SubscribeMayFailAssumption == SubscribeMayFail \in BOOLEAN

VARIABLES
    entry,     \* channelListeners.get(channel): identity of the live array
    slot,      \* identity of the array that holds the listener, or 0
    held,      \* identity of the array a suspended addChannelListener holds
    state,     \* progress of each listener through add and remove
    commands,  \* SUBSCRIBE/UNSUBSCRIBE sent by subClient, not yet executed
    upstream,  \* the channels Redis has this connection subscribed to
    stream,    \* replies and messages from Redis, not yet read by subClient
    arrays     \* number of arrays allocated so far

regVars == <<entry, slot, held, state, commands, upstream, stream, arrays>>

States == {"idle", "subscribing", "answered", "attached", "failed", "removed"}
Command == [op: {"subscribe", "unsubscribe"}, chan: Channels]
              \cup [op: {"subscribe"}, chan: Channels, by: Listeners]
Reply == [kind: {"subscribed", "rejected"}, by: Listeners]
Message == [kind: {"message"}, chan: Channels, payload: Payloads]
Arrays == 0..Cardinality(Listeners)

\* Arrays are never more than the listeners that can allocate one; a command
\* or a reply in flight always belongs to a listener of this process.
RegTypeOK ==
    /\ entry \in [Channels -> Arrays]
    /\ slot \in [Listeners -> Arrays]
    /\ held \in [Listeners -> Arrays]
    /\ state \in [Listeners -> States]
    /\ commands \in Seq(Command)
    /\ upstream \in SUBSET Channels
    /\ stream \in Seq(Reply \cup Message)
    /\ arrays \in Arrays

RegInit ==
    /\ entry = [ch \in Channels |-> 0]
    /\ slot = [l \in Listeners |-> 0]
    /\ held = [l \in Listeners |-> 0]
    /\ state = [l \in Listeners |-> "idle"]
    /\ commands = <<>>
    /\ upstream = {}
    /\ stream = <<>>
    /\ arrays = 0

\* The listeners that the 'message' handler calls for a channel.
Receivers(ch) == {l \in Listeners : entry[ch] # 0 /\ slot[l] = entry[ch]}

(***************************************************************************)
(* addChannelListener                                                      *)
(***************************************************************************)

\* No array yet: allocate one, register it, send SUBSCRIBE and suspend.
AddFirst(l) ==
    /\ state[l] = "idle"
    /\ entry[ChannelOf[l]] = 0
    /\ arrays' = arrays + 1
    /\ entry' = [entry EXCEPT ![ChannelOf[l]] = arrays + 1]
    /\ held' = [held EXCEPT ![l] = arrays + 1]
    /\ state' = [state EXCEPT ![l] = "subscribing"]
    /\ commands' = Append(commands, [op |-> "subscribe", chan |-> ChannelOf[l], by |-> l])
    /\ UNCHANGED <<slot, upstream, stream>>

\* An array is registered, whatever it holds: push at once, no SUBSCRIBE.
AddNext(l) ==
    /\ state[l] = "idle"
    /\ entry[ChannelOf[l]] # 0
    /\ slot' = [slot EXCEPT ![l] = entry[ChannelOf[l]]]
    /\ state' = [state EXCEPT ![l] = "attached"]
    /\ UNCHANGED <<entry, held, commands, upstream, stream, arrays>>

Add(l) == AddFirst(l) \/ AddNext(l)

\* The await returned: push onto the array held since before the await.
AddResume(l) ==
    /\ state[l] = "answered"
    /\ slot' = [slot EXCEPT ![l] = held[l]]
    /\ held' = [held EXCEPT ![l] = 0]
    /\ state' = [state EXCEPT ![l] = "attached"]
    /\ UNCHANGED <<entry, commands, upstream, stream, arrays>>

(***************************************************************************)
(* removeChannelListener                                                   *)
(***************************************************************************)

\* Mutant of Remove: the other listeners are not counted.
RemoveUncounted(l) ==
    LET ch == ChannelOf[l]
    IN  /\ state[l] = "attached"
        /\ state' = [state EXCEPT ![l] = "removed"]
        /\ slot' = [slot EXCEPT ![l] = IF @ = entry[ch] THEN 0 ELSE @]
        /\ commands' = Append(commands, [op |-> "unsubscribe", chan |-> ch])
        /\ UNCHANGED <<entry, held, upstream, stream, arrays>>

\* Splice each listener of S out of the live array of its channel if it is
\* there; drop the entry and send UNSUBSCRIBE if that array is now empty.  S
\* holds at most one listener per channel; one call for each, in one turn.
RemoveAll(S) ==
    LET chans == {ChannelOf[l] : l \in S}
        emptied == {ch \in chans : entry[ch] # 0 /\ Receivers(ch) \subseteq S}
    IN  /\ \A l \in S : state[l] \in {"attached", "removed"}
        /\ state' = [l \in Listeners |-> IF l \in S THEN "removed" ELSE state[l]]
        /\ slot' = [l \in Listeners |->
                       IF l \in S /\ slot[l] = entry[ChannelOf[l]] THEN 0 ELSE slot[l]]
        /\ entry' = [ch \in Channels |-> IF ch \in emptied THEN 0 ELSE entry[ch]]
        /\ commands' = commands \o
              [i \in 1..Cardinality(emptied) |->
                  [op |-> "unsubscribe", chan |-> Seqs!SetToSeq(emptied)[i]]]
        /\ UNCHANGED <<held, upstream, stream, arrays>>

Remove(l) == RemoveAll({l})

(***************************************************************************)
(* Redis and the subscriber connection (external): commands are executed   *)
(* in order, and replies and messages come back in one ordered stream.     *)
(***************************************************************************)

ServeSubscribe ==
    /\ commands # <<>>
    /\ Head(commands).op = "subscribe"
    /\ commands' = Tail(commands)
    /\ upstream' = upstream \cup {Head(commands).chan}
    /\ stream' = Append(stream, [kind |-> "subscribed", by |-> Head(commands).by])
    /\ UNCHANGED <<entry, slot, held, state, arrays>>

RejectSubscribe ==
    /\ SubscribeMayFail
    /\ commands # <<>>
    /\ Head(commands).op = "subscribe"
    /\ commands' = Tail(commands)
    /\ stream' = Append(stream, [kind |-> "rejected", by |-> Head(commands).by])
    /\ UNCHANGED <<entry, slot, held, state, upstream, arrays>>

ServeUnsubscribe ==
    /\ commands # <<>>
    /\ Head(commands).op = "unsubscribe"
    /\ commands' = Tail(commands)
    /\ upstream' = upstream \ {Head(commands).chan}
    /\ UNCHANGED <<entry, slot, held, state, stream, arrays>>

\* A reply settles the promise; the continuation runs later, as a microtask.
ReadReply ==
    /\ stream # <<>>
    /\ Head(stream).kind # "message"
    /\ stream' = Tail(stream)
    /\ state' = [state EXCEPT ![Head(stream).by] =
                    IF Head(stream).kind = "subscribed" THEN "answered" ELSE "failed"]
    /\ UNCHANGED <<entry, slot, held, commands, upstream, arrays>>

\* publish(channel, payload): Redis forwards it if we are subscribed.
Publish(ch, p) ==
    /\ stream' = IF ch \in upstream
                 THEN Append(stream, [kind |-> "message", chan |-> ch, payload |-> p])
                 ELSE stream
    /\ UNCHANGED <<entry, slot, held, state, commands, upstream, arrays>>

\* The 'message' handler took the next message off the stream.
ReadMessage ==
    /\ stream # <<>>
    /\ Head(stream).kind = "message"
    /\ stream' = Tail(stream)
    /\ UNCHANGED <<entry, slot, held, state, commands, upstream, arrays>>

RedisStep == ServeSubscribe \/ RejectSubscribe \/ ServeUnsubscribe \/ ReadReply

(***************************************************************************)
(* Properties                                                              *)
(***************************************************************************)

Queued(op, ch) == \E i \in 1..Len(commands) :
                     commands[i].op = op /\ commands[i].chan = ch

Rejected(ch) ==
    \E l \in Listeners :
        /\ ChannelOf[l] = ch
        /\ \/ state[l] = "failed"
           \/ \E i \in 1..Len(stream) : stream[i] = [kind |-> "rejected", by |-> l]

\* On a channel none of whose SUBSCRIBEs was rejected, an array that is
\* registered is fed, or its SUBSCRIBE is still on the way, however
\* adds, removes and the late UNSUBSCRIBE of an earlier array interleave.
EntriesAreFed ==
    \A ch \in Channels :
        entry[ch] # 0 /\ ~Queued("subscribe", ch) /\ ~Rejected(ch) => ch \in upstream
===========================================================================
