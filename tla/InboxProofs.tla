----------------------------- MODULE InboxProofs -----------------------------
(* That subscribe-then-replay leaves no gap, that a listening device is not *)
(* pushed to and that a replayed envelope is not sent again, for any number *)
(* of devices, sockets and envelopes, and any refused SUBSCRIBE or query.   *)
EXTENDS Inbox, RegistryProofs

USE DEF Conns, Devices, DeviceOf, Envelopes

InboxTyped ==
    /\ status \in [Envelopes -> {"absent", "stored", "gone"}]
    /\ announced \subseteq Envelopes
    /\ sock \in [Conns -> {"none", "open", "closing", "closed"}]
    /\ phase \in [Conns -> {"new", "open", "counting", "failed", "subscribing",
                            "selecting", "attached", "noInbox"}]
    /\ handle \subseteq Conns
    /\ snap \in [Conns -> SUBSET Envelopes]
    /\ seen \in [Conns -> SUBSET Envelopes]
    /\ hydrating \in [Conns -> SUBSET Envelopes]
    /\ missed \in [Conns -> SUBSET Envelopes]
    /\ sent \in [Conns -> [Envelopes -> Nat]]
    /\ first \subseteq Conns
    /\ slot \in [Conns -> Nat]
    /\ held \in [Conns -> Nat]

\* What a publish does, whatever the server makes of its answer, and a step
\* that at most schedules a push.
Announcing(e) ==
    /\ Store!Announce(e) /\ Publish(RecipientOf[e], e)
    /\ UNCHANGED <<lifeVars, pathVars, first, missed>>
PushesOnly == UNCHANGED <<storeVars, regVars, lifeVars, pathVars, first, missed>>

(***************************************************************************)
(* Who is fed.  Arrays are numbered in the order of their allocation, so   *)
(* that a listener that holds the live array and issued a SUBSCRIBE issued *)
(* the SUBSCRIBE of that array.                                            *)
(***************************************************************************)

Numbered ==
    /\ \A c \in Conns : held[c] <= arrays /\ slot[c] <= arrays
    /\ \A d \in Devices : entry[d] <= arrays
    /\ \A d1, d2 \in Devices : entry[d1] # 0 /\ entry[d1] = entry[d2] => d1 = d2
    /\ \A c \in Conns, d \in Devices :
          entry[d] # 0 /\ (slot[c] = entry[d] \/ held[c] = entry[d]) => DeviceOf[c] = d

\* How far a socket's attach is, and what its listener then is.
Stage(c) ==
    /\ phase[c] \in {"new", "open", "counting", "failed"} =>
          state[c] = "idle" /\ c \notin first
    /\ phase[c] = "subscribing" =>
          state[c] \in {"subscribing", "answered", "attached", "failed"}
    /\ phase[c] \in {"selecting", "attached"} => state[c] \in {"attached", "removed"}
    /\ phase[c] = "noInbox" => state[c] = "failed"
    /\ sock[c] = "none" => phase[c] = "new"
    /\ state[c] = "removed" => sock[c] = "closed"
    /\ c \in handle => phase[c] = "attached"
    /\ phase[c] = "attached" => snap[c] = {}
Steps == \A c \in Conns : Stage(c)

Slots ==
    \A c \in Conns :
        /\ state[c] = "idle" => slot[c] = 0 /\ held[c] = 0
        /\ state[c] \in {"subscribing", "answered", "failed"} => slot[c] = 0
        /\ state[c] \in {"attached", "removed"} => held[c] = 0

Owns(c) ==
    /\ c \in first
    /\ entry[DeviceOf[c]] # 0
    /\ held[c] = entry[DeviceOf[c]] \/ slot[c] = entry[DeviceOf[c]]

\* The SUBSCRIBE of c is queued, and behind it no UNSUBSCRIBE of its device.
Asked(c) ==
    \E i \in 1..Len(commands) :
        /\ IsSubscribe(i) /\ commands[i].by = c
        /\ \A j \in 1..Len(commands) :
              j > i => ~(commands[j].op = "unsubscribe" /\ commands[j].chan = DeviceOf[c])
Answer(c, kind) == \E i \in 1..Len(stream) : stream[i] = [kind |-> kind, by |-> c]

SuppliedTo(c) ==
    /\ state[c] = "subscribing" =>
          \/ Asked(c)
          \/ Answer(c, "subscribed") /\ Served(DeviceOf[c])
          \/ Answer(c, "rejected")
    /\ state[c] \in {"answered", "attached"} => Served(DeviceOf[c])
Supplied == \A c \in Conns : Owns(c) => SuppliedTo(c)

LinkInv == RegInv /\ InboxTyped /\ Numbered /\ Steps /\ Slots /\ Supplied

-----------------------------------------------------------------------------

\* A step that sends no command and takes no reply off the stream.
LEMMA SuppliedStays ==
    ASSUME Supplied, UNCHANGED <<commands, upstream, state, first, entry, held, slot>>,
           \A c \in Conns, kind \in {"subscribed", "rejected"} :
              Answer(c, kind) => Answer(c, kind)'
    PROVE  Supplied'
<1> SUFFICES ASSUME NEW c \in Conns, Owns(c)' PROVE SuppliedTo(c)'
  BY DEF Supplied
<1>1. Owns(c)
  BY DEF Owns
<1>2. SuppliedTo(c)
  BY <1>1 DEF Supplied
<1>3. Asked(c)' <=> Asked(c)
  BY DEF Asked, IsSubscribe
<1>4. Served(DeviceOf[c])' <=> Served(DeviceOf[c])
  BY DEF Served, Queued
<1> QED BY <1>2, <1>3, <1>4 DEF SuppliedTo

LEMMA SuppliedAdd ==
    ASSUME LinkInv, NEW l \in Conns, Add(l),
           first' = IF entry[DeviceOf[l]] = 0 THEN first \cup {l} ELSE first,
           l \notin first
    PROVE  Supplied' /\ Numbered' /\ Slots'
<1>1. CASE AddNext(l)
  <2>1. /\ entry[ChannelOf[l]] # 0 /\ state[l] = "idle"
        /\ slot' = [slot EXCEPT ![l] = entry[ChannelOf[l]]]
        /\ state' = [state EXCEPT ![l] = "attached"]
        /\ UNCHANGED <<entry, held, commands, upstream, stream, arrays>>
    BY <1>1 DEF AddNext
  <2>2. first' = first
    BY <2>1
  <2>3. ChannelOf[l] \in Channels
    BY ChannelOfAssumption
  <2>4. Numbered'
    <3>1. \A c \in Conns : slot'[c] = IF c = l THEN entry[ChannelOf[l]] ELSE slot[c]
      BY <2>1 DEF LinkInv, InboxTyped
    <3> QED BY <2>1, <2>3, <3>1 DEF LinkInv, Numbered
  <2>5. Slots'
    BY <2>1 DEF LinkInv, InboxTyped, RegInv, RegTyped, Slots
  <2>6. ASSUME NEW c \in Conns, Owns(c)' PROVE SuppliedTo(c)'
    <3>1. c # l /\ c \in first
      BY <2>2, <2>6 DEF Owns
    <3>2. slot'[c] = slot[c] /\ state'[c] = state[c]
      BY <2>1, <3>1 DEF LinkInv, InboxTyped, RegInv, RegTyped
    <3>3. Owns(c)
      BY <2>1, <2>6, <3>1, <3>2 DEF Owns
    <3>4. SuppliedTo(c)
      BY <3>3 DEF LinkInv, Supplied
    <3> QED BY <2>1, <3>2, <3>4 DEF SuppliedTo, Asked, IsSubscribe, Answer, Served, Queued
  <2> QED BY <2>4, <2>5, <2>6 DEF Supplied
<1>2. CASE AddFirst(l)
  <2> DEFINE c0 == [op |-> "subscribe", chan |-> ChannelOf[l], by |-> l]
             m == Len(commands)
  <2>1. /\ entry[ChannelOf[l]] = 0 /\ state[l] = "idle"
        /\ arrays' = arrays + 1
        /\ entry' = [entry EXCEPT ![ChannelOf[l]] = arrays + 1]
        /\ held' = [held EXCEPT ![l] = arrays + 1]
        /\ state' = [state EXCEPT ![l] = "subscribing"]
        /\ commands' = Append(commands, c0)
        /\ UNCHANGED <<slot, upstream, stream>>
    BY <1>2 DEF AddFirst
  <2>2. first' = first \cup {l}
    BY <2>1
  <2>3. ChannelOf[l] \in Channels /\ arrays \in Nat
    BY ChannelOfAssumption DEF LinkInv, RegInv, RegTyped
  <2>4. c0.op = "subscribe" /\ c0.by = l
    OBVIOUS
  <2> HIDE DEF c0
  <2>5. /\ m \in Nat /\ Len(commands') = m + 1 /\ commands'[m + 1] = c0
        /\ \A i \in 1..m : commands'[i] = commands[i]
    BY <2>1 DEF LinkInv, RegInv, RegTyped
  <2>6. Numbered'
    <3>1. /\ \A c \in Conns : held'[c] = IF c = l THEN arrays + 1 ELSE held[c]
          /\ \A d \in Devices : entry'[d] = IF d = ChannelOf[l] THEN arrays + 1 ELSE entry[d]
          /\ \A c \in Conns : held[c] \in Nat /\ slot[c] \in Nat
          /\ \A d \in Devices : entry[d] \in Nat
      BY <2>1 DEF LinkInv, InboxTyped, RegInv, RegTyped
    <3> QED BY <2>1, <2>3, <3>1 DEF LinkInv, Numbered
  <2>7. Slots'
    BY <2>1 DEF LinkInv, InboxTyped, RegInv, RegTyped, Slots
  <2> HIDE DEF m
  <2>8. ASSUME NEW c \in Conns, Owns(c)' PROVE SuppliedTo(c)'
    <3>1. CASE c = l
      <4>1. Asked(l)'
        <5>1. PICK i \in 1..Len(commands') : i = m + 1
          BY <2>5
        <5>2. IsSubscribe(i)' /\ commands'[i].by = l
          BY <2>4, <2>5, <5>1 DEF IsSubscribe
        <5>3. ~ \E j \in 1..Len(commands') : j > i
          BY <2>5, <5>1
        <5> QED BY <5>2, <5>3 DEF Asked
      <4>2. state'[l] = "subscribing"
        BY <2>1 DEF LinkInv, RegInv, RegTyped
      <4> QED BY <3>1, <4>1, <4>2 DEF SuppliedTo
    <3>2. CASE c # l
      <4>1. c \in first /\ held'[c] = held[c] /\ state'[c] = state[c]
        BY <2>1, <2>2, <2>8, <3>2 DEF Owns, LinkInv, InboxTyped, RegInv, RegTyped
      <4>2. /\ held[c] \in Nat /\ slot[c] \in Nat
            /\ held[c] <= arrays /\ slot[c] <= arrays
        BY DEF LinkInv, InboxTyped, Numbered
      <4>3. ChannelOf[c] # ChannelOf[l]
        BY <2>1, <2>3, <2>8, <4>1, <4>2 DEF Owns, LinkInv, RegInv, RegTyped
      <4>4. entry'[ChannelOf[c]] = entry[ChannelOf[c]]
        BY <2>1, <4>3, ChannelOfAssumption DEF LinkInv, RegInv, RegTyped
      <4>5. SuppliedTo(c)
        BY <2>1, <2>8, <4>1, <4>4 DEF Owns, LinkInv, Supplied
      <4>6. Asked(c) => Asked(c)'
        BY <2>4, <2>5 DEF Asked, IsSubscribe, m
      <4>7. Served(DeviceOf[c]) => Served(DeviceOf[c])'
        BY <2>1, <2>4, <2>5 DEF Served, Queued, m
      <4>8. \A kind : Answer(c, kind) => Answer(c, kind)'
        BY <2>1 DEF Answer
      <4> QED BY <4>1, <4>5, <4>6, <4>7, <4>8 DEF SuppliedTo
    <3> QED BY <3>1, <3>2
  <2> QED BY <2>6, <2>7, <2>8 DEF Supplied
<1> QED BY <1>1, <1>2 DEF Add

LEMMA SuppliedResume ==
    ASSUME LinkInv, NEW l \in Conns, AddResume(l), UNCHANGED first
    PROVE  Supplied' /\ Numbered' /\ Slots'
<1>1. /\ state[l] = "answered"
      /\ slot' = [slot EXCEPT ![l] = held[l]]
      /\ held' = [held EXCEPT ![l] = 0]
      /\ state' = [state EXCEPT ![l] = "attached"]
      /\ UNCHANGED <<entry, commands, upstream, stream, arrays>>
  BY DEF AddResume
<1>2. \A c \in Conns : /\ slot'[c] = IF c = l THEN held[l] ELSE slot[c]
                       /\ held'[c] = IF c = l THEN 0 ELSE held[c]
                       /\ state'[c] = IF c = l THEN "attached" ELSE state[c]
                       /\ held[c] \in Nat /\ slot[c] \in Nat
  BY <1>1 DEF LinkInv, InboxTyped, RegInv, RegTyped
<1>3. Numbered'
  BY <1>1, <1>2 DEF LinkInv, Numbered, RegInv, RegTyped
<1>4. Slots'
  BY <1>1, <1>2 DEF LinkInv, Slots
<1>5. ASSUME NEW c \in Conns, Owns(c)' PROVE SuppliedTo(c)'
  <2>1. Owns(c)
    BY <1>1, <1>2, <1>5 DEF Owns
  <2>2. SuppliedTo(c)
    BY <2>1 DEF LinkInv, Supplied
  <2>3. UNCHANGED <<Asked(c), Answer(c, "subscribed"), Answer(c, "rejected"), Served(DeviceOf[c])>>
    BY <1>1 DEF Asked, IsSubscribe, Answer, Served, Queued
  <2> QED BY <1>1, <1>2, <2>2, <2>3 DEF SuppliedTo
<1> QED BY <1>3, <1>4, <1>5 DEF Supplied

LEMMA SuppliedRemove ==
    ASSUME LinkInv, NEW l \in Conns, Remove(l), UNCHANGED first
    PROVE  Supplied' /\ Numbered' /\ Slots'
<1> DEFINE m == Len(commands)
<1>1. PICK n \in Nat :
         /\ m \in Nat /\ commands' \in Seq(Command) /\ Len(commands') = m + n
         /\ \A i \in 1..m : commands'[i] = commands[i]
         /\ \A i \in 1..Len(commands') : i > m =>
               commands'[i].op = "unsubscribe" /\ entry'[commands'[i].chan] = 0
  BY RemoveAllSends DEF Remove, LinkInv
<1> HIDE DEF m
<1>2. /\ state[l] \in {"attached", "removed"}
      /\ \A c \in Conns : state'[c] = IF c = l THEN "removed" ELSE state[c]
      /\ \A c \in Conns : slot'[c] = slot[c] \/ slot'[c] = 0
      /\ \A c \in Conns : c # l => slot'[c] = slot[c]
      /\ \A d \in Channels : entry'[d] # 0 => entry'[d] = entry[d]
      /\ UNCHANGED <<held, upstream, stream, arrays>>
  BY DEF Remove, RemoveAll
<1>3. /\ \A d \in Channels : entry[d] \in Nat
      /\ arrays \in Nat
  BY DEF LinkInv, RegInv, RegTyped
<1>4. Numbered'
  <2>1. \A d \in Channels : entry'[d] <= arrays
    BY <1>2, <1>3 DEF LinkInv, Numbered
  <2>2. \A c \in Conns : held[c] <= arrays /\ slot'[c] <= arrays
    BY <1>2, <1>3 DEF LinkInv, Numbered
  <2>3. \A d1, d2 \in Devices : entry'[d1] # 0 /\ entry'[d1] = entry'[d2] => d1 = d2
    BY <1>2 DEF LinkInv, Numbered
  <2>4. \A c \in Conns, d \in Devices :
           entry'[d] # 0 /\ (slot'[c] = entry'[d] \/ held[c] = entry'[d]) => DeviceOf[c] = d
    BY <1>2 DEF LinkInv, Numbered
  <2> QED BY <1>2, <2>1, <2>2, <2>3, <2>4 DEF Numbered
<1>5. Slots'
  BY <1>2 DEF LinkInv, Slots
<1>6. ASSUME NEW c \in Conns, Owns(c)' PROVE SuppliedTo(c)'
  <2>1. CASE c = l
    BY <1>2, <2>1 DEF SuppliedTo
  <2>2. CASE c # l
    <3>1. entry'[ChannelOf[c]] # 0 /\ entry'[ChannelOf[c]] = entry[ChannelOf[c]]
      BY <1>2, <1>6, ChannelOfAssumption DEF Owns
    <3>2. Owns(c) /\ state'[c] = state[c]
      BY <1>2, <1>6, <2>2, <3>1 DEF Owns
    <3>3. SuppliedTo(c)
      BY <3>2 DEF LinkInv, Supplied
    <3>4. \A j \in 1..Len(commands') :
             commands'[j].op = "unsubscribe" /\ commands'[j].chan = ChannelOf[c] =>
                j \in 1..m /\ commands'[j] = commands[j]
      BY <1>1, <3>1
    <3>5. Asked(c) => Asked(c)'
      BY <1>1, <3>4 DEF Asked, IsSubscribe, m
    <3>6. Served(DeviceOf[c]) => Served(DeviceOf[c])'
      BY <1>2, <3>4 DEF Served, Queued, m
    <3>7. \A kind : Answer(c, kind) => Answer(c, kind)'
      BY <1>2 DEF Answer
    <3> QED BY <3>2, <3>3, <3>5, <3>6, <3>7 DEF SuppliedTo
  <2> QED BY <2>1, <2>2
<1> QED BY <1>4, <1>5, <1>6 DEF Supplied

\* SUBSCRIBE executed or refused: its sender, and nobody else, gets a reply.
LEMMA SuppliedServe ==
    ASSUME LinkInv, ServeSubscribe \/ RejectSubscribe, UNCHANGED first
    PROVE  Supplied' /\ Numbered' /\ Slots'
<1> DEFINE q == Head(commands)
           m == Len(commands)
<1>1. /\ commands # <<>> /\ commands' = Tail(commands) /\ q.op = "subscribe"
      /\ UNCHANGED <<entry, slot, held, state, arrays>>
  BY DEF ServeSubscribe, RejectSubscribe
<1>2. PICK kind \in {"subscribed", "rejected"} :
         /\ stream' = Append(stream, [kind |-> kind, by |-> q.by])
         /\ kind = "subscribed" => upstream' = upstream \cup {q.chan}
         /\ kind = "rejected" => upstream' = upstream
  BY DEF ServeSubscribe, RejectSubscribe
<1>3. /\ m \in Nat /\ 1 \in 1..m /\ q = commands[1]
      /\ Len(commands') = m - 1
      /\ \A i \in 1..Len(commands') : i + 1 \in 1..m /\ commands'[i] = commands[i + 1]
      /\ \A i \in 1..m : i # 1 => i - 1 \in 1..Len(commands') /\ commands[i] = commands'[i - 1]
  BY <1>1, Behind DEF LinkInv, RegInv, RegTyped
<1> DEFINE r == [kind |-> kind, by |-> q.by]
<1>4. /\ Len(stream) \in Nat /\ Len(stream') = Len(stream) + 1
      /\ stream'[Len(stream) + 1] = r
      /\ \A i \in 1..Len(stream) : stream'[i] = stream[i]
  BY <1>2 DEF LinkInv, RegInv, RegTyped
<1>5. IsSubscribe(1) /\ q.chan = ChannelOf[q.by]
  BY <1>1, <1>3 DEF IsSubscribe, LinkInv, RegInv, Waiting
<1> HIDE DEF q, m, r
<1>6. Numbered' /\ Slots'
  BY <1>1 DEF LinkInv, Numbered, Slots
<1>7. ASSUME NEW c \in Conns, Owns(c)' PROVE SuppliedTo(c)'
  <2>1. Owns(c)
    BY <1>1, <1>7 DEF Owns
  <2>2. SuppliedTo(c)
    BY <2>1 DEF LinkInv, Supplied
  <2>3. Served(DeviceOf[c]) => Served(DeviceOf[c])'
    <3>1. Queued("unsubscribe", DeviceOf[c])' => Queued("unsubscribe", DeviceOf[c])
      BY <1>3 DEF Queued, m
    <3> QED BY <1>2, <3>1 DEF Served
  <2>4. ASSUME NEW k \in {"subscribed", "rejected"}, Answer(c, k) PROVE Answer(c, k)'
    BY <1>4, <2>4 DEF Answer
  <2>5. ASSUME Asked(c)
        PROVE  \/ Asked(c)' \/ Answer(c, "rejected")'
               \/ Answer(c, "subscribed")' /\ Served(DeviceOf[c])'
    <3>1. PICK i \in 1..m :
             /\ IsSubscribe(i) /\ commands[i].by = c
             /\ \A j \in 1..m :
                   j > i => ~(commands[j].op = "unsubscribe" /\ commands[j].chan = DeviceOf[c])
      BY <2>5 DEF Asked, m
    <3>2. \A j \in 1..Len(commands') :
             j + 1 > i => ~(commands'[j].op = "unsubscribe" /\ commands'[j].chan = DeviceOf[c])
      <4> SUFFICES ASSUME NEW j \in 1..Len(commands'), j + 1 > i
                   PROVE  ~(commands'[j].op = "unsubscribe" /\ commands'[j].chan = DeviceOf[c])
        OBVIOUS
      <4>1. j + 1 \in 1..m /\ commands'[j] = commands[j + 1]
        BY <1>3
      <4> QED BY <3>1, <4>1
    <3>3. CASE i = 1
      <4>1. q.by = c /\ q.chan = DeviceOf[c]
        BY <1>3, <1>5, <3>1, <3>3
      <4>2. ~Queued("unsubscribe", DeviceOf[c])'
        BY <1>3, <3>2, <3>3 DEF Queued
      <4>3. PICK i0 \in 1..Len(stream') : stream'[i0] = r
        BY <1>4
      <4>4. Answer(c, kind)'
        BY <4>1, <4>3 DEF Answer, r
      <4> QED BY <1>2, <4>1, <4>2, <4>4 DEF Served
    <3>4. CASE i # 1
      <4>1. PICK i1 \in 1..Len(commands') : i1 = i - 1
        BY <1>3, <3>4
      <4>2. IsSubscribe(i1)' /\ commands'[i1].by = c
        BY <1>3, <3>1, <3>4, <4>1 DEF IsSubscribe
      <4>3. \A j \in 1..Len(commands') :
               j > i1 => ~(commands'[j].op = "unsubscribe" /\ commands'[j].chan = DeviceOf[c])
        BY <1>3, <3>1, <3>2, <4>1
      <4> QED BY <4>2, <4>3 DEF Asked
    <3> QED BY <3>3, <3>4
  <2> QED BY <1>1, <2>2, <2>3, <2>4, <2>5 DEF SuppliedTo
<1> QED BY <1>6, <1>7 DEF Supplied

LEMMA SuppliedUnserve ==
    ASSUME LinkInv, ServeUnsubscribe, UNCHANGED first
    PROVE  Supplied' /\ Numbered' /\ Slots'
<1> DEFINE q == Head(commands)
           m == Len(commands)
<1>1. /\ commands # <<>> /\ commands' = Tail(commands) /\ q.op = "unsubscribe"
      /\ upstream' = upstream \ {q.chan}
      /\ UNCHANGED <<entry, slot, held, state, stream, arrays>>
  BY DEF ServeUnsubscribe
<1>2. /\ m \in Nat /\ 1 \in 1..m /\ q = commands[1]
      /\ Len(commands') = m - 1
      /\ \A i \in 1..Len(commands') : i + 1 \in 1..m /\ commands'[i] = commands[i + 1]
      /\ \A i \in 1..m : i # 1 => i - 1 \in 1..Len(commands') /\ commands[i] = commands'[i - 1]
  BY <1>1, Behind DEF LinkInv, RegInv, RegTyped
<1> HIDE DEF q, m
<1>3. Numbered' /\ Slots'
  BY <1>1 DEF LinkInv, Numbered, Slots
<1>4. ASSUME NEW c \in Conns, Owns(c)' PROVE SuppliedTo(c)'
  <2>1. SuppliedTo(c)
    BY <1>1, <1>4 DEF Owns, LinkInv, Supplied
  <2>2. Served(DeviceOf[c]) => Served(DeviceOf[c])'
    <3>1. Queued("unsubscribe", DeviceOf[c])' => Queued("unsubscribe", DeviceOf[c])
      BY <1>2 DEF Queued, m
    <3>2. q.chan = DeviceOf[c] => Queued("unsubscribe", DeviceOf[c])
      BY <1>1, <1>2 DEF Queued, m
    <3> QED BY <1>1, <3>1, <3>2 DEF Served
  <2>3. \A kind : Answer(c, kind) => Answer(c, kind)'
    BY <1>1 DEF Answer
  <2>4. ASSUME Asked(c) PROVE Asked(c)'
    <3>1. PICK i \in 1..m :
             /\ IsSubscribe(i) /\ commands[i].by = c
             /\ \A j \in 1..m :
                   j > i => ~(commands[j].op = "unsubscribe" /\ commands[j].chan = DeviceOf[c])
      BY <2>4 DEF Asked, m
    <3>2. i # 1
      BY <1>1, <1>2, <3>1 DEF IsSubscribe
    <3>3. PICK i1 \in 1..Len(commands') : i1 = i - 1
      BY <1>2, <3>2
    <3>4. IsSubscribe(i1)' /\ commands'[i1].by = c
      BY <1>2, <3>1, <3>2, <3>3 DEF IsSubscribe
    <3>5. \A j \in 1..Len(commands') :
             j > i1 => ~(commands'[j].op = "unsubscribe" /\ commands'[j].chan = DeviceOf[c])
      <4> SUFFICES ASSUME NEW j \in 1..Len(commands'), j > i1
                   PROVE  ~(commands'[j].op = "unsubscribe" /\ commands'[j].chan = DeviceOf[c])
        OBVIOUS
      <4>1. j + 1 \in 1..m /\ commands'[j] = commands[j + 1] /\ j + 1 > i
        BY <1>2, <3>3
      <4> QED BY <3>1, <4>1
    <3> QED BY <3>4, <3>5 DEF Asked
  <2> QED BY <1>1, <2>1, <2>2, <2>3, <2>4 DEF SuppliedTo
<1> QED BY <1>3, <1>4 DEF Supplied

\* The reply a listener reads is the only one that is under way for it.
LEMMA SuppliedReply ==
    ASSUME LinkInv, ReadReply, UNCHANGED first
    PROVE  Supplied' /\ Numbered' /\ Slots'
<1> DEFINE r == Head(stream)
           n == Len(stream)
<1>1. /\ stream # <<>> /\ stream' = Tail(stream) /\ r.kind # "message"
      /\ state' = [state EXCEPT ![r.by] = IF r.kind = "subscribed" THEN "answered" ELSE "failed"]
      /\ UNCHANGED <<entry, slot, held, commands, upstream, arrays>>
  BY DEF ReadReply
<1>2. /\ n \in Nat /\ 1 \in 1..n /\ r = stream[1]
      /\ \A i \in 1..n : i # 1 => i - 1 \in 1..Len(stream') /\ stream[i] = stream'[i - 1]
  BY <1>1, Behind DEF LinkInv, RegInv, RegTyped
<1> HIDE DEF n
<1>3. IsReply(1) /\ r.by \in Listeners /\ state[r.by] = "subscribing"
  BY <1>1, <1>2 DEF IsReply, LinkInv, RegInv, Waiting, n
<1>4. \A c \in Conns : state'[c] = IF c # r.by THEN state[c]
                                   ELSE IF r.kind = "subscribed" THEN "answered" ELSE "failed"
  BY <1>1, <1>3 DEF LinkInv, RegInv, RegTyped
<1> HIDE DEF r
<1>5. Numbered'
  BY <1>1 DEF LinkInv, Numbered
<1>6. Slots'
  BY <1>1, <1>3, <1>4 DEF LinkInv, Slots
<1>7. ASSUME NEW c \in Conns, Owns(c)' PROVE SuppliedTo(c)'
  <2>1. SuppliedTo(c)
    BY <1>1, <1>7 DEF Owns, LinkInv, Supplied
  <2>2. UNCHANGED <<Asked(c), Served(DeviceOf[c])>>
    BY <1>1 DEF Asked, IsSubscribe, Served, Queued
  <2>3. CASE c # r.by
    <3>1. ASSUME NEW kind \in {"subscribed", "rejected"}, Answer(c, kind)
          PROVE  Answer(c, kind)'
      <4>1. PICK i \in 1..n : stream[i] = [kind |-> kind, by |-> c]
        BY <3>1 DEF Answer, n
      <4>2. i # 1
        BY <1>2, <2>3, <4>1
      <4> QED BY <1>2, <4>1, <4>2 DEF Answer
    <3> QED BY <1>4, <2>1, <2>2, <2>3, <3>1 DEF SuppliedTo
  <2>4. CASE c = r.by
    <3>1. SUFFICES ASSUME r.kind = "subscribed" PROVE Served(DeviceOf[c])'
      BY <1>4, <2>4 DEF SuppliedTo
    <3>2. ~Asked(c)
      BY <1>2, <1>3, <2>4 DEF Asked, IsSubscribe, LinkInv, RegInv, Once, n
    <3>3. ~Answer(c, "rejected")
      <4> SUFFICES ASSUME NEW i \in 1..n, stream[i] = [kind |-> "rejected", by |-> c]
                   PROVE  FALSE
        BY DEF Answer, n
      <4>1. IsReply(i) /\ stream[i].by = stream[1].by
        BY <1>2, <2>4 DEF IsReply, n
      <4>2. i = 1
        BY <1>2, <1>3, <4>1 DEF LinkInv, RegInv, Once, n
      <4> QED BY <1>2, <3>1, <4>2
    <3> QED BY <1>3, <2>1, <2>2, <2>4, <3>2, <3>3 DEF SuppliedTo
  <2> QED BY <2>3, <2>4
<1> QED BY <1>5, <1>6, <1>7 DEF Supplied

-----------------------------------------------------------------------------
(***************************************************************************)
(* The steps of Inbox.                                                     *)
(***************************************************************************)

LEMMA SendAllDoes ==
    ASSUME InboxTyped, NEW c \in Conns, NEW S \in SUBSET Envelopes, SendAll(c, S)
    PROVE  /\ sent' \in [Conns -> [Envelopes -> Nat]]
           /\ \A k \in Conns, e \in Envelopes :
                 sent'[k][e] = IF k = c /\ sock[c] = "open" /\ e \in S
                               THEN sent[k][e] + 1 ELSE sent[k][e]
<1> DEFINE line == [e \in Envelopes |-> sent[c][e] + IF e \in S THEN 1 ELSE 0]
<1>1. line \in [Envelopes -> Nat]
  BY DEF InboxTyped
<1>2. \A e \in Envelopes : line[e] = IF e \in S THEN sent[c][e] + 1 ELSE sent[c][e]
  BY DEF InboxTyped
<1>3. sent' = IF sock[c] = "open" THEN [sent EXCEPT ![c] = line] ELSE sent
  BY DEF SendAll
<1> HIDE DEF line
<1> QED BY <1>1, <1>2, <1>3 DEF InboxTyped

LEMMA PublishSplits ==
    ASSUME NEW e \in Envelopes, Announce(e) \/ PublishFails(e)
    PROVE  Announcing(e) \/ PushesOnly
BY DEF Announce, PublishFails, Announcing, PushesOnly

LEMMA TypedKeeps ==
    ASSUME InboxTyped, RegInv, [Next]_vars
    PROVE  InboxTyped'
<1> USE DEF InboxTyped
<1>1. ASSUME NEW c \in Conns,
             Open(c) \/ Hello(c) \/ CountFails(c) \/ HelloTimeout(c) \/ OtherFrame(c)
      PROVE  InboxTyped'
  BY <1>1 DEF Open, Hello, CountFails, HelloTimeout, OtherFrame, storeVars, regVars,
              lifeVars, pathVars, Register
<1>2. ASSUME NEW c \in Conns, Close(c) PROVE InboxTyped'
  <2>1. slot' \in [Conns -> Nat] /\ held' = held
    <3>1. Remove(c) \/ UNCHANGED regVars
      BY <1>2 DEF Close
    <3>2. CASE Remove(c)
      BY <3>2 DEF Remove, RemoveAll
    <3>3. CASE UNCHANGED regVars
      BY <3>3 DEF regVars
    <3> QED BY <3>1, <3>2, <3>3
  <2> QED BY <1>2, <2>1 DEF Close, storeVars, pathVars
<1>3. ASSUME NEW c \in Conns, CountOk(c) PROVE InboxTyped'
  <2>1. slot' \in [Conns -> Nat] /\ held' \in [Conns -> Nat]
    <3>1. AddFirst(c) \/ AddNext(c)
      BY <1>3 DEF CountOk, Add
    <3>2. CASE AddFirst(c)
      BY <3>2 DEF AddFirst, RegInv, RegTyped
    <3>3. CASE AddNext(c)
      <4>1. entry[ChannelOf[c]] \in Nat
        BY ChannelOfAssumption DEF RegInv, RegTyped
      <4> QED BY <3>3, <4>1 DEF AddNext
    <3> QED BY <3>1, <3>2, <3>3
  <2> QED BY <1>3, <2>1 DEF CountOk, storeVars, pathVars
<1>4. ASSUME NEW c \in Conns, Resume(c) PROVE InboxTyped'
  BY <1>4 DEF Resume, AddResume, storeVars, pathVars, lifeVars
<1>5. ASSUME NEW c \in Conns, SelectRows(c) \/ AttachFails(c) \/ ReplayFails(c)
      PROVE  InboxTyped'
  <2>1. CASE SelectRows(c)
    <3>1. RowsOf(DeviceOf[c]) \subseteq Envelopes
      BY DEF RowsOf
    <3> QED BY <2>1, <3>1 DEF SelectRows, storeVars, regVars
  <2>2. CASE AttachFails(c)
    BY <2>2 DEF AttachFails, storeVars, regVars, pathVars
  <2>3. CASE ReplayFails(c)
    BY <2>3 DEF ReplayFails, storeVars, regVars
  <2> QED BY <1>5, <2>1, <2>2, <2>3
<1>6. ASSUME NEW c \in Conns, ReplayRows(c) PROVE InboxTyped'
  <2>1. sent' \in [Conns -> [Envelopes -> Nat]]
    BY <1>6, SendAllDoes DEF ReplayRows
  <2> QED BY <1>6, <2>1 DEF ReplayRows, Register, storeVars, regVars
<1>7. ASSUME NEW c \in Conns, NEW e \in Envelopes, Hydrate(c, e) PROVE InboxTyped'
  <2>1. sent' \in [Conns -> [Envelopes -> Nat]]
    BY <1>7, SendAllDoes DEF Hydrate
  <2> QED BY <1>7, <2>1 DEF Hydrate, storeVars, regVars, lifeVars
<1>8. ASSUME NEW c \in Conns, NEW e \in Envelopes, HydrateFails(c, e) PROVE InboxTyped'
  BY <1>8 DEF HydrateFails, storeVars, regVars, lifeVars
<1>9. ASSUME NEW d \in Devices, NEW e \in Envelopes, Dispatch(d, e) PROVE InboxTyped'
  BY <1>9 DEF Dispatch, ReadMessage, storeVars, lifeVars
<1>10. ASSUME NEW e \in Envelopes, Insert(e) \/ Announcing(e) \/ Vanish(e) PROVE InboxTyped'
  BY <1>10 DEF Insert, Announcing, Vanish, Store!Store, Store!Announce, Store!Cascade, Publish,
               regVars, lifeVars, pathVars
<1>11. ASSUME Redis PROVE InboxTyped'
  BY <1>11 DEF Redis, RedisStep, ServeSubscribe, RejectSubscribe, ServeUnsubscribe, ReadReply,
               storeVars, lifeVars, pathVars
<1>12. ASSUME PushesOnly PROVE InboxTyped'
  BY <1>12 DEF PushesOnly, storeVars, regVars, lifeVars, pathVars
<1>13. UNCHANGED vars => PushesOnly
  BY DEF vars, PushesOnly
<1> QED
  BY <1>1, <1>2, <1>3, <1>4, <1>5, <1>6, <1>7, <1>8, <1>9, <1>10, <1>11, <1>12, <1>13,
     PublishSplits DEF Next, Attach, Live

\* A step that leaves the registry alone.
LEMMA LinkStays ==
    ASSUME LinkInv, InboxTyped', Steps', UNCHANGED <<regVars, first>> PROVE LinkInv'
<1>1. UNCHANGED <<commands, upstream, state, first, entry, held, slot, stream, arrays>>
  BY DEF regVars
<1>2. RegInv'
  BY RegStays DEF LinkInv
<1>3. Supplied'
  BY <1>1, SuppliedStays DEF LinkInv, Answer
<1>4. Numbered' /\ Slots'
  BY <1>1 DEF LinkInv, Numbered, Slots
<1> QED BY <1>2, <1>3, <1>4 DEF LinkInv

LEMMA LinkKeeps ==
    ASSUME LinkInv, [Next]_vars PROVE LinkInv'
<1> USE DEF LinkInv
<1>0. InboxTyped'
  BY TypedKeeps
<1>1. ASSUME NEW c \in Conns,
             Open(c) \/ Hello(c) \/ CountFails(c) \/ HelloTimeout(c) \/ OtherFrame(c)
      PROVE  LinkInv'
  <2>1. UNCHANGED <<regVars, first, state, handle, snap>>
    BY <1>1 DEF Open, Hello, CountFails, HelloTimeout, OtherFrame, regVars, lifeVars, pathVars
  <2>2. \A k \in Conns :
           \/ /\ phase'[k] = phase[k] /\ (sock'[k] = "none" => sock[k] = "none")
              /\ sock[k] = "closed" => sock'[k] = "closed"
           \/ /\ phase[k] \in {"new", "open", "counting"}
              /\ phase'[k] \in {"open", "counting", "failed"} /\ sock'[k] # "none"
    BY <1>1 DEF Open, Hello, CountFails, HelloTimeout, OtherFrame, InboxTyped, Steps, Stage
  <2>3. Steps'
    BY <2>1, <2>2 DEF Steps, Stage
  <2> QED BY <1>0, <2>1, <2>3, LinkStays
<1>2. ASSUME NEW c \in Conns, Close(c) PROVE LinkInv'
  <2>1. /\ UNCHANGED <<phase, snap, first>> /\ handle' = handle \ {c}
        /\ sock' = [sock EXCEPT ![c] = "closed"] /\ (Remove(c) \/ UNCHANGED regVars)
        /\ c \notin handle => UNCHANGED regVars
    BY <1>2 DEF Close, pathVars
  <2>2. CASE Remove(c) /\ c \in handle
    <3>1. /\ state[c] \in {"attached", "removed"} /\ state'[c] = "removed"
          /\ \A k \in Conns \ {c} : state'[k] = state[k]
      BY <2>2 DEF Remove, RemoveAll
    <3>2. Steps'
      BY <2>1, <2>2, <3>1 DEF Steps, Stage, InboxTyped
    <3>3. RegInv'
      BY <2>2, RemoveAllKeeps DEF Remove
    <3> QED BY <1>0, <2>1, <2>2, <3>2, <3>3, SuppliedRemove
  <2>3. CASE UNCHANGED regVars
    <3>1. Steps'
      BY <2>1, <2>3 DEF Steps, Stage, InboxTyped, regVars
    <3> QED BY <1>0, <2>1, <2>3, <3>1, LinkStays
  <2> QED BY <2>1, <2>2, <2>3
<1>3. ASSUME NEW c \in Conns, CountOk(c) PROVE LinkInv'
  <2>1. /\ phase[c] = "counting" /\ phase' = [phase EXCEPT ![c] = "subscribing"]
        /\ Add(c) /\ UNCHANGED <<sock, handle, snap>>
        /\ first' = IF entry[DeviceOf[c]] = 0 THEN first \cup {c} ELSE first
    BY <1>3 DEF CountOk, pathVars
  <2>2. state[c] = "idle" /\ c \notin first
    BY <2>1 DEF Steps, Stage
  <2>3. RegInv' /\ Supplied' /\ Numbered' /\ Slots'
    BY <2>1, <2>2, AddFirstKeeps, AddNextKeeps, SuppliedAdd DEF Add
  <2>4. /\ state'[c] \in {"subscribing", "attached"}
        /\ \A k \in Conns \ {c} : state'[k] = state[k]
    BY <2>1 DEF Add, AddFirst, AddNext, RegInv, RegTyped
  <2>5. \A k \in Conns \ {c} : k \in first' <=> k \in first
    BY <2>1
  <2>6. Steps'
    BY <2>1, <2>4, <2>5 DEF Steps, Stage, InboxTyped
  <2> QED BY <1>0, <2>3, <2>6
<1>4. ASSUME NEW c \in Conns, Resume(c) PROVE LinkInv'
  <2>1. AddResume(c) /\ UNCHANGED <<sock, phase, handle, snap, first>>
    BY <1>4 DEF Resume, lifeVars, pathVars
  <2>2. /\ state[c] = "answered" /\ state'[c] = "attached"
        /\ \A k \in Conns \ {c} : state'[k] = state[k]
    BY <2>1 DEF AddResume, RegInv, RegTyped
  <2>3. Steps'
    BY <2>1, <2>2 DEF Steps, Stage
  <2>4. RegInv'
    BY <2>1, AddResumeKeeps
  <2> QED BY <1>0, <2>1, <2>3, <2>4, SuppliedResume
<1>5. ASSUME NEW c \in Conns,
             SelectRows(c) \/ AttachFails(c) \/ ReplayRows(c) \/ ReplayFails(c)
      PROVE  LinkInv'
  <2>1. UNCHANGED <<regVars, first, state, sock>>
    BY <1>5 DEF SelectRows, AttachFails, ReplayRows, ReplayFails, regVars
  <2>2. \A k \in Conns \ {c} : phase'[k] = phase[k] /\ snap'[k] = snap[k]
    BY <1>5 DEF SelectRows, AttachFails, ReplayRows, ReplayFails, InboxTyped, pathVars
  <2>3. \/ /\ phase'[c] = "selecting" /\ state[c] = "attached" /\ handle' = handle
           /\ c \notin handle /\ phase[c] = "subscribing"
        \/ /\ phase'[c] = "noInbox" /\ state[c] = "failed" /\ handle' = handle
           /\ c \notin handle /\ phase[c] = "subscribing"
        \/ /\ phase'[c] = "attached" /\ snap'[c] = {} /\ handle' = handle \cup {c}
           /\ phase[c] = "selecting"
    BY <1>5 DEF SelectRows, AttachFails, ReplayRows, ReplayFails, InboxTyped, Steps, Stage
  <2>4. Steps'
    <3> SUFFICES ASSUME NEW k \in Conns PROVE Stage(k)'
      BY DEF Steps
    <3>1. CASE k = c
      BY <2>1, <2>3, <3>1 DEF Steps, Stage
    <3>2. CASE k # c
      BY <2>1, <2>2, <2>3, <3>2 DEF Steps, Stage
    <3> QED BY <3>1, <3>2
  <2> QED BY <1>0, <2>1, <2>4, LinkStays
<1>6. ASSUME NEW c \in Conns, NEW e \in Envelopes, Hydrate(c, e) \/ HydrateFails(c, e)
      PROVE  LinkInv'
  <2>1. UNCHANGED <<regVars, first, state, sock, phase, handle, snap>>
    BY <1>6 DEF Hydrate, HydrateFails, regVars, lifeVars
  <2>2. Steps'
    BY <2>1 DEF Steps, Stage
  <2> QED BY <1>0, <2>1, <2>2, LinkStays
<1>7. ASSUME NEW d \in Devices, NEW e \in Envelopes, Dispatch(d, e) PROVE LinkInv'
  <2>1. ReadMessage /\ UNCHANGED <<first, sock, phase, handle, snap>>
    BY <1>7 DEF Dispatch, lifeVars
  <2>2. /\ stream # <<>> /\ Head(stream).kind = "message" /\ stream' = Tail(stream)
        /\ UNCHANGED <<entry, slot, held, state, commands, upstream, arrays>>
    BY <2>1 DEF ReadMessage
  <2>3. Steps' /\ Numbered' /\ Slots'
    BY <2>1, <2>2 DEF Steps, Stage, Numbered, Slots
  <2>4. ASSUME NEW c \in Conns, NEW kind \in {"subscribed", "rejected"}, Answer(c, kind)
        PROVE  Answer(c, kind)'
    <3>1. PICK i \in 1..Len(stream) : stream[i] = [kind |-> kind, by |-> c]
      BY <2>4 DEF Answer
    <3>2. Head(stream) = stream[1] /\ stream[i].kind # "message"
      BY <2>2, <3>1, Behind DEF RegInv, RegTyped
    <3>3. i - 1 \in 1..Len(stream') /\ stream[i] = stream'[i - 1]
      BY <2>2, <3>2, Behind DEF RegInv, RegTyped
    <3> QED BY <3>1, <3>3 DEF Answer
  <2>5. Supplied'
    BY <2>1, <2>2, <2>4, SuppliedStays
  <2> QED BY <1>0, <2>1, <2>3, <2>5, ReadMessageKeeps
<1>8. ASSUME NEW e \in Envelopes, Insert(e) \/ Vanish(e) PROVE LinkInv'
  <2>1. UNCHANGED <<regVars, first, state, sock, phase, handle, snap>>
    BY <1>8 DEF Insert, Vanish, regVars, lifeVars, pathVars
  <2>2. Steps'
    BY <2>1 DEF Steps, Stage
  <2> QED BY <1>0, <2>1, <2>2, LinkStays
<1>9. ASSUME NEW e \in Envelopes, Announcing(e) PROVE LinkInv'
  <2>1. /\ Publish(RecipientOf[e], e) /\ RecipientOf[e] \in Channels
        /\ UNCHANGED <<first, sock, phase, handle, snap>>
    BY <1>9, InboxAssumptions DEF Announcing, lifeVars, pathVars
  <2>2. UNCHANGED <<entry, slot, held, state, commands, upstream, arrays>>
    BY <2>1 DEF Publish
  <2>3. Steps' /\ Numbered' /\ Slots'
    BY <2>1, <2>2 DEF Steps, Stage, Numbered, Slots
  <2>4. Len(stream) \in Nat /\ \A i \in 1..Len(stream) :
           i \in 1..Len(stream') /\ stream'[i] = stream[i]
    BY <2>1 DEF Publish, RegInv, RegTyped
  <2>5. Supplied'
    BY <2>1, <2>2, <2>4, SuppliedStays DEF Answer
  <2> QED BY <1>0, <2>1, <2>3, <2>5, PublishKeeps
<1>10. ASSUME Redis PROVE LinkInv'
  <2>1. RedisStep /\ UNCHANGED <<first, sock, phase, handle, snap>>
    BY <1>10 DEF Redis, lifeVars, pathVars
  <2>2. CASE ReadReply
    <3>1. PICK l \in Conns :
             /\ state[l] = "subscribing" /\ state'[l] \in {"answered", "failed"}
             /\ \A k \in Conns \ {l} : state'[k] = state[k]
      BY <2>2, ReadReplyKeeps
    <3>2. Steps'
      BY <2>1, <3>1 DEF Steps, Stage
    <3> QED BY <1>0, <2>1, <2>2, <3>2, ReadReplyKeeps, SuppliedReply
  <2>3. CASE ServeSubscribe \/ RejectSubscribe \/ ServeUnsubscribe
    <3>1. state' = state
      BY <2>3 DEF ServeSubscribe, RejectSubscribe, ServeUnsubscribe
    <3>2. Steps'
      BY <2>1, <3>1 DEF Steps, Stage
    <3>3. RegInv'
      BY <2>3, ServeSubscribeKeeps, ServeUnsubscribeKeeps
    <3> QED BY <1>0, <2>1, <2>3, <3>2, <3>3, SuppliedServe, SuppliedUnserve
  <2> QED BY <2>1, <2>2, <2>3 DEF RedisStep
<1>11. ASSUME PushesOnly PROVE LinkInv'
  <2>1. UNCHANGED <<regVars, first, state, sock, phase, handle, snap>>
    BY <1>11 DEF PushesOnly, regVars, lifeVars, pathVars
  <2>2. Steps'
    BY <2>1 DEF Steps, Stage
  <2> QED BY <1>0, <2>1, <2>2, LinkStays
<1>12. UNCHANGED vars => PushesOnly
  BY DEF vars, PushesOnly
<1> QED
  BY <1>1, <1>2, <1>3, <1>4, <1>5, <1>6, <1>7, <1>8, <1>9, <1>10, <1>11, <1>12,
     PublishSplits DEF Next, Attach, Live

-----------------------------------------------------------------------------
(***************************************************************************)
(* The envelopes.                                                          *)
(***************************************************************************)

Published ==
    /\ \A e \in announced : status[e] # "absent"
    /\ \A i \in 1..Len(stream) : stream[i].kind = "message" =>
          /\ stream[i].payload \in announced
          /\ RecipientOf[stream[i].payload] = stream[i].chan

\* What has become of an envelope that a socket took notice of.
Path(c, e) ==
    /\ e \in hydrating[c] => e \in seen[c]
    /\ e \in seen[c] \cup snap[c] => RecipientOf[e] = DeviceOf[c] /\ status[e] # "absent"
    /\ sent[c][e] > 0 => e \in seen[c]
    /\ sock[c] = "open" /\ e \in seen[c] /\ status[e] = "stored" =>
          sent[c][e] > 0 \/ e \in hydrating[c] \/ e \in missed[c]
    /\ state[c] = "idle" => e \notin seen[c] \cup snap[c]

Listening(c) ==
    /\ sock[c] = "open" /\ phase[c] \in {"selecting", "attached"}
    /\ c \in first /\ c \in Receivers(DeviceOf[c])

Handed(c, e) ==
    Listening(c) /\ e \in RowsOf(DeviceOf[c]) => e \in snap[c] \/ Covered(c, e)

PathsInv == \A c \in Conns, e \in Envelopes : Path(c, e) /\ Handed(c, e)
InboxInv == LinkInv /\ Published /\ PathsInv

LEMMA ListeningIsServed ==
    ASSUME LinkInv, NEW c \in Conns, Listening(c) PROVE Served(DeviceOf[c])
<1>1. entry[DeviceOf[c]] # 0 /\ slot[c] = entry[DeviceOf[c]] /\ c \in first
  BY DEF Listening, Receivers
<1>2. state[c] = "attached"
  BY DEF Listening, LinkInv, Steps, Stage
<1>3. Owns(c)
  BY <1>1 DEF Owns
<1> QED BY <1>2, <1>3 DEF LinkInv, Supplied, SuppliedTo

\* Nothing but sockets and the registry moves, and nobody starts listening.
LEMMA PathsStay ==
    ASSUME InboxInv,
           UNCHANGED <<status, announced, stream, snap, seen, hydrating, sent, missed>>,
           \A c \in Conns :
              /\ sock'[c] = "open" => sock[c] = "open" \/ state[c] = "idle"
              /\ state'[c] = "idle" => state[c] = "idle"
              /\ Listening(c)' => Listening(c)
    PROVE  Published' /\ PathsInv'
<1>1. Published'
  BY DEF InboxInv, Published
<1>2. ASSUME NEW c \in Conns, NEW e \in Envelopes PROVE Path(c, e)' /\ Handed(c, e)'
  <2>1. Path(c, e) /\ Handed(c, e)
    BY DEF InboxInv, PathsInv
  <2>2. Path(c, e)'
    BY <2>1 DEF Path
  <2>3. Handed(c, e)'
    BY <2>1 DEF Handed, Covered, InFlight, RowsOf
  <2> QED BY <2>2, <2>3
<1> QED BY <1>1, <1>2 DEF PathsInv

LEMMA LifeKeepsPaths ==
    ASSUME InboxInv, NEW c \in Conns,
           \/ Open(c) \/ Hello(c) \/ CountFails(c) \/ HelloTimeout(c) \/ OtherFrame(c)
           \/ AttachFails(c)
    PROVE  Published' /\ PathsInv'
<1>1. UNCHANGED <<status, announced, stream, snap, seen, hydrating, sent, missed,
                  state, entry, slot, first>>
  BY DEF Open, Hello, CountFails, HelloTimeout, OtherFrame, AttachFails, storeVars, regVars,
         pathVars
<1>2. \A k \in Conns :
         /\ sock'[k] = "open" => sock[k] \in {"open", "none"}
         /\ phase'[k] \in {"selecting", "attached"} => phase'[k] = phase[k]
         /\ sock[k] = "none" => phase'[k] \in {"new", "open"} /\ phase[k] = "new"
  BY DEF Open, Hello, CountFails, HelloTimeout, OtherFrame, AttachFails, InboxInv, LinkInv,
         InboxTyped, Steps, Stage
<1>3. \A k \in Conns : sock[k] = "none" => state[k] = "idle"
  BY <1>2 DEF InboxInv, LinkInv, Steps, Stage
<1>4. \A k \in Conns : Listening(k)' => Listening(k)
  BY <1>1, <1>2 DEF Listening, Receivers
<1> QED BY <1>1, <1>2, <1>3, <1>4, PathsStay

LEMMA CloseKeepsPaths ==
    ASSUME InboxInv, NEW c \in Conns, Close(c) PROVE Published' /\ PathsInv'
<1>1. /\ UNCHANGED <<status, announced, snap, seen, hydrating, sent, missed,
                     phase, first>>
      /\ \A k \in Conns : sock'[k] = IF k = c THEN "closed" ELSE sock[k]
      /\ Remove(c) \/ UNCHANGED regVars
  BY DEF Close, storeVars, pathVars, InboxInv, LinkInv, InboxTyped
<1>2. /\ UNCHANGED stream
      /\ \A k \in Conns : state'[k] = "idle" => state[k] = "idle"
      /\ \A k \in Conns \ {c} : slot'[k] = slot[k]
      /\ \A d \in Channels : entry'[d] # 0 => entry'[d] = entry[d]
  <2>1. CASE Remove(c)
    BY <2>1 DEF Remove, RemoveAll
  <2>2. CASE UNCHANGED regVars
    BY <2>2 DEF regVars
  <2> QED BY <1>1, <2>1, <2>2
<1>3. \A k \in Conns : Listening(k)' => Listening(k)
  BY <1>1, <1>2, ChannelOfAssumption DEF Listening, Receivers
<1> QED BY <1>1, <1>2, <1>3, PathsStay

LEMMA CountOkKeepsPaths ==
    ASSUME InboxInv, NEW c \in Conns, CountOk(c) PROVE Published' /\ PathsInv'
<1>1. /\ UNCHANGED <<status, announced, snap, seen, hydrating, sent, missed, sock>>
      /\ \A k \in Conns : phase'[k] = IF k = c THEN "subscribing" ELSE phase[k]
      /\ AddFirst(c) \/ AddNext(c)
      /\ first' \subseteq first \cup {c}
  BY DEF CountOk, Add, storeVars, pathVars, InboxInv, LinkInv, InboxTyped
<1>2. /\ UNCHANGED stream
      /\ \A k \in Conns : state'[k] = "idle" => state[k] = "idle"
      /\ \A k \in Conns \ {c} : slot'[k] = slot[k]
      /\ \A d \in Channels : entry'[d] = entry[d] \/ entry'[d] = arrays + 1
  <2>1. CASE AddFirst(c)
    BY <2>1 DEF AddFirst, InboxInv, LinkInv, RegInv, RegTyped
  <2>2. CASE AddNext(c)
    BY <2>2 DEF AddNext, InboxInv, LinkInv, InboxTyped, RegInv, RegTyped
  <2> QED BY <1>1, <2>1, <2>2
<1>3. \A k \in Conns : slot[k] <= arrays /\ slot[k] \in Nat /\ arrays \in Nat
  BY DEF InboxInv, LinkInv, Numbered, InboxTyped, RegInv, RegTyped
<1>4. \A k \in Conns : Listening(k)' => Listening(k)
  BY <1>1, <1>2, <1>3, ChannelOfAssumption DEF Listening, Receivers
<1> QED BY <1>1, <1>2, <1>4, PathsStay

LEMMA ResumeKeepsPaths ==
    ASSUME InboxInv, NEW c \in Conns, Resume(c) PROVE Published' /\ PathsInv'
<1>1. /\ UNCHANGED <<status, announced, snap, seen, hydrating, sent, missed, sock,
                     phase, first, stream, entry>>
      /\ state[c] = "answered"
      /\ \A k \in Conns : state'[k] = "idle" => state[k] = "idle"
      /\ \A k \in Conns \ {c} : slot'[k] = slot[k]
  BY DEF Resume, AddResume, storeVars, pathVars, lifeVars, InboxInv, LinkInv, InboxTyped, RegInv,
         RegTyped
<1>2. phase[c] \notin {"selecting", "attached"}
  BY <1>1 DEF InboxInv, LinkInv, Steps, Stage
<1>3. \A k \in Conns : Listening(k)' => Listening(k)
  BY <1>1, <1>2 DEF Listening, Receivers
<1> QED BY <1>1, <1>3, PathsStay

\* The replay: what the SELECT returns is what the socket still lacks.
LEMMA SelectRowsKeepsPaths ==
    ASSUME InboxInv, NEW c \in Conns, SelectRows(c) PROVE Published' /\ PathsInv'
<1>1. /\ UNCHANGED <<status, announced, stream, seen, hydrating, sent, missed,
                     sock, state, entry, slot, first>>
      /\ snap'[c] = RowsOf(DeviceOf[c]) /\ state[c] = "attached"
      /\ \A k \in Conns \ {c} : snap'[k] = snap[k] /\ phase'[k] = phase[k]
  BY DEF SelectRows, storeVars, regVars, InboxInv, LinkInv, InboxTyped
<1>2. Published'
  BY <1>1 DEF InboxInv, Published
<1>3. ASSUME NEW k \in Conns, NEW e \in Envelopes PROVE Path(k, e)' /\ Handed(k, e)'
  <2>1. Path(k, e) /\ Handed(k, e)
    BY DEF InboxInv, PathsInv
  <2>2. CASE k = c
    <3>1. Path(c, e)'
      BY <1>1, <2>1, <2>2 DEF Path, RowsOf
    <3>2. Handed(c, e)'
      BY <1>1 DEF Handed, RowsOf
    <3> QED BY <2>2, <3>1, <3>2
  <2>3. CASE k # c
    <3>1. Path(k, e)'
      BY <1>1, <2>1, <2>3 DEF Path
    <3>2. Handed(k, e)'
      BY <1>1, <2>1, <2>3 DEF Handed, Listening, Receivers, Covered, InFlight, RowsOf
    <3> QED BY <3>1, <3>2
  <2> QED BY <2>2, <2>3
<1> QED BY <1>2, <1>3 DEF PathsInv

LEMMA ReplayKeepsPaths ==
    ASSUME InboxInv, NEW c \in Conns, ReplayRows(c) \/ ReplayFails(c)
    PROVE  Published' /\ PathsInv'
<1>1. /\ UNCHANGED <<status, announced, stream, hydrating, sock, state, entry, slot,
                     first>>
      /\ phase[c] = "selecting" /\ snap'[c] = {}
      /\ \A k \in Conns \ {c} : /\ snap'[k] = snap[k] /\ phase'[k] = phase[k]
                                /\ seen'[k] = seen[k] /\ missed'[k] = missed[k]
  BY DEF ReplayRows, ReplayFails, storeVars, regVars, InboxInv, LinkInv, InboxTyped
<1>2. \/ /\ seen'[c] = seen[c] \cup snap[c] /\ missed'[c] = missed[c]
         /\ \A k \in Conns, e \in Envelopes :
               sent'[k][e] = IF k = c /\ sock[c] = "open" /\ e \in snap[c]
                             THEN sent[k][e] + 1 ELSE sent[k][e]
      \/ seen'[c] = seen[c] /\ missed'[c] = missed[c] \cup snap[c] /\ sent' = sent
  <2>1. CASE ReplayRows(c)
    <3>1. SendAll(c, snap[c]) /\ snap[c] \in SUBSET Envelopes /\ InboxTyped
      BY <2>1 DEF ReplayRows, InboxInv, LinkInv, InboxTyped
    <3>2. seen'[c] = seen[c] \cup snap[c] /\ missed'[c] = missed[c]
      BY <2>1 DEF ReplayRows, InboxInv, LinkInv, InboxTyped
    <3> QED BY <3>1, <3>2, SendAllDoes
  <2>2. CASE ReplayFails(c)
    BY <2>2 DEF ReplayFails, InboxInv, LinkInv, InboxTyped
  <2> QED BY <2>1, <2>2
<1>3. Published'
  BY <1>1 DEF InboxInv, Published
<1>4. ASSUME NEW k \in Conns, NEW e \in Envelopes PROVE Path(k, e)' /\ Handed(k, e)'
  <2>1. Path(k, e) /\ Handed(k, e) /\ sent[k][e] \in Nat /\ state[c] # "idle"
    BY <1>1 DEF InboxInv, PathsInv, LinkInv, InboxTyped, Steps, Stage
  <2>2. CASE k = c
    <3>1. Path(c, e)'
      BY <1>1, <1>2, <2>1, <2>2 DEF Path
    <3>2. Listening(c)' => Listening(c)
      BY <1>1 DEF Listening, Receivers
    <3>3. sock[c] = "open" /\ e \in snap[c] => sent'[c][e] > 0 \/ e \in missed'[c]
      BY <1>2, <2>1, <2>2
    <3>4. Covered(c, e) => Covered(c, e)'
      BY <1>1, <1>2, <2>1, <2>2 DEF Covered, InFlight
    <3>5. Handed(c, e)'
      <4> SUFFICES ASSUME Listening(c)', e \in RowsOf(DeviceOf[c])'
                   PROVE  Covered(c, e)'
        BY DEF Handed
      <4>1. sock[c] = "open" /\ e \in RowsOf(DeviceOf[c])
        BY <3>2, <1>1 DEF Listening, RowsOf
      <4>2. e \in snap[c] \/ Covered(c, e)
        BY <2>1, <2>2, <3>2, <4>1 DEF Handed
      <4>3. CASE e \in snap[c]
        BY <3>3, <4>1, <4>3 DEF Covered
      <4> QED BY <3>4, <4>2, <4>3
    <3> QED BY <2>2, <3>1, <3>5
  <2>3. CASE k # c
    <3>1. sent'[k][e] = sent[k][e] /\ seen'[k] = seen[k] /\ missed'[k] = missed[k]
          /\ snap'[k] = snap[k] /\ phase'[k] = phase[k]
      BY <1>1, <1>2, <2>3
    <3>2. Path(k, e)'
      BY <1>1, <2>1, <3>1 DEF Path
    <3>3. Handed(k, e)'
      BY <1>1, <2>1, <3>1 DEF Handed, Listening, Receivers, Covered, InFlight, RowsOf
    <3> QED BY <3>2, <3>3
  <2> QED BY <2>2, <2>3
<1> QED BY <1>3, <1>4 DEF PathsInv

\* A fetch that ends: the row goes to the socket, or it is gone, or it failed.
LEMMA HydrateKeepsPaths ==
    ASSUME InboxInv, NEW c \in Conns, NEW x \in Envelopes, Hydrate(c, x) \/ HydrateFails(c, x)
    PROVE  Published' /\ PathsInv'
<1>1. /\ UNCHANGED <<status, announced, stream, sock, state, entry, slot, first, phase,
                     snap, seen>>
      /\ x \in hydrating[c] /\ hydrating'[c] = hydrating[c] \ {x}
      /\ \A k \in Conns \ {c} : hydrating'[k] = hydrating[k] /\ missed'[k] = missed[k]
  BY DEF Hydrate, HydrateFails, storeVars, regVars, lifeVars, InboxInv, LinkInv, InboxTyped
<1>2. \/ /\ missed'[c] = missed[c]
         /\ \A k \in Conns, e \in Envelopes :
               sent'[k][e] = IF k = c /\ sock[c] = "open" /\ e \in {x} \cap RowsOf(DeviceOf[c])
                             THEN sent[k][e] + 1 ELSE sent[k][e]
      \/ missed'[c] = missed[c] \cup {x} /\ sent' = sent
  <2>1. CASE Hydrate(c, x)
    <3>1. SendAll(c, {x} \cap RowsOf(DeviceOf[c])) /\ InboxTyped /\ missed' = missed
      BY <2>1 DEF Hydrate, InboxInv, LinkInv
    <3>2. {x} \cap RowsOf(DeviceOf[c]) \in SUBSET Envelopes
      BY DEF RowsOf
    <3> QED BY <3>1, <3>2, SendAllDoes
  <2>2. CASE HydrateFails(c, x)
    BY <2>2 DEF HydrateFails, InboxInv, LinkInv, InboxTyped
  <2> QED BY <2>1, <2>2
<1>3. Published'
  BY <1>1 DEF InboxInv, Published
<1>4. ASSUME NEW k \in Conns, NEW e \in Envelopes PROVE Path(k, e)' /\ Handed(k, e)'
  <2>1. Path(k, e) /\ Handed(k, e) /\ sent[k][e] \in Nat
    BY DEF InboxInv, PathsInv, LinkInv, InboxTyped
  <2>2. Listening(k)' <=> Listening(k)
    BY <1>1 DEF Listening, Receivers
  <2>3. CASE k = c /\ e = x
    <3>1. e \in seen[c] /\ RecipientOf[e] = DeviceOf[c] /\ status[e] # "absent"
      BY <1>1, <2>1, <2>3 DEF Path
    <3>2. sock[c] = "open" /\ status[e] = "stored" => sent'[c][e] > 0 \/ e \in missed'[c]
      BY <1>2, <2>1, <2>3, <3>1 DEF RowsOf
    <3>3. Path(k, e)'
      BY <1>1, <2>1, <2>3, <3>1, <3>2 DEF Path
    <3>4. Handed(k, e)'
      BY <1>1, <2>2, <2>3, <3>2 DEF Handed, Covered, RowsOf, Listening
    <3> QED BY <3>3, <3>4
  <2>4. CASE ~(k = c /\ e = x)
    <3>1. /\ sent'[k][e] = sent[k][e]
          /\ e \in hydrating'[k] <=> e \in hydrating[k]
          /\ e \in missed'[k] <=> e \in missed[k]
      BY <1>1, <1>2, <2>4
    <3>2. Path(k, e)'
      BY <1>1, <2>1, <3>1 DEF Path
    <3>3. Handed(k, e)'
      BY <1>1, <2>1, <2>2, <3>1 DEF Handed, Covered, InFlight, RowsOf
    <3> QED BY <3>2, <3>3
  <2> QED BY <2>3, <2>4
<1> QED BY <1>3, <1>4 DEF PathsInv

\* A message on the channel: whoever listens has the row, or fetches it.
LEMMA DispatchKeepsPaths ==
    ASSUME InboxInv, NEW d \in Devices, NEW x \in Envelopes, Dispatch(d, x)
    PROVE  Published' /\ PathsInv'
<1> DEFINE msg == [kind |-> "message", chan |-> d, payload |-> x]
<1>1. /\ UNCHANGED <<status, announced, sock, phase, first, snap, sent, missed,
                     state, entry, slot>>
      /\ stream # <<>> /\ Head(stream) = msg /\ stream' = Tail(stream)
      /\ \A k \in Conns :
            IF k \in Receivers(d) /\ x \notin seen[k]
            THEN seen'[k] = seen[k] \cup {x} /\ hydrating'[k] = hydrating[k] \cup {x}
            ELSE seen'[k] = seen[k] /\ hydrating'[k] = hydrating[k]
  BY DEF Dispatch, ReadMessage, storeVars, lifeVars
<1>2. /\ msg.kind = "message" /\ msg.chan = d /\ msg.payload = x
      /\ 1 \in 1..Len(stream) /\ stream[1] = msg
      /\ \A i \in 1..Len(stream') : i + 1 \in 1..Len(stream) /\ stream'[i] = stream[i + 1]
      /\ \A i \in 1..Len(stream) : i # 1 =>
            i - 1 \in 1..Len(stream') /\ stream[i] = stream'[i - 1]
  BY <1>1, Behind DEF InboxInv, LinkInv, RegInv, RegTyped
<1>3. x \in announced /\ RecipientOf[x] = d /\ status[x] # "absent"
  BY <1>2 DEF InboxInv, Published
<1>4. Published'
  BY <1>1, <1>2 DEF InboxInv, Published
<1>5. \A k \in Receivers(d) : DeviceOf[k] = d /\ slot[k] # 0 /\ state[k] # "idle"
  BY DEF Receivers, InboxInv, LinkInv, Numbered, Slots
<1> HIDE DEF msg
<1>6. ASSUME NEW k \in Conns, NEW e \in Envelopes PROVE Path(k, e)' /\ Handed(k, e)'
  <2>1. Path(k, e) /\ Handed(k, e) /\ sent[k][e] \in Nat
    BY DEF InboxInv, PathsInv, LinkInv, InboxTyped
  <2>2. Listening(k)' <=> Listening(k)
    BY <1>1 DEF Listening, Receivers
  <2>3. CASE k \in Receivers(d) /\ e = x
    <3>1. e \in seen'[k] /\ (e \in seen[k] \/ e \in hydrating'[k])
          /\ (e \in hydrating[k] => e \in hydrating'[k])
      BY <1>1, <2>3
    <3>2. Path(k, e)'
      BY <1>1, <1>3, <1>5, <2>1, <2>3, <3>1 DEF Path
    <3>3. Handed(k, e)'
      BY <1>1, <3>1, <3>2 DEF Path, Handed, Covered, InFlight, RowsOf, Listening
    <3> QED BY <3>2, <3>3
  <2>4. CASE ~(k \in Receivers(d) /\ e = x)
    <3>1. /\ e \in seen'[k] <=> e \in seen[k]
          /\ e \in hydrating'[k] <=> e \in hydrating[k]
      BY <1>1, <2>4
    <3>2. Path(k, e)'
      BY <1>1, <2>1, <3>1 DEF Path
    <3>3. ASSUME Listening(k), NEW i \in 1..Len(stream),
                 stream[i] = [kind |-> "message", chan |-> DeviceOf[k], payload |-> e]
          PROVE  \E j \in 1..Len(stream') :
                    stream'[j] = [kind |-> "message", chan |-> DeviceOf[k], payload |-> e]
      <4>1. DeviceOf[k] = d => k \in Receivers(d)
        BY <3>3 DEF Listening
      <4>2. i # 1
        BY <1>2, <2>4, <3>3, <4>1
      <4> QED BY <1>2, <3>3, <4>2
    <3>4. Listening(k) /\ Covered(k, e) => Covered(k, e)'
      BY <1>1, <3>1, <3>3 DEF Covered, InFlight
    <3>5. Handed(k, e)'
      BY <1>1, <2>1, <2>2, <3>4 DEF Handed, RowsOf
    <3> QED BY <3>2, <3>5
  <2> QED BY <2>3, <2>4
<1> QED BY <1>4, <1>6 DEF PathsInv

LEMMA StoreKeepsPaths ==
    ASSUME InboxInv, NEW x \in Envelopes, Insert(x) \/ Vanish(x)
    PROVE  Published' /\ PathsInv'
<1>1. /\ UNCHANGED <<announced, stream, sock, phase, first, snap, seen, hydrating, sent,
                     missed, state, entry, slot>>
      /\ \A e \in Envelopes : status'[e] = IF e = x THEN status'[x] ELSE status[e]
      /\ \/ status[x] = "absent" /\ status'[x] = "stored"
         \/ status[x] = "stored" /\ status'[x] = "gone"
  BY DEF Insert, Vanish, Store!Store, Store!Cascade, regVars, lifeVars, pathVars, InboxInv,
         LinkInv, InboxTyped
<1>2. Published'
  BY <1>1 DEF InboxInv, Published, LinkInv, InboxTyped
<1>3. ASSUME NEW k \in Conns, NEW e \in Envelopes PROVE Path(k, e)' /\ Handed(k, e)'
  <2>1. Path(k, e) /\ Handed(k, e)
    BY DEF InboxInv, PathsInv
  <2>2. Listening(k)' <=> Listening(k)
    BY <1>1 DEF Listening, Receivers
  <2>3. status[e] = "absent" => e \notin announced
    BY DEF InboxInv, Published
  <2>4. Path(k, e)'
    BY <1>1, <2>1 DEF Path
  <2>5. Handed(k, e)'
    BY <1>1, <2>1, <2>2, <2>3 DEF Handed, Covered, InFlight, RowsOf
  <2> QED BY <2>4, <2>5
<1> QED BY <1>2, <1>3 DEF PathsInv

\* The publish finds the channel subscribed for whoever listens.
LEMMA AnnounceKeepsPaths ==
    ASSUME InboxInv, NEW x \in Envelopes, Announcing(x) PROVE Published' /\ PathsInv'
<1> DEFINE d == RecipientOf[x]
           msg == [kind |-> "message", chan |-> d, payload |-> x]
<1>1. /\ UNCHANGED <<status, sock, phase, first, snap, seen, hydrating, sent, missed, state,
                     entry, slot>>
      /\ status[x] # "absent" /\ announced' = announced \cup {x}
      /\ stream' = IF d \in upstream THEN Append(stream, msg) ELSE stream
  BY DEF Announcing, Publish, Store!Announce, lifeVars, pathVars
<1>2. /\ msg.kind = "message" /\ msg.chan = d /\ msg.payload = x
      /\ \A i \in 1..Len(stream) : i \in 1..Len(stream') /\ stream'[i] = stream[i]
      /\ \A i \in 1..Len(stream') :
            stream'[i] = msg \/ (i \in 1..Len(stream) /\ stream'[i] = stream[i])
      /\ d \in upstream => \E i \in 1..Len(stream') : stream'[i] = msg
  <2>1. stream \in Seq(Reply \cup Message) /\ Len(stream) \in Nat
    BY DEF InboxInv, LinkInv, RegInv, RegTyped
  <2>2. CASE d \in upstream
    <3>1. /\ Len(stream') = Len(stream) + 1 /\ stream'[Len(stream) + 1] = msg
          /\ \A i \in 1..Len(stream) : stream'[i] = stream[i]
      BY <1>1, <2>1, <2>2
    <3> QED BY <2>1, <3>1
  <2>3. CASE d \notin upstream
    BY <1>1, <2>3
  <2> QED BY <2>2, <2>3
<1>3. Published'
  BY <1>1, <1>2 DEF InboxInv, Published
<1> HIDE DEF msg
<1>4. ASSUME NEW k \in Conns, NEW e \in Envelopes PROVE Path(k, e)' /\ Handed(k, e)'
  <2>1. Path(k, e) /\ Handed(k, e)
    BY DEF InboxInv, PathsInv
  <2>2. Listening(k)' <=> Listening(k)
    BY <1>1 DEF Listening, Receivers
  <2>3. Path(k, e)'
    BY <1>1, <2>1 DEF Path
  <2>4. CASE e = x
    <3>1. ASSUME Listening(k), e \in RowsOf(DeviceOf[k]) PROVE InFlight(k, e)'
      <4>1. DeviceOf[k] = d /\ d \in upstream
        BY <2>4, <3>1, ListeningIsServed DEF InboxInv, RowsOf, Served
      <4> QED BY <1>2, <2>4, <4>1 DEF InFlight, msg
    <3> QED BY <1>1, <2>2, <2>3, <3>1 DEF Handed, Covered, RowsOf
  <2>5. CASE e # x
    <3>1. InFlight(k, e) => InFlight(k, e)'
      BY <1>1, <1>2 DEF InFlight
    <3> QED BY <1>1, <2>1, <2>2, <2>3, <2>5, <3>1 DEF Handed, Covered, RowsOf
  <2> QED BY <2>4, <2>5
<1> QED BY <1>3, <1>4 DEF PathsInv

LEMMA RedisKeepsPaths ==
    ASSUME InboxInv, Redis PROVE Published' /\ PathsInv'
<1>1. /\ UNCHANGED <<status, announced, sock, phase, first, snap, seen, hydrating, sent,
                     missed, entry, slot>>
      /\ RedisStep
  BY DEF Redis, RedisStep, ServeSubscribe, RejectSubscribe, ServeUnsubscribe, ReadReply,
         storeVars, lifeVars, pathVars
<1>2. /\ \A k \in Conns : state'[k] = "idle" => state[k] = "idle"
      /\ \A i \in 1..Len(stream) : stream[i].kind = "message" =>
            \E j \in 1..Len(stream') : stream'[j] = stream[i]
      /\ \A j \in 1..Len(stream') : stream'[j].kind = "message" =>
            \E i \in 1..Len(stream) : stream'[j] = stream[i]
  <2>1. stream \in Seq(Reply \cup Message) /\ Len(stream) \in Nat
    BY DEF InboxInv, LinkInv, RegInv, RegTyped
  <2>2. CASE ServeSubscribe \/ RejectSubscribe
    <3>1. PICK r : stream' = Append(stream, r) /\ r.kind # "message" /\ state' = state
      BY <2>2 DEF ServeSubscribe, RejectSubscribe
    <3>2. /\ Len(stream') = Len(stream) + 1 /\ stream'[Len(stream) + 1] = r
          /\ \A i \in 1..Len(stream) : stream'[i] = stream[i]
      BY <2>1, <3>1
    <3> QED BY <2>1, <3>1, <3>2
  <2>3. CASE ServeUnsubscribe
    BY <2>3 DEF ServeUnsubscribe
  <2>4. CASE ReadReply
    <3>1. /\ stream # <<>> /\ Head(stream).kind # "message" /\ stream' = Tail(stream)
      BY <2>4 DEF ReadReply
    <3>2. \A k \in Conns : state'[k] = "idle" => state[k] = "idle"
      BY <2>4, ReadReplyKeeps DEF InboxInv, LinkInv
    <3> QED BY <2>1, <3>1, <3>2, Behind
  <2> QED BY <1>1, <2>2, <2>3, <2>4 DEF RedisStep
<1>3. Published'
  BY <1>1, <1>2 DEF InboxInv, Published
<1>4. ASSUME NEW k \in Conns, NEW e \in Envelopes PROVE Path(k, e)' /\ Handed(k, e)'
  <2>1. Path(k, e) /\ Handed(k, e)
    BY DEF InboxInv, PathsInv
  <2>2. Listening(k)' <=> Listening(k)
    BY <1>1 DEF Listening, Receivers
  <2>3. Path(k, e)'
    BY <1>1, <1>2, <2>1 DEF Path
  <2>4. InFlight(k, e) => InFlight(k, e)'
    BY <1>1, <1>2 DEF InFlight
  <2> QED BY <1>1, <2>1, <2>2, <2>3, <2>4 DEF Handed, Covered, RowsOf
<1> QED BY <1>3, <1>4 DEF PathsInv


LEMMA InboxStep == InboxInv /\ [Next]_vars => InboxInv'
<1> SUFFICES ASSUME InboxInv, [Next]_vars PROVE InboxInv'
  OBVIOUS
<1>1. LinkInv'
  BY LinkKeeps DEF InboxInv
<1>2. ASSUME NEW c \in Conns,
             \/ Open(c) \/ Hello(c) \/ CountFails(c) \/ HelloTimeout(c) \/ OtherFrame(c)
             \/ Close(c) \/ Attach(c) \/ ReplayFails(c)
      PROVE  Published' /\ PathsInv'
  BY <1>2, LifeKeepsPaths, CloseKeepsPaths, CountOkKeepsPaths, ResumeKeepsPaths,
     SelectRowsKeepsPaths, ReplayKeepsPaths DEF Attach
<1>3. ASSUME NEW c \in Conns, NEW e \in Envelopes, Hydrate(c, e) \/ HydrateFails(c, e)
      PROVE  Published' /\ PathsInv'
  BY <1>3, HydrateKeepsPaths
<1>4. ASSUME NEW d \in Devices, NEW e \in Envelopes, Dispatch(d, e)
      PROVE  Published' /\ PathsInv'
  BY <1>4, DispatchKeepsPaths
<1>5. ASSUME NEW e \in Envelopes, Insert(e) \/ Announcing(e) \/ Vanish(e)
      PROVE  Published' /\ PathsInv'
  BY <1>5, StoreKeepsPaths, AnnounceKeepsPaths
<1>6. CASE Redis
  BY <1>1, <1>6, RedisKeepsPaths DEF InboxInv
<1>7. CASE PushesOnly
  <2>1. \A c \in Conns : Listening(c)' <=> Listening(c)
    BY <1>7 DEF PushesOnly, lifeVars, regVars, Listening, Receivers
  <2> QED BY <1>1, <1>7, <2>1, PathsStay
          DEF PushesOnly, storeVars, regVars, lifeVars, pathVars, InboxInv
<1>8. UNCHANGED vars => PushesOnly
  BY DEF vars, PushesOnly
<1> QED
  BY <1>1, <1>2, <1>3, <1>4, <1>5, <1>6, <1>7, <1>8, PublishSplits DEF Next, Live, InboxInv

\* The inductive invariant of the connections: who listens is fed by Redis,
\* and whatever row a listening socket lacks is on one of its two paths.
THEOREM InboxInvariant == Spec => []InboxInv
<1>1. Init => InboxInv
  <2> SUFFICES ASSUME Init PROVE InboxInv
    OBVIOUS
  <2>1. RegInv
    BY DEF Init, RegInit, RegInv, RegTyped, States, Waiting, Once, Fed
  <2>2. InboxTyped
    BY DEF Init, RegInit, InboxTyped, Store!StoreInit
  <2>3. Numbered /\ Steps /\ Slots
    BY DEF Init, RegInit, Numbered, Steps, Stage, Slots
  <2>4. Supplied
    BY DEF Init, Supplied, Owns
  <2>5. Published
    BY DEF Init, RegInit, Store!StoreInit, Published
  <2>6. PathsInv
    BY DEF Init, RegInit, PathsInv, Path, Handed, Listening
  <2> QED BY <2>1, <2>2, <2>3, <2>4, <2>5, <2>6 DEF InboxInv, LinkInv
<1> QED BY <1>1, InboxStep, PTL DEF Spec

\* Subscribe-then-replay leaves no gap: attachInbox, handleLivePublish.
THEOREM HandoffIsComplete == Spec => []HandoffComplete
<1>1. InboxInv => HandoffComplete
  <2> SUFFICES ASSUME InboxInv, NEW c \in Conns, Ready(c), c \in first,
                      c \in Receivers(DeviceOf[c]), NEW e \in RowsOf(DeviceOf[c])
               PROVE  Covered(c, e)
    BY DEF HandoffComplete
  <2>1. e \in Envelopes /\ Listening(c)
    BY DEF RowsOf, Ready, Listening
  <2>2. snap[c] = {}
    BY DEF Ready, InboxInv, LinkInv, Steps, Stage
  <2> QED BY <2>1, <2>2 DEF InboxInv, PathsInv, Handed
<1> QED BY <1>1, InboxInvariant, PTL

\* What connectedDevices remembers of a socket that was registered.
Remembered(c) ==
    /\ Ready(c) => c \in registered
    /\ c \in registered => DeviceOf[c] \in connected \/ ForgottenWith(c)
ConnectedInv == \A c \in Conns : Remembered(c)

LEMMA RememberedKeeps == InboxTyped /\ ConnectedInv /\ [Next]_vars => ConnectedInv'
<1> SUFFICES ASSUME InboxTyped, ConnectedInv, [Next]_vars, NEW c \in Conns PROVE Remembered(c)'
  BY DEF ConnectedInv
<1>0. Remembered(c)
  BY DEF ConnectedInv
<1> USE DEF Remembered, Ready, ForgottenWith, InboxTyped
<1>1. ASSUME NEW k \in Conns, Open(k) \/ Hello(k) \/ CountFails(k) \/ HelloTimeout(k)
      PROVE  Remembered(c)'
  BY <1>0, <1>1 DEF Open, Hello, CountFails, HelloTimeout
<1>2. ASSUME NEW k \in Conns, Close(k) PROVE Remembered(c)'
  <2>1. /\ sock'[k] = "closed" /\ \A j \in Conns \ {k} : sock'[j] = sock[j]
        /\ registered' = registered \ {k} /\ phase' = phase
        /\ connected' = IF k \in registered THEN connected \ {DeviceOf[k]} ELSE connected
    BY <1>2 DEF Close
  <2>2. CASE k = c
    BY <2>1, <2>2
  <2>3. CASE k # c
    BY <1>0, <2>1, <2>3
  <2> QED BY <2>2, <2>3
<1>3. ASSUME NEW k \in Conns, CountOk(k) PROVE Remembered(c)'
  <2>1. UNCHANGED <<sock, registered, connected>> /\ phase' = [phase EXCEPT ![k] = "subscribing"]
    BY <1>3 DEF CountOk
  <2> QED BY <1>0, <2>1
<1>4. ASSUME NEW k \in Conns, OtherFrame(k) \/ AttachFails(k) \/ ReplayRows(k) \/ ReplayFails(k)
      PROVE  Remembered(c)'
  <2>1. /\ UNCHANGED sock /\ Register(k)
        /\ \A j \in Conns \ {k} : phase'[j] = phase[j]
    BY <1>4 DEF OtherFrame, AttachFails, ReplayRows, ReplayFails
  <2> QED BY <1>0, <2>1 DEF Register
<1>5. ASSUME NEW k \in Conns, SelectRows(k) PROVE Remembered(c)'
  BY <1>0, <1>5 DEF SelectRows
<1>6. ASSUME UNCHANGED lifeVars PROVE Remembered(c)'
  BY <1>0, <1>6 DEF lifeVars
<1>7. ASSUME NEW k \in Conns, Resume(k) PROVE UNCHANGED lifeVars
  BY <1>7 DEF Resume
<1>8. ASSUME NEW k \in Conns, NEW x \in Envelopes, Hydrate(k, x) \/ HydrateFails(k, x)
      PROVE  UNCHANGED lifeVars
  BY <1>8 DEF Hydrate, HydrateFails
<1>9. ASSUME NEW d \in Devices, NEW x \in Envelopes, Dispatch(d, x) PROVE UNCHANGED lifeVars
  BY <1>9 DEF Dispatch
<1>10. ASSUME NEW x \in Envelopes, Insert(x) \/ Announce(x) \/ PublishFails(x) \/ Vanish(x)
       PROVE  UNCHANGED lifeVars
  BY <1>10 DEF Insert, Announce, PublishFails, Vanish
<1>11. ASSUME Redis \/ UNCHANGED vars PROVE UNCHANGED lifeVars
  BY <1>11 DEF Redis, vars
<1> QED
  BY <1>1, <1>2, <1>3, <1>4, <1>5, <1>6, <1>7, <1>8, <1>9, <1>10, <1>11 DEF Next, Attach, Live

LEMMA PushesStay ==
    ASSUME [Next]_vars, NEW e \in Envelopes, e \in pushes' \ pushes
    PROVE  Announce(e) \/ PublishFails(e)
<1>1. ASSUME NEW k \in Conns,
             \/ Open(k) \/ Hello(k) \/ CountFails(k) \/ HelloTimeout(k) \/ OtherFrame(k)
             \/ Close(k) \/ Attach(k) \/ ReplayFails(k)
      PROVE  UNCHANGED pushes
  BY <1>1 DEF Open, Hello, CountFails, HelloTimeout, OtherFrame, Close, Attach, ReplayFails,
              CountOk, Resume, SelectRows, AttachFails, ReplayRows, pushVars
<1>2. ASSUME NEW k \in Conns, NEW x \in Envelopes, Hydrate(k, x) \/ HydrateFails(k, x)
      PROVE  UNCHANGED pushes
  BY <1>2 DEF Hydrate, HydrateFails, pushVars
<1>3. ASSUME NEW d \in Devices, NEW x \in Envelopes, Dispatch(d, x) PROVE UNCHANGED pushes
  BY <1>3 DEF Dispatch, pushVars
<1>4. ASSUME NEW x \in Envelopes, Insert(x) \/ Vanish(x) PROVE UNCHANGED pushes
  BY <1>4 DEF Insert, Vanish, pushVars
<1>5. ASSUME Redis \/ UNCHANGED vars PROVE UNCHANGED pushes
  BY <1>5 DEF Redis, vars, pushVars
<1>6. ASSUME NEW x \in Envelopes, Announce(x) \/ PublishFails(x)
      PROVE  Announce(e) \/ PublishFails(e)
  <2>1. pushes' \subseteq pushes \cup {x}
    BY <1>6 DEF Announce, PublishFails
  <2>2. x = e
    BY <2>1
  <2> QED BY <1>6, <2>2
<1> QED BY <1>1, <1>2, <1>3, <1>4, <1>5, <1>6 DEF Next, Live

\* A device that a socket listens for is pushed to only when the publish was
\* rejected and the device was taken out of connectedDevices: step 4b.
THEOREM ListenersAreNotPushed == Spec => ListenerIsNotPushed
<1>1. Init => ConnectedInv
  BY DEF Init, ConnectedInv, Remembered, Ready
<1>2. Spec => []ConnectedInv
  <2>1. InboxInv => InboxTyped
    BY DEF InboxInv, LinkInv
  <2> QED BY <1>1, <2>1, RememberedKeeps, InboxInvariant, PTL DEF Spec
<1>3. ASSUME InboxInv, ConnectedInv, [Next]_vars, NEW e \in Envelopes, NEW c \in Conns, Ready(c),
             c \in first, c \in Receivers(RecipientOf[e]), e \in pushes' \ pushes
      PROVE  e \in uncounted' /\ ForgottenWith(c)
  <2>1. Announce(e) \/ PublishFails(e)
    BY <1>3, PushesStay
  <2>2. entry[RecipientOf[e]] # 0 /\ slot[c] = entry[RecipientOf[e]]
    BY <1>3 DEF Receivers
  <2>3. DeviceOf[c] = RecipientOf[e]
    BY <1>3, <2>2, InboxAssumptions DEF InboxInv, LinkInv, Numbered
  <2>4. Listening(c)
    BY <1>3, <2>3 DEF Ready, Listening
  <2>5. RecipientOf[e] \in upstream
    BY <1>3, <2>3, <2>4, ListeningIsServed DEF InboxInv, Served
  <2>6. ~Announce(e)
    BY <1>3, <2>5 DEF Announce
  <2>7. e \in uncounted' /\ RecipientOf[e] \notin connected
    BY <1>3, <2>1, <2>6 DEF PublishFails
  <2> QED BY <1>3, <2>3, <2>7 DEF ConnectedInv, Remembered
<1>4. InboxInv /\ ConnectedInv /\ [Next]_vars =>
         [\A e \in Envelopes, c \in Conns :
            /\ Ready(c) /\ c \in first /\ c \in Receivers(RecipientOf[e])
            /\ e \in pushes' \ pushes
            => e \in uncounted' /\ ForgottenWith(c)]_vars
  BY <1>3
<1> QED BY <1>2, <1>4, InboxInvariant, PTL DEF Spec, ListenerIsNotPushed

\* What the replay sent is neither sent nor fetched again: seenEnvelopeIds.
THEOREM ReplayIsNotRepeated == Spec => NoRepeatAfterReplay
<1>1. ASSUME InboxInv, [Next]_vars, NEW c \in Conns, NEW e \in Envelopes,
             phase[c] = "attached", sent[c][e] > 0, e \notin hydrating[c]
      PROVE  sent'[c][e] = sent[c][e] /\ e \notin hydrating'[c]
  <2>0. e \in seen[c] /\ InboxTyped
    BY <1>1 DEF InboxInv, PathsInv, Path, LinkInv
  <2>1. ASSUME NEW k \in Conns,
               \/ Open(k) \/ Hello(k) \/ CountFails(k) \/ HelloTimeout(k) \/ OtherFrame(k)
               \/ Close(k) \/ CountOk(k) \/ Resume(k) \/ SelectRows(k) \/ AttachFails(k)
               \/ ReplayFails(k)
        PROVE  UNCHANGED <<sent, hydrating>>
    BY <2>1 DEF Open, Hello, CountFails, HelloTimeout, OtherFrame, Close, ReplayFails,
                CountOk, Resume, SelectRows, AttachFails, pathVars
  <2>2. ASSUME NEW k \in Conns, ReplayRows(k)
        PROVE  sent'[c][e] = sent[c][e] /\ UNCHANGED hydrating
    <3>1. k # c /\ SendAll(k, snap[k]) /\ snap[k] \in SUBSET Envelopes /\ UNCHANGED hydrating
      BY <1>1, <2>0, <2>2 DEF ReplayRows, InboxTyped
    <3> QED BY <2>0, <3>1, SendAllDoes
  <2>3. ASSUME NEW k \in Conns, NEW x \in Envelopes, Hydrate(k, x)
        PROVE  sent'[c][e] = sent[c][e] /\ e \notin hydrating'[c]
    <3>1. /\ ~(k = c /\ x = e) /\ SendAll(k, {x} \cap RowsOf(DeviceOf[k]))
          /\ e \notin hydrating'[c]
      BY <1>1, <2>0, <2>3 DEF Hydrate, InboxTyped
    <3>2. {x} \cap RowsOf(DeviceOf[k]) \in SUBSET Envelopes
      BY DEF RowsOf
    <3> QED BY <2>0, <3>1, <3>2, SendAllDoes
  <2>4. ASSUME NEW k \in Conns, NEW x \in Envelopes, HydrateFails(k, x)
        PROVE  sent'[c][e] = sent[c][e] /\ e \notin hydrating'[c]
    BY <1>1, <2>0, <2>4 DEF HydrateFails, InboxTyped
  <2>5. ASSUME NEW d \in Devices, NEW x \in Envelopes, Dispatch(d, x)
        PROVE  sent'[c][e] = sent[c][e] /\ e \notin hydrating'[c]
    BY <1>1, <2>0, <2>5 DEF Dispatch
  <2>6. ASSUME NEW x \in Envelopes, Insert(x) \/ Announce(x) \/ PublishFails(x) \/ Vanish(x)
        PROVE  UNCHANGED <<sent, hydrating>>
    BY <2>6 DEF Insert, Announce, PublishFails, Vanish, pathVars
  <2>7. ASSUME Redis \/ UNCHANGED vars PROVE UNCHANGED <<sent, hydrating>>
    BY <2>7 DEF Redis, vars, pathVars
  <2> QED
    BY <1>1, <2>1, <2>2, <2>3, <2>4, <2>5, <2>6, <2>7 DEF Next, Attach, Live
<1>2. InboxInv /\ [Next]_vars =>
         [\A c \in Conns, e \in Envelopes :
            /\ phase[c] = "attached"
            /\ sent[c][e] > 0
            /\ e \notin hydrating[c]
            => sent'[c][e] = sent[c][e] /\ e \notin hydrating'[c]]_vars
  BY <1>1
<1> QED BY <1>2, InboxInvariant, PTL DEF Spec, NoRepeatAfterReplay

=============================================================================
