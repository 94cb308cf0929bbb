--------------------------- MODULE RegistryProofs ---------------------------
(* What every step of the channel registry keeps, whoever takes it: the    *)
(* lemmas that the proofs about rooms and about inboxes share.             *)
EXTENDS ChannelRegistry, FiniteSetTheorems, SequenceTheorems, TLAPS

RegTyped ==
    /\ entry \in [Channels -> Nat]
    /\ state \in [Listeners -> States]
    /\ commands \in Seq(Command)
    /\ upstream \subseteq Channels
    /\ stream \in Seq(Reply \cup Message)
    /\ arrays \in Nat

IsSubscribe(i) == i \in 1..Len(commands) /\ commands[i].op = "subscribe"
IsReply(i) == i \in 1..Len(stream) /\ stream[i].kind # "message"

\* What is under way for a listener is under way once, and it waits for it.
Waiting ==
    /\ \A i \in 1..Len(commands) : IsSubscribe(i) =>
          /\ commands[i].by \in Listeners
          /\ commands[i].chan = ChannelOf[commands[i].by]
          /\ state[commands[i].by] = "subscribing"
    /\ \A i \in 1..Len(stream) : IsReply(i) =>
          /\ stream[i].by \in Listeners
          /\ state[stream[i].by] = "subscribing"
Once ==
    /\ \A i, j \in 1..Len(commands) :
          IsSubscribe(i) /\ IsSubscribe(j) /\ commands[i].by = commands[j].by => i = j
    /\ \A i, j \in 1..Len(stream) :
          IsReply(i) /\ IsReply(j) /\ stream[i].by = stream[j].by => i = j
    /\ \A i \in 1..Len(commands), j \in 1..Len(stream) :
          IsSubscribe(i) /\ IsReply(j) => commands[i].by # stream[j].by

\* An entry's SUBSCRIBE is queued behind every UNSUBSCRIBE of the channel, or
\* it is executed and no UNSUBSCRIBE is queued.
Renewed(ch) ==
    \E i \in 1..Len(commands) :
        /\ IsSubscribe(i) /\ commands[i].chan = ch
        /\ \A j \in 1..Len(commands) :
              j > i => ~(commands[j].op = "unsubscribe" /\ commands[j].chan = ch)
Served(ch) == ch \in upstream /\ ~Queued("unsubscribe", ch)
Fed == \A ch \in Channels : entry[ch] # 0 => Renewed(ch) \/ Served(ch) \/ Rejected(ch)

RegInv == RegTyped /\ Waiting /\ Once /\ Fed

-----------------------------------------------------------------------------

LEMMA FedStays ==
    ASSUME Fed, UNCHANGED <<commands, upstream, stream>>,
           \A ch \in Channels : entry'[ch] # 0 => entry[ch] # 0,
           \A l \in Listeners : state[l] = "failed" => state'[l] = "failed"
    PROVE  Fed'
<1> SUFFICES ASSUME NEW ch \in Channels, entry'[ch] # 0
             PROVE  Renewed(ch)' \/ Served(ch)' \/ Rejected(ch)'
  BY DEF Fed
<1>1. CASE Renewed(ch)
  BY <1>1 DEF Renewed, IsSubscribe
<1>2. CASE Served(ch)
  BY <1>2 DEF Served, Queued
<1>3. CASE Rejected(ch)
  BY <1>3 DEF Rejected
<1> QED BY <1>1, <1>2, <1>3 DEF Fed

LEMMA AddNextKeeps ==
    ASSUME RegInv, NEW l \in Listeners, AddNext(l) PROVE RegInv'
<1>1. RegTyped'
  BY DEF RegInv, RegTyped, AddNext, States
<1>2. \A k \in Listeners : state[k] \in {"subscribing", "failed"} => state'[k] = state[k]
  BY DEF RegInv, RegTyped, AddNext
<1>3. UNCHANGED <<entry, commands, upstream, stream>>
  BY DEF AddNext
<1>4. Waiting' /\ Once'
  BY <1>2, <1>3 DEF RegInv, Waiting, Once, IsSubscribe, IsReply
<1>5. Fed'
  BY <1>2, <1>3, FedStays DEF RegInv
<1> QED BY <1>1, <1>4, <1>5 DEF RegInv

LEMMA AddResumeKeeps ==
    ASSUME RegInv, NEW l \in Listeners, AddResume(l) PROVE RegInv'
<1>1. RegTyped'
  BY DEF RegInv, RegTyped, AddResume, States
<1>2. \A k \in Listeners : state[k] \in {"subscribing", "failed"} => state'[k] = state[k]
  BY DEF RegInv, RegTyped, AddResume
<1>3. UNCHANGED <<entry, commands, upstream, stream>>
  BY DEF AddResume
<1>4. Waiting' /\ Once'
  BY <1>2, <1>3 DEF RegInv, Waiting, Once, IsSubscribe, IsReply
<1>5. Fed'
  BY <1>2, <1>3, FedStays DEF RegInv
<1> QED BY <1>1, <1>4, <1>5 DEF RegInv

LEMMA AddFirstKeeps ==
    ASSUME RegInv, NEW l \in Listeners, AddFirst(l) PROVE RegInv'
<1> DEFINE c == [op |-> "subscribe", chan |-> ChannelOf[l], by |-> l]
<1>1. c \in Command /\ c.op = "subscribe" /\ c.chan = ChannelOf[l] /\ c.by = l
  BY ChannelOfAssumption DEF Command
<1>2. commands' = Append(commands, c) /\ state[l] = "idle" /\ UNCHANGED <<upstream, stream>>
  BY DEF AddFirst
<1> HIDE DEF c
<1>3. /\ Len(commands') = Len(commands) + 1 /\ commands'[Len(commands) + 1] = c
      /\ \A i \in 1..Len(commands) : commands'[i] = commands[i]
      /\ Len(commands) \in Nat
  BY <1>1, <1>2 DEF RegInv, RegTyped
<1>4. RegTyped'
  <2>1. entry' \in [Channels -> Nat] /\ state' \in [Listeners -> States] /\ arrays' \in Nat
    <3>1. /\ arrays' = arrays + 1
          /\ entry' = [entry EXCEPT ![ChannelOf[l]] = arrays + 1]
          /\ state' = [state EXCEPT ![l] = "subscribing"]
      BY DEF AddFirst
    <3>2. /\ entry \in [Channels -> Nat] /\ arrays \in Nat /\ arrays + 1 \in Nat
          /\ state \in [Listeners -> States]
      BY DEF RegInv, RegTyped
    <3>3. entry' \in [Channels -> Nat]
      BY <3>1, <3>2
    <3> QED BY <3>1, <3>2, <3>3 DEF States
  <2>2. commands' \in Seq(Command)
    BY <1>1, <1>2 DEF RegInv, RegTyped
  <2> QED BY <1>2, <2>1, <2>2 DEF RegInv, RegTyped
<1>5. state'[l] = "subscribing" /\ \A k \in Listeners \ {l} : state'[k] = state[k]
  BY DEF AddFirst, RegInv, RegTyped
<1>6. Waiting'
  BY <1>1, <1>2, <1>3, <1>5 DEF RegInv, Waiting, IsSubscribe, IsReply
<1>7. Once'
  BY <1>1, <1>2, <1>3 DEF RegInv, Waiting, Once, IsSubscribe, IsReply
<1>8. ASSUME NEW ch \in Channels, entry'[ch] # 0
      PROVE  Renewed(ch)' \/ Served(ch)' \/ Rejected(ch)'
  <2>1. CASE ch = ChannelOf[l]
    BY <1>1, <1>3, <2>1 DEF Renewed, IsSubscribe
  <2>2. CASE ch # ChannelOf[l]
    <3>1. Renewed(ch) \/ Served(ch) \/ Rejected(ch)
      BY <1>8, <2>2 DEF AddFirst, RegInv, RegTyped, Fed
    <3>2. CASE Renewed(ch)
      BY <1>1, <1>3, <2>2, <3>2 DEF Renewed, IsSubscribe
    <3>3. CASE Served(ch)
      BY <1>1, <1>2, <1>3, <2>2, <3>3 DEF Served, Queued
    <3>4. CASE Rejected(ch)
      BY <1>2, <1>5, <3>4 DEF Rejected
    <3> QED BY <3>1, <3>2, <3>3, <3>4
  <2> QED BY <2>1, <2>2
<1> QED BY <1>4, <1>6, <1>7, <1>8 DEF RegInv, Fed

LEMMA EmptiedOrder ==
    ASSUME NEW T, IsFiniteSet(T), NEW i \in 1..Cardinality(T)
    PROVE  Seqs!SetToSeq(T)[i] \in T
<1>1. PICK f \in [1..Cardinality(T) -> T] : IsInjective(f)
  BY FS_CardinalityType DEF ExistsBijection, Bijection, Injection, IsInjective
<1>2. Seqs!Cardinality(T) = Cardinality(T)
  BY DEF Seqs!Cardinality, Cardinality
<1>3. Seqs!SetToSeq(T) \in [1..Cardinality(T) -> T]
  BY <1>1, <1>2 DEF Seqs!SetToSeq, Seqs!IsInjective, IsInjective
<1> QED BY <1>3

\* What RemoveAll sends: an UNSUBSCRIBE for each channel that loses its array.
LEMMA RemoveAllSends ==
    ASSUME RegInv, NEW S \in SUBSET Listeners, RemoveAll(S)
    PROVE  \E n \in Nat :
              /\ Len(commands) \in Nat /\ commands' \in Seq(Command)
              /\ Len(commands') = Len(commands) + n
              /\ \A i \in 1..Len(commands) : commands'[i] = commands[i]
              /\ \A i \in 1..Len(commands') : i > Len(commands) =>
                    /\ commands'[i].op = "unsubscribe"
                    /\ entry'[commands'[i].chan] = 0
<1> DEFINE chans == {ChannelOf[l] : l \in S}
           emptied == {ch \in chans : entry[ch] # 0 /\ Receivers(ch) \subseteq S}
           n == Cardinality(emptied)
           more == [i \in 1..n |->
                      [op |-> "unsubscribe", chan |-> Seqs!SetToSeq(emptied)[i]]]
<1>1. /\ \A l \in S : state[l] \in {"attached", "removed"}
      /\ state' = [l \in Listeners |-> IF l \in S THEN "removed" ELSE state[l]]
      /\ entry' = [ch \in Channels |-> IF ch \in emptied THEN 0 ELSE entry[ch]]
      /\ commands' = commands \o more
      /\ UNCHANGED <<upstream, stream, arrays>>
  BY DEF RemoveAll
<1>2. chans \subseteq Channels /\ IsFiniteSet(chans)
  <2>1. IsFiniteSet(S)
    BY ListenersAssumption, FS_Subset
  <2> DEFINE f == [l \in S |-> ChannelOf[l]]
  <2>2. f \in Surjection(S, chans)
    BY DEF Surjection
  <2>3. IsFiniteSet(chans)
    BY <2>1, <2>2, FS_Surjection
  <2> QED BY <2>3, ChannelOfAssumption
<1>3. emptied \subseteq Channels /\ IsFiniteSet(emptied) /\ n \in Nat
  <2>1. emptied \subseteq chans
    OBVIOUS
  <2>2. IsFiniteSet(emptied)
    BY <1>2, <2>1, FS_Subset
  <2> QED BY <1>2, <2>1, <2>2, FS_CardinalityType
<1>4. \A i \in 1..n : Seqs!SetToSeq(emptied)[i] \in emptied
  BY <1>3, EmptiedOrder
<1> HIDE DEF chans, emptied, n
<1>5. /\ more \in Seq(Command) /\ Len(more) = n
      /\ \A i \in 1..n : more[i].op = "unsubscribe" /\ more[i].chan \in emptied
  <2>1. \A i \in 1..n : [op |-> "unsubscribe", chan |-> Seqs!SetToSeq(emptied)[i]] \in Command
    BY <1>3, <1>4 DEF Command
  <2>2. more \in [1..n -> Command]
    BY <2>1
  <2>3. more \in Seq(Command) /\ Len(more) = n
    BY <1>3, <2>2
  <2> QED BY <1>4, <2>3
<1> HIDE DEF more
<1> DEFINE m == Len(commands)
<1>6. /\ m \in Nat /\ commands' \in Seq(Command) /\ Len(commands') = m + n
      /\ \A i \in 1..m : commands'[i] = commands[i]
      /\ \A i \in 1..(m + n) : i > m => commands'[i] = more[i - m] /\ i - m \in 1..n
  <2>1. commands \in Seq(Command)
    BY DEF RegInv, RegTyped
  <2>2. commands' = commands \o more /\ more \in Seq(Command) /\ Len(more) = n /\ n \in Nat
    BY <1>1, <1>3, <1>5
  <2>3. m \in Nat /\ commands' \in Seq(Command) /\ Len(commands') = m + n
    <3>1. Len(commands) \in Nat /\ commands \o more \in Seq(Command)
      BY <2>1, <2>2
    <3>2. Len(commands \o more) = Len(commands) + Len(more)
      BY <2>1, <2>2, ConcatProperties
    <3> QED BY <2>2, <3>1, <3>2
  <2>4. \A i \in 1..m : commands'[i] = commands[i]
    BY <2>1, <2>2
  <2>5. \A i \in 1..(m + n) : i > m => commands'[i] = more[i - m] /\ i - m \in 1..n
    BY <2>1, <2>2
  <2> QED BY <2>3, <2>4, <2>5
<1>7. \A i \in 1..(m + n) : i > m =>
         commands'[i].op = "unsubscribe" /\ commands'[i].chan \in emptied
  BY <1>5, <1>6
<1>8. \A ch \in emptied : entry'[ch] = 0
  BY <1>1, <1>3
<1> QED BY <1>3, <1>6, <1>7, <1>8

\* Channels that still have an array keep it, and get no UNSUBSCRIBE.
LEMMA RemoveAllKeeps ==
    ASSUME RegInv, NEW S \in SUBSET Listeners, RemoveAll(S) PROVE RegInv'
<1> DEFINE m == Len(commands)
<1>1. PICK n \in Nat :
         /\ m \in Nat /\ commands' \in Seq(Command) /\ Len(commands') = m + n
         /\ \A i \in 1..m : commands'[i] = commands[i]
         /\ \A i \in 1..Len(commands') : i > m =>
               commands'[i].op = "unsubscribe" /\ entry'[commands'[i].chan] = 0
  BY RemoveAllSends
<1>2. /\ \A l \in S : state[l] \in {"attached", "removed"}
      /\ state' = [l \in Listeners |-> IF l \in S THEN "removed" ELSE state[l]]
      /\ UNCHANGED <<upstream, stream, arrays>>
  BY DEF RemoveAll
<1>3. /\ entry' \in [Channels -> Nat]
      /\ \A ch \in Channels : entry'[ch] # 0 => entry[ch] # 0
  BY DEF RemoveAll, RegInv, RegTyped
<1> HIDE DEF m
<1>4. RegTyped'
  <2>1. state' \in [Listeners -> States]
    BY <1>2 DEF RegInv, RegTyped, States
  <2> QED BY <1>1, <1>2, <1>3, <2>1 DEF RegInv, RegTyped
<1>5. \A l \in Listeners : state[l] \in {"subscribing", "failed"} => state'[l] = state[l]
  BY <1>2
<1>6. /\ \A i \in 1..Len(commands') : IsSubscribe(i)' =>
            i \in 1..Len(commands) /\ IsSubscribe(i) /\ commands'[i] = commands[i]
      /\ \A i \in 1..Len(commands) :
            i \in 1..Len(commands') /\ (IsSubscribe(i) => IsSubscribe(i)')
  BY <1>1 DEF IsSubscribe, m
<1>7. \A i \in 1..Len(stream) : IsReply(i)' <=> IsReply(i)
  BY <1>2 DEF IsReply
<1>8. Waiting'
  <2>1. ASSUME NEW i \in 1..Len(commands'), IsSubscribe(i)'
        PROVE  /\ commands'[i].by \in Listeners
               /\ commands'[i].chan = ChannelOf[commands'[i].by]
               /\ state'[commands'[i].by] = "subscribing"
    BY <1>5, <1>6, <2>1 DEF RegInv, Waiting
  <2>2. ASSUME NEW i \in 1..Len(stream), IsReply(i)'
        PROVE  stream[i].by \in Listeners /\ state'[stream[i].by] = "subscribing"
    BY <1>5, <1>7, <2>2 DEF RegInv, Waiting
  <2> QED BY <1>2, <2>1, <2>2 DEF Waiting
<1>9. Once'
  BY <1>2, <1>6, <1>7 DEF RegInv, Once
<1>10. ASSUME NEW ch \in Channels, entry'[ch] # 0
       PROVE  Renewed(ch)' \/ Served(ch)' \/ Rejected(ch)'
  <2>1. entry[ch] # 0
    BY <1>3, <1>10
  <2>2. CASE Renewed(ch)
    <3>1. PICK i \in 1..Len(commands) :
             /\ IsSubscribe(i) /\ commands[i].chan = ch
             /\ \A j \in 1..Len(commands) :
                   j > i => ~(commands[j].op = "unsubscribe" /\ commands[j].chan = ch)
      BY <2>2 DEF Renewed
    <3>2. i \in 1..Len(commands') /\ IsSubscribe(i)' /\ commands'[i].chan = ch
      BY <1>1, <1>6, <3>1 DEF m
    <3>3. ASSUME NEW j \in 1..Len(commands'), j > i
          PROVE  ~(commands'[j].op = "unsubscribe" /\ commands'[j].chan = ch)
      BY <1>1, <1>10, <3>1, <3>3 DEF m
    <3> QED BY <3>2, <3>3 DEF Renewed
  <2>3. CASE Served(ch)
    BY <1>1, <1>2, <1>10, <2>3 DEF Served, Queued, m
  <2>4. CASE Rejected(ch)
    BY <1>2, <1>5, <2>4 DEF Rejected
  <2> QED BY <2>1, <2>2, <2>3, <2>4 DEF RegInv, Fed
<1> QED BY <1>4, <1>8, <1>9, <1>10 DEF RegInv, Fed

\* What lies behind the head of a queue keeps its order.
LEMMA Behind ==
    ASSUME NEW T, NEW q \in Seq(T), q # <<>>
    PROVE  /\ Len(q) \in Nat /\ 1 \in 1..Len(q) /\ Head(q) = q[1] /\ Head(q) \in T
           /\ Tail(q) \in Seq(T) /\ Len(Tail(q)) = Len(q) - 1
           /\ \A i \in 1..Len(Tail(q)) : i + 1 \in 1..Len(q) /\ Tail(q)[i] = q[i + 1]
           /\ \A i \in 1..Len(q) : i # 1 =>
                 i - 1 \in 1..Len(Tail(q)) /\ q[i] = Tail(q)[i - 1]
<1>1. Len(q) \in Nat /\ Len(q) # 0
  OBVIOUS
<1>2. Head(q) = q[1] /\ Tail(q) \in Seq(T) /\ Len(Tail(q)) = Len(q) - 1
  OBVIOUS
<1>3. q[1] \in T
  BY <1>1
<1>4. \A i \in 1..Len(Tail(q)) : i + 1 \in 1..Len(q) /\ Tail(q)[i] = q[i + 1]
  BY <1>1, <1>2
<1>5. \A i \in 1..Len(q) : i # 1 => i - 1 \in 1..Len(Tail(q)) /\ q[i] = Tail(q)[i - 1]
  BY <1>1, <1>2, <1>4
<1> QED BY <1>1, <1>2, <1>3, <1>4, <1>5

LEMMA ServeSubscribeKeeps ==
    ASSUME RegInv, ServeSubscribe \/ RejectSubscribe PROVE RegInv'
<1> DEFINE c == Head(commands)
           n == Len(stream)
           m == Len(commands)
<1>1. /\ commands # <<>> /\ commands' = Tail(commands) /\ c.op = "subscribe"
      /\ UNCHANGED <<entry, state, arrays>>
  BY DEF ServeSubscribe, RejectSubscribe
<1>2. PICK kind \in {"subscribed", "rejected"} :
         /\ stream' = Append(stream, [kind |-> kind, by |-> c.by])
         /\ kind = "subscribed" => upstream' = upstream \cup {c.chan}
         /\ kind = "rejected" => upstream' = upstream
  BY DEF ServeSubscribe, RejectSubscribe
<1>3. /\ m \in Nat /\ 1 \in 1..m /\ c = commands[1] /\ c \in Command
      /\ commands' \in Seq(Command) /\ Len(commands') = m - 1
      /\ \A i \in 1..Len(commands') : i + 1 \in 1..m /\ commands'[i] = commands[i + 1]
      /\ \A i \in 1..m : i # 1 => i - 1 \in 1..Len(commands') /\ commands[i] = commands'[i - 1]
  <2>1. commands \in Seq(Command)
    BY DEF RegInv, RegTyped
  <2> QED BY <1>1, <2>1, Behind
<1>4. IsSubscribe(1)
  BY <1>1, <1>3 DEF IsSubscribe
<1>5. c.by \in Listeners /\ c.chan = ChannelOf[c.by] /\ state[c.by] = "subscribing"
  BY <1>3, <1>4 DEF RegInv, Waiting
<1> DEFINE r == [kind |-> kind, by |-> c.by]
<1>6. r \in Reply \cup Message /\ r.kind = kind /\ r.by = c.by
  BY <1>5 DEF Reply
<1>7. stream' = Append(stream, r)
  BY <1>2
<1> HIDE DEF r
<1>8. /\ n \in Nat /\ stream' \in Seq(Reply \cup Message) /\ Len(stream') = n + 1
      /\ stream'[n + 1] = r /\ \A i \in 1..n : stream'[i] = stream[i]
  BY <1>6, <1>7 DEF RegInv, RegTyped
<1> HIDE DEF c, m, n
<1>9. upstream' \subseteq Channels /\ upstream \subseteq upstream'
  BY <1>2, <1>5, ChannelOfAssumption DEF RegInv, RegTyped
<1>10. RegTyped'
  BY <1>1, <1>3, <1>8, <1>9 DEF RegInv, RegTyped
<1>11. \A i \in 1..Len(commands') : IsSubscribe(i)' =>
          IsSubscribe(i + 1) /\ commands'[i].by # c.by
  BY <1>3, <1>4 DEF RegInv, Once, IsSubscribe, m
<1>12. \A i \in 1..Len(stream') : IsReply(i)' =>
          \/ i = n + 1 /\ stream'[i] = r
          \/ i \in 1..n /\ IsReply(i) /\ stream'[i] = stream[i] /\ stream[i].by # c.by
  BY <1>3, <1>4, <1>8 DEF RegInv, Once, IsReply, n, m
<1>13. Waiting'
  <2>1. ASSUME NEW i \in 1..Len(commands'), IsSubscribe(i)'
        PROVE  /\ commands'[i].by \in Listeners
               /\ commands'[i].chan = ChannelOf[commands'[i].by]
               /\ state'[commands'[i].by] = "subscribing"
    BY <1>1, <1>3, <1>11, <2>1 DEF RegInv, Waiting, m
  <2>2. ASSUME NEW i \in 1..Len(stream'), IsReply(i)'
        PROVE  stream'[i].by \in Listeners /\ state'[stream'[i].by] = "subscribing"
    BY <1>1, <1>5, <1>6, <1>12, <2>2 DEF RegInv, Waiting, n
  <2> QED BY <2>1, <2>2 DEF Waiting
<1>14. Once'
  <2>1. ASSUME NEW i \in 1..Len(commands'), NEW j \in 1..Len(commands'),
               IsSubscribe(i)', IsSubscribe(j)', commands'[i].by = commands'[j].by
        PROVE  i = j
    <3>1. i + 1 = j + 1
      BY <1>3, <1>11, <2>1 DEF RegInv, Once, m
    <3> QED BY <3>1
  <2>2. ASSUME NEW i \in 1..Len(stream'), NEW j \in 1..Len(stream'),
               IsReply(i)', IsReply(j)', stream'[i].by = stream'[j].by
        PROVE  i = j
    BY <1>6, <1>12, <2>2 DEF RegInv, Once, n
  <2>3. ASSUME NEW i \in 1..Len(commands'), NEW j \in 1..Len(stream'),
               IsSubscribe(i)', IsReply(j)'
        PROVE  commands'[i].by # stream'[j].by
    BY <1>3, <1>6, <1>11, <1>12, <2>3 DEF RegInv, Once, n, m
  <2> QED BY <2>1, <2>2, <2>3 DEF Once
<1>15. ASSUME NEW ch \in Channels, entry'[ch] # 0
       PROVE  Renewed(ch)' \/ Served(ch)' \/ Rejected(ch)'
  <2>1. entry[ch] # 0
    BY <1>1, <1>15
  <2>2. CASE Renewed(ch)
    <3>1. PICK i \in 1..m :
             /\ IsSubscribe(i) /\ commands[i].chan = ch
             /\ \A j \in 1..m :
                   j > i => ~(commands[j].op = "unsubscribe" /\ commands[j].chan = ch)
      BY <2>2 DEF Renewed, m
    <3>2. \A j \in 1..Len(commands') :
             j + 1 > i => ~(commands'[j].op = "unsubscribe" /\ commands'[j].chan = ch)
      <4> SUFFICES ASSUME NEW j \in 1..Len(commands'), j + 1 > i
                   PROVE  ~(commands'[j].op = "unsubscribe" /\ commands'[j].chan = ch)
        OBVIOUS
      <4>1. j + 1 \in 1..m /\ commands'[j] = commands[j + 1]
        BY <1>3
      <4> QED BY <3>1, <4>1
    <3>3. CASE i = 1
      <4>1. ~Queued("unsubscribe", ch)'
        BY <1>3, <3>2, <3>3 DEF Queued
      <4>2. c.chan = ch
        BY <1>3, <3>1, <3>3
      <4>3. CASE kind = "subscribed"
        BY <1>2, <4>1, <4>2, <4>3 DEF Served
      <4>4. CASE kind = "rejected"
        <5>1. stream'[n + 1] = [kind |-> "rejected", by |-> c.by] /\ n + 1 \in 1..Len(stream')
          BY <1>8, <4>4 DEF r
        <5> QED BY <1>5, <4>2, <5>1 DEF Rejected
      <4> QED BY <4>3, <4>4
    <3>4. CASE i # 1
      <4>1. i - 1 \in 1..Len(commands') /\ IsSubscribe(i - 1)' /\ commands'[i - 1].chan = ch
        BY <1>3, <3>1, <3>4 DEF IsSubscribe
      <4>2. \A j \in 1..Len(commands') :
               j > i - 1 => ~(commands'[j].op = "unsubscribe" /\ commands'[j].chan = ch)
        BY <1>3, <3>1, <3>2
      <4> QED BY <4>1, <4>2 DEF Renewed
    <3> QED BY <3>3, <3>4
  <2>3. CASE Served(ch)
    <3>1. ~Queued("unsubscribe", ch)'
      BY <1>3, <2>3 DEF Served, Queued, m
    <3> QED BY <1>9, <2>3, <3>1 DEF Served
  <2>4. CASE Rejected(ch)
    BY <1>1, <1>8, <2>4 DEF Rejected, n
  <2> QED BY <2>1, <2>2, <2>3, <2>4 DEF RegInv, Fed
<1> QED BY <1>10, <1>13, <1>14, <1>15 DEF RegInv, Fed

LEMMA ServeUnsubscribeKeeps ==
    ASSUME RegInv, ServeUnsubscribe PROVE RegInv'
<1> DEFINE m == Len(commands)
<1>1. /\ commands # <<>> /\ commands' = Tail(commands)
      /\ Head(commands).op = "unsubscribe" /\ upstream' = upstream \ {Head(commands).chan}
      /\ UNCHANGED <<entry, state, stream, arrays>>
  BY DEF ServeUnsubscribe
<1>2. /\ m \in Nat /\ 1 \in 1..m /\ Head(commands) = commands[1]
      /\ commands' \in Seq(Command) /\ Len(commands') = m - 1
      /\ \A i \in 1..Len(commands') : i + 1 \in 1..m /\ commands'[i] = commands[i + 1]
      /\ \A i \in 1..m : i # 1 => i - 1 \in 1..Len(commands') /\ commands[i] = commands'[i - 1]
  <2>1. commands \in Seq(Command)
    BY DEF RegInv, RegTyped
  <2> QED BY <1>1, <2>1, Behind
<1> HIDE DEF m
<1>3. RegTyped'
  BY <1>1, <1>2 DEF RegInv, RegTyped
<1>4. \A i \in 1..Len(commands') : IsSubscribe(i)' => IsSubscribe(i + 1)
  BY <1>2 DEF IsSubscribe, m
<1>5. Waiting'
  <2>1. ASSUME NEW i \in 1..Len(commands'), IsSubscribe(i)'
        PROVE  /\ commands'[i].by \in Listeners
               /\ commands'[i].chan = ChannelOf[commands'[i].by]
               /\ state'[commands'[i].by] = "subscribing"
    BY <1>1, <1>2, <1>4, <2>1 DEF RegInv, Waiting, m
  <2>2. ASSUME NEW i \in 1..Len(stream'), IsReply(i)'
        PROVE  stream'[i].by \in Listeners /\ state'[stream'[i].by] = "subscribing"
    BY <1>1, <2>2 DEF RegInv, Waiting, IsReply
  <2> QED BY <2>1, <2>2 DEF Waiting
<1>6. Once'
  <2>1. ASSUME NEW i \in 1..Len(commands'), NEW j \in 1..Len(commands'),
               IsSubscribe(i)', IsSubscribe(j)', commands'[i].by = commands'[j].by
        PROVE  i = j
    <3>1. i + 1 = j + 1
      BY <1>2, <1>4, <2>1 DEF RegInv, Once, m
    <3> QED BY <3>1
  <2>2. ASSUME NEW i \in 1..Len(stream'), NEW j \in 1..Len(stream'),
               IsReply(i)', IsReply(j)', stream'[i].by = stream'[j].by
        PROVE  i = j
    BY <1>1, <2>2 DEF RegInv, Once, IsReply
  <2>3. ASSUME NEW i \in 1..Len(commands'), NEW j \in 1..Len(stream'),
               IsSubscribe(i)', IsReply(j)'
        PROVE  commands'[i].by # stream'[j].by
    BY <1>1, <1>2, <1>4, <2>3 DEF RegInv, Once, IsReply, m
  <2> QED BY <2>1, <2>2, <2>3 DEF Once
<1>7. ASSUME NEW ch \in Channels, entry'[ch] # 0
      PROVE  Renewed(ch)' \/ Served(ch)' \/ Rejected(ch)'
  <2>1. entry[ch] # 0
    BY <1>1, <1>7
  <2>2. CASE Renewed(ch)
    <3>1. PICK i \in 1..m :
             /\ IsSubscribe(i) /\ commands[i].chan = ch
             /\ \A j \in 1..m :
                   j > i => ~(commands[j].op = "unsubscribe" /\ commands[j].chan = ch)
      BY <2>2 DEF Renewed, m
    <3>2. i # 1
      BY <1>1, <1>2, <3>1 DEF IsSubscribe
    <3>3. i - 1 \in 1..Len(commands') /\ IsSubscribe(i - 1)' /\ commands'[i - 1].chan = ch
      BY <1>2, <3>1, <3>2 DEF IsSubscribe
    <3>4. \A j \in 1..Len(commands') :
             j > i - 1 => ~(commands'[j].op = "unsubscribe" /\ commands'[j].chan = ch)
      BY <1>2, <3>1
    <3> QED BY <3>3, <3>4 DEF Renewed
  <2>3. CASE Served(ch)
    <3>1. ~Queued("unsubscribe", ch)' /\ Head(commands).chan # ch
      BY <1>1, <1>2, <2>3 DEF Served, Queued, m
    <3> QED BY <1>1, <2>3, <3>1 DEF Served
  <2>4. CASE Rejected(ch)
    BY <1>1, <2>4 DEF Rejected
  <2> QED BY <2>1, <2>2, <2>3, <2>4 DEF RegInv, Fed
<1> QED BY <1>3, <1>5, <1>6, <1>7 DEF RegInv, Fed

\* What a listener has failed with is read once: no second reply of its own
\* makes it anything else.
LEMMA ReadReplyKeeps ==
    ASSUME RegInv, ReadReply
    PROVE  /\ RegInv'
           /\ \E l \in Listeners :
                 /\ state[l] = "subscribing" /\ state'[l] \in {"answered", "failed"}
                 /\ \A k \in Listeners \ {l} : state'[k] = state[k]
<1> DEFINE r == Head(stream)
           n == Len(stream)
<1>1. /\ stream # <<>> /\ stream' = Tail(stream) /\ r.kind # "message"
      /\ state' = [state EXCEPT ![r.by] = IF r.kind = "subscribed" THEN "answered" ELSE "failed"]
      /\ UNCHANGED <<entry, commands, upstream, arrays>>
  BY DEF ReadReply
<1>2. /\ n \in Nat /\ 1 \in 1..n /\ r = stream[1] /\ r \in Reply \cup Message
      /\ stream' \in Seq(Reply \cup Message) /\ Len(stream') = n - 1
      /\ \A i \in 1..Len(stream') : i + 1 \in 1..n /\ stream'[i] = stream[i + 1]
      /\ \A i \in 1..n : i # 1 => i - 1 \in 1..Len(stream') /\ stream[i] = stream'[i - 1]
  <2>1. stream \in Seq(Reply \cup Message)
    BY DEF RegInv, RegTyped
  <2> QED BY <1>1, <2>1, Behind
<1>3. IsReply(1)
  BY <1>1, <1>2 DEF IsReply
<1>4. r.by \in Listeners /\ state[r.by] = "subscribing"
  BY <1>2, <1>3 DEF RegInv, Waiting
<1> HIDE DEF n
<1>5. /\ state'[r.by] = IF r.kind = "subscribed" THEN "answered" ELSE "failed"
      /\ \A k \in Listeners \ {r.by} : state'[k] = state[k]
  BY <1>1, <1>4 DEF RegInv, RegTyped
<1>6. RegTyped'
  <2>1. state' \in [Listeners -> States]
    BY <1>1 DEF RegInv, RegTyped, States
  <2> QED BY <1>1, <1>2, <2>1 DEF RegInv, RegTyped
<1> HIDE DEF r
<1>7. \A i \in 1..Len(stream') : IsReply(i)' => IsReply(i + 1) /\ stream'[i].by # r.by
  BY <1>2, <1>3 DEF RegInv, Once, IsReply, n
<1>8. \A i \in 1..Len(commands') : IsSubscribe(i)' => IsSubscribe(i) /\ commands[i].by # r.by
  BY <1>1, <1>2, <1>3 DEF RegInv, Once, IsSubscribe, n
<1>9. Waiting'
  <2>1. ASSUME NEW i \in 1..Len(commands'), IsSubscribe(i)'
        PROVE  /\ commands'[i].by \in Listeners
               /\ commands'[i].chan = ChannelOf[commands'[i].by]
               /\ state'[commands'[i].by] = "subscribing"
    BY <1>1, <1>5, <1>8, <2>1 DEF RegInv, Waiting
  <2>2. ASSUME NEW i \in 1..Len(stream'), IsReply(i)'
        PROVE  stream'[i].by \in Listeners /\ state'[stream'[i].by] = "subscribing"
    BY <1>2, <1>5, <1>7, <2>2 DEF RegInv, Waiting, n
  <2> QED BY <2>1, <2>2 DEF Waiting
<1>10. Once'
  <2>1. ASSUME NEW i \in 1..Len(commands'), NEW j \in 1..Len(commands'),
               IsSubscribe(i)', IsSubscribe(j)', commands'[i].by = commands'[j].by
        PROVE  i = j
    BY <1>1, <1>8, <2>1 DEF RegInv, Once
  <2>2. ASSUME NEW i \in 1..Len(stream'), NEW j \in 1..Len(stream'),
               IsReply(i)', IsReply(j)', stream'[i].by = stream'[j].by
        PROVE  i = j
    <3>1. i + 1 = j + 1
      BY <1>2, <1>7, <2>2 DEF RegInv, Once, n
    <3> QED BY <3>1
  <2>3. ASSUME NEW i \in 1..Len(commands'), NEW j \in 1..Len(stream'),
               IsSubscribe(i)', IsReply(j)'
        PROVE  commands'[i].by # stream'[j].by
    BY <1>1, <1>2, <1>7, <1>8, <2>3 DEF RegInv, Once, n
  <2> QED BY <2>1, <2>2, <2>3 DEF Once
<1>11. ASSUME NEW ch \in Channels, Rejected(ch) PROVE Rejected(ch)'
  <2>1. PICK l \in Listeners :
           /\ ChannelOf[l] = ch
           /\ \/ state[l] = "failed"
              \/ \E i \in 1..n : stream[i] = [kind |-> "rejected", by |-> l]
    BY <1>11 DEF Rejected, n
  <2>2. CASE state[l] = "failed"
    BY <1>4, <1>5, <2>1, <2>2 DEF Rejected
  <2>3. ASSUME NEW i \in 1..n, stream[i] = [kind |-> "rejected", by |-> l]
        PROVE  Rejected(ch)'
    <3>1. CASE i = 1
      <4>1. r.kind = "rejected" /\ r.by = l
        BY <1>2, <2>3, <3>1
      <4> QED BY <1>5, <2>1, <4>1 DEF Rejected
    <3>2. CASE i # 1
      BY <1>2, <2>1, <2>3, <3>2 DEF Rejected
    <3> QED BY <3>1, <3>2
  <2> QED BY <2>1, <2>2, <2>3
<1>12. ASSUME NEW ch \in Channels, entry'[ch] # 0
       PROVE  Renewed(ch)' \/ Served(ch)' \/ Rejected(ch)'
  <2>1. entry[ch] # 0
    BY <1>1, <1>12
  <2>2. CASE Renewed(ch)
    BY <1>1, <2>2 DEF Renewed, IsSubscribe
  <2>3. CASE Served(ch)
    BY <1>1, <2>3 DEF Served, Queued
  <2>4. CASE Rejected(ch)
    BY <1>11, <2>4
  <2> QED BY <2>1, <2>2, <2>3, <2>4 DEF RegInv, Fed
<1> QED BY <1>4, <1>5, <1>6, <1>9, <1>10, <1>12 DEF RegInv, Fed

LEMMA ReadMessageKeeps ==
    ASSUME RegInv, ReadMessage PROVE RegInv'
<1> DEFINE n == Len(stream)
<1>1. /\ stream # <<>> /\ stream' = Tail(stream) /\ Head(stream).kind = "message"
      /\ UNCHANGED <<entry, state, commands, upstream, arrays>>
  BY DEF ReadMessage
<1>2. /\ n \in Nat /\ 1 \in 1..n /\ Head(stream) = stream[1]
      /\ stream' \in Seq(Reply \cup Message) /\ Len(stream') = n - 1
      /\ \A i \in 1..Len(stream') : i + 1 \in 1..n /\ stream'[i] = stream[i + 1]
      /\ \A i \in 1..n : i # 1 => i - 1 \in 1..Len(stream') /\ stream[i] = stream'[i - 1]
  <2>1. stream \in Seq(Reply \cup Message)
    BY DEF RegInv, RegTyped
  <2> QED BY <1>1, <2>1, Behind
<1> HIDE DEF n
<1>3. RegTyped'
  BY <1>1, <1>2 DEF RegInv, RegTyped
<1>4. \A i \in 1..Len(stream') : IsReply(i)' => IsReply(i + 1)
  BY <1>2 DEF IsReply, n
<1>5. \A i : IsSubscribe(i)' => IsSubscribe(i)
  BY <1>1 DEF IsSubscribe
<1>6. Waiting'
  BY <1>1, <1>2, <1>4, <1>5 DEF RegInv, Waiting, n
<1>7. Once'
  <2>1. ASSUME NEW i \in 1..Len(stream'), NEW j \in 1..Len(stream'),
               IsReply(i)', IsReply(j)', stream'[i].by = stream'[j].by
        PROVE  i = j
    <3>1. i + 1 = j + 1
      BY <1>2, <1>4, <2>1 DEF RegInv, Once, n
    <3> QED BY <3>1
  <2>2. ASSUME NEW i \in 1..Len(commands'), NEW j \in 1..Len(stream'),
               IsSubscribe(i)', IsReply(j)'
        PROVE  commands'[i].by # stream'[j].by
    BY <1>1, <1>2, <1>4, <1>5, <2>2 DEF RegInv, Once, n
  <2>3. ASSUME NEW i \in 1..Len(commands'), NEW j \in 1..Len(commands'),
               IsSubscribe(i)', IsSubscribe(j)', commands'[i].by = commands'[j].by
        PROVE  i = j
    BY <1>1, <1>5, <2>3 DEF RegInv, Once
  <2> QED BY <2>1, <2>2, <2>3 DEF Once
<1>8. ASSUME NEW ch \in Channels, entry'[ch] # 0
      PROVE  Renewed(ch)' \/ Served(ch)' \/ Rejected(ch)'
  <2>1. CASE Renewed(ch)
    BY <1>1, <2>1 DEF Renewed, IsSubscribe
  <2>2. CASE Served(ch)
    BY <1>1, <2>2 DEF Served, Queued
  <2>3. CASE Rejected(ch)
    <3>1. PICK l \in Listeners :
             /\ ChannelOf[l] = ch
             /\ \/ state[l] = "failed"
                \/ \E i \in 1..n : stream[i] = [kind |-> "rejected", by |-> l]
      BY <2>3 DEF Rejected, n
    <3>2. ASSUME NEW i \in 1..n, stream[i] = [kind |-> "rejected", by |-> l]
          PROVE  Rejected(ch)'
      <4>1. i # 1
        BY <1>1, <1>2, <3>2
      <4>2. i - 1 \in 1..Len(stream') /\ stream'[i - 1] = [kind |-> "rejected", by |-> l]
        BY <1>2, <3>2, <4>1
      <4> QED BY <3>1, <4>2 DEF Rejected
    <3>3. CASE state[l] = "failed"
      BY <1>1, <3>1, <3>3 DEF Rejected
    <3> QED BY <3>1, <3>2, <3>3
  <2> QED BY <1>1, <1>8, <2>1, <2>2, <2>3 DEF RegInv, Fed
<1> QED BY <1>3, <1>6, <1>7, <1>8 DEF RegInv, Fed

LEMMA PublishKeeps ==
    ASSUME RegInv, NEW ch \in Channels, NEW p \in Payloads, Publish(ch, p) PROVE RegInv'
<1> DEFINE n == Len(stream)
           r == [kind |-> "message", chan |-> ch, payload |-> p]
<1>1. /\ UNCHANGED <<entry, state, commands, upstream, arrays>>
      /\ stream' = IF ch \in upstream THEN Append(stream, r) ELSE stream
  BY DEF Publish
<1>2. r \in Reply \cup Message /\ r.kind = "message"
  BY DEF Message
<1> HIDE DEF r
<1>3. /\ n \in Nat /\ stream' \in Seq(Reply \cup Message)
      /\ \A i \in 1..n : i \in 1..Len(stream') /\ stream'[i] = stream[i]
      /\ \A i \in 1..Len(stream') : i \in 1..n \/ stream'[i] = r
  BY <1>1, <1>2 DEF RegInv, RegTyped
<1> HIDE DEF n
<1>4. RegTyped'
  BY <1>1, <1>3 DEF RegInv, RegTyped
<1>5. \A i \in 1..Len(stream') : IsReply(i)' => i \in 1..n /\ IsReply(i)
  BY <1>2, <1>3 DEF IsReply, n
<1>6. \A i : IsSubscribe(i)' => IsSubscribe(i)
  BY <1>1 DEF IsSubscribe
<1>7. Waiting' /\ Once'
  BY <1>1, <1>3, <1>5, <1>6 DEF RegInv, Waiting, Once, n
<1>8. ASSUME NEW c \in Channels, entry'[c] # 0
      PROVE  Renewed(c)' \/ Served(c)' \/ Rejected(c)'
  <2>1. CASE Renewed(c)
    BY <1>1, <2>1 DEF Renewed, IsSubscribe
  <2>2. CASE Served(c)
    BY <1>1, <2>2 DEF Served, Queued
  <2>3. CASE Rejected(c)
    BY <1>1, <1>3, <2>3 DEF Rejected, n
  <2> QED BY <1>1, <1>8, <2>1, <2>2, <2>3 DEF RegInv, Fed
<1> QED BY <1>4, <1>7, <1>8 DEF RegInv, Fed

LEMMA RegStays ==
    ASSUME RegInv, UNCHANGED regVars PROVE RegInv'
<1>1. UNCHANGED <<entry, state, commands, upstream, stream, arrays>>
  BY DEF regVars
<1>2. RegTyped' /\ Waiting' /\ Once'
  BY <1>1 DEF RegInv, RegTyped, Waiting, Once, IsSubscribe, IsReply
<1>3. Fed'
  BY <1>1, FedStays DEF RegInv
<1> QED BY <1>2, <1>3 DEF RegInv

\* A step of the registry of its own: of the listeners only one moves, and
\* its handler is suspended.
=============================================================================
