----------------------------- MODULE RoomsProofs -----------------------------
(* That the three levels of a room subscription agree (LevelsAgree), for   *)
(* any number of sockets, rooms, frames and posts, and SUBSCRIBEs refused. *)
EXTENDS Rooms, RegistryProofs

(***************************************************************************)
(* The contexts of the sockets.                                            *)
(***************************************************************************)

CtxTyped ==
    /\ sock \in [Sockets -> {"open", "draining", "closed"}]
    /\ joining \subseteq Listeners
    /\ leaving \in [Sockets -> [Channels -> Nat]]
    /\ subscribedRooms \in [Sockets -> SUBSET Channels]
    /\ roomListeners \in [Sockets -> [Channels -> Listeners \cup {NoListener}]]
    /\ untidy \subseteq Sockets

\* Where a listener can be while its handler is suspended, and where not.
Joining ==
    \A l \in Listeners :
        IF l \in joining THEN state[l] \in {"subscribing", "answered", "attached", "failed"}
                         ELSE state[l] \in {"idle", "attached", "failed", "removed"}

\* subscribedRooms and __roomListeners are one map, of the listeners that
\* have been attached for this socket and this slug.
OneMap ==
    \A s \in Sockets, ch \in Channels :
        LET l == roomListeners[s][ch]
        IN  /\ ch \in subscribedRooms[s] <=> l # NoListener
            /\ l # NoListener => /\ l \notin joining /\ state[l] \in {"attached", "removed"}
                                 /\ SocketOf[l] = s /\ ChannelOf[l] = ch

Joiners(s, ch) == {l \in joining : SocketOf[l] = s /\ ChannelOf[l] = ch}

\* One handler at a time: what it leaves or finds attached is its own.
Tidy(s, ch) ==
    /\ ~Busy(s, ch) => Attached(s, ch) = IF sock[s] = "open" /\ ch \in subscribedRooms[s]
                                         THEN {roomListeners[s][ch]} ELSE {}
    /\ Busy(s, ch) => sock[s] = "open"
    /\ leaving[s][ch] > 0 => /\ leaving[s][ch] = 1
                             /\ Joiners(s, ch) = {} /\ Attached(s, ch) = {}
    /\ \A l \in Joiners(s, ch) : /\ Joiners(s, ch) = {l} /\ ch \notin subscribedRooms[s]
                                 /\ Attached(s, ch) \subseteq {l}
AllTidy == \A s \in Sockets \ untidy, ch \in Channels : Tidy(s, ch)

CtxInv == CtxTyped /\ Joining /\ OneMap /\ AllTidy

-----------------------------------------------------------------------------

LEMMA BusyIs ==
    ASSUME CtxTyped, NEW s \in Sockets, NEW ch \in Channels
    PROVE  Busy(s, ch) <=> leaving[s][ch] > 0 \/ Joiners(s, ch) # {}
BY DEF Busy, Joiners, CtxTyped

\* Nothing of the contexts changes, and no listener that one of them keeps.
LEMMA CtxStays ==
    ASSUME RegInv, CtxInv, RegInv',
           UNCHANGED <<sock, joining, leaving, subscribedRooms, roomListeners, untidy>>,
           \A k \in Listeners :
              \/ state'[k] = state[k]
              \/ k \in joining /\ state[k] \in {"subscribing", "answered"}
                 /\ state'[k] \in {"answered", "attached", "failed"}
    PROVE  CtxInv'
<1>1. CtxTyped' /\ Joining' /\ OneMap'
  BY DEF CtxInv, CtxTyped, Joining, OneMap
<1>2. ASSUME NEW s \in Sockets \ untidy', NEW ch \in Channels PROVE Tidy(s, ch)'
  <2>1. Tidy(s, ch) /\ UNCHANGED <<Busy(s, ch), Joiners(s, ch)>>
    BY <1>2 DEF CtxInv, AllTidy, Busy, Joiners
  <2>2. Attached(s, ch)' \subseteq Attached(s, ch) \cup Joiners(s, ch)
    BY DEF Attached, Joiners
  <2>3. Attached(s, ch) \subseteq Attached(s, ch)'
    BY DEF Attached
  <2>4. Joiners(s, ch) # {} => Busy(s, ch)
    BY DEF Joiners, Busy
  <2> QED BY <2>1, <2>2, <2>3, <2>4 DEF Tidy
<1> QED BY <1>1, <1>2 DEF CtxInv, AllTidy

\* The part of one socket and slug is what it was.
LEMMA Elsewhere ==
    ASSUME NEW s, NEW ch, Tidy(s, ch),
           UNCHANGED <<sock[s], leaving[s][ch], roomListeners[s][ch]>>,
           ch \in subscribedRooms'[s] <=> ch \in subscribedRooms[s],
           Joiners(s, ch)' = Joiners(s, ch), Attached(s, ch)' = Attached(s, ch)
    PROVE  Tidy(s, ch)'
<1>1. Busy(s, ch) <=> leaving[s][ch] > 0 \/ Joiners(s, ch) # {}
  BY DEF Busy, Joiners
<1>2. Busy(s, ch)' <=> leaving'[s][ch] > 0 \/ Joiners(s, ch)' # {}
  BY DEF Busy, Joiners
<1> QED BY <1>1, <1>2 DEF Tidy

LEMMA SubscribeRoomKeeps ==
    ASSUME RegInv, CtxInv, NEW l \in Listeners, SubscribeRoom(l) PROVE CtxInv'
<1> DEFINE s == SocketOf[l]
           ch == ChannelOf[l]
<1>0. s \in Sockets /\ ch \in Channels
  BY RoomsAssumptions, ChannelOfAssumption
<1>1. /\ sock[s] = "open" /\ ch \notin subscribedRooms[s] /\ state[l] = "idle"
      /\ joining' = joining \cup {l}
      /\ untidy' = IF Busy(s, ch) THEN untidy \cup {s} ELSE untidy
      /\ UNCHANGED <<sock, leaving, subscribedRooms, roomListeners>>
  BY DEF SubscribeRoom, Add, AddFirst, AddNext, NoteOverlap
<1>2. PICK new \in {"subscribing", "attached"} : state' = [state EXCEPT ![l] = new]
  BY DEF SubscribeRoom, Add, AddFirst, AddNext
<1>3. state'[l] = new /\ \A k \in Listeners \ {l} : state'[k] = state[k]
  BY <1>2 DEF RegInv, RegTyped
<1>4. l \notin joining /\ \A q \in Sockets, c \in Channels : roomListeners[q][c] # l
  BY <1>1, RoomsAssumptions DEF CtxInv, Joining, OneMap
<1>5. CtxTyped'
  BY <1>0, <1>1 DEF CtxInv, CtxTyped
<1>6. Joining'
  BY <1>1, <1>3 DEF CtxInv, Joining
<1>7. OneMap'
  <2> SUFFICES ASSUME NEW q \in Sockets, NEW c \in Channels, roomListeners[q][c] # NoListener
               PROVE  LET k == roomListeners[q][c]
                      IN  /\ k \notin joining' /\ state'[k] \in {"attached", "removed"}
                          /\ SocketOf[k] = q /\ ChannelOf[k] = c
    BY <1>1 DEF CtxInv, OneMap
  <2>1. roomListeners[q][c] \in Listeners
    BY DEF CtxInv, CtxTyped
  <2> QED BY <1>1, <1>3, <1>4, <2>1 DEF CtxInv, OneMap
<1>8. ASSUME NEW q \in Sockets \ untidy', NEW c \in Channels PROVE Tidy(q, c)'
  <2>1. Tidy(q, c)
    BY <1>1, <1>8 DEF CtxInv, AllTidy
  <2>2. CASE q = s /\ c = ch
    <3>1. ~Busy(q, c)
      BY <1>1, <1>8, <2>2
    <3>2. Attached(q, c) = {} /\ Joiners(q, c) = {} /\ ~(leaving[q][c] > 0)
      BY <1>1, <2>1, <2>2, <3>1 DEF Tidy, Busy, Joiners
    <3>3. Joiners(q, c)' = {l}
      BY <1>1, <2>2, <3>2 DEF Joiners
    <3>4. Attached(q, c)' \subseteq {l}
      BY <1>3, <3>2 DEF Attached
    <3>5. Busy(q, c)'
      BY <3>3 DEF Busy, Joiners
    <3>6. sock'[q] = "open" /\ c \notin subscribedRooms'[q] /\ ~(leaving'[q][c] > 0)
      BY <1>1, <2>2, <3>2
    <3> QED BY <3>3, <3>4, <3>5, <3>6 DEF Tidy
  <2>3. CASE ~(q = s /\ c = ch)
    <3>1. Joiners(q, c)' = Joiners(q, c)
      BY <1>1, <2>3 DEF Joiners
    <3>2. Attached(q, c)' = Attached(q, c)
      BY <1>3, <2>3 DEF Attached
    <3> QED BY <1>1, <2>1, <3>1, <3>2, Elsewhere
  <2> QED BY <2>2, <2>3
<1> QED BY <1>5, <1>6, <1>7, <1>8 DEF CtxInv, AllTidy

LEMMA SubscribedKeeps ==
    ASSUME RegInv, CtxInv, NEW l \in Listeners, Subscribed(l) PROVE CtxInv'
<1> DEFINE s == SocketOf[l]
           ch == ChannelOf[l]
<1>0. s \in Sockets /\ ch \in Channels
  BY RoomsAssumptions, ChannelOfAssumption
<1>1. /\ l \in joining /\ state[l] = "attached" /\ joining' = joining \ {l}
      /\ subscribedRooms' = [subscribedRooms EXCEPT ![s] = @ \cup {ch}]
      /\ roomListeners' = [roomListeners EXCEPT ![s][ch] = l]
      /\ UNCHANGED <<state, sock, leaving, untidy>>
  BY DEF Subscribed, regVars
<1>2. CtxTyped'
  BY <1>0, <1>1 DEF CtxInv, CtxTyped
<1>3. /\ roomListeners'[s][ch] = l /\ ch \in subscribedRooms'[s]
      /\ \A q \in Sockets, c \in Channels : ~(q = s /\ c = ch) =>
            /\ roomListeners'[q][c] = roomListeners[q][c]
            /\ c \in subscribedRooms'[q] <=> c \in subscribedRooms[q]
  BY <1>0, <1>1 DEF CtxInv, CtxTyped
<1>4. Joining'
  BY <1>1 DEF CtxInv, Joining
<1>5. OneMap'
  <2> SUFFICES ASSUME NEW q \in Sockets, NEW c \in Channels
               PROVE  LET k == roomListeners'[q][c]
                      IN  /\ c \in subscribedRooms'[q] <=> k # NoListener
                          /\ k # NoListener =>
                                /\ k \notin joining' /\ state'[k] \in {"attached", "removed"}
                                /\ SocketOf[k] = q /\ ChannelOf[k] = c
    BY DEF OneMap
  <2>1. CASE q = s /\ c = ch
    BY <1>1, <1>3, <2>1, RoomsAssumptions
  <2>2. CASE ~(q = s /\ c = ch)
    BY <1>1, <1>3, <2>2 DEF CtxInv, OneMap
  <2> QED BY <2>1, <2>2
<1>6. ASSUME NEW q \in Sockets \ untidy', NEW c \in Channels PROVE Tidy(q, c)'
  <2>1. Tidy(q, c)
    BY <1>1, <1>6 DEF CtxInv, AllTidy
  <2>2. Attached(q, c)' = Attached(q, c)
    BY <1>1 DEF Attached
  <2>3. CASE q = s /\ c = ch
    <3>1. l \in Joiners(q, c) /\ Busy(q, c) /\ l \in Attached(q, c)
      BY <1>1, <2>3 DEF Joiners, Busy, Attached
    <3>2. /\ sock[q] = "open" /\ Joiners(q, c) = {l} /\ Attached(q, c) = {l}
          /\ ~(leaving[q][c] > 0)
      BY <2>1, <3>1 DEF Tidy
    <3>3. Joiners(q, c)' = {}
      BY <1>1, <3>2 DEF Joiners
    <3>4. ~Busy(q, c)'
      BY <1>1, <3>2, <3>3 DEF Busy, Joiners
    <3> QED BY <1>1, <1>3, <2>2, <2>3, <3>2, <3>3, <3>4 DEF Tidy
  <2>4. CASE ~(q = s /\ c = ch)
    <3>1. Joiners(q, c)' = Joiners(q, c)
      BY <1>1, <2>4 DEF Joiners
    <3> QED BY <1>1, <1>3, <2>1, <2>2, <2>4, <3>1, Elsewhere
  <2> QED BY <2>3, <2>4
<1> QED BY <1>2, <1>4, <1>5, <1>6 DEF CtxInv, AllTidy

LEMMA SubscribeRefusedKeeps ==
    ASSUME RegInv, CtxInv, NEW l \in Listeners, SubscribeRefused(l) PROVE CtxInv'
<1> DEFINE s == SocketOf[l]
           ch == ChannelOf[l]
<1>1. /\ l \in joining /\ state[l] = "failed" /\ joining' = joining \ {l}
      /\ UNCHANGED <<state, sock, leaving, subscribedRooms, roomListeners, untidy>>
  BY DEF SubscribeRefused, regVars
<1>2. CtxTyped' /\ Joining' /\ OneMap'
  BY <1>1 DEF CtxInv, CtxTyped, Joining, OneMap
<1>3. ASSUME NEW q \in Sockets \ untidy', NEW c \in Channels PROVE Tidy(q, c)'
  <2>1. Tidy(q, c)
    BY <1>1, <1>3 DEF CtxInv, AllTidy
  <2>2. Attached(q, c)' = Attached(q, c)
    BY <1>1 DEF Attached
  <2>3. CASE q = s /\ c = ch
    <3>1. l \in Joiners(q, c) /\ l \notin Attached(q, c)
      BY <1>1, <2>3 DEF Joiners, Attached
    <3>2. /\ Joiners(q, c) = {l} /\ Attached(q, c) = {} /\ c \notin subscribedRooms[q]
          /\ ~(leaving[q][c] > 0)
      BY <2>1, <3>1 DEF Tidy
    <3>3. Joiners(q, c)' = {}
      BY <1>1, <3>2 DEF Joiners
    <3>4. ~Busy(q, c)'
      BY <1>1, <3>2, <3>3 DEF Busy, Joiners
    <3> QED BY <1>1, <2>2, <3>2, <3>3, <3>4 DEF Tidy
  <2>4. CASE ~(q = s /\ c = ch)
    <3>1. Joiners(q, c)' = Joiners(q, c)
      BY <1>1, <2>4 DEF Joiners
    <3> QED BY <1>1, <2>1, <2>2, <3>1, Elsewhere
  <2> QED BY <2>3, <2>4
<1> QED BY <1>2, <1>3 DEF CtxInv, AllTidy

\* What RemoveAll does to the listeners the contexts keep, or to others.
LEMMA RemovedStates ==
    ASSUME CtxInv, NEW S \in SUBSET Listeners, RemoveAll(S), UNCHANGED joining, S \cap joining = {}
    PROVE  /\ \A k \in Listeners : state'[k] = IF k \in S THEN "removed" ELSE state[k]
           /\ Joining'
           /\ \A k \in Listeners : state[k] \in {"attached", "removed"} =>
                 state'[k] \in {"attached", "removed"}
<1>1. \A k \in Listeners : state'[k] = IF k \in S THEN "removed" ELSE state[k]
  BY DEF RemoveAll
<1> QED BY <1>1 DEF CtxInv, Joining

LEMMA UnsubscribeRoomKeeps ==
    ASSUME RegInv, CtxInv, NEW s \in Sockets, NEW ch \in Channels, UnsubscribeRoom(s, ch)
    PROVE  RegInv' /\ CtxInv'
<1> DEFINE r == roomListeners[s][ch]
<1>1. /\ sock[s] = "open" /\ ch \in subscribedRooms[s]
      /\ RemoveAll({r})
      /\ leaving' = [leaving EXCEPT ![s][ch] = @ + 1]
      /\ untidy' = IF Busy(s, ch) THEN untidy \cup {s} ELSE untidy
      /\ UNCHANGED <<sock, joining, subscribedRooms, roomListeners>>
  BY DEF UnsubscribeRoom, NoteOverlap, Remove
<1>2. r \in Listeners /\ r \notin joining /\ SocketOf[r] = s /\ ChannelOf[r] = ch
  BY <1>1 DEF CtxInv, CtxTyped, OneMap
<1>3. RegInv'
  BY <1>1, <1>2, RemoveAllKeeps
<1>4. /\ \A k \in Listeners : state'[k] = IF k \in {r} THEN "removed" ELSE state[k]
      /\ Joining'
      /\ \A k \in Listeners : state[k] \in {"attached", "removed"} =>
            state'[k] \in {"attached", "removed"}
  <2>1. {r} \in SUBSET Listeners /\ {r} \cap joining = {}
    BY <1>2
  <2> HIDE DEF r
  <2> QED BY <1>1, <2>1, RemovedStates
<1>5. CtxTyped'
  <2>1. leaving' \in [Sockets -> [Channels -> Nat]]
    BY <1>1 DEF CtxInv, CtxTyped
  <2> QED BY <1>1, <2>1 DEF CtxInv, CtxTyped
<1>6. OneMap'
  <2> SUFFICES ASSUME NEW q \in Sockets, NEW c \in Channels, roomListeners[q][c] # NoListener
               PROVE  LET k == roomListeners[q][c]
                      IN  /\ k \notin joining' /\ state'[k] \in {"attached", "removed"}
                          /\ SocketOf[k] = q /\ ChannelOf[k] = c
    BY <1>1 DEF CtxInv, OneMap
  <2>1. roomListeners[q][c] \in Listeners
    BY DEF CtxInv, CtxTyped
  <2> QED BY <1>1, <1>4, <2>1 DEF CtxInv, OneMap
<1>7. /\ leaving'[s][ch] = leaving[s][ch] + 1 /\ leaving[s][ch] \in Nat
      /\ \A q \in Sockets, c \in Channels : ~(q = s /\ c = ch) => leaving'[q][c] = leaving[q][c]
  BY <1>1 DEF CtxInv, CtxTyped
<1> HIDE DEF r
<1>8. ASSUME NEW q \in Sockets \ untidy', NEW c \in Channels PROVE Tidy(q, c)'
  <2>1. Tidy(q, c)
    BY <1>1, <1>8 DEF CtxInv, AllTidy
  <2>2. Joiners(q, c)' = Joiners(q, c)
    BY <1>1 DEF Joiners
  <2>3. CASE q = s /\ c = ch
    <3>1. ~Busy(q, c)
      BY <1>1, <1>8, <2>3
    <3>2. Attached(q, c) = {r} /\ Joiners(q, c) = {} /\ ~(leaving[q][c] > 0)
      BY <1>1, <2>1, <2>3, <3>1 DEF Tidy, Busy, Joiners, r
    <3>3. Attached(q, c)' = {}
      BY <1>4, <3>2 DEF Attached
    <3>4. leaving'[q][c] = 1 /\ Busy(q, c)'
      BY <1>7, <2>3, <3>2 DEF Busy
    <3> QED BY <1>1, <2>2, <2>3, <3>2, <3>3, <3>4 DEF Tidy
  <2>4. CASE ~(q = s /\ c = ch)
    <3>1. Attached(q, c)' = Attached(q, c)
      BY <1>2, <1>4, <2>4 DEF Attached
    <3> QED BY <1>1, <1>7, <2>1, <2>2, <2>4, <3>1, Elsewhere
  <2> QED BY <2>3, <2>4
<1> QED BY <1>3, <1>4, <1>5, <1>6, <1>8 DEF CtxInv, AllTidy

LEMMA UnsubscribedKeeps ==
    ASSUME RegInv, CtxInv, NEW s \in Sockets, NEW ch \in Channels, Unsubscribed(s, ch)
    PROVE  CtxInv'
<1>1. /\ leaving[s][ch] > 0
      /\ leaving' = [leaving EXCEPT ![s][ch] = @ - 1]
      /\ roomListeners' = [roomListeners EXCEPT ![s][ch] = NoListener]
      /\ subscribedRooms' = [subscribedRooms EXCEPT ![s] = @ \ {ch}]
      /\ UNCHANGED <<state, sock, joining, untidy>>
  BY DEF Unsubscribed, regVars
<1>2. CtxTyped'
  <2>1. leaving' \in [Sockets -> [Channels -> Nat]]
    BY <1>1 DEF CtxInv, CtxTyped
  <2> QED BY <1>1, <2>1 DEF CtxInv, CtxTyped
<1>3. /\ roomListeners'[s][ch] = NoListener /\ ch \notin subscribedRooms'[s]
      /\ leaving'[s][ch] = leaving[s][ch] - 1 /\ leaving[s][ch] \in Nat
      /\ \A q \in Sockets, c \in Channels : ~(q = s /\ c = ch) =>
            /\ roomListeners'[q][c] = roomListeners[q][c]
            /\ leaving'[q][c] = leaving[q][c]
            /\ c \in subscribedRooms'[q] <=> c \in subscribedRooms[q]
  BY <1>1 DEF CtxInv, CtxTyped
<1>4. Joining'
  BY <1>1 DEF CtxInv, Joining
<1>5. OneMap'
  <2> SUFFICES ASSUME NEW q \in Sockets, NEW c \in Channels
               PROVE  LET k == roomListeners'[q][c]
                      IN  /\ c \in subscribedRooms'[q] <=> k # NoListener
                          /\ k # NoListener =>
                                /\ k \notin joining' /\ state'[k] \in {"attached", "removed"}
                                /\ SocketOf[k] = q /\ ChannelOf[k] = c
    BY DEF OneMap
  <2>1. CASE q = s /\ c = ch
    BY <1>3, <2>1
  <2>2. CASE ~(q = s /\ c = ch)
    BY <1>1, <1>3, <2>2 DEF CtxInv, OneMap
  <2> QED BY <2>1, <2>2
<1>6. ASSUME NEW q \in Sockets \ untidy', NEW c \in Channels PROVE Tidy(q, c)'
  <2>1. Tidy(q, c)
    BY <1>1, <1>6 DEF CtxInv, AllTidy
  <2>2. Attached(q, c)' = Attached(q, c) /\ Joiners(q, c)' = Joiners(q, c)
    BY <1>1 DEF Attached, Joiners
  <2>3. CASE q = s /\ c = ch
    <3>1. leaving[q][c] = 1 /\ Joiners(q, c) = {} /\ Attached(q, c) = {}
      BY <1>1, <2>1, <2>3 DEF Tidy
    <3>2. ~(leaving'[q][c] > 0)
      BY <1>3, <2>3, <3>1
    <3>3. ~Busy(q, c)'
      BY <2>2, <3>1, <3>2 DEF Busy, Joiners
    <3> QED BY <1>3, <2>2, <2>3, <3>1, <3>2, <3>3 DEF Tidy
  <2>4. CASE ~(q = s /\ c = ch)
    BY <1>1, <1>3, <2>1, <2>2, <2>4, Elsewhere
  <2> QED BY <2>3, <2>4
<1> QED BY <1>2, <1>4, <1>5, <1>6 DEF CtxInv, AllTidy

LEMMA CloseKeeps ==
    ASSUME RegInv, CtxInv, NEW s \in Sockets, Close(s) PROVE RegInv' /\ CtxInv'
<1>1. /\ sock' = [sock EXCEPT ![s] = "draining"]
      /\ RemoveAll(Kept(s))
      /\ untidy' = IF \E ch \in Channels : Busy(s, ch) THEN untidy \cup {s} ELSE untidy
      /\ UNCHANGED <<joining, leaving, subscribedRooms, roomListeners>>
  BY DEF Close, NoteOverlap
<1>2. /\ Kept(s) \in SUBSET Listeners /\ Kept(s) \cap joining = {}
      /\ \A k \in Kept(s) : SocketOf[k] = s
  BY DEF Kept, CtxInv, CtxTyped, OneMap
<1>3. RegInv'
  BY <1>1, <1>2, RemoveAllKeeps
<1>4. /\ \A k \in Listeners : state'[k] = IF k \in Kept(s) THEN "removed" ELSE state[k]
      /\ Joining'
      /\ \A k \in Listeners : state[k] \in {"attached", "removed"} =>
            state'[k] \in {"attached", "removed"}
  BY <1>1, <1>2, RemovedStates
<1>5. CtxTyped'
  BY <1>1 DEF CtxInv, CtxTyped
<1>6. OneMap'
  <2> SUFFICES ASSUME NEW q \in Sockets, NEW c \in Channels, roomListeners[q][c] # NoListener
               PROVE  LET k == roomListeners[q][c]
                      IN  /\ k \notin joining' /\ state'[k] \in {"attached", "removed"}
                          /\ SocketOf[k] = q /\ ChannelOf[k] = c
    BY <1>1 DEF CtxInv, OneMap
  <2>1. roomListeners[q][c] \in Listeners
    BY DEF CtxInv, CtxTyped
  <2> QED BY <1>1, <1>4, <2>1 DEF CtxInv, OneMap
<1>7. sock'[s] = "draining" /\ \A q \in Sockets \ {s} : sock'[q] = sock[q]
  BY <1>1 DEF CtxInv, CtxTyped
<1>8. ASSUME NEW q \in Sockets \ untidy', NEW c \in Channels PROVE Tidy(q, c)'
  <2>1. Tidy(q, c)
    BY <1>1, <1>8 DEF CtxInv, AllTidy
  <2>2. Joiners(q, c)' = Joiners(q, c)
    BY <1>1 DEF Joiners
  <2>3. CASE q = s
    <3>1. ~Busy(q, c)
      BY <1>1, <1>8, <2>3
    <3>2. Attached(q, c) \subseteq {roomListeners[q][c]}
      BY <2>1, <3>1 DEF Tidy
    <3>3. Attached(q, c)' = {}
      <4>1. Attached(q, c)' \subseteq Attached(q, c) \ Kept(s)
        BY <1>4 DEF Attached
      <4>2. roomListeners[q][c] \in Kept(s) \cup {NoListener}
        BY <2>3 DEF Kept
      <4>3. NoListener \notin Attached(q, c)
        BY RoomsAssumptions DEF Attached
      <4> QED BY <3>2, <4>1, <4>2, <4>3
    <3>4. Joiners(q, c) = {} /\ ~(leaving[q][c] > 0)
      BY <3>1 DEF Busy, Joiners
    <3>5. ~Busy(q, c)'
      BY <1>1, <2>2, <3>4 DEF Busy, Joiners
    <3> QED BY <1>1, <1>7, <2>2, <2>3, <3>3, <3>4, <3>5 DEF Tidy
  <2>4. CASE q # s
    <3>1. Attached(q, c)' = Attached(q, c)
      BY <1>2, <1>4, <2>4 DEF Attached
    <3> QED BY <1>1, <1>7, <2>1, <2>2, <2>4, <3>1, Elsewhere
  <2> QED BY <2>3, <2>4
<1> QED BY <1>3, <1>4, <1>5, <1>6, <1>8 DEF CtxInv, AllTidy

LEMMA DrainedKeeps ==
    ASSUME RegInv, CtxInv, NEW s \in Sockets, Drained(s) PROVE CtxInv'
<1>1. /\ sock[s] = "draining" /\ sock' = [sock EXCEPT ![s] = "closed"]
      /\ roomListeners' = [roomListeners EXCEPT ![s] = Nothing]
      /\ subscribedRooms' = [subscribedRooms EXCEPT ![s] = {}]
      /\ UNCHANGED <<state, joining, leaving, untidy>>
  BY DEF Drained, regVars
<1>2. /\ sock'[s] = "closed" /\ subscribedRooms'[s] = {}
      /\ \A c \in Channels : roomListeners'[s][c] = NoListener
      /\ \A q \in Sockets \ {s} : /\ sock'[q] = sock[q] /\ roomListeners'[q] = roomListeners[q]
                                  /\ subscribedRooms'[q] = subscribedRooms[q]
  BY <1>1 DEF CtxInv, CtxTyped, Nothing
<1>3. CtxTyped'
  <2>1. Nothing \in [Channels -> Listeners \cup {NoListener}]
    BY DEF Nothing
  <2> QED BY <1>1, <2>1 DEF CtxInv, CtxTyped
<1>4. Joining'
  BY <1>1 DEF CtxInv, Joining
<1>5. OneMap'
  <2> SUFFICES ASSUME NEW q \in Sockets, NEW c \in Channels
               PROVE  LET k == roomListeners'[q][c]
                      IN  /\ c \in subscribedRooms'[q] <=> k # NoListener
                          /\ k # NoListener =>
                                /\ k \notin joining' /\ state'[k] \in {"attached", "removed"}
                                /\ SocketOf[k] = q /\ ChannelOf[k] = c
    BY DEF OneMap
  <2>1. CASE q = s
    BY <1>2, <2>1
  <2>2. CASE q # s
    BY <1>1, <1>2, <2>2 DEF CtxInv, OneMap
  <2> QED BY <2>1, <2>2
<1>6. ASSUME NEW q \in Sockets \ untidy', NEW c \in Channels PROVE Tidy(q, c)'
  <2>1. Tidy(q, c)
    BY <1>1, <1>6 DEF CtxInv, AllTidy
  <2>2. Attached(q, c)' = Attached(q, c) /\ Joiners(q, c)' = Joiners(q, c)
    BY <1>1 DEF Attached, Joiners
  <2>3. CASE q = s
    <3>1. ~Busy(q, c) /\ Attached(q, c) = {}
      BY <1>1, <2>1, <2>3 DEF Tidy
    <3>2. Joiners(q, c) = {} /\ ~(leaving'[q][c] > 0)
      BY <1>1, <3>1 DEF Busy, Joiners
    <3>3. ~Busy(q, c)'
      BY <2>2, <3>2 DEF Busy, Joiners
    <3> QED BY <1>2, <2>2, <2>3, <3>1, <3>2, <3>3 DEF Tidy
  <2>4. CASE q # s
    BY <1>1, <1>2, <2>1, <2>2, <2>4, Elsewhere
  <2> QED BY <2>3, <2>4
<1> QED BY <1>3, <1>4, <1>5, <1>6 DEF CtxInv, AllTidy

LEMMA RedisKeeps ==
    ASSUME RegInv, CtxInv, Redis PROVE RegInv' /\ CtxInv'
<1>1. /\ RegInv'
      /\ \A k \in Listeners :
            \/ state'[k] = state[k]
            \/ state[k] = "subscribing" /\ state'[k] \in {"answered", "failed"}
  <2>1. CASE ServeSubscribe \/ RejectSubscribe
    BY <2>1, ServeSubscribeKeeps DEF ServeSubscribe, RejectSubscribe
  <2>2. CASE ServeUnsubscribe
    BY <2>2, ServeUnsubscribeKeeps DEF ServeUnsubscribe
  <2>3. CASE ReadReply
    BY <2>3, ReadReplyKeeps
  <2> QED BY <2>1, <2>2, <2>3 DEF Redis, RedisStep
<1>2. \A k \in Listeners : state[k] = "subscribing" => k \in joining
  BY DEF CtxInv, Joining
<1>3. UNCHANGED <<sock, joining, leaving, subscribedRooms, roomListeners, untidy>>
  BY DEF Redis, roomVars
<1> QED BY <1>1, <1>2, <1>3, CtxStays

LEMMA ResumeKeeps ==
    ASSUME RegInv, CtxInv, NEW l \in Listeners, Resume(l) PROVE RegInv' /\ CtxInv'
<1>1. RegInv' /\ state[l] = "answered" /\ state' = [state EXCEPT ![l] = "attached"]
  BY AddResumeKeeps DEF Resume, AddResume
<1>2. l \in joining
  BY <1>1 DEF CtxInv, Joining
<1>3. UNCHANGED <<sock, joining, leaving, subscribedRooms, roomListeners, untidy>>
  BY DEF Resume, roomVars
<1>4. state'[l] = "attached" /\ \A k \in Listeners \ {l} : state'[k] = state[k]
  BY <1>1 DEF RegInv, RegTyped
<1> QED BY <1>1, <1>2, <1>3, <1>4, CtxStays

-----------------------------------------------------------------------------

\* The registry and the contexts, in every state that frames, closes, posts
\* and Redis can lead to.
THEOREM RoomsInvariant == Spec => [](RegInv /\ CtxInv)
<1>1. Init => RegInv /\ CtxInv
  <2> SUFFICES ASSUME Init PROVE RegInv /\ CtxInv
    OBVIOUS
  <2>1. RegTyped
    BY DEF Init, RegInit, RegTyped, States
  <2>2. Waiting /\ Once /\ Fed
    BY DEF Init, RegInit, Waiting, Once, Fed
  <2>3. CtxTyped
    BY DEF Init, CtxTyped, Nothing
  <2>4. Joining /\ OneMap
    BY DEF Init, RegInit, Joining, OneMap, Nothing
  <2>5. AllTidy
    BY DEF Init, RegInit, AllTidy, Tidy, Busy, Joiners, Attached
  <2> QED BY <2>1, <2>2, <2>3, <2>4, <2>5 DEF RegInv, CtxInv
<1>2. RegInv /\ CtxInv /\ [Next]_vars => RegInv' /\ CtxInv'
  <2> SUFFICES ASSUME RegInv, CtxInv, [Next]_vars PROVE RegInv' /\ CtxInv'
    OBVIOUS
  <2>1. ASSUME NEW l \in Listeners, SubscribeRoom(l) PROVE RegInv' /\ CtxInv'
    BY <2>1, AddFirstKeeps, AddNextKeeps, SubscribeRoomKeeps DEF SubscribeRoom, Add
  <2>2. ASSUME NEW l \in Listeners, Resume(l) PROVE RegInv' /\ CtxInv'
    BY <2>2, ResumeKeeps
  <2>3. ASSUME NEW l \in Listeners, Subscribed(l) PROVE RegInv' /\ CtxInv'
    BY <2>3, RegStays, SubscribedKeeps DEF Subscribed
  <2>4. ASSUME NEW l \in Listeners, SubscribeRefused(l) PROVE RegInv' /\ CtxInv'
    BY <2>4, RegStays, SubscribeRefusedKeeps DEF SubscribeRefused
  <2>5. ASSUME NEW s \in Sockets, NEW ch \in Channels, UnsubscribeRoom(s, ch)
        PROVE  RegInv' /\ CtxInv'
    BY <2>5, UnsubscribeRoomKeeps
  <2>6. ASSUME NEW s \in Sockets, NEW ch \in Channels, Unsubscribed(s, ch)
        PROVE  RegInv' /\ CtxInv'
    BY <2>6, RegStays, UnsubscribedKeeps DEF Unsubscribed
  <2>7. ASSUME NEW s \in Sockets, Close(s) PROVE RegInv' /\ CtxInv'
    BY <2>7, CloseKeeps
  <2>8. ASSUME NEW s \in Sockets, Drained(s) PROVE RegInv' /\ CtxInv'
    BY <2>8, RegStays, DrainedKeeps DEF Drained
  <2>9. ASSUME NEW ch \in Channels, NEW p \in Payloads, Post(ch, p) PROVE RegInv' /\ CtxInv'
    BY <2>9, PublishKeeps, CtxStays DEF Post, Publish
  <2>10. CASE Dispatch
    BY <2>10, ReadMessageKeeps, CtxStays DEF Dispatch, ReadMessage
  <2>11. CASE Redis
    BY <2>11, RedisKeeps
  <2>12. CASE UNCHANGED vars
    BY <2>12, RegStays, CtxStays DEF vars, regVars, roomVars
  <2> QED BY <2>1, <2>2, <2>3, <2>4, <2>5, <2>6, <2>7, <2>8, <2>9, <2>10, <2>11, <2>12 DEF Next
<1> QED BY <1>1, <1>2, PTL DEF Spec

\* An entry of the registry is fed, and a socket whose handlers of a slug did
\* not overlap has exactly the listener its context keeps, none once closed.
THEOREM LevelsAlwaysAgree == Spec => []LevelsAgree
<1>1. RegInv => EntriesAreFed
  <2> SUFFICES ASSUME RegInv, NEW ch \in Channels, entry[ch] # 0, ~Queued("subscribe", ch),
                      ~Rejected(ch)
               PROVE  ch \in upstream
    BY DEF EntriesAreFed
  <2>1. ~Renewed(ch)
    BY DEF Renewed, IsSubscribe, Queued
  <2> QED BY <2>1 DEF RegInv, Fed, Served
<1>2. CtxInv => RoomsMatchListeners
  BY DEF CtxInv, AllTidy, Tidy, RoomsMatchListeners
<1> QED BY <1>1, <1>2, RoomsInvariant, PTL DEF LevelsAgree
=============================================================================
