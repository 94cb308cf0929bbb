------------------------------- MODULE Rooms -------------------------------
(***************************************************************************)
(* Room subscriptions of the WebSocket gateway (onSubscribeRoom,           *)
(* onUnsubscribeRoom and drainRoomSubscriptions of                         *)
(* apps/api/src/ws/gateway.ts) over the channel registry they share.       *)
(*                                                                         *)
(* A SUBSCRIBE_ROOM frame makes one listener closure, so the listeners of  *)
(* ChannelRegistry are the frames that get past the subscribedRooms test.  *)
(* Frames of one socket are handled concurrently: each may be handled      *)
(* while the handlers of earlier ones are suspended in Redis calls.        *)
(***************************************************************************)
EXTENDS ChannelRegistry

CONSTANTS
    Sockets,
    SocketOf,      \* the socket a SUBSCRIBE_ROOM frame arrives on
    NoListener

ASSUME RoomsAssumptions ==
    /\ SocketOf \in [Listeners -> Sockets]
    /\ NoListener \notin Listeners

VARIABLES
    sock,             \* the socket: "open", "draining" or "closed"
    joining,          \* SUBSCRIBE_ROOM handlers suspended, by their listener
    leaving,          \* UNSUBSCRIBE_ROOM handlers suspended, per socket and slug
    subscribedRooms,  \* ctx.subscribedRooms
    roomListeners,    \* ctx.__roomListeners: the listener kept for a slug
    posted,           \* posts published so far
    shown,            \* posts written to a socket as ROOM_POST
    untidy            \* history: sockets with overlapping handlers of one slug

roomVars == <<sock, joining, leaving, subscribedRooms, roomListeners, posted, shown, untidy>>
vars == <<regVars, roomVars>>

\* Bound: UNSUBSCRIBE_ROOM handlers of one slug suspended at the same time.
MaxLeaving == 2

TypeOK ==
    /\ RegTypeOK
    /\ sock \in [Sockets -> {"open", "draining", "closed"}]
    /\ joining \subseteq Listeners
    /\ leaving \in [Sockets -> [Channels -> 0..MaxLeaving]]
    /\ subscribedRooms \in [Sockets -> SUBSET Channels]
    /\ roomListeners \in [Sockets -> [Channels -> Listeners \cup {NoListener}]]
    /\ posted \subseteq Payloads
    /\ shown \in [Sockets -> SUBSET Payloads]
    /\ untidy \subseteq Sockets

Nothing == [ch \in Channels |-> NoListener]

Init ==
    /\ RegInit
    /\ sock = [s \in Sockets |-> "open"]
    /\ joining = {}
    /\ leaving = [s \in Sockets |-> [ch \in Channels |-> 0]]
    /\ subscribedRooms = [s \in Sockets |-> {}]
    /\ roomListeners = [s \in Sockets |-> Nothing]
    /\ posted = {}
    /\ shown = [s \in Sockets |-> {}]
    /\ untidy = {}

\* A handler of this socket and slug is suspended.
Busy(s, ch) ==
    leaving[s][ch] > 0 \/ \E l \in joining : SocketOf[l] = s /\ ChannelOf[l] = ch

NoteOverlap(s, chans) ==
    untidy' = IF \E ch \in chans : Busy(s, ch) THEN untidy \cup {s} ELSE untidy

Kept(s) == {roomListeners[s][ch] : ch \in Channels} \ {NoListener}

(***************************************************************************)
(* onSubscribeRoom.  A frame for a slug in subscribedRooms does nothing.   *)
(***************************************************************************)

SubscribeRoom(l) ==
    LET s == SocketOf[l]
    IN  /\ sock[s] = "open"
        /\ ChannelOf[l] \notin subscribedRooms[s]
        /\ Add(l)
        /\ joining' = joining \cup {l}
        /\ NoteOverlap(s, {ChannelOf[l]})
        /\ UNCHANGED <<sock, leaving, subscribedRooms, roomListeners, posted, shown>>

\* Mutant of Subscribed: the listener is not kept on the context.
SubscribedForgets(l) ==
    /\ l \in joining
    /\ state[l] = "attached"
    /\ joining' = joining \ {l}
    /\ subscribedRooms' = [subscribedRooms EXCEPT ![SocketOf[l]] = @ \cup {ChannelOf[l]}]
    /\ UNCHANGED <<regVars, sock, leaving, roomListeners, posted, shown, untidy>>

\* subscribeRoom resolved, whatever has become of the socket.
Subscribed(l) ==
    LET s == SocketOf[l]
    IN  /\ l \in joining
        /\ state[l] = "attached"
        /\ joining' = joining \ {l}
        /\ subscribedRooms' = [subscribedRooms EXCEPT ![s] = @ \cup {ChannelOf[l]}]
        /\ roomListeners' = [roomListeners EXCEPT ![s][ChannelOf[l]] = l]
        /\ UNCHANGED <<regVars, sock, leaving, posted, shown, untidy>>

\* subscribeRoom rejected: an ERROR frame, and nothing is kept.
SubscribeRefused(l) ==
    /\ l \in joining
    /\ state[l] = "failed"
    /\ joining' = joining \ {l}
    /\ UNCHANGED <<regVars, sock, leaving, subscribedRooms, roomListeners, posted,
                   shown, untidy>>

(***************************************************************************)
(* onUnsubscribeRoom.  A slug that is in subscribedRooms has its listener  *)
(* kept: both are always written together.                                 *)
(***************************************************************************)

UnsubscribeRoom(s, ch) ==
    /\ sock[s] = "open"
    /\ ch \in subscribedRooms[s]
    /\ leaving[s][ch] < MaxLeaving
    /\ Remove(roomListeners[s][ch])
    /\ leaving' = [leaving EXCEPT ![s][ch] = @ + 1]
    /\ NoteOverlap(s, {ch})
    /\ UNCHANGED <<sock, joining, subscribedRooms, roomListeners, posted, shown>>

\* unsubscribeRoom settled: a rejection is only logged.
Unsubscribed(s, ch) ==
    /\ leaving[s][ch] > 0
    /\ leaving' = [leaving EXCEPT ![s][ch] = @ - 1]
    /\ roomListeners' = [roomListeners EXCEPT ![s][ch] = NoListener]
    /\ subscribedRooms' = [subscribedRooms EXCEPT ![s] = @ \ {ch}]
    /\ UNCHANGED <<regVars, sock, joining, posted, shown, untidy>>

(***************************************************************************)
(* drainRoomSubscriptions                                                  *)
(***************************************************************************)

\* The 'close' event: one unsubscribeRoom per kept listener, all awaited.
Close(s) ==
    /\ sock[s] = "open"
    /\ sock' = [sock EXCEPT ![s] = "draining"]
    /\ RemoveAll(Kept(s))
    /\ NoteOverlap(s, Channels)
    /\ UNCHANGED <<joining, leaving, subscribedRooms, roomListeners, posted, shown>>

Drained(s) ==
    /\ sock[s] = "draining"
    /\ sock' = [sock EXCEPT ![s] = "closed"]
    /\ roomListeners' = [roomListeners EXCEPT ![s] = Nothing]
    /\ subscribedRooms' = [subscribedRooms EXCEPT ![s] = {}]
    /\ UNCHANGED <<regVars, joining, leaving, posted, shown, untidy>>

(***************************************************************************)
(* Posts, published by routes/broadcast.ts                                 *)
(***************************************************************************)

Post(ch, p) ==
    /\ p \notin posted
    /\ posted' = posted \cup {p}
    /\ Publish(ch, p)
    /\ UNCHANGED <<sock, joining, leaving, subscribedRooms, roomListeners, shown, untidy>>

\* Mutant of Dispatch: a listener that throws ends the loop over the array.
DispatchOne ==
    LET hit == {l \in Receivers(Head(stream).chan) :
                   /\ sock[SocketOf[l]] = "open"
                   /\ l = CHOOSE k \in Receivers(Head(stream).chan) : TRUE}
    IN  /\ ReadMessage
        /\ shown' = [s \in Sockets |-> IF \E l \in hit : SocketOf[l] = s
                                       THEN shown[s] \cup {Head(stream).payload}
                                       ELSE shown[s]]
        /\ UNCHANGED <<sock, joining, leaving, subscribedRooms, roomListeners, posted, untidy>>

\* A message of the room: every listener in the registered array forwards it
\* as ROOM_POST, and ctx.send writes to open sockets only.
Dispatch ==
    LET hit == {l \in Receivers(Head(stream).chan) : sock[SocketOf[l]] = "open"}
    IN  /\ ReadMessage
        /\ shown' = [s \in Sockets |-> IF \E l \in hit : SocketOf[l] = s
                                       THEN shown[s] \cup {Head(stream).payload}
                                       ELSE shown[s]]
        /\ UNCHANGED <<sock, joining, leaving, subscribedRooms, roomListeners, posted, untidy>>

Redis == RedisStep /\ UNCHANGED roomVars
Resume(l) == AddResume(l) /\ UNCHANGED roomVars

Next ==
    \/ \E l \in Listeners :
          SubscribeRoom(l) \/ Resume(l) \/ Subscribed(l) \/ SubscribeRefused(l)
    \/ \E s \in Sockets, ch \in Channels : UnsubscribeRoom(s, ch) \/ Unsubscribed(s, ch)
    \/ \E s \in Sockets : Close(s) \/ Drained(s)
    \/ \E ch \in Channels, p \in Payloads : Post(ch, p)
    \/ Dispatch
    \/ Redis

Spec == Init /\ [][Next]_vars

\* The event loop reads what the connection delivers, and Redis answers.
Fairness == WF_vars(Dispatch) /\ WF_vars(Redis)

FairSpec == Spec /\ Fairness

(***************************************************************************)
(* Properties                                                              *)
(***************************************************************************)

Attached(s, ch) ==
    {l \in Listeners : SocketOf[l] = s /\ ChannelOf[l] = ch /\ state[l] = "attached"}

\* On a socket whose handlers of a slug never overlapped, a slug whose
\* handlers have returned has exactly the listener the context keeps, and a
\* closed socket has none: subscribedRooms is the source of truth
\* (gateway.ts:1324-1326) and the drain leaves nothing behind (1420-1424).
RoomsMatchListeners ==
    \A s \in Sockets \ untidy, ch \in Channels :
        ~Busy(s, ch) => Attached(s, ch) = IF sock[s] = "open" /\ ch \in subscribedRooms[s]
                                          THEN {roomListeners[s][ch]} ELSE {}

\* The three levels agree: what the contexts keep is what is registered, and
\* what is registered the connection is subscribed to.
LevelsAgree == EntriesAreFed /\ RoomsMatchListeners

\* A post that is on the stream is shown by every open socket with a listener
\* in the registered array, unless the listener leaves or the socket closes
\* first, whatever other sockets of the room do meanwhile.
PostReaches ==
    \A l \in Listeners, p \in Payloads :
        /\ l \in Receivers(ChannelOf[l])
        /\ \E i \in 1..Len(stream) :
              stream[i] = [kind |-> "message", chan |-> ChannelOf[l], payload |-> p]
        ~> \/ p \in shown[SocketOf[l]]
           \/ l \notin Receivers(ChannelOf[l])
           \/ sock[SocketOf[l]] # "open"

\* gateway.ts:1324-1326: subscribedRooms is "the source of truth for 'this
\* connection is watching slug X'": the listener it stands for is called.
SubscribedIsFed ==
    \A s \in Sockets \ untidy, ch \in Channels :
        ch \in subscribedRooms[s] /\ ~Busy(s, ch) /\ sock[s] = "open" =>
            roomListeners[s][ch] \in Receivers(ch)

=============================================================================
