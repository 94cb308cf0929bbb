----------------------------- MODULE WsClient -----------------------------
(***************************************************************************)
(* The reconnecting socket of the web client: class WsClient of            *)
(* apps/web/src/ws/client.ts, one instance.  Every callback of the browser *)
(* (token promise, timer, onopen, onmessage, onclose) is an action.        *)
(*                                                                         *)
(* attemptCount only chooses the delay of the timer, and time is not       *)
(* modelled: a timer that is set may fire at any moment.                   *)
(***************************************************************************)
EXTENDS Naturals, FiniteSets

CONSTANT MaxSockets   \* bound: sockets one instance creates

VARIABLES
    state,      \* #state
    current,    \* #socket: number of the socket, 0 is null
    life,       \* readyState of every socket created
    tokens,     \* suspended calls of #openSocket, waiting for tokenProvider
    timer,      \* #reconnectTimer is set
    explicit,   \* #explicitlyClosed
    wasClosed   \* history: close() was called

wsVars == <<state, current, life, tokens, timer, explicit, wasClosed>>

SocketIds == 1..MaxSockets
Live == {s \in SocketIds : life[s] \in {"connecting", "open", "closing"}}

\* A client never waits for more tokens than it could create sockets with.
WsTypeOK ==
    /\ state \in {"idle", "connecting", "authenticating", "ready", "disconnected", "closed"}
    /\ current \in 0..MaxSockets
    /\ life \in [SocketIds -> {"unused", "connecting", "open", "closing", "closed"}]
    /\ tokens \in 0..MaxSockets
    /\ timer \in BOOLEAN
    /\ explicit \in BOOLEAN
    /\ wasClosed \in BOOLEAN

WsInit ==
    /\ state = "idle"
    /\ current = 0
    /\ life = [s \in SocketIds |-> "unused"]
    /\ tokens = 0
    /\ timer = FALSE
    /\ explicit = FALSE
    /\ wasClosed = FALSE

Ready == state = "ready"

\* Bound: #openSocket is not entered when every socket is used or claimed.
MayOpen == tokens < Cardinality({s \in SocketIds : life[s] = "unused"})

\* #openSocket up to its await.
OpenSocket ==
    /\ MayOpen
    /\ state' = "connecting"
    /\ tokens' = tokens + 1

\* connect(): a no-op while a connection is being made or a timer is set.
Connect ==
    /\ state \in {"idle", "disconnected", "closed"}
    /\ explicit' = FALSE
    /\ IF state = "disconnected" /\ timer
       THEN UNCHANGED <<state, tokens>>
       ELSE OpenSocket
    /\ UNCHANGED <<current, life, timer, wasClosed>>

\* close(): whatever #openSocket call is suspended stays suspended.
Close ==
    /\ explicit' = TRUE
    /\ wasClosed' = TRUE
    /\ timer' = FALSE
    /\ life' = IF current = 0 THEN life
               ELSE [life EXCEPT ![current] = IF @ = "closed" THEN @ ELSE "closing"]
    /\ state' = "closed"
    /\ UNCHANGED <<current, tokens>>

\* The token arrived: create the socket.  #state is not looked at.
TokenOk ==
    \E s \in SocketIds :
        /\ tokens > 0
        /\ life[s] = "unused"
        /\ \A r \in SocketIds : r < s => life[r] # "unused"
        /\ tokens' = tokens - 1
        /\ life' = [life EXCEPT ![s] = "connecting"]
        /\ current' = s
        /\ UNCHANGED <<state, timer, explicit, wasClosed>>

\* Mutant of ScheduleReconnect: the last failure sets no timer.
ScheduleNothing == UNCHANGED timer

\* #scheduleReconnect.
ScheduleReconnect == timer' = (timer \/ ~explicit)

\* tokenProvider rejects, or the WebSocket constructor throws.
TokenFails ==
    /\ tokens > 0
    /\ tokens' = tokens - 1
    /\ ScheduleReconnect
    /\ UNCHANGED <<state, current, life, explicit, wasClosed>>

TimerFires ==
    /\ timer
    /\ timer' = FALSE
    /\ OpenSocket
    /\ UNCHANGED <<current, life, explicit, wasClosed>>

\* onopen: HELLO is sent.
SocketOpens(s) ==
    /\ life[s] = "connecting"
    /\ life' = [life EXCEPT ![s] = "open"]
    /\ state' = "authenticating"
    /\ UNCHANGED <<current, tokens, timer, explicit, wasClosed>>

\* onmessage with HELLO_OK; the listeners of hello_ok run inside it.
HelloOk(s) ==
    /\ life[s] = "open"
    /\ state' = "ready"
    /\ UNCHANGED <<current, life, tokens, timer, explicit, wasClosed>>

\* onclose, of whichever socket: #socket becomes null.
SocketCloses(s) ==
    /\ s \in Live
    /\ life' = [life EXCEPT ![s] = "closed"]
    /\ current' = 0
    /\ state' = IF explicit THEN "closed" ELSE "disconnected"
    /\ ScheduleReconnect
    /\ UNCHANGED <<tokens, explicit, wasClosed>>

\* The page is loaded again: a new instance; the sockets of the old are gone.
Reload ==
    /\ life' = [s \in SocketIds |-> IF s \in Live THEN "closed" ELSE life[s]]
    /\ state' = "idle"
    /\ current' = 0
    /\ tokens' = 0
    /\ timer' = FALSE
    /\ explicit' = FALSE
    /\ wasClosed' = FALSE

WsNext ==
    \/ Connect \/ Close \/ TokenOk \/ TokenFails \/ TimerFires
    \/ \E s \in SocketIds : SocketOpens(s) \/ HelloOk(s) \/ SocketCloses(s)

WsSpec == WsInit /\ [][WsNext]_wsVars

(***************************************************************************)
(* Properties                                                              *)
(***************************************************************************)

\* Until close() is called a client that was told to connect is always doing
\* exactly one thing about it: it waits for a token, it has a socket, or it
\* has set the timer.  Less, and it stays offline for ever; more, and the
\* device has two sockets, of which one is unreachable.
OneAttempt ==
    /\ state # "idle"
    /\ ~wasClosed
    => tokens + Cardinality(Live) + (IF timer THEN 1 ELSE 0) = 1

\* Until close() is called, a client that says it is ready holds the socket
\* it says it of.
ReadyHasSocket ==
    Ready /\ ~wasClosed => current # 0 /\ life[current] = "open"

============================================================================
