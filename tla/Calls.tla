-------------------------------- MODULE Calls --------------------------------
(***************************************************************************)
(* A one-to-one call: the CallPeer of each end                             *)
(* (apps/web/src/features/calls/peer.ts) and the CALL_* envelopes they     *)
(* exchange (features/calls/signaling.ts).                                 *)
(*                                                                         *)
(* The outbox and the ratchet carry the signals: each is dispatched at     *)
(* most once, late and in any order.  The host of the peer is not in the   *)
(* repository yet; it is modelled from what the comments ask of it: it     *)
(* offers or answers once start() resolves, sends CALL_HANGUP when its     *)
(* peer ends, hangs up when told to, and drops a peer after onTerminated.  *)
(* A page may be reloaded.  RTCPeerConnection is modelled by its contract: *)
(* what is pending on a closed connection never settles.                   *)
(***************************************************************************)
EXTENDS Naturals, FiniteSets

Caller == "caller"
Callee == "callee"
Sides == {Caller, Callee}
Other(s) == IF s = Caller THEN Callee ELSE Caller

VARIABLES
  peer,                     \* state of each CallPeer; "gone" after a reload
  op,                       \* the call of the peer that is suspended
  media,                    \* whether the local stream is live
  pc,                       \* connection state of its RTCPeerConnection
  sdp,                      \* the descriptions that connection has
  heard,                    \* whether it was given a remote candidate
  answered,                 \* remoteAnswered
  timers,                   \* the watchdogs that are armed
  wire,                     \* the signals sent to each side
  dispatched,               \* the signals each side has dispatched
  ended,                    \* how often onTerminated has fired
  late                      \* history: ends whose peer was terminated with its
                            \* prompt for the microphone still open

callVars == <<peer, op, media, pc, sdp, heard, answered, timers, wire, dispatched, ended, late>>

Signal(kind, bound) == [kind |-> kind, bound |-> bound]
Hangup == Signal("hangup", TRUE)
Sent(s, ms) == [wire EXCEPT ![s] = @ \cup ms]

CallsInit ==
  /\ peer = [s \in Sides |-> "idle"]
  /\ op = [s \in Sides |-> "none"]
  /\ media = [s \in Sides |-> FALSE]
  /\ pc = [s \in Sides |-> "none"]
  /\ sdp = [s \in Sides |-> {}]
  /\ heard = [s \in Sides |-> FALSE]
  /\ answered = [s \in Sides |-> FALSE]
  /\ timers = [s \in Sides |-> {}]
  /\ wire = [s \in Sides |-> {}]
  /\ dispatched = [s \in Sides |-> {}]
  /\ ended = [s \in Sides |-> 0]
  /\ late = {}

(* A side has a call to answer, or placed one, and has not let go of it.   *)
Ringing(s) == Signal("offer", TRUE) \in dispatched[s]
Engaged(s) == peer[s] = "started" \/ op[s] = "prompt"
Held(s) == ended[s] = 0 /\ Engaged(s)

----------------------------------------------------------------------------
(* terminate: idempotent; timers, handlers, tracks, connection, callback.  *)
(* The prompt of getUserMedia is not withdrawn.                            *)

\* Mutant of Release: clearAllTimers leaves out the timer added last.
ReleaseKeepsTimer(s, next) ==
  /\ peer' = [peer EXCEPT ![s] = next]
  /\ timers' = [timers EXCEPT ![s] = @ \ {"ice", "offer"}]
  /\ media' = [media EXCEPT ![s] = FALSE]
  /\ pc' = [pc EXCEPT ![s] = "none"]
  /\ sdp' = [sdp EXCEPT ![s] = {}]
  /\ heard' = [heard EXCEPT ![s] = FALSE]

Release(s, next) ==
  /\ peer' = [peer EXCEPT ![s] = next]
  /\ timers' = [timers EXCEPT ![s] = {}]
  /\ media' = [media EXCEPT ![s] = FALSE]
  /\ pc' = [pc EXCEPT ![s] = "none"]
  /\ sdp' = [sdp EXCEPT ![s] = {}]
  /\ heard' = [heard EXCEPT ![s] = FALSE]

Terminate(s) ==
  /\ peer[s] # "terminated"
  /\ Release(s, "terminated")
  /\ ended' = [ended EXCEPT ![s] = @ + 1]
  /\ op' = [op EXCEPT ![s] = IF @ = "prompt" THEN @ ELSE "none"]
  /\ late' = IF op[s] = "prompt" THEN late \cup {s} ELSE late
  /\ UNCHANGED answered

TerminateAndTell(s) ==
  /\ Terminate(s)
  /\ wire' = Sent(Other(s), {Hangup})
  /\ UNCHANGED dispatched

(* hangup(): the user ends the call, in whatever state its peer is.        *)
HangUp(s) == Held(s) /\ TerminateAndTell(s)

(* The page goes away and its connection with it; no signal is sent.       *)
Reload(s) ==
  /\ Engaged(s)
  /\ Release(s, "gone")
  /\ op' = [op EXCEPT ![s] = "none"]
  /\ UNCHANGED <<answered, wire, dispatched, ended, late>>

----------------------------------------------------------------------------
(* start, createOffer, createAnswer, setRemoteDescription.                 *)

Start(s) ==
  /\ peer[s] = "idle"
  /\ op[s] = "none"
  /\ s = Caller \/ Ringing(s)
  /\ op' = [op EXCEPT ![s] = "prompt"]
  /\ UNCHANGED <<peer, media, pc, sdp, heard, answered, timers, wire, dispatched, ended, late>>

(* state = 'started' first, so that terminate does not return at once.     *)
MediaRefused(s) ==
  /\ op[s] = "prompt"
  /\ Release(s, "terminated")
  /\ ended' = [ended EXCEPT ![s] = @ + 1]
  /\ op' = [op EXCEPT ![s] = "none"]
  /\ wire' = Sent(Other(s), {Hangup})
  /\ UNCHANGED <<answered, dispatched, late>>

(* The state is not looked at again: a grant that comes after terminate    *)
(* makes a started peer of a terminated one, which its host has dropped.   *)
MediaGranted(s) ==
  /\ op[s] = "prompt"
  /\ peer' = [peer EXCEPT ![s] = "started"]
  /\ media' = [media EXCEPT ![s] = TRUE]
  /\ pc' = [pc EXCEPT ![s] = "new"]
  /\ op' = [op EXCEPT ![s] = IF ended[s] = 0 THEN "describing" ELSE "none"]
  /\ sdp' = [sdp EXCEPT ![s] = IF s = Callee /\ ended[s] = 0 THEN {"remote"} ELSE {}]
  /\ UNCHANGED <<heard, answered, timers, wire, dispatched, ended, late>>

\* Mutant of Described: createOffer forgets the timer of the unanswered offer.
DescribedNoOfferTimer(s) ==
  /\ op[s] = "describing"
  /\ op' = [op EXCEPT ![s] = "none"]
  /\ sdp' = [sdp EXCEPT ![s] = @ \cup {"local"}]
  /\ \E gathered, bound \in BOOLEAN :
       /\ timers' = [timers EXCEPT ![s] = @ \cup (IF gathered THEN {} ELSE {"ice"})]
       /\ wire' = Sent(Other(s), {Signal(IF s = Caller THEN "offer" ELSE "answer", bound)})
  /\ UNCHANGED <<peer, media, pc, heard, answered, dispatched, ended, late>>

(* The description is set locally: the watchdogs are armed and it is sent, *)
(* with the fingerprint of its DTLS certificate or with another one.       *)
Described(s) ==
  /\ op[s] = "describing"
  /\ op' = [op EXCEPT ![s] = "none"]
  /\ sdp' = [sdp EXCEPT ![s] = @ \cup {"local"}]
  /\ \E gathered, bound \in BOOLEAN :
       /\ timers' = [timers EXCEPT ![s] =
                       @ \cup (IF gathered THEN {} ELSE {"ice"})
                         \cup (IF s = Caller THEN {"offer"} ELSE {})]
       /\ wire' = Sent(Other(s), {Signal(IF s = Caller THEN "offer" ELSE "answer", bound)})
  /\ UNCHANGED <<peer, media, pc, heard, answered, dispatched, ended, late>>

RemoteApplied(s) ==
  /\ op[s] = "applying"
  /\ op' = [op EXCEPT ![s] = "none"]
  /\ answered' = [answered EXCEPT ![s] = TRUE]
  /\ timers' = [timers EXCEPT ![s] = @ \ {"offer"}]
  /\ UNCHANGED <<peer, media, pc, sdp, heard, wire, dispatched, ended, late>>

----------------------------------------------------------------------------
(* The events of the connection and the watchdogs.                         *)

Candidate(s) ==
  /\ "local" \in sdp[s]
  /\ wire' = Sent(Other(s), {Signal("ice", TRUE)})
  /\ wire' # wire
  /\ UNCHANGED <<peer, op, media, pc, sdp, heard, answered, timers, dispatched, ended, late>>

Gathered(s) ==
  /\ "ice" \in timers[s]
  /\ timers' = [timers EXCEPT ![s] = @ \ {"ice"}]
  /\ UNCHANGED <<peer, op, media, pc, sdp, heard, answered, wire, dispatched, ended, late>>

Connectable ==
  /\ \A s \in Sides : sdp[s] = {"local", "remote"}
  /\ \E s \in Sides : heard[s]

Connected(s) ==
  /\ Connectable
  /\ pc[s] # "connected"
  /\ pc' = [pc EXCEPT ![s] = "connected"]
  /\ timers' = [timers EXCEPT ![s] = @ \ {"lost"}]
  /\ UNCHANGED <<peer, op, media, sdp, heard, answered, wire, dispatched, ended, late>>

\* Mutant of Disconnected: only "disconnected" arms the timer, "failed" does not.
DisconnectedOnly(s) ==
  /\ pc[s] = "connected" \/ (pc[s] = "new" /\ heard[s] /\ "local" \in sdp[s])
  /\ pc' = [pc EXCEPT ![s] = "disconnected"]
  /\ timers' = [timers EXCEPT ![s] = IF pc[s] = "connected" THEN @ \cup {"lost"} ELSE @]
  /\ UNCHANGED <<peer, op, media, sdp, heard, answered, wire, dispatched, ended, late>>

(* "disconnected" or "failed": a connection that was up, or being checked. *)
Disconnected(s) ==
  /\ pc[s] = "connected" \/ (pc[s] = "new" /\ heard[s] /\ "local" \in sdp[s])
  /\ pc' = [pc EXCEPT ![s] = "disconnected"]
  /\ timers' = [timers EXCEPT ![s] = @ \cup {"lost"}]
  /\ UNCHANGED <<peer, op, media, sdp, heard, answered, wire, dispatched, ended, late>>

TimerFires(s) == timers[s] # {} /\ TerminateAndTell(s)

----------------------------------------------------------------------------
(* handleInboundCallEnvelope and dispatchInner.  The fingerprint binding   *)
(* is checked first; on a mismatch the connection is closed and the host   *)
(* hangs up.  A candidate without a remote description is lost.            *)

RejectCall(s) ==
  IF Held(s) THEN Terminate(s) /\ wire' = Sent(Other(s), {Hangup})
  ELSE /\ wire' = Sent(Other(s), {Hangup})
       /\ UNCHANGED <<peer, op, media, pc, sdp, heard, answered, timers, ended, late>>

DispatchSignal(s, m) ==
  /\ m \in wire[s] \ dispatched[s]
  /\ peer[s] # "gone"
  /\ dispatched' = [dispatched EXCEPT ![s] = @ \cup {m}]
  /\ CASE ~m.bound -> RejectCall(s)
       [] m.bound /\ m.kind = "hangup" /\ Held(s) -> Terminate(s) /\ UNCHANGED wire
       [] m.bound /\ m.kind = "answer" /\ sdp[s] = {"local"} ->
            /\ op' = [op EXCEPT ![s] = "applying"]
            /\ sdp' = [sdp EXCEPT ![s] = {"local", "remote"}]
            /\ UNCHANGED <<peer, media, pc, heard, answered, timers, wire, ended, late>>
       [] m.bound /\ m.kind = "ice" /\ "remote" \in sdp[s] ->
            /\ heard' = [heard EXCEPT ![s] = TRUE]
            /\ UNCHANGED <<peer, op, media, pc, sdp, answered, timers, wire, ended, late>>
       [] OTHER ->
            UNCHANGED <<peer, op, media, pc, sdp, heard, answered, timers, wire, ended, late>>

CallsNext ==
  \E s \in Sides :
    \/ HangUp(s) \/ Reload(s) \/ Start(s) \/ MediaRefused(s) \/ MediaGranted(s)
    \/ Described(s) \/ RemoteApplied(s) \/ Candidate(s) \/ Gathered(s)
    \/ Connected(s) \/ Disconnected(s) \/ TimerFires(s)
    \/ \E m \in wire[s] : DispatchSignal(s, m)

(* Timers fire and descriptions settle; the connection of an end whose     *)
(* other end has let go does not stay as it was.                           *)
CallsFairness ==
  \A s \in Sides :
    /\ WF_callVars(TimerFires(s)) /\ WF_callVars(Described(s)) /\ WF_callVars(RemoteApplied(s))
    /\ WF_callVars(sdp[Other(s)] = {} /\ Disconnected(s))

CallsSpec == CallsInit /\ [][CallsNext]_callVars
FairCallsSpec == CallsSpec /\ CallsFairness

----------------------------------------------------------------------------
(* Properties.                                                             *)

Holds(s) == media[s] \/ pc[s] # "none" \/ timers[s] # {}

(* A microphone, a connection or a watchdog is held only by a peer that is *)
(* in a call and has not ended (peer.ts, terminate): what is armed across  *)
(* awaits finds out.  The exception is the peer whose prompt was still     *)
(* open when it ended: the grant gives it a stream and a connection, which *)
(* stay, but no watchdog.                                                  *)
HeldOnlyInCall ==
  \A s \in Sides : Holds(s) =>
    /\ peer[s] = "started"
    /\ ended[s] = 0 \/ (s \in late /\ timers[s] = {} /\ sdp[s] = {})

(* After onTerminated the peer is dead (peer.ts:90-91): it holds no        *)
(* microphone, no connection and no watchdog.                              *)
DeadOnceTerminated == \A s \in Sides : ended[s] > 0 => ~Holds(s)

(* A call that was offered does not ring for ever: it is answered or it is *)
(* torn down (armOfferTimer).                                              *)
OfferEnds == sdp[Caller] # {} ~> answered[Caller] \/ sdp[Caller] = {}

(* When one end has left, by hanging up, by failing or by a reload, the    *)
(* other does not stay in the call, provided it was connected or had       *)
(* candidates to check; if not, nothing but a CALL_HANGUP can end it.      *)
Left(s) == ended[s] > 0 \/ peer[s] = "gone"
OtherEndFollows ==
  \A s \in Sides :
    (heard[s] \/ pc[s] = "connected") /\ Left(Other(s)) ~> sdp[s] = {}

=============================================================================
