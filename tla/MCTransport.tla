----------------------------- MODULE MCTransport -----------------------------
(* The rooms of the gateway and the outbox of a client, each on its own:   *)
(* the one a behaviour is about is chosen at the start and the other       *)
(* rests.  The outbox has room for two rows; the user sends two messages   *)
(* to a peer with one device, the frame of the second too large.           *)
EXTENDS MCRooms, Outbox

VARIABLE focus

ShardsOf == [m1 |-> <<"n1">>, m2 |-> <<"n2">>]

transportVars == <<focus, vars, outboxVars>>

TransportInit == focus \in {"rooms", "outbox"} /\ Init /\ OutboxInit

TransportNext ==
  /\ UNCHANGED focus
  /\ \/ focus = "rooms" /\ Next /\ UNCHANGED outboxVars
     \/ focus = "outbox" /\ OutboxNext /\ UNCHANGED vars

(* What rests has no step that is fair: it is where it began.              *)
FairTransport ==
  TransportInit /\ [][TransportNext]_transportVars /\ Fairness /\ OutboxFairness
===========================================================================
