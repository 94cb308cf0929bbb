------------------------- MODULE MCEnvelopeRouter -------------------------
(* A message from alice to bob and an ACK back.  Each of the calls may      *)
(* carry either envelope, under the right token or the wrong one.           *)
EXTENDS EnvelopeRouter, TLC

CONSTANTS alice, bob, message, receipt, c1, c2, c3

MCDevices == {alice, bob}
MCNonces == {message, receipt}
MCCalls == {c1, c2, c3}
TwoCalls == {c1, c2}
MCRecipientOf == [n \in MCNonces |-> IF n = message THEN bob ELSE alice]
MCIsAck == [n \in MCNonces |-> n = receipt]
WithSession == [n \in MCNonces |-> TRUE]
NoSession == [n \in MCNonces |-> FALSE]
Symmetry == Permutations(MCCalls)
===========================================================================
