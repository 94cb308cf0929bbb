-------------------------- MODULE EnvelopeStore --------------------------
(***************************************************************************)
(* What the server promises about an envelope, whatever number of times,   *)
(* over whatever number of connections, its sender submits it: an envelope *)
(* is identified by its key (sender device, client nonce); it is stored at *)
(* most once, announced to its recipient's channel at most once and only   *)
(* after it was stored, acknowledged only after it was stored, and never   *)
(* comes back once the deletion of a device took it away.                  *)
(***************************************************************************)
CONSTANT Keys  \* (sender device, client nonce) pairs

VARIABLES
    status,    \* "absent", "stored", or "gone" (removed with a device)
    announced, \* keys published on the recipient's channel
    acked      \* keys answered with ENVELOPE_QUEUED

storeVars == <<status, announced, acked>>

StoreInit ==
    /\ status = [k \in Keys |-> "absent"]
    /\ announced = {}
    /\ acked = {}

Store(k) ==
    /\ status[k] = "absent"
    /\ status' = [status EXCEPT ![k] = "stored"]
    /\ UNCHANGED <<announced, acked>>

Announce(k) ==
    /\ status[k] # "absent"
    /\ k \notin announced
    /\ announced' = announced \cup {k}
    /\ UNCHANGED <<status, acked>>

Acknowledge(k) ==
    /\ status[k] # "absent"
    /\ acked' = acked \cup {k}
    /\ UNCHANGED <<status, announced>>

\* A device was deleted: the envelopes it sent or was to receive go with it.
Cascade(S) ==
    /\ \A k \in S : status[k] = "stored"
    /\ status' = [k \in Keys |-> IF k \in S THEN "gone" ELSE status[k]]
    /\ UNCHANGED <<announced, acked>>

StoreNext ==
    \/ \E k \in Keys : Store(k) \/ Announce(k) \/ Acknowledge(k)
    \/ \E S \in SUBSET Keys : Cascade(S)

StoreSpec == StoreInit /\ [][StoreNext]_storeVars
===========================================================================
