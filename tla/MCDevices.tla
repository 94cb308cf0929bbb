----------------------------- MODULE MCDevices -----------------------------
(* One browser of which two tasks may be under way. *)
EXTENDS Devices
CONSTANTS t1, t2, laptop
OnLaptop == [t \in Tasks |-> laptop]
=============================================================================
