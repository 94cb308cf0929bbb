------------------------------ MODULE MCSession ------------------------------
(* Sends of one device that overlap: nobody answers. *)
EXTENDS Session
OneSided == [alice |-> 2, bob |-> 0]
=============================================================================
