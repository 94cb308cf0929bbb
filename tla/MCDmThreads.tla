----------------------------- MODULE MCDmThreads -----------------------------
(* The screens of one conversation, with room for one message. *)
EXTENDS DmThreads
TwoHandlers == [thread |-> 2, list |-> 2, none |-> 2]
=============================================================================
