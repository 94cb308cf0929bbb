----------------------------- MODULE PeerDirectory -----------------------------
(* What the client knows of the devices of a peer. Both caches live in the *)
(* memory of the page: the owner of a device, asked once per device, and   *)
(* the devices a message to the peer fans out to, set by a lookup of the   *)
(* handle and completed by each device that is asked about.                *)
EXTENDS Naturals, FiniteSets

CONSTANTS
  Devices,     \* devices the peer may enrol
  MaxLookups   \* bound on the lookups of the handle

VARIABLES
  enrolled,    \* the devices the server lists for the peer
  owners,      \* devices in the owner cache
  fanOut,      \* the cached devices of the peer
  asking,      \* owner requests under way: [device, seen]
  lookup,      \* the lookup of the form: "none", or the devices of its reply
  lookups,     \* lookups made so far
  heardFrom,   \* devices of which a message was shown since the page was loaded
  replaced     \* a reply older than a message replaced the cached devices

directoryVars == <<enrolled, owners, fanOut, asking, lookup, lookups, heardFrom, replaced>>

NoLookup == [under |-> FALSE, devices |-> {}]

DirectoryInit ==
  /\ \E d \in Devices : enrolled = {d}
  /\ owners = {} /\ fanOut = {} /\ asking = {} /\ lookup = NoLookup /\ lookups = 0
  /\ heardFrom = {} /\ replaced = FALSE

EnrolElsewhere(d) ==
  /\ d \notin enrolled
  /\ enrolled' = enrolled \cup {d}
  /\ UNCHANGED <<owners, fanOut, asking, lookup, lookups, heardFrom, replaced>>

(* The form admits one lookup at a time. The reply carries what the server *)
(* lists when it answers, and arrives later, or fails.                     *)
LookupUser ==
  /\ ~lookup.under /\ lookups < MaxLookups
  /\ lookup' = [under |-> TRUE, devices |-> enrolled]
  /\ lookups' = lookups + 1
  /\ UNCHANGED <<enrolled, owners, fanOut, asking, heardFrom, replaced>>

ResolvePeerByHandle ==
  /\ lookup.under
  /\ lookup' = NoLookup
  /\ fanOut' = lookup.devices
  /\ owners' = owners \cup lookup.devices
  /\ replaced' = (replaced \/ ~(heardFrom \subseteq lookup.devices))
  /\ UNCHANGED <<enrolled, asking, lookups, heardFrom>>

LookupFails ==
  /\ lookup.under
  /\ lookup' = NoLookup
  /\ UNCHANGED <<enrolled, owners, fanOut, asking, lookups, heardFrom, replaced>>

(* An envelope of a known device is shown at once, of another one the      *)
(* owner is asked for.                                                     *)
Inbound(d) ==
  /\ d \in enrolled
  /\ IF d \in owners
     THEN /\ heardFrom' = heardFrom \cup {d}
          /\ UNCHANGED asking
     ELSE /\ asking' = asking \cup {[device |-> d, seen |-> fanOut]}
          /\ UNCHANGED heardFrom
  /\ UNCHANGED <<enrolled, owners, fanOut, lookup, lookups, replaced>>

\* Mutant of Folded: the devices are read before the owner is asked for
FoldedStale(ask) == ask.seen \cup {ask.device}

(* The devices are read after the answer, in the same task as the write.   *)
Folded(ask) == fanOut \cup {ask.device}

OwnerKnown(ask) ==
  /\ asking' = asking \ {ask}
  /\ owners' = owners \cup {ask.device}
  /\ fanOut' = Folded(ask)
  /\ heardFrom' = heardFrom \cup {ask.device}
  /\ UNCHANGED <<enrolled, lookup, lookups, replaced>>

(* Without an owner the envelope is dropped until the next replay.         *)
OwnerFails(ask) ==
  /\ asking' = asking \ {ask}
  /\ UNCHANGED <<enrolled, owners, fanOut, lookup, lookups, heardFrom, replaced>>

ReloadPage ==
  /\ owners' = {} /\ fanOut' = {} /\ asking' = {} /\ heardFrom' = {}
  /\ lookup' = NoLookup /\ replaced' = FALSE
  /\ UNCHANGED <<enrolled, lookups>>

DirectoryNext ==
  \/ \E d \in Devices : EnrolElsewhere(d) \/ Inbound(d)
  \/ LookupUser \/ ResolvePeerByHandle \/ LookupFails
  \/ \E ask \in asking : OwnerKnown(ask) \/ OwnerFails(ask)
  \/ ReloadPage

DirectorySpec == DirectoryInit /\ [][DirectoryNext]_directoryVars

(* A reply goes to every device the user has read a message of since the   *)
(* page was loaded: each of them is in the fan-out, whatever requests were *)
(* under way together. Only a lookup answered before a device enrolled and *)
(* arriving after its message drops that device, and for good.             *)
RepliesReachSenders == replaced \/ heardFrom \subseteq fanOut
=============================================================================
