----------------------------- MODULE LiveSession -----------------------------
(***************************************************************************)
(* A live session of a broadcast room: GoLiveButton.tsx publishes into the *)
(* LiveKit room of the slug, each ViewerPanel.tsx joins it and leaves      *)
(* again when it is full (apps/web/src/features/broadcast).  LiveKit is    *)
(* external: a room is the set of its participants, of which a client has  *)
(* the count it got when it joined or the present one, and an identity     *)
(* that joins again takes the place of its older connection.               *)
(***************************************************************************)
EXTENDS Naturals, FiniteSets

CONSTANTS
  Viewers,                  \* the viewers of the room
  Cap,                      \* VIEWER_CAPACITY_CAP
  MaxCaptures               \* bound on the captures that are started

ASSUME LiveAssumptions == Cap \in Nat \ {0}

VARIABLES
  stage,                    \* the await startLive or stopLive is suspended in
  published,                \* whether the admin is in the LiveKit room
  captures,                 \* media streams of the admin that are live
  view,                     \* what each ViewerPanel shows or waits for
  joined,                   \* the viewers in the LiveKit room
  sawAtJoin                 \* numParticipants at its join, until it is checked

liveVars == <<stage, published, captures, view, joined, sawAtJoin>>
viewerVars == <<view, joined, sawAtJoin>>

LiveInit ==
  /\ stage = "off"
  /\ published = FALSE
  /\ captures = 0
  /\ view = [v \in Viewers |-> "off"]
  /\ joined = {}
  /\ sawAtJoin = [v \in Viewers |-> 0]

NumParticipants(in) == Cardinality(in) + (IF published THEN 1 ELSE 0)

----------------------------------------------------------------------------
(* startLive: token, room, capture, publication; then the session is kept. *)
(* A step that fails abandons what the earlier ones hold, because started  *)
(* is assigned only at the end.                                            *)
StartLive ==
  /\ stage = "off"
  /\ stage' = "token"
  /\ UNCHANGED <<published, captures, viewerVars>>

PublisherToken ==
  /\ stage = "token"
  /\ stage' = "connecting"
  /\ UNCHANGED <<published, captures, viewerVars>>

PublisherJoins ==
  /\ stage = "connecting"
  /\ published' = TRUE
  /\ stage' = "acquiring"
  /\ UNCHANGED <<captures, viewerVars>>

Acquired ==
  /\ stage = "acquiring"
  /\ captures < MaxCaptures
  /\ captures' = captures + 1
  /\ stage' = "publishing"
  /\ UNCHANGED <<published, viewerVars>>

Published ==
  /\ stage = "publishing"
  /\ stage' = "live"
  /\ UNCHANGED <<published, captures, viewerVars>>

StartFails ==
  /\ stage \in {"token", "connecting", "acquiring", "publishing"}
  /\ stage' = "off"
  /\ UNCHANGED <<published, captures, viewerVars>>

(* stopLive, tearDownSession: capture first, then the room.                *)
StopLive ==
  /\ stage = "live"
  /\ captures' = captures - 1
  /\ stage' = "stopping"
  /\ UNCHANGED <<published, viewerVars>>

Stopped ==
  /\ stage = "stopping"
  /\ published' = FALSE
  /\ stage' = "off"
  /\ UNCHANGED <<captures, viewerVars>>

----------------------------------------------------------------------------
(* watch, in ViewerPanel.                                                  *)
Watch(v) ==
  /\ view[v] = "off"
  /\ view' = [view EXCEPT ![v] = "connecting"]
  /\ UNCHANGED <<stage, published, captures, joined, sawAtJoin>>

WatchFails(v) ==
  /\ view[v] = "connecting"
  /\ view' = [view EXCEPT ![v] = "off"]
  /\ UNCHANGED <<stage, published, captures, joined, sawAtJoin>>

ViewerJoins(v) ==
  /\ view[v] = "connecting"
  /\ view' = [view EXCEPT ![v] = "checking"]
  /\ joined' = joined \cup {v}
  /\ sawAtJoin' = [sawAtJoin EXCEPT ![v] = NumParticipants(joined')]
  /\ UNCHANGED <<stage, published, captures>>

\* Mutant of CheckCap: a viewer who fills the room is let in.
CheckCapLax(v) ==
  /\ view[v] = "checking"
  /\ \E n \in {sawAtJoin[v], NumParticipants(joined)} :
       IF n > Cap
         THEN /\ view' = [view EXCEPT ![v] = "full"]
              /\ joined' = joined \ {v}
         ELSE /\ view' = [view EXCEPT ![v] = "watching"]
              /\ UNCHANGED joined
  /\ sawAtJoin' = [sawAtJoin EXCEPT ![v] = 0]
  /\ UNCHANGED <<stage, published, captures>>

(* The check after connect; a connection that dropped since is kept as a   *)
(* view all the same, its 'disconnected' event having found no view.       *)
CheckCap(v) ==
  /\ view[v] = "checking"
  /\ \E n \in {sawAtJoin[v], NumParticipants(joined)} :
       IF n >= Cap
         THEN /\ view' = [view EXCEPT ![v] = "full"]
              /\ joined' = joined \ {v}
         ELSE /\ view' = [view EXCEPT ![v] = "watching"]
              /\ UNCHANGED joined
  /\ sawAtJoin' = [sawAtJoin EXCEPT ![v] = 0]
  /\ UNCHANGED <<stage, published, captures>>

Leave(v) ==
  /\ view[v] = "watching"
  /\ view' = [view EXCEPT ![v] = "off"]
  /\ joined' = joined \ {v}
  /\ UNCHANGED <<stage, published, captures, sawAtJoin>>

Drop(v) ==
  /\ v \in joined
  /\ joined' = joined \ {v}
  /\ view' = [view EXCEPT ![v] = IF @ = "watching" THEN "off" ELSE @]
  /\ UNCHANGED <<stage, published, captures, sawAtJoin>>

(* atCapacity is never reset: only a new mount of the panel asks again.    *)
Reopen(v) ==
  /\ view[v] = "full"
  /\ view' = [view EXCEPT ![v] = "off"]
  /\ UNCHANGED <<stage, published, captures, joined, sawAtJoin>>

LiveNext ==
  \/ StartLive \/ PublisherToken \/ PublisherJoins \/ Acquired \/ Published
  \/ StartFails \/ StopLive \/ Stopped
  \/ \E v \in Viewers :
       \/ Watch(v) \/ WatchFails(v) \/ ViewerJoins(v) \/ CheckCap(v)
       \/ Leave(v) \/ Drop(v) \/ Reopen(v)

LiveSpec == LiveInit /\ [][LiveNext]_liveVars

----------------------------------------------------------------------------
(* Properties.                                                             *)

(* However joins, checks and drops interleave, and although a check reads  *)
(* a count that may be as old as the join, those who stay to watch do not  *)
(* fill the room (ViewerPanel.tsx, post-connect check).                    *)
CapKept == Cardinality({v \in joined : view[v] = "watching"}) < Cap

=============================================================================
