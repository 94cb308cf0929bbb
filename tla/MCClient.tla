------------------------------- MODULE MCClient -------------------------------
(* Parts that share no state, each on its own: the one a behaviour is      *)
(* about is chosen at the start and the others rest.  The token bucket is  *)
(* of the server; the devices, the push subscriptions and the live         *)
(* sessions have a part on either side.                                    *)
EXTENDS RateLimiter, AsyncViews, PeerDirectory, DmThreads, Session, Wire, Devices, Push,
        LiveSession, Attachments, TLC

CONSTANTS b1, t1, t2, t3

VARIABLE focus

viewsVars == <<viewVars, dmVars, directoryVars, attachmentVars>>
serverVars == <<limiterVars, liveVars, pushVars>>
vars == <<focus, viewsVars, serverVars, sessionVars, wireVars, devicesVars>>

Sends == [alice |-> 3, bob |-> 2]
Myself == [user |-> 2, key |-> "k2"]
PeersShown == <<[user |-> 1, key |-> "k1"], [user |-> 3, key |-> "k3"]>>
HandlersOf == [thread |-> 2, list |-> 2, none |-> 2]
AttachmentSize == <<2, 1>>
OfOneBrowser == [t \in Tasks |-> b1]
AlikeTasks == Permutations(Tasks)

Init ==
  /\ focus \in {"limiter", "session", "views", "threads", "directory", "wire", "devices", "push",
             "live", "attachments"}
  /\ SessionInit /\ ViewsInit /\ DirectoryInit /\ DevicesInit /\ PushInit /\ LiveInit
  /\ AttachmentsInit
  /\ DmInit /\ selected = "ann"
  /\ LimiterInit /\ now = 0
  /\ focus # "session" => session = InitialRatchets(NoKey)
  /\ focus # "views" => kind = "attachment"
  /\ focus # "threads" => screenOf = "none"
  /\ enrolled = {"d1"}
  /\ IF focus = "wire"
     THEN WireInit
     ELSE sort = "none" /\ made = <<>> /\ fits = TRUE /\ at = "none" /\ fields = <<>> /\ frame = <<>>

(* Bound: two calls of a device overlap among the first two messages only. *)
(* Its slots are alike: the second is taken while the first is in use.     *)
FewOverlap ==
  /\ (\E d \in Ends : \A i \in Slots : job'[d][i] # NoCall)
       => Cardinality(sealed'[Alice]) + Cardinality(sealed'[Bob]) <= 2
  /\ \A d \in Ends : job[d][2] = NoCall /\ job'[d][2] # NoCall => job[d][1] # NoCall

ViewsStep ==
  \/ /\ focus = "views"
     /\ ~overtaken /\ ViewsNext
     /\ UNCHANGED <<dmVars, directoryVars, attachmentVars>>
  \/ /\ focus = "threads"
     /\ ~failed /\ ~outOfOrder /\ DmNext
     /\ UNCHANGED <<viewVars, directoryVars, attachmentVars>>
  \/ /\ focus = "directory"
     /\ DirectoryNext
     /\ UNCHANGED <<viewVars, dmVars, attachmentVars>>
  \/ /\ focus = "attachments"
     /\ AttachmentsNext
     /\ UNCHANGED <<viewVars, dmVars, directoryVars>>

ServerStep ==
  \/ /\ focus = "limiter"
     /\ LimiterNext
     /\ UNCHANGED <<liveVars, pushVars>>
  \/ /\ focus = "live"
     /\ LiveNext
     /\ UNCHANGED <<limiterVars, pushVars>>
  \/ /\ focus = "push"
     /\ PushNext
     /\ UNCHANGED <<limiterVars, liveVars>>

(* A behaviour of the views, the threads, the session or the devices ends  *)
(* where its properties claim nothing further: after a fault, an overwrite *)
(* or an overtaking that they name.                                        *)
Next ==
  /\ UNCHANGED focus
  /\ \/ /\ ViewsStep
        /\ UNCHANGED <<serverVars, sessionVars, wireVars, devicesVars>>
     \/ /\ ServerStep
        /\ UNCHANGED <<viewsVars, sessionVars, wireVars, devicesVars>>
     \/ /\ focus = "session"
        /\ Intact = Ends /\ SessionNext /\ FewOverlap
        /\ UNCHANGED <<viewsVars, serverVars, wireVars, devicesVars>>
     \/ /\ focus = "wire"
        /\ WireNext
        /\ UNCHANGED <<viewsVars, serverVars, sessionVars, devicesVars>>
     \/ /\ focus = "devices"
        /\ overlapped = {} /\ DevicesNext
        /\ UNCHANGED <<viewsVars, serverVars, sessionVars, wireVars>>

Spec == Init /\ [][Next]_vars
=============================================================================
