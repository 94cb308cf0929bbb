----------------------------- MODULE MCFeatures -----------------------------
(* The inbox of a device and features of the client, each on its own: the  *)
(* one a behaviour is about is chosen at the start and the others rest.    *)
EXTENDS Calls, LocalKeys, SignIn, Broadcast, Inbox

VARIABLES
  focus,
  mounted, opening, current, clips, uploads, notes, restarted

voiceVars == <<mounted, opening, current, clips, uploads, notes, restarted>>
mediaVars == <<callVars, voiceVars>>
messageVars == <<broadcastVars, vars>>
featureVars == <<focus, messageVars, mediaVars, keyVars, signInVars>>

PostAuthors == [p1 |-> "olga", p2 |-> "olga"]
PostDevices == [p1 |-> "laptop", p2 |-> "laptop"]
PostOrder == [p1 |-> 1, p2 |-> 2]

(* One device with two sockets (two tabs, or a reconnect that overlaps the *)
(* old socket) and an envelope addressed to it.                            *)
DeviceOfTwo == [tab1 |-> "bob", tab2 |-> "bob"]
ToBob == [e1 |-> "bob"]

V == INSTANCE VoiceNote WITH MaxClips <- 2, MaxOpening <- 2, MaxStops <- 2, MaxAttempts <- 2,
       overlapped <- restarted

FeaturesInit ==
  /\ focus \in {"inbox", "broadcast", "calls", "voice", "keys", "signIn"}
  /\ Init /\ BroadcastInit /\ CallsInit /\ V!VoiceInit /\ KeysInit /\ SignInInit

(* A behaviour of LocalKeys or SignIn ends where its properties claim      *)
(* nothing further: after two enrolments, or two flows, have overlapped.   *)
FeaturesNext ==
  /\ UNCHANGED focus
  /\ \/ /\ focus = "inbox"
        /\ Next
        /\ UNCHANGED <<broadcastVars, mediaVars, keyVars, signInVars>>
     \/ /\ focus = "broadcast"
        /\ BroadcastNext
        /\ UNCHANGED <<vars, mediaVars, keyVars, signInVars>>
     \/ /\ focus = "calls"
        /\ CallsNext
        /\ UNCHANGED <<messageVars, voiceVars, keyVars, signInVars>>
     \/ /\ focus = "voice"
        /\ V!VoiceNext
        /\ UNCHANGED <<messageVars, callVars, keyVars, signInVars>>
     \/ /\ focus = "keys"
        /\ ~overlapped /\ KeysNext
        /\ UNCHANGED <<messageVars, mediaVars, signInVars>>
     \/ /\ focus = "signIn"
        /\ ~crossed /\ SignInNext
        /\ UNCHANGED <<messageVars, mediaVars, keyVars>>

(* What rests has no step that is fair: it is where it began.              *)
FairFeatures ==
  FeaturesInit /\ [][FeaturesNext]_featureVars /\ Fairness /\ CallsFairness /\ V!VoiceFairness

MicGoesOff == V!MicGoesOff
=============================================================================
