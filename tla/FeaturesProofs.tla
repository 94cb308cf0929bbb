---------------------------- MODULE FeaturesProofs ----------------------------
(***************************************************************************)
(* Proofs about features of the client, each a module of its own that      *)
(* shares no variable with the others: Calls, LocalKeys, LiveSession,      *)
(* Broadcast, PeerDirectory, AsyncViews, DmThreads, Attachments.           *)
(***************************************************************************)
EXTENDS Calls, LocalKeys, LiveSession, Broadcast,
        PeerDirectory, AsyncViews, DmThreads, Attachments, FiniteSetTheorems, SequenceTheorems,
        WellFoundedInduction, TLAPS

-----------------------------------------------------------------------------
(* Calls.  What an end of a call may hold, for every behaviour of the two  *)
(* peers, however late and in whatever order their signals come.           *)

Timers == {"ice", "offer", "lost"}
Ops == {"none", "prompt", "describing", "applying"}

PeerTypes ==
  /\ peer \in [Sides -> {"idle", "started", "terminated", "gone"}]
  /\ op \in [Sides -> Ops]
  /\ media \in [Sides -> BOOLEAN]
  /\ pc \in [Sides -> {"none", "new", "connected", "disconnected"}]
  /\ sdp \in [Sides -> SUBSET {"local", "remote"}]
  /\ timers \in [Sides -> SUBSET Timers]
  /\ heard \in [Sides -> BOOLEAN]
  /\ ended \in [Sides -> Nat]

(* What is set up, and what is going to be set up by a call that awaits a  *)
(* description, belongs to a started peer: the descriptions decide whether *)
(* candidates and answers are taken, and events come only of a connection. *)
InCallOnly ==
  \A s \in Sides :
    (media[s] \/ pc[s] # "none" \/ timers[s] # {} \/ sdp[s] # {} \/ op[s] = "describing")
      => peer[s] = "started"

(* A peer that has ended is terminated for good, unless its prompt is      *)
(* open or was granted since; of that it has no description, so that no    *)
(* event of its connection arms a watchdog.                                *)
EndedIsLate ==
  \A s \in Sides : ended[s] > 0 =>
    /\ timers[s] = {} /\ sdp[s] = {} /\ ~heard[s] /\ pc[s] \in {"none", "new"}
    /\ peer[s] # "idle" /\ op[s] \in {"none", "prompt"}
    /\ peer[s] = "started" \/ op[s] = "prompt" => s \in late

CallInv == PeerTypes /\ InCallOnly /\ EndedIsLate

LEMMA TerminateKeeps ==
  ASSUME CallInv, NEW s \in Sides, Terminate(s) PROVE CallInv'
BY DEF CallInv, PeerTypes, InCallOnly, EndedIsLate, Terminate, Release, Ops, Timers

(* What is held or under way at an end belongs to a started peer, and to   *)
(* one that has ended only by a grant that came too late.                  *)
THEOREM CallInvariant == CallsSpec => []CallInv
<1>1. CallsInit => CallInv
  BY DEF CallsInit, CallInv, PeerTypes, InCallOnly, EndedIsLate, Ops, Timers
<1>2. CallInv /\ [CallsNext]_callVars => CallInv'
  <2> SUFFICES ASSUME CallInv, [CallsNext]_callVars PROVE CallInv'
    OBVIOUS
  <2> USE DEF CallInv, PeerTypes, InCallOnly, EndedIsLate, Ops, Timers
  <2>1. ASSUME NEW s \in Sides, HangUp(s) \/ TimerFires(s) PROVE CallInv'
    BY <2>1, TerminateKeeps DEF HangUp, TimerFires, TerminateAndTell
  <2>2. ASSUME NEW s \in Sides, Reload(s) PROVE CallInv'
    BY <2>2 DEF Reload, Release
  <2>3. ASSUME NEW s \in Sides, Start(s) PROVE CallInv'
    BY <2>3 DEF Start
  <2>4. ASSUME NEW s \in Sides, MediaRefused(s) PROVE CallInv'
    BY <2>4 DEF MediaRefused, Release
  <2>5. ASSUME NEW s \in Sides, MediaGranted(s) PROVE CallInv'
    BY <2>5 DEF MediaGranted
  <2>6. ASSUME NEW s \in Sides, Described(s) PROVE CallInv'
    BY <2>6 DEF Described
  <2>7. ASSUME NEW s \in Sides, RemoteApplied(s) PROVE CallInv'
    BY <2>7 DEF RemoteApplied
  <2>8. ASSUME NEW s \in Sides, Candidate(s) \/ Gathered(s) PROVE CallInv'
    BY <2>8 DEF Candidate, Gathered
  <2>9. ASSUME NEW s \in Sides, Connected(s) PROVE CallInv'
    BY <2>9 DEF Connected, Connectable
  <2>10. ASSUME NEW s \in Sides, Disconnected(s) PROVE CallInv'
    BY <2>10 DEF Disconnected
  <2>11. ASSUME NEW s \in Sides, NEW m \in wire[s], DispatchSignal(s, m) PROVE CallInv'
    <3>1. CASE Terminate(s)
      BY <3>1, TerminateKeeps
    <3>2. CASE UNCHANGED <<peer, op, media, pc, sdp, timers, heard, ended, late>>
      BY <3>2
    <3>3. CASE /\ sdp[s] = {"local"}
               /\ op' = [op EXCEPT ![s] = "applying"]
               /\ sdp' = [sdp EXCEPT ![s] = {"local", "remote"}]
               /\ UNCHANGED <<peer, media, pc, timers, heard, ended, late>>
      BY <3>3
    <3>4. CASE /\ "remote" \in sdp[s]
               /\ heard' = [heard EXCEPT ![s] = TRUE]
               /\ UNCHANGED <<peer, op, media, pc, sdp, timers, ended, late>>
      BY <3>4
    <3> QED BY <2>11, <3>1, <3>2, <3>3, <3>4 DEF DispatchSignal, RejectCall
  <2>12. CASE UNCHANGED callVars
    BY <2>12 DEF callVars
  <2> QED BY <2>1, <2>2, <2>3, <2>4, <2>5, <2>6, <2>7, <2>8, <2>9, <2>10, <2>11, <2>12 DEF CallsNext
<1> QED BY <1>1, <1>2, PTL DEF CallsSpec

(* No end keeps a microphone, a connection or a watchdog outside a call,   *)
(* except for the stream and the connection of a grant that came after the *)
(* end: that one exception is exact.                                       *)
THEOREM NothingHeldOutside == CallsSpec => []HeldOnlyInCall
<1>1. CallInv => HeldOnlyInCall
  BY DEF CallInv, PeerTypes, InCallOnly, EndedIsLate, HeldOnlyInCall, Holds
<1> QED BY <1>1, CallInvariant, PTL

-----------------------------------------------------------------------------
(* LocalKeys.  That a browser can unwrap what it has saved, for any number *)
(* of calls under way in its tabs.                                         *)

(* What the records are made of, with ids in U.                   *)
Pairs == [key : Nat, under : Nat]
Rows(U) == [id : U, key : Nat, by : Nat, under : Nat, aged : BOOLEAN]
Bundles == Seq([identity : Nat, signed : Nat])
Ats ==
  {"idle", "load", "kek", "generate", "generate2", "save", "kek2", "check", "wipe", "mint",
   "add", "post", "posted", "row", "kekRow", "rows"}
CallRecords(U) ==
  [at : Ats, job : {"none", "enroll", "rotate", "export"}, own : Pairs, under : Nat, wiped : BOOLEAN,
   row : SUBSET Rows(U), device : Nat]

(* The awaits of a call that knows the KEK, and those with a new row.      *)
Wrapping == {"save", "kek2", "check", "wipe", "mint", "add", "post", "posted"}
WithRow == {"add", "post", "posted"}
Seeking == {"load", "kek", "generate"}
Exporting == {"row", "kekRow", "rows"}

TypedBy(U) ==
  /\ Nat \subseteq U
  /\ kek \in Nat /\ made \in Nat /\ overlapped \in BOOLEAN
  /\ identity \in Pairs
  /\ prekeys \subseteq Rows(U)
  /\ cachedId \in Nat /\ served \in Bundles
  /\ worker \in [Workers -> CallRecords(U) \cup {Idle}]

(* What is saved is under the KEK that is saved.                           *)
Unwrappable ==
  /\ identity # NoIdentity => identity.under = kek
  /\ \A r \in prekeys : r.under = kek
NoneSaved == kek = 0 => identity = NoIdentity /\ prekeys = {}

(* A call has the KEK that is saved, or none was when it looked.           *)
CallKept(c) ==
  /\ c.job = "rotate" => kek # 0
  /\ c.at \in Wrapping => c.under = kek /\ kek # 0
  /\ c.at = "generate" => kek = 0
  /\ \/ c.job = "none" /\ c.at = "idle"
     \/ c.job \in {"enroll", "rotate"} /\ c.at \in Seeking \cup Wrapping
     \/ c.job = "export" /\ c.at \in Exporting
  /\ c.at \in WithRow => \A r \in c.row : r.under = kek

(* Of the calls that may save a first KEK there is only one.               *)
OneEnrolment ==
  \A v, w \in Workers : worker[v].job = "enroll" /\ worker[w].job = "enroll" => v = w

Kept ==
  ~overlapped => /\ Unwrappable /\ NoneSaved /\ OneEnrolment
                 /\ \A w \in Workers : CallKept(worker[w])

KInv == (\E U : TypedBy(U)) /\ Kept

-----------------------------------------------------------------------------

LEMMA Wider ==
  ASSUME NEW U, TypedBy(U), NEW x PROVE TypedBy(U \cup {x})
BY DEF TypedBy, Pairs, Rows, CallRecords

(* A step of one call that saves no KEK, and from which it keeps to its    *)
(* part.                                                                   *)
LEMMA CallStep ==
  ASSUME NEW U, TypedBy(U), Kept, NEW w \in Workers, NEW c \in CallRecords(U) \cup {Idle},
         SetWorker(w, c), UNCHANGED <<kek, overlapped>>,
         made' \in Nat, identity' \in Pairs, prekeys' \subseteq Rows(U), cachedId' \in Nat /\ served' \in Bundles,
         ~overlapped => Unwrappable' /\ NoneSaved',
         ~overlapped => (c.job = "enroll" => worker[w].job = "enroll") /\ CallKept(c)
  PROVE  KInv'
<1>1. worker'[w] = c /\ \A v \in Workers \ {w} : worker'[v] = worker[v]
  BY DEF TypedBy, SetWorker
<1>2. TypedBy(U)'
  BY DEF TypedBy, SetWorker
<1>3. ASSUME ~overlapped PROVE OneEnrolment'
  BY <1>1, <1>3 DEF Kept, OneEnrolment
<1>4. ASSUME ~overlapped, NEW v \in Workers PROVE CallKept(worker[v])'
  BY <1>1, <1>4 DEF Kept, CallKept
<1> QED BY <1>2, <1>3, <1>4 DEF KInv, Kept

(* The same when nothing of what is saved changes.                         *)
LEMMA CallOnly ==
  ASSUME NEW U, TypedBy(U), Kept, NEW w \in Workers, NEW c \in CallRecords(U) \cup {Idle},
         SetWorker(w, c), UNCHANGED <<kek, identity, prekeys, overlapped>>,
         made' \in Nat, cachedId' \in Nat /\ served' \in Bundles,
         ~overlapped => (c.job = "enroll" => worker[w].job = "enroll") /\ CallKept(c)
  PROVE  KInv'
<1>1. identity' \in Pairs /\ prekeys' \subseteq Rows(U)
  BY DEF TypedBy
<1>2. ~overlapped => Unwrappable' /\ NoneSaved'
  BY DEF Kept, Unwrappable, NoneSaved
<1> QED BY <1>1, <1>2, CallStep

LEMMA IdleKeeps ==
  ASSUME NEW U, TypedBy(U), Kept, NEW w \in Workers, SetWorker(w, Idle),
         UNCHANGED <<kek, identity, prekeys, overlapped>>, made' \in Nat, cachedId' \in Nat /\ served' \in Bundles
  PROVE  KInv'
BY CallOnly DEF CallKept, Idle, Wrapping, WithRow

-----------------------------------------------------------------------------
LEMMA LoadKeeps ==
  ASSUME NEW U, TypedBy(U), Kept, NEW w \in Workers, LoadIdentity(w) PROVE KInv'
<1>1. worker[w] \in CallRecords(U) /\ worker[w].at = "load"
  BY DEF LoadIdentity, TypedBy, Idle
<1>2. PICK c \in CallRecords(U) : SetWorker(w, c) /\ c.at = "kek" /\ c.job = worker[w].job
  <2>1. CASE identity = NoIdentity
    <3> DEFINE c == [worker[w] EXCEPT !.at = "kek", !.own.key = Fresh]
    <3> DEFINE own == [worker[w].own EXCEPT !.key = Fresh]
    <3>3. worker[w].own \in Pairs /\ Fresh \in Nat
      BY <1>1 DEF CallRecords, Fresh, TypedBy
    <3>4. own \in Pairs
      BY <3>3 DEF Pairs
    <3>5. c = [worker[w] EXCEPT !.at = "kek", !.own = own]
      BY <1>1 DEF CallRecords
    <3>1. c \in CallRecords(U) /\ c.at = "kek" /\ c.job = worker[w].job
      <4> HIDE DEF own, c
      <4> QED BY <1>1, <3>4, <3>5 DEF CallRecords, Ats
    <3>2. SetWorker(w, c)
      BY <2>1 DEF LoadIdentity
    <3> HIDE DEF c
    <3> QED BY <3>1, <3>2
  <2>2. CASE identity # NoIdentity
    <3> DEFINE c == [worker[w] EXCEPT !.at = "kek", !.own = identity]
    <3>1. c \in CallRecords(U) /\ c.at = "kek" /\ c.job = worker[w].job
      BY <1>1 DEF CallRecords, Ats, TypedBy
    <3>2. SetWorker(w, c)
      BY <2>2 DEF LoadIdentity
    <3> HIDE DEF c
    <3> QED BY <3>1, <3>2
  <2> QED BY <2>1, <2>2
<1>3. ~overlapped => CallKept(c)
  BY <1>1, <1>2 DEF Kept, CallKept, Wrapping, WithRow, Seeking, Exporting
<1>4. made' \in Nat /\ cachedId' \in Nat /\ served' \in Bundles /\ UNCHANGED <<kek, identity, prekeys, overlapped>>
  BY DEF LoadIdentity, Make, Fresh, TypedBy, storedVars
<1> QED BY <1>2, <1>3, <1>4, CallOnly

LEMMA ReadKeeps ==
  ASSUME NEW U, TypedBy(U), Kept, NEW w \in Workers, ReadKek(w) PROVE KInv'
<1>1. worker[w] \in CallRecords(U) /\ worker[w].at \in {"kek", "kek2"} /\ kek \in Nat
  BY DEF ReadKek, TypedBy, Idle
<1>2. /\ made' \in Nat /\ cachedId' \in Nat /\ served' \in Bundles
      /\ UNCHANGED <<kek, identity, prekeys, overlapped>>
  BY DEF ReadKek, TypedBy, storedVars
<1>3. ~overlapped => CallKept(worker[w])
  BY DEF Kept
<1>4. CASE SetWorker(w, Idle)
  BY <1>2, <1>4, IdleKeeps
<1>5. ASSUME NEW at \in {"save", "kek2", "check", "mint"}, kek # 0,
             SetWorker(w, [[worker[w] EXCEPT !.under = kek] EXCEPT !.at = at])
      PROVE  KInv'
  <2> DEFINE c == [[worker[w] EXCEPT !.under = kek] EXCEPT !.at = at]
  <2>1. c \in CallRecords(U) /\ c.at = at /\ c.under = kek /\ c.job = worker[w].job
    BY <1>1, <1>5 DEF CallRecords, Ats
  <2>2. ~overlapped => CallKept(c)
    BY <1>1, <1>3, <1>5, <2>1 DEF CallKept, Wrapping, WithRow, Seeking, Exporting
  <2>3. SetWorker(w, c)
    BY <1>5
  <2> HIDE DEF c
  <2> QED BY <1>2, <2>1, <2>2, <2>3, CallOnly
<1>6. ASSUME kek = 0, NEW at \in {"generate", "generate2"}, GoTo(w, at),
             worker[w].at = "kek" => at = "generate",
             worker[w].at = "kek2" => at = "generate2"
      PROVE  KInv'
  <2> DEFINE c == [worker[w] EXCEPT !.at = at]
  <2>1. c \in CallRecords(U) /\ c.at = at /\ c.job = worker[w].job
    BY <1>1 DEF CallRecords, Ats
  <2>2. ~overlapped => CallKept(c)
    BY <1>1, <1>3, <1>6, <2>1 DEF CallKept, Wrapping, WithRow, Seeking, Exporting
  <2>3. SetWorker(w, c)
    BY <1>6 DEF GoTo
  <2> HIDE DEF c
  <2> QED BY <1>2, <2>1, <2>2, <2>3, CallOnly
<1> QED BY <1>1, <1>4, <1>5, <1>6 DEF ReadKek, WithKek

(* The first KEK: whoever else enrols or rotates would have to have it.    *)
LEMMA PutKeeps ==
  ASSUME NEW U, TypedBy(U), Kept, NEW w \in Workers, PutKek(w) PROVE KInv'
<1>1. worker[w] \in CallRecords(U) /\ worker[w].at \in {"generate", "generate2"}
  BY DEF PutKek, TypedBy, Idle
<1>2. Fresh \in Nat /\ Fresh # 0 /\ kek' = Fresh /\ made' = Fresh
  BY DEF PutKek, Make, Fresh, TypedBy
<1>3. UNCHANGED <<identity, prekeys, cachedId, served, overlapped>>
  BY DEF PutKek
<1>4. ASSUME NEW c \in CallRecords(U) \cup {Idle}, SetWorker(w, c),
             \/ c = Idle
             \/ /\ c.at \in {"save", "kek2", "check", "mint"}
                /\ c.under = Fresh /\ c.job = worker[w].job
      PROVE  KInv'
  <2>1. worker'[w] = c /\ \A v \in Workers \ {w} : worker'[v] = worker[v]
    BY <1>4 DEF TypedBy, SetWorker
  <2>2. TypedBy(U)'
    BY <1>2, <1>3, <1>4 DEF TypedBy, SetWorker
  <2>3. SUFFICES ASSUME ~overlapped PROVE Unwrappable' /\ NoneSaved' /\ OneEnrolment'
                                          /\ \A v \in Workers : CallKept(worker[v])'
    BY <1>3, <2>2 DEF KInv, Kept
  <2>4. CallKept(worker[w]) /\ NoneSaved /\ OneEnrolment
    BY <2>3 DEF Kept
  <2>5. worker[w].at = "generate" /\ kek = 0 /\ worker[w].job = "enroll"
    BY <1>1, <2>4 DEF CallKept, Seeking, Wrapping, Exporting
  <2>6. Unwrappable' /\ NoneSaved'
    BY <1>2, <1>3, <2>4, <2>5 DEF Unwrappable, NoneSaved
  <2>7. OneEnrolment'
    BY <1>4, <2>1, <2>4, <2>5 DEF OneEnrolment, Idle
  <2>8. ASSUME NEW v \in Workers \ {w} PROVE CallKept(worker[v])'
    <3>1. CallKept(worker[v]) /\ worker[v].at \notin Wrapping
      BY <2>3, <2>5 DEF Kept, CallKept
    <3>2. worker[v].job # "enroll" /\ worker[v].job # "rotate"
      BY <2>4, <2>5, <3>1 DEF OneEnrolment, CallKept
    <3>3. worker'[v] = worker[v]
      BY <2>1
    <3> QED BY <3>1, <3>2, <3>3 DEF CallKept, Wrapping, Seeking, Exporting, WithRow
  <2>9. CallKept(c)'
    BY <1>1, <1>2, <1>4, <2>5 DEF CallKept, Wrapping, Seeking, Exporting, WithRow, Idle
  <2> QED BY <2>1, <2>6, <2>7, <2>8, <2>9 DEF CallKept
<1>5. CASE SetWorker(w, Idle)
  BY <1>4, <1>5
<1>6. ASSUME NEW at \in {"save", "kek2", "check", "mint"},
             SetWorker(w, [[worker[w] EXCEPT !.under = Fresh] EXCEPT !.at = at])
      PROVE  KInv'
  <2> DEFINE c == [[worker[w] EXCEPT !.under = Fresh] EXCEPT !.at = at]
  <2>1. c \in CallRecords(U) /\ c.at = at /\ c.under = Fresh /\ c.job = worker[w].job
    BY <1>1, <1>2, <1>6 DEF CallRecords, Ats
  <2>2. SetWorker(w, c)
    BY <1>6
  <2> HIDE DEF c
  <2> QED BY <1>4, <1>6, <2>1, <2>2
<1> QED BY <1>1, <1>5, <1>6 DEF PutKek, WithKek

LEMMA SaveKeeps ==
  ASSUME NEW U, TypedBy(U), Kept, NEW w \in Workers, SaveIdentity(w) PROVE KInv'
<1>1. worker[w] \in CallRecords(U) /\ worker[w].at = "save"
  BY DEF SaveIdentity, TypedBy, Idle
<1> DEFINE c == [worker[w] EXCEPT !.at = "kek2"]
<1>2. c \in CallRecords(U) /\ c.at = "kek2" /\ c.under = worker[w].under /\ c.job = worker[w].job
  BY <1>1 DEF CallRecords, Ats
<1>3. SetWorker(w, c)
  BY DEF SaveIdentity, GoTo
<1>4. ~overlapped => CallKept(worker[w]) /\ CallKept(c)
  BY <1>1, <1>2 DEF Kept, CallKept, Wrapping, WithRow, Seeking, Exporting
<1>5. /\ made' \in Nat /\ cachedId' \in Nat /\ served' \in Bundles /\ prekeys' \subseteq Rows(U)
      /\ UNCHANGED <<kek, prekeys, overlapped>>
      /\ identity' = [key |-> worker[w].own.key, under |-> worker[w].under]
  BY DEF SaveIdentity, TypedBy
<1>6. identity' \in Pairs
  BY <1>1, <1>5 DEF CallRecords, Ats, Pairs
<1>7. ~overlapped => Unwrappable' /\ NoneSaved'
  BY <1>1, <1>4, <1>5 DEF Kept, CallKept, Unwrappable, NoneSaved, Wrapping
<1> HIDE DEF c
<1> QED BY <1>2, <1>3, <1>4, <1>5, <1>6, <1>7, CallStep

LEMMA EnrollKeeps ==
  ASSUME NEW U, TypedBy(U), Kept, NEW w \in Workers, Enroll(w) PROVE KInv'
<1> DEFINE c == Begin("enroll", "load")
<1>1. c \in CallRecords(U) /\ c.at = "load" /\ c.job = "enroll" /\ SetWorker(w, c)
  BY DEF Enroll, Begin, CallRecords, Ats, Pairs, Rows, NoIdentity, TypedBy
<1>2. /\ overlapped' = (overlapped \/ \E v \in Workers : worker[v].job = "enroll")
      /\ UNCHANGED <<kek, identity, prekeys, cachedId, served, made>>
  BY DEF Enroll, storedVars
<1> HIDE DEF c
<1>3. worker'[w] = c /\ \A v \in Workers \ {w} : worker'[v] = worker[v]
  BY <1>1 DEF TypedBy, SetWorker
<1>4. TypedBy(U)'
  BY <1>1, <1>2 DEF TypedBy, SetWorker
<1>5. CASE overlapped'
  BY <1>4, <1>5 DEF KInv, Kept
<1>6. CASE ~overlapped'
  <2>1. ~overlapped /\ \A v \in Workers : worker[v].job # "enroll"
    BY <1>2, <1>6
  <2>2. Unwrappable' /\ NoneSaved'
    BY <1>2, <2>1 DEF Kept, Unwrappable, NoneSaved
  <2>3. OneEnrolment'
    BY <1>3, <2>1 DEF OneEnrolment
  <2>4. ASSUME NEW v \in Workers PROVE CallKept(worker[v])'
    BY <1>1, <1>2, <1>3, <2>1 DEF Kept, CallKept, Wrapping, WithRow, Seeking
  <2> QED BY <1>4, <2>2, <2>3, <2>4 DEF KInv, Kept
<1> QED BY <1>5, <1>6

LEMMA CheckKeeps ==
  ASSUME NEW U, TypedBy(U), Kept, NEW w \in Workers, CheckEmpty(w) PROVE KInv'
<1>1. worker[w] \in CallRecords(U) /\ worker[w].at = "check"
  BY DEF CheckEmpty, TypedBy, Idle
<1>2. /\ made' \in Nat /\ cachedId' \in Nat /\ served' \in Bundles
      /\ UNCHANGED <<kek, identity, prekeys, overlapped>>
  BY DEF CheckEmpty, TypedBy, storedVars
<1>3. ~overlapped => CallKept(worker[w])
  BY DEF Kept
<1>4. CASE SetWorker(w, Idle)
  BY <1>2, <1>4, IdleKeeps
<1>5. ASSUME NEW at \in {"mint", "wipe"}, GoTo(w, at) PROVE KInv'
  <2> DEFINE c == [worker[w] EXCEPT !.at = at]
  <2>1. c \in CallRecords(U) /\ c.at = at /\ c.under = worker[w].under /\ c.job = worker[w].job
    BY <1>1 DEF CallRecords, Ats
  <2>2. SetWorker(w, c)
    BY <1>5 DEF GoTo
  <2>3. ~overlapped => CallKept(c)
    BY <1>1, <1>3, <2>1 DEF CallKept, Wrapping, WithRow, Seeking, Exporting
  <2> HIDE DEF c
  <2> QED BY <1>2, <2>1, <2>2, <2>3, CallOnly
<1> QED BY <1>4, <1>5 DEF CheckEmpty

LEMMA WipeKeeps ==
  ASSUME NEW U, TypedBy(U), Kept, NEW w \in Workers, WipePrekeys(w) PROVE KInv'
<1>1. worker[w] \in CallRecords(U) /\ worker[w].at = "wipe"
  BY DEF WipePrekeys, TypedBy, Idle
<1> DEFINE c == [worker[w] EXCEPT !.at = "check", !.wiped = TRUE]
<1>2. c \in CallRecords(U) /\ c.at = "check" /\ c.under = worker[w].under /\ c.job = worker[w].job
  BY <1>1 DEF CallRecords, Ats
<1>3. SetWorker(w, c)
  BY DEF WipePrekeys
<1>4. ~overlapped => CallKept(c)
  BY <1>1, <1>2 DEF Kept, CallKept, Wrapping, WithRow, Seeking, Exporting
<1>5. /\ made' \in Nat /\ cachedId' \in Nat /\ served' \in Bundles /\ prekeys' = {} /\ identity' \in Pairs
      /\ UNCHANGED <<kek, identity, overlapped>>
  BY DEF WipePrekeys, TypedBy
<1>6. ~overlapped => Unwrappable' /\ NoneSaved'
  BY <1>5 DEF Kept, Unwrappable, NoneSaved
<1> HIDE DEF c
<1> QED BY <1>2, <1>3, <1>4, <1>5, <1>6, CallStep

LEMMA RotationKeeps ==
  ASSUME NEW U, TypedBy(U), Kept, NEW w \in Workers, CheckRotation(w) PROVE KInv'
<1>1. /\ made' \in Nat /\ cachedId' \in Nat /\ served' \in Bundles /\ prekeys # {}
      /\ UNCHANGED <<kek, identity, prekeys, cachedId, served, made, overlapped>>
  BY DEF CheckRotation, TypedBy
<1>2. CASE UNCHANGED worker
  BY <1>1, <1>2 DEF KInv, TypedBy, Kept, Unwrappable, NoneSaved, OneEnrolment, CallKept
<1>3. CASE SetWorker(w, Begin("rotate", "load"))
  <2> DEFINE c == Begin("rotate", "load")
  <2>1. c \in CallRecords(U) /\ c.at = "load" /\ c.job = "rotate"
    BY DEF Begin, CallRecords, Ats, Pairs, Rows, NoIdentity, TypedBy
  <2>2. ~overlapped => CallKept(c)
    BY <1>1, <2>1 DEF Kept, NoneSaved, CallKept, Wrapping, WithRow, Seeking
  <2>3. SetWorker(w, c)
    BY <1>3
  <2> HIDE DEF c
  <2> QED BY <1>1, <2>1, <2>2, <2>3, CallOnly
<1> QED BY <1>2, <1>3 DEF CheckRotation

(* The id that is read may be any: it joins what the records are made of.  *)
LEMMA MintKeeps ==
  ASSUME NEW U, TypedBy(U), Kept, NEW w \in Workers, BuildSignedPreKey(w) PROVE KInv'
<1>1. worker[w] \in CallRecords(U) /\ worker[w].at = "mint" /\ Fresh \in Nat
  BY DEF BuildSignedPreKey, TypedBy, Idle, Fresh
<1> DEFINE id == IF prekeys = {} THEN 1 ELSE CurrentSigned.id + 1
           V == U \cup {id}
           row == [id |-> id, key |-> Fresh, by |-> worker[w].own.key,
                   under |-> worker[w].under, aged |-> FALSE]
           c == [worker[w] EXCEPT !.at = "add", !.row = {row}]
<1>2. SetWorker(w, c)
  BY DEF BuildSignedPreKey
<1>3. id \in V
  OBVIOUS
<1> HIDE DEF id
<1>4. TypedBy(V)
  BY Wider
<1> HIDE DEF V
<1>5. worker[w] \in CallRecords(V)
  BY <1>4 DEF TypedBy, BuildSignedPreKey, Idle
<1>6. worker[w].own.key \in Nat /\ worker[w].under \in Nat
  BY <1>5 DEF CallRecords, Pairs
<1>7. row \in Rows(V) /\ row.under = worker[w].under
  BY <1>1, <1>3, <1>6 DEF Rows
<1> HIDE DEF row
<1>8. /\ c \in CallRecords(V) /\ c.at = "add" /\ c.row = {row}
      /\ c.under = worker[w].under /\ c.job = worker[w].job
  BY <1>5, <1>7 DEF CallRecords, Ats
<1> HIDE DEF c
<1>9. ~overlapped => CallKept(c)
  BY <1>1, <1>7, <1>8 DEF Kept, CallKept, Wrapping, WithRow, Seeking, Exporting
<1>10. /\ made' \in Nat /\ cachedId' \in Nat /\ served' \in Bundles
       /\ UNCHANGED <<kek, identity, prekeys, overlapped>>
  BY <1>1, <1>4 DEF BuildSignedPreKey, Make, storedVars, TypedBy
<1> QED BY <1>2, <1>4, <1>8, <1>9, <1>10, CallOnly

LEMMA AddKeeps ==
  ASSUME NEW U, TypedBy(U), Kept, NEW w \in Workers, SaveSignedPreKey(w) PROVE KInv'
<1>1. worker[w] \in CallRecords(U) /\ worker[w].at = "add"
  BY DEF SaveSignedPreKey, TypedBy, Idle
<1>2. /\ made' \in Nat /\ cachedId' \in Nat /\ served' \in Bundles /\ identity' \in Pairs
      /\ UNCHANGED <<kek, identity, overlapped>>
  BY DEF SaveSignedPreKey, TypedBy
<1>3. CASE SetWorker(w, Idle) /\ UNCHANGED prekeys
  BY <1>2, <1>3, IdleKeeps
<1>4. prekeys' = Added(w) => prekeys' \subseteq Rows(U)
  BY <1>1 DEF Added, CallRecords, TypedBy
<1>5. prekeys' = Added(w) /\ ~overlapped => Unwrappable' /\ NoneSaved'
  BY <1>1, <1>2 DEF Kept, CallKept, Wrapping, WithRow, Unwrappable, NoneSaved, Added
<1>6. CASE prekeys' = Added(w) /\ SetWorker(w, Idle)
  <2>1. CallKept(Idle) /\ Idle.job = "none"
    BY DEF CallKept, Idle, Wrapping, WithRow
  <2> QED BY <1>2, <1>4, <1>5, <1>6, <2>1, CallStep
<1>7. CASE prekeys' = Added(w) /\ GoTo(w, "post")
  <2> DEFINE c == [worker[w] EXCEPT !.at = "post"]
  <2>1. /\ c \in CallRecords(U) /\ c.at = "post" /\ c.row = worker[w].row
        /\ c.under = worker[w].under /\ c.job = worker[w].job
    BY <1>1 DEF CallRecords, Ats
  <2>2. ~overlapped => CallKept(c)
    BY <1>1, <2>1 DEF Kept, CallKept, Wrapping, WithRow, Seeking, Exporting
  <2>3. SetWorker(w, c)
    BY <1>7 DEF GoTo
  <2> HIDE DEF c
  <2> QED BY <1>2, <1>4, <1>5, <1>7, <2>1, <2>2, <2>3, CallStep
<1> QED BY <1>3, <1>6, <1>7 DEF SaveSignedPreKey

LEMMA PostKeeps ==
  ASSUME NEW U, TypedBy(U), Kept, NEW w \in Workers, PostDevice(w) PROVE KInv'
<1>1. worker[w] \in CallRecords(U) /\ worker[w].at = "post"
  BY DEF PostDevice, TypedBy, Idle
<1> DEFINE c == [worker[w] EXCEPT !.at = "posted", !.device = Len(served) + 1]
<1>2. SetWorker(w, c)
  BY DEF PostDevice
<1>3. Len(served) + 1 \in Nat
  BY DEF TypedBy, Bundles
<1>4. /\ c \in CallRecords(U) /\ c.at = "posted" /\ c.row = worker[w].row
      /\ c.under = worker[w].under /\ c.job = worker[w].job
  BY <1>1, <1>3 DEF CallRecords, Ats
<1> HIDE DEF c
<1>5. ~overlapped => CallKept(c)
  BY <1>1, <1>4 DEF Kept, CallKept, Wrapping, WithRow, Seeking, Exporting
<1>6. served' \in Bundles
  <2>1. PICK r \in worker[w].row : served' = Append(served, [identity |-> r.by, signed |-> r.key])
    BY DEF PostDevice
  <2>2. r \in Rows(U)
    BY <1>1 DEF CallRecords
  <2>3. r.by \in Nat /\ r.key \in Nat
    BY <2>2 DEF Rows
  <2> QED BY <2>1, <2>3 DEF TypedBy, Bundles
<1>7. made' \in Nat /\ cachedId' \in Nat /\ UNCHANGED <<kek, identity, prekeys, overlapped>>
  BY DEF PostDevice, storedVars, TypedBy
<1> QED BY <1>2, <1>4, <1>5, <1>6, <1>7, CallOnly

LEMMA EndKeeps ==
  ASSUME NEW U, TypedBy(U), Kept, NEW w \in Workers,
         Enrolled(w) \/ Abandon(w) \/ ExportRows(w)
  PROVE  KInv'
<1>1. /\ SetWorker(w, Idle) /\ made' \in Nat
      /\ UNCHANGED <<kek, identity, prekeys, overlapped>>
  BY DEF Enrolled, Abandon, ExportRows, TypedBy, storedVars
<1>2. cachedId' \in Nat /\ served' \in Bundles
  <2>1. CASE Enrolled(w)
    BY <2>1 DEF Enrolled, TypedBy, CallRecords, Idle
  <2>2. CASE UNCHANGED <<cachedId, served>>
    BY <2>2 DEF TypedBy
  <2> QED BY <2>1, <2>2 DEF Abandon, ExportRows, storedVars
<1> QED BY <1>1, <1>2, IdleKeeps

LEMMA ExportKeeps ==
  ASSUME NEW U, TypedBy(U), Kept, NEW w \in Workers, Export(w) \/ ExportIdentity(w)
  PROVE  KInv'
<1>1. /\ made' \in Nat /\ cachedId' \in Nat /\ served' \in Bundles
      /\ UNCHANGED <<kek, identity, prekeys, overlapped>>
  BY DEF Export, ExportIdentity, TypedBy, storedVars
<1>2. ASSUME NEW c \in CallRecords(U), c.job = "export", c.at \in Exporting, SetWorker(w, c)
      PROVE  KInv'
  <2>1. CallKept(c)
    BY <1>2 DEF CallKept, Exporting, Wrapping, WithRow
  <2> QED BY <1>1, <1>2, <2>1, CallOnly
<1>3. CASE Export(w)
  <2> DEFINE c == Begin("export", "row")
  <2>1. c \in CallRecords(U) /\ c.at = "row" /\ c.job = "export"
    BY DEF Begin, CallRecords, Ats, Pairs, Rows, NoIdentity, TypedBy
  <2>2. SetWorker(w, c)
    BY <1>3 DEF Export
  <2> HIDE DEF c
  <2> QED BY <1>2, <2>1, <2>2 DEF Exporting
<1>4. CASE SetWorker(w, Idle)
  BY <1>1, <1>4, IdleKeeps
<1>5. ASSUME worker[w].at \in {"row", "kekRow"}
      PROVE  worker[w] \in CallRecords(U) /\ (~overlapped => worker[w].job = "export")
  BY <1>5 DEF TypedBy, Idle, Kept, CallKept, Seeking, Wrapping
<1>6. CASE /\ worker[w].at = "row"
           /\ SetWorker(w, [worker[w] EXCEPT !.at = "kekRow", !.own = identity])
  <2> DEFINE c == [worker[w] EXCEPT !.at = "kekRow", !.own = identity]
  <2>1. c \in CallRecords(U) /\ c.at = "kekRow" /\ c.job = worker[w].job
    BY <1>5, <1>6 DEF CallRecords, Ats, TypedBy
  <2>2. SetWorker(w, c)
    BY <1>6
  <2> HIDE DEF c
  <2>3. ~overlapped => CallKept(c) /\ c.job = "export"
    BY <1>5, <1>6, <2>1 DEF CallKept, Exporting, Wrapping, WithRow
  <2> QED BY <1>1, <2>1, <2>2, <2>3, CallOnly
<1>7. CASE /\ worker[w].at = "kekRow"
           /\ SetWorker(w, [worker[w] EXCEPT !.at = "rows", !.under = kek])
  <2> DEFINE c == [worker[w] EXCEPT !.at = "rows", !.under = kek]
  <2>1. c \in CallRecords(U) /\ c.at = "rows" /\ c.job = worker[w].job
    BY <1>5, <1>7 DEF CallRecords, Ats, TypedBy
  <2>2. SetWorker(w, c)
    BY <1>7
  <2> HIDE DEF c
  <2>3. ~overlapped => CallKept(c) /\ c.job = "export"
    BY <1>5, <1>7, <2>1 DEF CallKept, Exporting, Wrapping, WithRow
  <2> QED BY <1>1, <2>1, <2>2, <2>3, CallOnly
<1> QED BY <1>3, <1>4, <1>6, <1>7 DEF ExportIdentity

LEMMA SevenDaysKeeps ==
  ASSUME NEW U, TypedBy(U), Kept, SevenDays PROVE KInv'
<1>1. /\ prekeys' = {[r EXCEPT !.aged = TRUE] : r \in prekeys}
      /\ UNCHANGED <<kek, identity, cachedId, served, worker, made, overlapped>>
  BY DEF SevenDays
<1>2. ASSUME NEW q \in prekeys'
      PROVE  q \in Rows(U) /\ \E r \in prekeys : q.under = r.under
  <2>1. PICK r \in prekeys : q = [r EXCEPT !.aged = TRUE]
    BY <1>1
  <2>2. r \in Rows(U)
    BY DEF TypedBy
  <2>3. q \in Rows(U) /\ q.under = r.under
    BY <2>1, <2>2 DEF Rows
  <2> QED BY <2>3
<1>3. prekeys = {} => prekeys' = {}
  BY <1>1
<1>4. TypedBy(U)'
  BY <1>1, <1>2 DEF TypedBy
<1>5. Kept'
  BY <1>1, <1>2, <1>3 DEF Kept, Unwrappable, NoneSaved, OneEnrolment, CallKept
<1> QED BY <1>4, <1>5 DEF KInv

LEMMA StillKeeps ==
  ASSUME NEW U, TypedBy(U), Kept,
         UNCHANGED <<kek, identity, prekeys, cachedId, served, worker, made, overlapped>>
  PROVE  KInv'
<1>1. TypedBy(U)'
  BY DEF TypedBy
<1>2. Kept'
  BY DEF Kept, Unwrappable, NoneSaved, OneEnrolment, CallKept
<1> QED BY <1>1, <1>2 DEF KInv

-----------------------------------------------------------------------------

(* Of the enrolments, rotations and exports under way, each that wraps or  *)
(* saves a key has the KEK that is saved, as long as no two enrolments     *)
(* overlapped.                                                             *)
THEOREM KeysInvariant == KeysSpec => []KInv
<1>1. KeysInit => KInv
  <2> SUFFICES ASSUME KeysInit PROVE KInv
    OBVIOUS
  <2>1. TypedBy(Nat)
    <3>1. served \in Bundles
      BY DEF KeysInit, Bundles
    <3>2. identity \in Pairs
      BY DEF KeysInit, Pairs, NoIdentity
    <3> QED BY <3>1, <3>2 DEF KeysInit, TypedBy
  <2>2. Kept
    BY DEF KeysInit, Kept, Unwrappable, NoneSaved, OneEnrolment, CallKept, Idle,
           Wrapping, WithRow
  <2> QED BY <2>1, <2>2 DEF KInv
<1>2. KInv /\ [KeysNext]_keyVars => KInv'
  <2> SUFFICES ASSUME KInv, [KeysNext]_keyVars PROVE KInv'
    OBVIOUS
  <2>1. PICK U : TypedBy(U)
    BY DEF KInv
  <2>2. Kept
    BY DEF KInv
  <2>3. CASE SevenDays
    BY <2>1, <2>2, <2>3, SevenDaysKeeps
  <2>4. ASSUME NEW same \in BOOLEAN, Import(same) PROVE KInv'
    BY <2>1, <2>2, <2>4, StillKeeps DEF Import, storedVars
  <2>5. CASE UNCHANGED keyVars
    BY <2>1, <2>2, <2>5, StillKeeps DEF keyVars, storedVars
  <2>6. ASSUME NEW w \in Workers, LoadIdentity(w) \/ ReadKek(w) \/ PutKek(w) \/ SaveIdentity(w)
        PROVE  KInv'
    BY <2>1, <2>2, <2>6, LoadKeeps, ReadKeeps, PutKeeps, SaveKeeps
  <2>7. ASSUME NEW w \in Workers,
               Enroll(w) \/ CheckEmpty(w) \/ WipePrekeys(w) \/ CheckRotation(w)
        PROVE  KInv'
    BY <2>1, <2>2, <2>7, EnrollKeeps, CheckKeeps, WipeKeeps, RotationKeeps
  <2>8. ASSUME NEW w \in Workers,
               BuildSignedPreKey(w) \/ SaveSignedPreKey(w) \/ PostDevice(w)
        PROVE  KInv'
    BY <2>1, <2>2, <2>8, MintKeeps, AddKeeps, PostKeeps
  <2>9. ASSUME NEW w \in Workers,
               \/ Enrolled(w) \/ Abandon(w) \/ ExportRows(w)
               \/ Export(w) \/ ExportIdentity(w)
        PROVE  KInv'
    BY <2>1, <2>2, <2>9, EndKeeps, ExportKeeps
  <2> QED BY <2>3, <2>4, <2>5, <2>6, <2>7, <2>8, <2>9 DEF KeysNext
<1> QED BY <1>1, <1>2, PTL DEF KeysSpec

(* What the browser has saved it can unwrap, whatever await a reload comes *)
(* at, unless two enrolments of a fresh browser overlapped.                *)
THEOREM SavedStaysReadable == KeysSpec => []KeysReadable
<1>1. KInv => KeysReadable
  BY DEF KInv, Kept, Unwrappable, KeysReadable
<1> QED BY <1>1, KeysInvariant, PTL

-----------------------------------------------------------------------------
(* What a backup restores.                                                 *)

(* What a call knows of the identity, and of what the server was given.    *)
HasIdentity == {"kek2", "check", "wipe", "mint", "add", "post", "posted", "kekRow", "rows"}

KnowsIdentity(c) ==
  /\ c.job = "rotate" => identity # NoIdentity
  /\ c.at = "load" => c.own.under = 0
  /\ c.at \in {"kek", "generate"} =>
       \/ c.own.under = 0 /\ identity = NoIdentity
       \/ c.own.under # 0 /\ identity # NoIdentity /\ c.own.key = identity.key
  /\ c.at = "save" => identity = NoIdentity
  /\ c.at \in HasIdentity => identity # NoIdentity /\ c.own.key = identity.key
  /\ c.at \in WithRow => \A r \in c.row : r.by = identity.key

(* The server gives out, for device d, the identity and a key held here.   *)
Known(d) ==
  /\ d \in 1..Len(served) /\ identity # NoIdentity
  /\ served[d].identity = identity.key
  /\ \E q \in prekeys : q.key = served[d].signed

KnowsDevice(c) ==
  /\ c.job = "enroll" => cachedId = 0
  /\ c.job = "export" /\ c.device # 0 => c.device = cachedId
  /\ c.at \in {"check", "wipe", "post", "posted"} => c.job = "enroll"
  /\ c.at = "post" => \A r \in c.row : \E q \in prekeys : q.key = r.key
  /\ c.at = "posted" => Known(c.device)

Restores(b) ==
  b.device # 0 =>
    /\ b.device = cachedId
    /\ b.identity = identity.key
    /\ served[cachedId].signed \in b.keys

BackupKept ==
  ~overlapped =>
    /\ cachedId # 0 => Known(cachedId)
    /\ \A w \in Workers : KnowsIdentity(worker[w]) /\ KnowsDevice(worker[w])
    /\ Restores(backup) /\ Restores(restored)

(* A step of one call that saves neither an identity nor a device id and   *)
(* forgets no key.                                                         *)
LEMMA KnowingStep ==
  ASSUME NEW U, TypedBy(U), BackupKept, ~overlapped,
         NEW w \in Workers, NEW c, SetWorker(w, c), KnowsIdentity(c)', KnowsDevice(c)',
         UNCHANGED <<identity, cachedId, served>>,
         \A q \in prekeys : \E p \in prekeys' : p.key = q.key,
         Restores(backup)', Restores(restored)'
  PROVE  BackupKept'
<1>1. worker'[w] = c /\ \A v \in Workers \ {w} : worker'[v] = worker[v]
  BY DEF TypedBy, SetWorker
<1>2. ASSUME NEW d, Known(d) PROVE Known(d)'
  BY <1>2 DEF Known
<1>3. ASSUME NEW v \in Workers \ {w} PROVE KnowsIdentity(worker[v])' /\ KnowsDevice(worker[v])'
  <2>1. KnowsIdentity(worker[v]) /\ KnowsDevice(worker[v]) /\ worker'[v] = worker[v]
    BY <1>1 DEF BackupKept
  <2>2. KnowsIdentity(worker[v])'
    BY <2>1 DEF KnowsIdentity
  <2>3. worker[v].at = "posted" => Known(worker[v].device)'
    BY <1>2, <2>1 DEF KnowsDevice
  <2>4. KnowsDevice(worker[v])'
    BY <2>1, <2>3 DEF KnowsDevice
  <2> QED BY <2>2, <2>4
<1>4. KnowsIdentity(worker[w])' /\ KnowsDevice(worker[w])'
  BY <1>1 DEF KnowsIdentity, KnowsDevice, Known
<1>5. cachedId' # 0 => Known(cachedId)'
  BY DEF BackupKept, Known
<1> QED BY <1>3, <1>4, <1>5 DEF BackupKept

(* The same when the backups stay as well.                                 *)
LEMMA KnowingOnly ==
  ASSUME NEW U, TypedBy(U), BackupKept, ~overlapped,
         NEW w \in Workers, NEW c, SetWorker(w, c), KnowsIdentity(c)', KnowsDevice(c)',
         UNCHANGED <<identity, cachedId, served, backup, restored>>,
         \A q \in prekeys : \E p \in prekeys' : p.key = q.key
  PROVE  BackupKept'
<1>1. Restores(backup)' /\ Restores(restored)'
  BY DEF BackupKept, Restores
<1> QED BY <1>1, KnowingStep

LEMMA EndKnows ==
  ASSUME NEW U, TypedBy(U), BackupKept, ~overlapped, NEW w \in Workers, SetWorker(w, Idle),
         UNCHANGED <<identity, prekeys, cachedId, served, backup, restored>>
  PROVE  BackupKept'
<1>1. KnowsIdentity(Idle)' /\ KnowsDevice(Idle)'
  BY DEF KnowsIdentity, KnowsDevice, Idle, HasIdentity, WithRow
<1> QED BY <1>1, KnowingOnly

(* What KInv and BackupKept say of one call, and of a saved identity.      *)
LEMMA CallFacts ==
  ASSUME NEW U, TypedBy(U), Kept, BackupKept, ~overlapped, NEW w \in Workers
  PROVE  /\ worker[w] \in CallRecords(U) \cup {Idle}
         /\ CallKept(worker[w]) /\ KnowsIdentity(worker[w]) /\ KnowsDevice(worker[w])
         /\ identity # NoIdentity => identity.under = kek /\ kek # 0
         /\ kek \in Nat /\ identity \in Pairs
BY DEF TypedBy, Kept, Unwrappable, NoneSaved, BackupKept

(* A call goes on to another await and takes along what it knows.          *)
Moves(w, c, at) ==
  /\ SetWorker(w, c) /\ c.at = at
  /\ c.job = worker[w].job /\ c.device = worker[w].device
  /\ c.own = worker[w].own /\ c.row = worker[w].row

LEMMA MovedTo ==
  ASSUME NEW U, NEW w \in Workers, worker[w] \in CallRecords(U), NEW at, GoTo(w, at)
  PROVE  \E c : Moves(w, c, at)
<1> DEFINE e == [worker[w] EXCEPT !.at = at]
<1>1. /\ e.at = at /\ e.job = worker[w].job /\ e.device = worker[w].device
      /\ e.own = worker[w].own /\ e.row = worker[w].row
  BY DEF CallRecords
<1>2. SetWorker(w, e)
  BY DEF GoTo
<1> HIDE DEF e
<1> QED BY <1>1, <1>2 DEF Moves

LEMMA LoadKnows ==
  ASSUME NEW U, TypedBy(U), Kept, BackupKept, ~overlapped, NEW w \in Workers, LoadIdentity(w)
  PROVE  BackupKept'
<1>1. worker[w] \in CallRecords(U) /\ worker[w].at = "load" /\ worker[w].own.under = 0
  BY CallFacts DEF LoadIdentity, Idle, KnowsIdentity
<1>2. UNCHANGED <<identity, prekeys, cachedId, served, backup, restored>>
  BY DEF LoadIdentity, storedVars, backupVars
<1>3. PICK c : /\ SetWorker(w, c) /\ c.at = "kek"
               /\ c.job = worker[w].job /\ c.device = worker[w].device
               /\ \/ identity = NoIdentity /\ c.own.under = 0
                  \/ identity # NoIdentity /\ c.own = identity
  <2>1. CASE identity = NoIdentity
    <3> DEFINE c == [worker[w] EXCEPT !.at = "kek", !.own.key = Fresh]
    <3>1. SetWorker(w, c)
      BY <2>1 DEF LoadIdentity
    <3>2. worker[w].own \in Pairs
      BY <1>1 DEF CallRecords
    <3>3. [worker[w].own EXCEPT !.key = Fresh].under = 0
      BY <1>1, <3>2 DEF Pairs
    <3>4. /\ c.at = "kek" /\ c.job = worker[w].job /\ c.device = worker[w].device
          /\ c.own.under = 0
      BY <1>1, <3>3 DEF CallRecords
    <3> HIDE DEF c
    <3> QED BY <2>1, <3>1, <3>4
  <2>2. CASE identity # NoIdentity
    <3> DEFINE c == [worker[w] EXCEPT !.at = "kek", !.own = identity]
    <3>1. SetWorker(w, c)
      BY <2>2 DEF LoadIdentity
    <3>2. /\ c.at = "kek" /\ c.job = worker[w].job /\ c.device = worker[w].device
          /\ c.own = identity
      BY <1>1 DEF CallRecords
    <3> HIDE DEF c
    <3> QED BY <2>2, <3>1, <3>2
  <2> QED BY <2>1, <2>2
<1>4. KnowsIdentity(c)'
  BY <1>2, <1>3, CallFacts DEF KnowsIdentity, HasIdentity, WithRow
<1>5. KnowsDevice(c)'
  BY <1>2, <1>3, CallFacts DEF KnowsDevice
<1> QED BY <1>2, <1>3, <1>4, <1>5, KnowingOnly

(* With the KEK, read or made: what the call knew it knows.                *)
LEMMA KekKnows ==
  ASSUME NEW U, TypedBy(U), Kept, BackupKept, ~overlapped, NEW w \in Workers, NEW k \in Nat,
         k # 0, worker[w].at \in {"kek", "kek2", "generate"}, WithKek(w, k),
         UNCHANGED <<identity, prekeys, cachedId, served, backup, restored>>
  PROVE  BackupKept'
<1>1. worker[w] \in CallRecords(U)
  BY CallFacts DEF Idle
<1>2. CASE SetWorker(w, Idle)
  BY <1>2, EndKnows
<1>3. ASSUME NEW at \in {"save", "kek2", "check", "mint"},
             SetWorker(w, [[worker[w] EXCEPT !.under = k] EXCEPT !.at = at]),
             at = "save" => worker[w].at \in {"kek", "generate"} /\ worker[w].own.under = 0,
             at = "kek2" => worker[w].at \in {"kek", "generate"} /\ worker[w].own.under # 0,
             at \in {"check", "mint"} => worker[w].at = "kek2",
             at = "check" => worker[w].job = "enroll"
      PROVE  BackupKept'
  <2>1. PICK c : /\ SetWorker(w, c) /\ c.at = at
                 /\ c.job = worker[w].job /\ c.device = worker[w].device
                 /\ c.own = worker[w].own
    <3> DEFINE e == [[worker[w] EXCEPT !.under = k] EXCEPT !.at = at]
    <3>1. /\ e.at = at /\ e.job = worker[w].job /\ e.device = worker[w].device
          /\ e.own = worker[w].own
      BY <1>1 DEF CallRecords
    <3>2. SetWorker(w, e)
      BY <1>3
    <3> HIDE DEF e
    <3> QED BY <3>1, <3>2
  <2>3. KnowsIdentity(c)'
    BY <1>3, <2>1, CallFacts DEF KnowsIdentity, HasIdentity, WithRow
  <2>4. KnowsDevice(c)'
    BY <1>3, <2>1, CallFacts DEF KnowsDevice
  <2> QED BY <2>1, <2>3, <2>4, KnowingOnly
<1>4. [worker[w] EXCEPT !.under = k].own = worker[w].own
      /\ [worker[w] EXCEPT !.under = k].at = worker[w].at
      /\ [worker[w] EXCEPT !.under = k].job = worker[w].job
  BY <1>1 DEF CallRecords
<1> QED BY <1>2, <1>3, <1>4 DEF WithKek

LEMMA ReadKnows ==
  ASSUME NEW U, TypedBy(U), Kept, BackupKept, ~overlapped, NEW w \in Workers,
         ReadKek(w) \/ PutKek(w)
  PROVE  BackupKept'
<1>1. UNCHANGED <<identity, prekeys, cachedId, served, backup, restored>>
  BY DEF ReadKek, PutKek, storedVars, backupVars
<1>2. CASE PutKek(w)
  <2>1. worker[w].at = "generate"
    BY <1>2, CallFacts DEF PutKek, CallKept, Seeking, Wrapping, Exporting
  <2>2. Fresh \in Nat /\ Fresh # 0
    BY DEF Fresh, TypedBy
  <2> QED BY <1>1, <1>2, <2>1, <2>2, KekKnows DEF PutKek
<1>3. CASE ReadKek(w) /\ kek # 0
  BY <1>1, <1>3, KekKnows, CallFacts DEF ReadKek
<1>4. CASE ReadKek(w) /\ kek = 0
  <2>1. worker[w] \in CallRecords(U) /\ worker[w].at = "kek" /\ GoTo(w, "generate")
    BY <1>4, CallFacts DEF ReadKek, CallKept, Wrapping, Idle
  <2>2. PICK c : Moves(w, c, "generate")
    BY <2>1, MovedTo
  <2>3. SetWorker(w, c)
    BY <2>2 DEF Moves
  <2>4. KnowsIdentity(c)'
    BY <1>1, <2>1, <2>2, CallFacts DEF Moves, KnowsIdentity, HasIdentity, WithRow
  <2>5. KnowsDevice(c)'
    BY <1>1, <2>2, CallFacts DEF Moves, KnowsDevice
  <2> QED BY <1>1, <2>3, <2>4, <2>5, KnowingOnly
<1> QED BY <1>2, <1>3, <1>4

(* The first identity: no other call has one, and no device is enrolled.   *)
LEMMA SaveKnows ==
  ASSUME NEW U, TypedBy(U), Kept, BackupKept, ~overlapped, NEW w \in Workers, SaveIdentity(w)
  PROVE  BackupKept'
<1>1. worker[w] \in CallRecords(U) /\ worker[w].at = "save" /\ GoTo(w, "kek2")
  BY CallFacts DEF SaveIdentity, Idle
<1>2. identity = NoIdentity /\ worker[w].job = "enroll" /\ cachedId = 0
  BY <1>1, CallFacts DEF KnowsIdentity, KnowsDevice, CallKept, Seeking, Wrapping, Exporting
<1>3. /\ UNCHANGED <<prekeys, cachedId, served, backup, restored>>
      /\ identity' = [key |-> worker[w].own.key, under |-> worker[w].under]
  BY DEF SaveIdentity, backupVars
<1>4. PICK c : Moves(w, c, "kek2")
  BY <1>1, MovedTo
<1>5. worker'[w] = c /\ \A v \in Workers \ {w} : worker'[v] = worker[v]
  BY <1>4 DEF TypedBy, Moves, SetWorker
<1>6. identity' # NoIdentity /\ identity'.key = worker[w].own.key
  <2>1. worker[w].under # 0
    BY <1>1, CallFacts DEF CallKept, Wrapping
  <2> QED BY <1>3, <2>1 DEF NoIdentity
<1>7. KnowsIdentity(c)' /\ KnowsDevice(c)'
  BY <1>1, <1>2, <1>3, <1>4, <1>6 DEF Moves, KnowsIdentity, KnowsDevice, HasIdentity, WithRow
<1>8. ASSUME NEW v \in Workers \ {w} PROVE KnowsIdentity(worker[v])' /\ KnowsDevice(worker[v])'
  <2>1. /\ worker'[v] = worker[v] /\ worker[v].job # "enroll"
        /\ KnowsIdentity(worker[v]) /\ KnowsDevice(worker[v]) /\ CallKept(worker[v])
    BY <1>2, <1>5, CallFacts DEF Kept, OneEnrolment
  <2>2. worker[v].job # "rotate" /\ worker[v].at \notin HasIdentity
    BY <1>2, <2>1 DEF KnowsIdentity
  <2>3. worker[v].at \in {"idle", "row"}
    BY <2>1, <2>2 DEF CallKept, Exporting, HasIdentity
  <2> QED BY <1>3, <2>1, <2>2, <2>3 DEF KnowsIdentity, KnowsDevice, HasIdentity, WithRow
<1>9. Restores(backup)' /\ Restores(restored)'
  BY <1>2, <1>3 DEF BackupKept, Restores
<1> QED BY <1>2, <1>3, <1>5, <1>7, <1>8, <1>9 DEF BackupKept

(* The store is wiped: no device id is cached and no other call enrols.    *)
LEMMA WipeKnows ==
  ASSUME NEW U, TypedBy(U), Kept, BackupKept, ~overlapped, NEW w \in Workers, WipePrekeys(w)
  PROVE  BackupKept'
<1>1. worker[w] \in CallRecords(U) /\ worker[w].at = "wipe"
  BY CallFacts DEF WipePrekeys, Idle
<1>2. worker[w].job = "enroll" /\ cachedId = 0
  BY <1>1, CallFacts DEF KnowsDevice
<1>3. UNCHANGED <<identity, cachedId, served, backup, restored>>
  BY DEF WipePrekeys, backupVars
<1>4. PICK c : /\ SetWorker(w, c) /\ c.at = "check" /\ c.job = worker[w].job
               /\ c.own = worker[w].own
  <2> DEFINE e == [worker[w] EXCEPT !.at = "check", !.wiped = TRUE]
  <2>1. e.at = "check" /\ e.job = worker[w].job /\ e.own = worker[w].own
    BY <1>1 DEF CallRecords
  <2>2. SetWorker(w, e)
    BY DEF WipePrekeys
  <2> HIDE DEF e
  <2> QED BY <2>1, <2>2
<1>5. worker'[w] = c /\ \A v \in Workers \ {w} : worker'[v] = worker[v]
  BY <1>4 DEF TypedBy, SetWorker
<1>6. KnowsIdentity(c)' /\ KnowsDevice(c)'
  BY <1>1, <1>2, <1>3, <1>4, CallFacts DEF KnowsIdentity, KnowsDevice, HasIdentity, WithRow
<1>7. ASSUME NEW v \in Workers \ {w} PROVE KnowsIdentity(worker[v])' /\ KnowsDevice(worker[v])'
  <2>1. /\ worker'[v] = worker[v] /\ worker[v].job # "enroll"
        /\ KnowsIdentity(worker[v]) /\ KnowsDevice(worker[v])
    BY <1>2, <1>5, CallFacts DEF Kept, OneEnrolment
  <2>2. worker[v].at \notin {"post", "posted"}
    BY <2>1 DEF KnowsDevice
  <2> QED BY <1>3, <2>1, <2>2 DEF KnowsIdentity, KnowsDevice
<1>8. Restores(backup)' /\ Restores(restored)'
  BY <1>3 DEF BackupKept, Restores
<1> QED BY <1>2, <1>3, <1>5, <1>6, <1>7, <1>8 DEF BackupKept

LEMMA BeginKnows ==
  ASSUME NEW U, TypedBy(U), Kept, BackupKept, ~overlapped, NEW w \in Workers,
         Enroll(w) \/ CheckRotation(w) \/ Export(w)
  PROVE  BackupKept'
<1>1. UNCHANGED <<identity, prekeys, cachedId, served, backup, restored>>
  BY DEF Enroll, CheckRotation, Export, storedVars, backupVars
<1>2. ASSUME NEW job, NEW at,
             \/ job = "enroll" /\ at = "load" /\ cachedId = 0
             \/ job = "rotate" /\ at = "load" /\ cachedId # 0
             \/ job = "export" /\ at = "row",
             SetWorker(w, Begin(job, at))
      PROVE  BackupKept'
  <2>1. PICK c : /\ SetWorker(w, c) /\ c.at = at /\ c.job = job
                 /\ c.device = cachedId /\ c.own.under = 0
    BY <1>2 DEF Begin, NoIdentity
  <2>2. cachedId # 0 => identity # NoIdentity
    BY DEF BackupKept, Known
  <2>3. KnowsIdentity(c)'
    BY <1>1, <1>2, <2>1, <2>2 DEF KnowsIdentity, HasIdentity, WithRow
  <2>4. KnowsDevice(c)'
    BY <1>1, <1>2, <2>1 DEF KnowsDevice
  <2> QED BY <1>1, <2>1, <2>3, <2>4, KnowingOnly
<1>3. CASE UNCHANGED worker /\ CheckRotation(w)
  BY <1>1, <1>3 DEF BackupKept, CheckRotation, KnowsIdentity, KnowsDevice, Known, Restores
<1> QED BY <1>2, <1>3 DEF Enroll, CheckRotation, Export

LEMMA CheckKnows ==
  ASSUME NEW U, TypedBy(U), Kept, BackupKept, ~overlapped, NEW w \in Workers, CheckEmpty(w)
  PROVE  BackupKept'
<1>1. worker[w] \in CallRecords(U) /\ worker[w].at = "check"
  BY CallFacts DEF CheckEmpty, Idle
<1>2. UNCHANGED <<identity, prekeys, cachedId, served, backup, restored>>
  BY DEF CheckEmpty, storedVars, backupVars
<1>3. CASE SetWorker(w, Idle)
  BY <1>2, <1>3, EndKnows
<1>4. ASSUME NEW at \in {"mint", "wipe"}, GoTo(w, at) PROVE BackupKept'
  <2>1. PICK c : Moves(w, c, at)
    BY <1>1, <1>4, MovedTo
  <2>2. SetWorker(w, c)
    BY <2>1 DEF Moves
  <2>3. KnowsIdentity(c)'
    BY <1>1, <1>2, <1>4, <2>1, CallFacts DEF Moves, KnowsIdentity, HasIdentity, WithRow
  <2>4. KnowsDevice(c)'
    BY <1>1, <1>2, <1>4, <2>1, CallFacts DEF Moves, KnowsDevice
  <2> QED BY <1>2, <2>2, <2>3, <2>4, KnowingOnly
<1> QED BY <1>3, <1>4 DEF CheckEmpty

LEMMA MintKnows ==
  ASSUME NEW U, TypedBy(U), Kept, BackupKept, ~overlapped, NEW w \in Workers,
         BuildSignedPreKey(w)
  PROVE  BackupKept'
<1>1. worker[w] \in CallRecords(U) /\ worker[w].at = "mint"
  BY CallFacts DEF BuildSignedPreKey, Idle
<1>2. UNCHANGED <<identity, prekeys, cachedId, served, backup, restored>>
  BY DEF BuildSignedPreKey, storedVars, backupVars
<1>3. PICK c : /\ SetWorker(w, c) /\ c.at = "add" /\ c.own = worker[w].own
               /\ c.job = worker[w].job /\ c.device = worker[w].device
               /\ \A r \in c.row : r.by = worker[w].own.key
  <2> DEFINE id == IF prekeys = {} THEN 1 ELSE CurrentSigned.id + 1
             row == [id |-> id, key |-> Fresh, by |-> worker[w].own.key,
                     under |-> worker[w].under, aged |-> FALSE]
             e == [worker[w] EXCEPT !.at = "add", !.row = {row}]
  <2>1. SetWorker(w, e)
    BY DEF BuildSignedPreKey
  <2> HIDE DEF id
  <2>2. row.by = worker[w].own.key
    OBVIOUS
  <2> HIDE DEF row
  <2>3. /\ e.at = "add" /\ e.own = worker[w].own /\ e.row = {row}
        /\ e.job = worker[w].job /\ e.device = worker[w].device
    BY <1>1 DEF CallRecords
  <2> HIDE DEF e
  <2> QED BY <2>1, <2>2, <2>3
<1>4. KnowsIdentity(c)'
  BY <1>1, <1>2, <1>3, CallFacts DEF KnowsIdentity, HasIdentity, WithRow
<1>5. KnowsDevice(c)'
  BY <1>1, <1>2, <1>3, CallFacts DEF KnowsDevice
<1> QED BY <1>2, <1>3, <1>4, <1>5, KnowingOnly

LEMMA AddKnows ==
  ASSUME NEW U, TypedBy(U), Kept, BackupKept, ~overlapped, NEW w \in Workers,
         SaveSignedPreKey(w)
  PROVE  BackupKept'
<1>1. worker[w] \in CallRecords(U) /\ worker[w].at = "add"
  BY CallFacts DEF SaveSignedPreKey, Idle
<1>2. UNCHANGED <<identity, cachedId, served, backup, restored>>
  BY DEF SaveSignedPreKey, backupVars
<1>3. CASE SetWorker(w, Idle) /\ UNCHANGED prekeys
  BY <1>2, <1>3, EndKnows
<1>4. CASE prekeys' = Added(w) /\ SetWorker(w, Idle)
  <2>1. KnowsIdentity(Idle)' /\ KnowsDevice(Idle)'
    BY DEF KnowsIdentity, KnowsDevice, Idle, HasIdentity, WithRow
  <2>2. \A q \in prekeys : \E p \in prekeys' : p.key = q.key
    BY <1>4 DEF Added
  <2> QED BY <1>2, <1>4, <2>1, <2>2, KnowingOnly
<1>5. CASE prekeys' = Added(w) /\ GoTo(w, "post") /\ worker[w].job # "rotate"
  <2>1. PICK c : Moves(w, c, "post")
    BY <1>1, <1>5, MovedTo
  <2>2. SetWorker(w, c)
    BY <2>1 DEF Moves
  <2>3. worker[w].job = "enroll"
    BY <1>1, <1>5, CallFacts DEF CallKept, Exporting
  <2>4. KnowsIdentity(c)'
    BY <1>1, <1>2, <2>1, CallFacts DEF Moves, KnowsIdentity, HasIdentity, WithRow
  <2>5. KnowsDevice(c)'
    BY <1>2, <1>5, <2>1, <2>3, CallFacts DEF Moves, KnowsDevice, Added
  <2>6. \A q \in prekeys : \E p \in prekeys' : p.key = q.key
    BY <1>5 DEF Added
  <2> QED BY <1>2, <2>2, <2>4, <2>5, <2>6, KnowingOnly
<1> QED BY <1>3, <1>4, <1>5 DEF SaveSignedPreKey

(* The server knows one device more, of which no other call has heard.     *)
LEMMA PostKnows ==
  ASSUME NEW U, TypedBy(U), Kept, BackupKept, ~overlapped, NEW w \in Workers, PostDevice(w)
  PROVE  BackupKept'
<1>1. worker[w] \in CallRecords(U) /\ worker[w].at = "post"
  BY CallFacts DEF PostDevice, Idle
<1>2. worker[w].job = "enroll" /\ cachedId = 0
  BY <1>1, CallFacts DEF KnowsDevice
<1>3. UNCHANGED <<identity, prekeys, cachedId, backup, restored>>
  BY DEF PostDevice, storedVars, backupVars
<1>4. PICK r \in worker[w].row : served' = Append(served, [identity |-> r.by, signed |-> r.key])
  BY DEF PostDevice
<1>5. r.by \in Nat /\ r.key \in Nat
  BY <1>1, <1>4 DEF CallRecords, Rows
<1>6. /\ Len(served') = Len(served) + 1 /\ Len(served) \in Nat
      /\ served'[Len(served) + 1] = [identity |-> r.by, signed |-> r.key]
      /\ \A d \in 1..Len(served) : served'[d] = served[d]
  BY <1>4, <1>5 DEF TypedBy, Bundles
<1>7. PICK c : /\ SetWorker(w, c) /\ c.at = "posted" /\ c.own = worker[w].own
               /\ c.job = worker[w].job /\ c.row = worker[w].row
               /\ c.device = Len(served) + 1
  <2> DEFINE e == [worker[w] EXCEPT !.at = "posted", !.device = Len(served) + 1]
  <2>1. /\ e.at = "posted" /\ e.own = worker[w].own /\ e.row = worker[w].row
        /\ e.job = worker[w].job /\ e.device = Len(served) + 1
    BY <1>1 DEF CallRecords
  <2>2. SetWorker(w, e)
    BY DEF PostDevice
  <2> HIDE DEF e
  <2> QED BY <2>1, <2>2
<1>8. worker'[w] = c /\ \A v \in Workers \ {w} : worker'[v] = worker[v]
  BY <1>7 DEF TypedBy, SetWorker
<1>9. KnowsIdentity(worker[w]) /\ KnowsDevice(worker[w])
  BY CallFacts
<1>10. KnowsIdentity(c)'
  BY <1>1, <1>3, <1>7, <1>9 DEF KnowsIdentity, HasIdentity, WithRow
<1>11. KnowsDevice(c)'
  <2>1. r.by = identity.key /\ identity # NoIdentity /\ \E q \in prekeys : q.key = r.key
    BY <1>1, <1>4, <1>9 DEF KnowsIdentity, KnowsDevice, HasIdentity, WithRow
  <2> QED BY <1>2, <1>3, <1>6, <1>7, <2>1 DEF KnowsDevice, Known
<1>12. ASSUME NEW v \in Workers \ {w} PROVE KnowsIdentity(worker[v])' /\ KnowsDevice(worker[v])'
  <2>1. /\ worker'[v] = worker[v] /\ worker[v].job # "enroll"
        /\ KnowsIdentity(worker[v]) /\ KnowsDevice(worker[v])
    BY <1>2, <1>8, CallFacts DEF Kept, OneEnrolment
  <2>2. worker[v].at \notin {"post", "posted"}
    BY <2>1 DEF KnowsDevice
  <2> QED BY <1>3, <2>1, <2>2 DEF KnowsIdentity, KnowsDevice
<1>13. Restores(backup)' /\ Restores(restored)'
  BY <1>2, <1>3 DEF BackupKept, Restores
<1> QED BY <1>2, <1>3, <1>8, <1>10, <1>11, <1>12, <1>13 DEF BackupKept

(* The id of the device is cached, and names what the server gives out.    *)
LEMMA EnrolledKnows ==
  ASSUME NEW U, TypedBy(U), Kept, BackupKept, ~overlapped, NEW w \in Workers, Enrolled(w)
  PROVE  BackupKept'
<1>1. worker[w] \in CallRecords(U) /\ worker[w].at = "posted"
  BY CallFacts DEF Enrolled, Idle
<1>2. worker[w].job = "enroll" /\ cachedId = 0 /\ Known(worker[w].device)
  BY <1>1, CallFacts DEF KnowsDevice
<1>3. /\ UNCHANGED <<identity, prekeys, served, backup, restored>>
      /\ cachedId' = worker[w].device
      /\ SetWorker(w, Idle)
  BY DEF Enrolled, backupVars
<1>4. worker'[w] = Idle /\ \A v \in Workers \ {w} : worker'[v] = worker[v]
  BY <1>3 DEF TypedBy, SetWorker
<1>5. Known(cachedId)'
  BY <1>2, <1>3 DEF Known
<1>6. KnowsIdentity(Idle)' /\ KnowsDevice(Idle)'
  BY DEF KnowsIdentity, KnowsDevice, Idle, HasIdentity, WithRow
<1>7. ASSUME NEW v \in Workers \ {w} PROVE KnowsIdentity(worker[v])' /\ KnowsDevice(worker[v])'
  <2>1. /\ worker'[v] = worker[v] /\ worker[v].job # "enroll"
        /\ KnowsIdentity(worker[v]) /\ KnowsDevice(worker[v])
    BY <1>2, <1>4, CallFacts DEF Kept, OneEnrolment
  <2>2. /\ worker[v].at \notin {"check", "wipe", "post", "posted"}
        /\ worker[v].job = "export" => worker[v].device = 0
    BY <1>2, <2>1 DEF KnowsDevice
  <2> QED BY <1>3, <2>1, <2>2 DEF KnowsIdentity, KnowsDevice
<1>8. Restores(backup)' /\ Restores(restored)'
  BY <1>2, <1>3 DEF BackupKept, Restores
<1> QED BY <1>4, <1>5, <1>6, <1>7, <1>8 DEF BackupKept

LEMMA ExportKnows ==
  ASSUME NEW U, TypedBy(U), Kept, BackupKept, ~overlapped, NEW w \in Workers,
         ExportIdentity(w)
  PROVE  BackupKept'
<1>1. worker[w] \in CallRecords(U) /\ worker[w].at \in {"row", "kekRow"}
  BY CallFacts DEF ExportIdentity, Idle
<1>2. UNCHANGED <<identity, prekeys, cachedId, served, backup, restored>>
  BY DEF ExportIdentity, storedVars, backupVars
<1>3. CASE SetWorker(w, Idle)
  BY <1>2, <1>3, EndKnows
<1>4. ASSUME NEW c, SetWorker(w, c), c.at \in {"kekRow", "rows"}, c.own.key = identity.key,
             identity # NoIdentity, c.job = worker[w].job, c.device = worker[w].device
      PROVE  BackupKept'
  <2>1. KnowsIdentity(c)'
    BY <1>2, <1>4, CallFacts DEF KnowsIdentity, HasIdentity, WithRow
  <2>2. KnowsDevice(c)'
    BY <1>2, <1>4, CallFacts DEF KnowsDevice
  <2> QED BY <1>2, <1>4, <2>1, <2>2, KnowingOnly
<1>5. CASE /\ worker[w].at = "row" /\ identity # NoIdentity
           /\ SetWorker(w, [worker[w] EXCEPT !.at = "kekRow", !.own = identity])
  <2> DEFINE e == [worker[w] EXCEPT !.at = "kekRow", !.own = identity]
  <2>1. e.at = "kekRow" /\ e.own = identity /\ e.job = worker[w].job /\ e.device = worker[w].device
    BY <1>1 DEF CallRecords
  <2>2. SetWorker(w, e)
    BY <1>5
  <2> HIDE DEF e
  <2> QED BY <1>4, <1>5, <2>1, <2>2
<1>6. CASE /\ worker[w].at = "kekRow"
           /\ SetWorker(w, [worker[w] EXCEPT !.at = "rows", !.under = kek])
  <2> DEFINE e == [worker[w] EXCEPT !.at = "rows", !.under = kek]
  <2>1. /\ e.at = "rows" /\ e.own = worker[w].own
        /\ e.job = worker[w].job /\ e.device = worker[w].device
    BY <1>1 DEF CallRecords
  <2>2. SetWorker(w, e)
    BY <1>6
  <2> HIDE DEF e
  <2>3. worker[w].own.key = identity.key /\ identity # NoIdentity
    BY <1>6, CallFacts DEF KnowsIdentity, HasIdentity
  <2> QED BY <1>4, <2>1, <2>2, <2>3
<1> QED BY <1>3, <1>5, <1>6 DEF ExportIdentity

LEMMA RowsKnow ==
  ASSUME NEW U, TypedBy(U), Kept, BackupKept, ~overlapped, NEW w \in Workers, ExportRows(w)
  PROVE  BackupKept'
<1>1. worker[w].at = "rows" /\ SetWorker(w, Idle) /\ backup' \in {backup, Payload(w)}
  BY DEF ExportRows
<1>2. UNCHANGED <<identity, prekeys, cachedId, served, restored>>
  BY DEF ExportRows, storedVars
<1>3. KnowsIdentity(Idle)' /\ KnowsDevice(Idle)'
  BY DEF KnowsIdentity, KnowsDevice, Idle, HasIdentity, WithRow
<1>4. Restores(backup) /\ Restores(restored) /\ (cachedId # 0 => Known(cachedId))
  BY DEF BackupKept
<1>5. Restores(Payload(w))
  <2>1. worker[w].job = "export" /\ worker[w].own.key = identity.key
    BY <1>1, CallFacts DEF CallKept, KnowsIdentity, HasIdentity, Seeking, Wrapping
  <2>2. worker[w].device # 0 => worker[w].device = cachedId
    BY <2>1, CallFacts DEF KnowsDevice
  <2> QED BY <1>4, <2>1, <2>2 DEF Restores, Payload, Known
<1>6. Restores(backup)' /\ Restores(restored)'
  BY <1>1, <1>2, <1>4, <1>5 DEF Restores
<1> QED BY <1>1, <1>2, <1>3, <1>6, KnowingStep

(* The other steps of a call, and those of no call: no key is forgotten.   *)
LEMMA RestKnows ==
  ASSUME NEW U, TypedBy(U), BackupKept, ~overlapped,
         \/ SevenDays \/ (\E same \in BOOLEAN : Import(same)) \/ UNCHANGED keyVars
         \/ \E w \in Workers : Abandon(w)
  PROVE  BackupKept'
<1>1. CASE \E w \in Workers : Abandon(w)
  BY <1>1, EndKnows DEF Abandon, storedVars, backupVars
<1>2. CASE ~\E w \in Workers : Abandon(w)
  <2>1. /\ UNCHANGED <<identity, cachedId, served, worker>>
        /\ backup' = backup /\ restored' \in {restored, backup}
    BY <1>2 DEF SevenDays, Import, Restored, keyVars, storedVars, backupVars
  <2>2. \A q \in prekeys : \E p \in prekeys' : p.key = q.key
    <3>1. CASE SevenDays
      <4>1. ASSUME NEW q \in prekeys PROVE \E p \in prekeys' : p.key = q.key
        <5>1. [q EXCEPT !.aged = TRUE].key = q.key
          BY DEF TypedBy, Rows
        <5>2. [q EXCEPT !.aged = TRUE] \in prekeys'
          BY <3>1 DEF SevenDays
        <5> QED BY <5>1, <5>2
      <4> QED BY <4>1
    <3>2. CASE UNCHANGED prekeys
      BY <3>2
    <3> QED BY <1>2, <3>1, <3>2 DEF Import, keyVars, storedVars
  <2>3. ASSUME NEW d, Known(d) PROVE Known(d)'
    BY <2>1, <2>2, <2>3 DEF Known
  <2>4. ASSUME NEW w \in Workers PROVE KnowsIdentity(worker[w])' /\ KnowsDevice(worker[w])'
    <3>1. KnowsIdentity(worker[w]) /\ KnowsDevice(worker[w])
      BY DEF BackupKept
    <3>2. worker[w].at = "posted" => Known(worker[w].device)'
      BY <2>1, <2>3, <3>1 DEF KnowsDevice
    <3>3. worker[w].at = "post" => \A r \in worker[w].row : \E q \in prekeys' : q.key = r.key
      BY <2>2, <3>1 DEF KnowsDevice
    <3>4. KnowsIdentity(worker[w])'
      BY <2>1, <3>1 DEF KnowsIdentity
    <3> QED BY <2>1, <3>1, <3>2, <3>3, <3>4 DEF KnowsDevice
  <2>5. cachedId' # 0 => Known(cachedId)'
    BY <2>1, <2>3 DEF BackupKept
  <2>6. Restores(backup)' /\ Restores(restored)'
    BY <2>1 DEF BackupKept, Restores
  <2> QED BY <2>4, <2>5, <2>6 DEF BackupKept
<1> QED BY <1>1, <1>2

(* Unless two enrolments overlapped: the identity, once saved, is the one  *)
(* every call and every device row is made of; the private half of what    *)
(* the server gives out for the cached device is kept; and a backup has    *)
(* both.                                                                   *)
THEOREM BackupInvariant == KeysSpec => []BackupKept
<1>1. KeysInit => BackupKept
  BY DEF KeysInit, BackupKept, KnowsIdentity, KnowsDevice, Restores, Idle, NoBackup,
         HasIdentity, WithRow
<1>2. KInv /\ BackupKept /\ [KeysNext]_keyVars => BackupKept'
  <2> SUFFICES ASSUME KInv, BackupKept, [KeysNext]_keyVars PROVE BackupKept'
    OBVIOUS
  <2>1. PICK U : TypedBy(U)
    BY DEF KInv
  <2>2. Kept
    BY DEF KInv
  <2>3. CASE overlapped
    <3>1. ASSUME NEW w \in Workers,
                 \/ LoadIdentity(w) \/ ReadKek(w) \/ PutKek(w) \/ SaveIdentity(w)
                 \/ Enroll(w) \/ CheckEmpty(w) \/ WipePrekeys(w) \/ CheckRotation(w)
          PROVE  overlapped'
      BY <2>3, <3>1 DEF LoadIdentity, ReadKek, PutKek, SaveIdentity, Enroll, CheckEmpty,
             WipePrekeys, CheckRotation
    <3>2. ASSUME NEW w \in Workers,
                 \/ BuildSignedPreKey(w) \/ SaveSignedPreKey(w) \/ PostDevice(w) \/ Enrolled(w)
                 \/ Abandon(w) \/ Export(w) \/ ExportIdentity(w) \/ ExportRows(w)
          PROVE  overlapped'
      BY <2>3, <3>2 DEF BuildSignedPreKey, SaveSignedPreKey, PostDevice, Enrolled, Abandon,
             Export, ExportIdentity, ExportRows
    <3>3. ASSUME SevenDays \/ (\E same \in BOOLEAN : Import(same)) \/ UNCHANGED keyVars
          PROVE  overlapped'
      BY <2>3, <3>3 DEF SevenDays, Import, keyVars
    <3>4. overlapped'
      BY <3>1, <3>2, <3>3 DEF KeysNext
    <3> QED BY <3>4 DEF BackupKept
  <2>4. CASE ~overlapped
    <3>1. ASSUME NEW w \in Workers,
                 LoadIdentity(w) \/ ReadKek(w) \/ PutKek(w) \/ SaveIdentity(w)
          PROVE  BackupKept'
      BY <2>1, <2>2, <2>4, <3>1, LoadKnows, ReadKnows, SaveKnows
    <3>2. ASSUME NEW w \in Workers,
                 Enroll(w) \/ CheckEmpty(w) \/ WipePrekeys(w) \/ CheckRotation(w)
          PROVE  BackupKept'
      BY <2>1, <2>2, <2>4, <3>2, BeginKnows, CheckKnows, WipeKnows
    <3>3. ASSUME NEW w \in Workers,
                 BuildSignedPreKey(w) \/ SaveSignedPreKey(w) \/ PostDevice(w) \/ Enrolled(w)
          PROVE  BackupKept'
      BY <2>1, <2>2, <2>4, <3>3, MintKnows, AddKnows, PostKnows, EnrolledKnows
    <3>4. ASSUME NEW w \in Workers, Export(w) \/ ExportIdentity(w) \/ ExportRows(w)
          PROVE  BackupKept'
      BY <2>1, <2>2, <2>4, <3>4, BeginKnows, ExportKnows, RowsKnow
    <3>5. CASE \/ SevenDays \/ (\E same \in BOOLEAN : Import(same)) \/ UNCHANGED keyVars
               \/ \E w \in Workers : Abandon(w)
      BY <2>1, <2>4, <3>5, RestKnows
    <3> QED BY <3>1, <3>2, <3>3, <3>4, <3>5 DEF KeysNext
  <2> QED BY <2>3, <2>4
<1> QED BY <1>1, <1>2, KeysInvariant, PTL DEF KeysSpec

(* A backup restores the identity the server knows the device by and the   *)
(* private half of the signed prekey it gives out, for any number of tabs, *)
(* rotations, reloads and imports.                                         *)
THEOREM BackupsServe == KeysSpec => []BackupServes
<1>1. BackupKept => BackupServes
  BY DEF BackupKept, Restores, Known, BackupServes
<1> QED BY <1>1, BackupInvariant, PTL

-----------------------------------------------------------------------------
(* LiveSession.  Each viewer decides by a count that may be as old as its  *)
(* own join whether it stays.                                              *)

Views == {"off", "connecting", "checking", "watching", "full"}

LiveTypes ==
  /\ joined \subseteq Viewers /\ IsFiniteSet(joined)
  /\ view \in [Viewers -> Views]
  /\ sawAtJoin \in [Viewers -> Nat]
  /\ \A v \in joined : view[v] \in {"checking", "watching"}

(* Of any viewers in the room there is one, the last of them to join, that *)
(* counted all of them when it joined, and stays only if they are few.     *)
Counted(v, n) ==
  /\ view[v] = "checking" => n <= sawAtJoin[v]
  /\ view[v] = "watching" => n < Cap
LastCounted == \A S \in SUBSET joined : S # {} => \E v \in S : Counted(v, Cardinality(S))
LiveInv == LiveTypes /\ LastCounted

LEMMA RoomCounts ==
  ASSUME NEW R, IsFiniteSet(R)
  PROVE  /\ Cardinality(R) \in Nat /\ NumParticipants(R) \in Nat
         /\ Cardinality(R) <= NumParticipants(R)
         /\ \A S \in SUBSET R : Cardinality(S) \in Nat /\ Cardinality(S) <= Cardinality(R)
<1>1. Cardinality(R) \in Nat
  BY FS_CardinalityType
<1>2. \A S \in SUBSET R : Cardinality(S) \in Nat /\ Cardinality(S) <= Cardinality(R)
  BY FS_Subset, FS_CardinalityType
<1> QED BY <1>1, <1>2 DEF NumParticipants

(* Nobody joins, and who stays in the room has counted as before.          *)
LEMMA FewerCounted ==
  ASSUME LiveInv, joined' \subseteq joined,
         \A v \in joined', n \in Nat : n <= Cardinality(joined) /\ Counted(v, n) => Counted(v, n)'
  PROVE  LastCounted'
<1>1. SUFFICES ASSUME NEW S \in SUBSET joined', S # {}
               PROVE  \E v \in S : Counted(v, Cardinality(S))'
  BY DEF LastCounted
<1>2. Cardinality(S) \in Nat /\ Cardinality(S) <= Cardinality(joined)
  BY RoomCounts DEF LiveInv, LiveTypes
<1>3. \E v \in S : Counted(v, Cardinality(S))
  BY <1>1 DEF LiveInv, LastCounted
<1> QED BY <1>1, <1>2, <1>3

LEMMA JoinCounts ==
  ASSUME LiveInv, NEW v \in Viewers, ViewerJoins(v) PROVE LiveInv'
<1>1. /\ v \notin joined /\ joined' = joined \cup {v} /\ IsFiniteSet(joined')
      /\ view' = [view EXCEPT ![v] = "checking"]
      /\ sawAtJoin' = [sawAtJoin EXCEPT ![v] = NumParticipants(joined')]
  <2>1. IsFiniteSet(joined \cup {v})
    BY FS_AddElement, Zenon DEF LiveInv, LiveTypes
  <2> QED BY <2>1 DEF ViewerJoins, LiveInv, LiveTypes
<1>2. PICK R : R = joined'
  OBVIOUS
<1>3. NumParticipants(R) \in Nat /\ \A S \in SUBSET R : Cardinality(S) \in Nat /\ Cardinality(S) <= NumParticipants(R)
  BY <1>1, <1>2, RoomCounts
<1>4. LiveTypes'
  BY <1>1, <1>2, <1>3 DEF LiveInv, LiveTypes, Views
<1>5. ASSUME NEW S \in SUBSET joined', S # {} PROVE \E u \in S : Counted(u, Cardinality(S))'
  <2>1. CASE v \in S
    <3>1. view'[v] = "checking" /\ sawAtJoin'[v] = NumParticipants(R)
      BY <1>1, <1>2 DEF LiveInv, LiveTypes
    <3> QED BY <1>2, <1>3, <2>1, <3>1 DEF Counted
  <2>2. CASE v \notin S
    <3>1. PICK u \in S : Counted(u, Cardinality(S))
      BY <1>1, <1>5, <2>2 DEF LiveInv, LastCounted
    <3>2. view'[u] = view[u] /\ sawAtJoin'[u] = sawAtJoin[u]
      BY <1>1, <1>5, <2>2 DEF LiveInv, LiveTypes
    <3> QED BY <3>1, <3>2 DEF Counted
  <2> QED BY <2>1, <2>2
<1> QED BY <1>4, <1>5 DEF LiveInv, LastCounted

(* The check of a viewer that stays: by the old count or by the new one.   *)
LEMMA CheckCounts ==
  ASSUME LiveInv, NEW v \in Viewers, CheckCap(v) PROVE LiveInv'
<1>1. PICK n \in {sawAtJoin[v], NumParticipants(joined)} :
        IF n >= Cap
          THEN view' = [view EXCEPT ![v] = "full"] /\ joined' = joined \ {v}
          ELSE view' = [view EXCEPT ![v] = "watching"] /\ UNCHANGED joined
  BY DEF CheckCap
<1>2. view[v] = "checking" /\ sawAtJoin' = [sawAtJoin EXCEPT ![v] = 0]
  BY DEF CheckCap
<1>3. /\ NumParticipants(joined) \in Nat /\ Cardinality(joined) <= NumParticipants(joined)
      /\ Cardinality(joined) \in Nat /\ n \in Nat
  BY <1>1, RoomCounts DEF LiveInv, LiveTypes
<1>4. \A u \in Viewers \ {v} : view'[u] = view[u] /\ sawAtJoin'[u] = sawAtJoin[u]
  BY <1>1, <1>2 DEF LiveInv, LiveTypes
<1>5. CASE n >= Cap
  <2>1. joined' = joined \ {v} /\ view' = [view EXCEPT ![v] = "full"]
    BY <1>1, <1>5
  <2>2. IsFiniteSet(joined')
    BY <2>1, FS_Subset DEF LiveInv, LiveTypes
  <2>3. LiveTypes'
    BY <1>2, <2>1, <2>2 DEF LiveInv, LiveTypes, Views
  <2>4. LastCounted'
    BY <1>4, <2>1, FewerCounted DEF Counted, LiveInv, LiveTypes
  <2> QED BY <2>3, <2>4 DEF LiveInv
<1>6. CASE ~(n >= Cap)
  <2>1. UNCHANGED joined /\ view' = [view EXCEPT ![v] = "watching"] /\ n < Cap
    BY <1>1, <1>3, <1>6, LiveAssumptions
  <2>2. LiveTypes'
    BY <1>2, <2>1 DEF LiveInv, LiveTypes, Views
  <2>3. view'[v] = "watching"
    BY <2>1 DEF LiveInv, LiveTypes
  <2>4. ASSUME NEW m \in Nat, m <= Cardinality(joined), Counted(v, m) PROVE Counted(v, m)'
    <3>1. m <= n
      BY <1>1, <1>2, <1>3, <2>4 DEF Counted
    <3> QED BY <1>3, <2>1, <2>3, <3>1, LiveAssumptions DEF Counted
  <2>5. ASSUME NEW u \in joined', u # v, NEW m \in Nat, Counted(u, m) PROVE Counted(u, m)'
    BY <1>4, <2>1, <2>5 DEF Counted, LiveInv, LiveTypes
  <2>6. LastCounted'
    BY <2>1, <2>4, <2>5, FewerCounted
  <2> QED BY <2>2, <2>6 DEF LiveInv
<1> QED BY <1>5, <1>6

(* A viewer that goes, is dropped, or was not in the room.                 *)
LEMMA RestCounts ==
  ASSUME LiveInv, NEW v \in Viewers,
         Watch(v) \/ WatchFails(v) \/ Leave(v) \/ Drop(v) \/ Reopen(v)
  PROVE  LiveInv'
<1>1. /\ joined' \subseteq joined /\ v \notin joined' /\ UNCHANGED sawAtJoin
      /\ \E r \in Views : view' = [view EXCEPT ![v] = r]
  BY DEF Watch, WatchFails, Leave, Drop, Reopen, LiveInv, LiveTypes, Views
<1>2. IsFiniteSet(joined')
  BY <1>1, FS_Subset DEF LiveInv, LiveTypes
<1>3. \A u \in joined' : u \in Viewers /\ view'[u] = view[u]
  BY <1>1 DEF LiveInv, LiveTypes
<1>4. LiveTypes'
  BY <1>1, <1>2, <1>3 DEF LiveInv, LiveTypes
<1>5. LastCounted'
  BY <1>1, <1>3, FewerCounted DEF Counted
<1> QED BY <1>4, <1>5 DEF LiveInv

(* Those who stay to watch are fewer than the cap, for any number of       *)
(* viewers, any cap but none, and any order of joins, checks and drops.    *)
THEOREM CapIsKept == LiveSpec => []CapKept
<1>1. LiveInit => LiveInv
  <2> SUFFICES ASSUME LiveInit PROVE LiveInv
    OBVIOUS
  <2>1. IsFiniteSet(joined)
    BY FS_EmptySet DEF LiveInit
  <2> QED BY <2>1 DEF LiveInit, LiveInv, LiveTypes, LastCounted, Views
<1>2. LiveInv /\ [LiveNext]_liveVars => LiveInv'
  <2> SUFFICES ASSUME LiveInv, [LiveNext]_liveVars PROVE LiveInv'
    OBVIOUS
  <2>1. CASE UNCHANGED viewerVars
    BY <2>1 DEF viewerVars, LiveInv, LiveTypes, LastCounted, Counted
  <2>2. ASSUME NEW v \in Viewers,
               \/ Watch(v) \/ WatchFails(v) \/ ViewerJoins(v) \/ CheckCap(v)
               \/ Leave(v) \/ Drop(v) \/ Reopen(v)
        PROVE  LiveInv'
    BY <2>2, JoinCounts, CheckCounts, RestCounts
  <2> QED BY <2>1, <2>2 DEF LiveNext, liveVars, viewerVars, StartLive, PublisherToken,
             PublisherJoins, Acquired, Published, StartFails, StopLive, Stopped
<1>3. LiveInv => CapKept
  <2> SUFFICES ASSUME LiveInv PROVE CapKept
    OBVIOUS
  <2> DEFINE W == {v \in joined : view[v] = "watching"}
  <2>1. CASE W = {}
    BY <2>1, FS_EmptySet, LiveAssumptions DEF CapKept
  <2>2. CASE W # {}
    <3>1. PICK v \in W : Counted(v, Cardinality(W))
      BY <2>2 DEF LiveInv, LastCounted
    <3> QED BY <3>1 DEF Counted, CapKept
  <2> QED BY <2>1, <2>2
<1> QED BY <1>1, <1>2, <1>3, PTL DEF LiveSpec

-----------------------------------------------------------------------------
(* Broadcast.  What a view of a room may rely on while its page of history *)
(* is read and the posts go on: the page is a moment of the table, and a   *)
(* post that is published later has a frame that comes later.              *)

Stages == {"idle", "sent", "admitted", "verified"} \cup Refusals \cup Committed

\* The posts that are or were rows of the table.
Stored == {q \in Posts : posted[q] \in Committed}

\* The view shows the post, or will when the page or a frame arrives.
Due(p) == p \in shown \cup gap \cup page \/ \E i \in 1..Len(frames) : frames[i] = p

NewestDue ==
  \A p \in Newest(Stored, PageLimit) : p \in messages /\ posted[p] = "published" => Due(p)

FeedInv ==
  /\ posted \in [Posts -> Stages]
  /\ frames \in Seq(Posts)
  /\ IsFiniteSet(Stored)
  /\ messages \subseteq Stored
  /\ feed = "ready" => page = {}
  /\ feed \in {"fetching", "ready"} => NewestDue

(* A post among the newest of a set is among the newest of what is left of *)
(* the set: a page of the table misses none of the newest ever stored.     *)
LEMMA NewestOfFewer ==
  ASSUME NEW S, NEW T, S \subseteq T, IsFiniteSet(T), NEW n \in Nat,
         NEW p \in S, p \in Newest(T, n)
  PROVE  p \in Newest(S, n)
<1> DEFINE A == {q \in S : SignedAt[q] > SignedAt[p]}
           B == {q \in T : SignedAt[q] > SignedAt[p]}
<1>1. IsFiniteSet(B) /\ A \in SUBSET B
  BY FS_Subset
<1>2. Cardinality(A) <= Cardinality(B) /\ Cardinality(A) \in Nat /\ Cardinality(B) \in Nat
  BY <1>1, FS_Subset, FS_CardinalityType
<1>3. Cardinality(B) < n
  BY DEF Newest
<1> QED BY <1>2, <1>3 DEF Newest

(* The server goes on, and publishes nothing in this step.                 *)
LEMMA UnseenStep ==
  ASSUME FeedInv, posted' \in [Posts -> Stages], UNCHANGED <<frames, feedVars>>,
         Stored \subseteq Stored', IsFiniteSet(Stored'), messages' \subseteq Stored',
         \A q \in messages' : posted'[q] = "published" =>
            q \in messages /\ posted[q] = "published"
  PROVE  FeedInv'
<1>1. ASSUME feed \in {"fetching", "ready"}, NEW p \in Newest(Stored', PageLimit),
             p \in messages', posted'[p] = "published"
      PROVE  Due(p)
  <2>1. p \in messages /\ posted[p] = "published" /\ p \in Stored
    BY <1>1 DEF FeedInv
  <2>2. p \in Newest(Stored, PageLimit)
    BY <1>1, <2>1, NewestOfFewer, BroadcastAssumptions
  <2> QED BY <1>1, <2>1, <2>2 DEF FeedInv, NewestDue
<1>2. NewestDue' \/ feed \notin {"fetching", "ready"}
  BY <1>1 DEF NewestDue, Due, Newest, feedVars
<1> QED BY <1>2 DEF FeedInv, feedVars

LEMMA ServerFeeds ==
  ASSUME FeedInv, NEW p \in Posts,
         \/ Submit(p) \/ Sign(p) \/ PostAnswered(p) \/ AnswerLost(p)
         \/ Admit(p) \/ RefuseSkewed(p) \/ Verify(p) \/ InsertPost(p)
         \/ FanoutFails(p)
  PROVE  FeedInv'
<1>1. UNCHANGED <<frames, feedVars>>
  BY DEF Submit, Sign, PostAnswered, AnswerLost, Admit, RefuseSkewed, Verify, InsertPost, FanoutFails
<1>2. posted' = posted \/ \E s \in Stages : posted' = [posted EXCEPT ![p] = s]
  <2> USE DEF Stages, Refusals, Committed
  <2>1. CASE Submit(p) \/ PostAnswered(p) \/ AnswerLost(p)
    BY <2>1 DEF Submit, PostAnswered, AnswerLost, roomVars
  <2>2. CASE Sign(p) \/ RefuseSkewed(p) \/ FanoutFails(p)
    BY <2>2 DEF Sign, RefuseSkewed, FanoutFails
  <2>3. CASE Admit(p)
    BY <2>3 DEF Admit
  <2>4. CASE Verify(p) \/ InsertPost(p)
    BY <2>4 DEF Verify, InsertPost
  <2> QED BY <2>1, <2>2, <2>3, <2>4
<1>3. posted' \in [Posts -> Stages]
  BY <1>2 DEF FeedInv
<1>4. \A q \in Posts \ {p} : posted'[q] = posted[q]
  BY <1>2 DEF FeedInv
<1>5. \/ posted'[p] = posted[p] /\ messages' = messages
      \/ /\ posted[p] \notin Committed /\ posted'[p] \notin Committed
         /\ messages' = messages
      \/ /\ posted[p] \in Committed /\ posted'[p] = "unannounced" /\ messages' = messages
      \/ posted'[p] = "stored" /\ messages' = messages \cup {p}
  BY DEF Submit, Sign, PostAnswered, AnswerLost, Admit, RefuseSkewed, Verify, InsertPost, FanoutFails,
         roomVars, Committed, FeedInv
<1>6. Stored \subseteq Stored' /\ messages' \subseteq Stored'
  BY <1>4, <1>5 DEF Stored, Committed, FeedInv
<1>7. Stored' \in SUBSET (Stored \cup {p}) /\ IsFiniteSet(Stored \cup {p})
  BY <1>4, FS_AddElement DEF Stored, FeedInv
<1>8. IsFiniteSet(Stored')
  BY <1>7, FS_Subset
<1>9. \A q \in messages' : posted'[q] = "published" =>
        q \in messages /\ posted[q] = "published"
  BY <1>4, <1>5, <1>6 DEF Stored, FeedInv, Committed
<1> QED BY <1>1, <1>3, <1>6, <1>8, <1>9, UnseenStep

LEMMA DeleteFeeds ==
  ASSUME FeedInv, NEW d \in SigningDevices, DeleteDevice(d) PROVE FeedInv'
<1>1. /\ UNCHANGED <<posted, frames, feedVars>> /\ messages' \subseteq messages
      /\ Stored' = Stored
  BY DEF DeleteDevice, Stored
<1> QED BY <1>1, UnseenStep DEF FeedInv

(* The frame is sent in the step that makes a post a published one.        *)
LEMMA PublishFeeds ==
  ASSUME FeedInv, NEW p \in Posts, FanOut(p) PROVE FeedInv'
<1>1. /\ posted[p] = "stored" /\ posted' = [posted EXCEPT ![p] = "published"]
      /\ frames' = Append(frames, p) /\ UNCHANGED <<messages, feedVars>>
      /\ feed' = feed /\ page' = page
  BY DEF FanOut, feedVars
<1>2. posted' \in [Posts -> Stages] /\ Stored' = Stored
  <2>1. /\ posted' \in [Posts -> Stages] /\ posted'[p] = "published"
        /\ \A q \in Posts \ {p} : posted'[q] = posted[q]
    BY <1>1 DEF FeedInv, Stages, Committed
  <2> QED BY <1>1, <2>1 DEF Stored, Committed
<1>3. frames' \in Seq(Posts) /\ Len(frames') = Len(frames) + 1 /\ frames'[Len(frames) + 1] = p
      /\ \A i \in 1..Len(frames) : frames'[i] = frames[i]
  BY <1>1 DEF FeedInv
<1>4. Len(frames) \in Nat
  BY DEF FeedInv
<1>5. \A q : Due(q) => Due(q)'
  BY <1>1, <1>3, <1>4 DEF Due, feedVars
<1>6. Due(p)'
  BY <1>3, <1>4 DEF Due
<1>7. ASSUME NewestDue PROVE NewestDue'
  BY <1>1, <1>2, <1>5, <1>6, <1>7 DEF NewestDue, Newest, FeedInv
<1> QED BY <1>1, <1>2, <1>3, <1>7 DEF FeedInv

LEMMA FrameFeeds ==
  ASSUME FeedInv, Frame PROVE FeedInv'
<1>1. /\ frames # <<>> /\ frames' = Tail(frames)
      /\ UNCHANGED <<roomVars, feed, page, gap>>
      /\ shown' = IF feed \in {"loading", "error"} THEN shown ELSE shown \cup {Head(frames)}
  BY DEF Frame
<1>2. UNCHANGED <<posted, messages, feed, page, gap>> /\ Stored' = Stored
  BY <1>1 DEF roomVars, Stored
<1>3. /\ frames' \in Seq(Posts) /\ Len(frames) \in Nat \ {0} /\ Len(frames') = Len(frames) - 1
      /\ Head(frames) = frames[1]
      /\ \A i \in 1..Len(frames') : frames'[i] = frames[i + 1]
  BY <1>1 DEF FeedInv
<1>4. ASSUME feed \in {"fetching", "ready"}, NEW q, Due(q) PROVE Due(q)'
  <2>1. CASE q \in shown \cup gap \cup page
    BY <1>1, <1>2, <2>1 DEF Due
  <2>2. CASE \E i \in 1..Len(frames) : frames[i] = q
    <3>1. PICK i \in 1..Len(frames) : frames[i] = q
      BY <2>2
    <3>2. CASE i = 1
      BY <1>1, <1>3, <1>4, <3>1, <3>2 DEF Due
    <3>3. CASE i # 1
      <4>1. i - 1 \in 1..Len(frames') /\ frames'[i - 1] = q
        BY <1>3, <3>1, <3>3
      <4> QED BY <4>1 DEF Due
    <3> QED BY <3>2, <3>3
  <2> QED BY <1>4, <2>1, <2>2 DEF Due
<1>5. ASSUME feed \in {"fetching", "ready"}, NewestDue PROVE NewestDue'
  BY <1>2, <1>4, <1>5 DEF NewestDue, Newest
<1> QED BY <1>2, <1>3, <1>5 DEF FeedInv

LEMMA PageFeeds ==
  ASSUME FeedInv, ReadPage \/ PageArrives PROVE FeedInv'
<1>1. UNCHANGED <<posted, messages, frames>> /\ Stored' = Stored
  BY DEF ReadPage, PageArrives, roomVars, Stored
<1>2. CASE ReadPage
  <2>1. feed' = "fetching" /\ page' = Newest(messages, PageLimit)
    BY <1>2 DEF ReadPage
  <2>2. ASSUME NEW p \in Newest(Stored, PageLimit), p \in messages PROVE p \in page'
    BY <2>1, <2>2, NewestOfFewer, BroadcastAssumptions DEF FeedInv
  <2>3. NewestDue'
    BY <1>1, <2>2 DEF NewestDue, Newest, Due
  <2> QED BY <1>1, <2>1, <2>3 DEF FeedInv
<1>3. CASE PageArrives
  <2>1. /\ feed = "fetching" /\ feed' = "ready" /\ page' = {}
        /\ gap' = gap \cup (shown \ page) /\ shown' = page
    BY <1>3 DEF PageArrives
  <2>2. \A p : Due(p) => Due(p)'
    BY <1>1, <2>1 DEF Due
  <2>3. NewestDue'
    BY <1>1, <2>1, <2>2 DEF NewestDue, Newest, FeedInv
  <2> QED BY <1>1, <2>1, <2>3 DEF FeedInv
<1> QED BY <1>2, <1>3

(* A ready view has caught up, for any number of posts, devices and users, *)
(* any limit of a page, and whatever fails or is deleted meanwhile.        *)
THEOREM FeedCatchesUp == BroadcastSpec => []CaughtUp
<1>1. BroadcastInit => FeedInv
  <2> SUFFICES ASSUME BroadcastInit PROVE FeedInv
    OBVIOUS
  <2>1. posted = [p \in Posts |-> "idle"]
    BY DEF BroadcastInit
  <2>2. Stored = {}
    BY <2>1 DEF Stored, Committed
  <2>3. posted \in [Posts -> Stages] /\ frames \in Seq(Posts)
    BY <2>1 DEF BroadcastInit, Stages
  <2>4. messages = {} /\ feed = "loading"
    BY DEF BroadcastInit
  <2>5. IsFiniteSet(Stored)
    BY <2>2, FS_EmptySet
  <2> QED BY <2>3, <2>4, <2>5 DEF FeedInv
<1>2. FeedInv /\ [BroadcastNext]_broadcastVars => FeedInv'
  <2> SUFFICES ASSUME FeedInv, [BroadcastNext]_broadcastVars PROVE FeedInv'
    OBVIOUS
  <2>1. ASSUME UNCHANGED <<posted, messages, frames, feedVars>> PROVE FeedInv'
    <3>1. Stored' = Stored
      BY <2>1 DEF Stored
    <3> QED BY <2>1, <3>1, UnseenStep DEF FeedInv
  <2>2. CASE UNCHANGED broadcastVars
    BY <2>1, <2>2 DEF broadcastVars, roomVars
  <2>3. ASSUME NEW u \in RoomUsers,
               \/ InsertRoom(u) \/ InsertAdmin(u) \/ CreateFails(u)
               \/ SubscribeToRoom(u) \/ WindowEnds(u)
        PROVE  FeedInv'
    BY <2>1, <2>3 DEF InsertRoom, InsertAdmin, CreateFails, SubscribeToRoom, WindowEnds
  <2>4. CASE RoomLoaded \/ LoadFails \/ LeaveFeed
    <3>1. /\ UNCHANGED <<posted, messages, frames>> /\ Stored' = Stored
          /\ feed' \notin {"fetching", "ready"}
      BY <2>4 DEF RoomLoaded, LoadFails, LeaveFeed, roomVars, Stored
    <3> QED BY <3>1 DEF FeedInv
  <2> QED BY <2>2, <2>3, <2>4, ServerFeeds, DeleteFeeds, PublishFeeds, FrameFeeds, PageFeeds
          DEF BroadcastNext
<1>3. FeedInv => CaughtUp
  BY DEF FeedInv, CaughtUp, NewestDue, Due, Stored
<1> QED BY <1>1, <1>2, <1>3, PTL DEF BroadcastSpec

-----------------------------------------------------------------------------
(* PeerDirectory.  The two caches of the devices of a peer, and a lookup   *)
(* whose reply may be older than what messages have told meanwhile.        *)

DirectoryInv ==
  /\ owners \subseteq enrolled
  /\ heardFrom \subseteq owners
  /\ \A ask \in asking : ask.device \in enrolled
  /\ lookup.devices \subseteq enrolled
  /\ lookup.under = TRUE => owners \ heardFrom \subseteq lookup.devices
  /\ replaced = TRUE \/ owners \subseteq fanOut

(* Every device a message was shown of is answered, for any number of      *)
(* devices that enrol, messages and requests that overlap, and page loads. *)
THEOREM RepliesReach == DirectorySpec => []RepliesReachSenders
<1>1. DirectoryInit => DirectoryInv
  BY DEF DirectoryInit, DirectoryInv, NoLookup
<1>2. DirectoryInv /\ [DirectoryNext]_directoryVars => DirectoryInv'
  <2> SUFFICES ASSUME DirectoryInv, [DirectoryNext]_directoryVars PROVE DirectoryInv'
    OBVIOUS
  <2> USE DEF DirectoryInv
  <2>1. CASE UNCHANGED directoryVars
    BY <2>1 DEF directoryVars
  <2>2. ASSUME NEW d \in Devices, EnrolElsewhere(d) \/ Inbound(d) PROVE DirectoryInv'
    BY <2>2 DEF EnrolElsewhere, Inbound
  <2>3. CASE LookupUser
    BY <2>3 DEF LookupUser
  <2>4. CASE ResolvePeerByHandle
    BY <2>4 DEF ResolvePeerByHandle, NoLookup
  <2>5. CASE LookupFails \/ ReloadPage
    BY <2>5 DEF LookupFails, ReloadPage, NoLookup
  <2>6. ASSUME NEW ask \in asking, OwnerKnown(ask) \/ OwnerFails(ask) PROVE DirectoryInv'
    BY <2>6 DEF OwnerKnown, OwnerFails, Folded
  <2> QED BY <2>1, <2>2, <2>3, <2>4, <2>5, <2>6 DEF DirectoryNext
<1>3. DirectoryInv => RepliesReachSenders
  BY DEF DirectoryInv, RepliesReachSenders
<1> QED BY <1>1, <1>2, <1>3, PTL DEF DirectorySpec

-----------------------------------------------------------------------------
(* AsyncViews.  Runs of one effect, of which at most the last is current:  *)
(* what each may still do to the screen.                                   *)

Steps == IF Numbers THEN {"compute", "qr", "end"}
                    ELSE {"cache", "download", "put", "decode", "end"}

Mounted == input # 0

\* The run of the newest props, once their effect has run.
OfNewestProps ==
  effectDue = FALSE =>
    IF current = 0 THEN ~Mounted
    ELSE /\ Mounted
         /\ runs[current].of = input /\ runs[current].instance = instance

\* What it left on the screen at its end.
EndShows ==
  overtaken = FALSE /\ effectDue = FALSE /\ current # 0 /\ runs[current].at = "end" =>
    /\ screen.by = current
    /\ screen.is = "ok" => /\ screen.shows = Expected(input)
                           /\ Numbers \/ current \in urls

ViewsInv ==
  /\ kind \in Kinds
  /\ input \in DOMAIN Shown \cup {0}
  /\ effectDue \in BOOLEAN /\ overtaken \in BOOLEAN
  /\ runs \in Seq([of : DOMAIN Shown, instance : Nat, at : Steps])
  /\ instance \in Nat
  /\ current \in 0..Len(runs)
  /\ urls \subseteq {current}
  /\ current # 0 /\ runs[current].at \in {"put", "decode"} => current \in urls
  /\ overtaken = FALSE => \A r \in DOMAIN runs : runs[r].at = "put" => r = current
  /\ Numbers /\ Mounted /\ effectDue = FALSE /\ screen.is = "ok" => screen.by = current
  /\ OfNewestProps
  /\ EndShows

(* The two screens of a call compute one number: the order of the parties  *)
(* is that of their ids, whichever of them asks.                           *)
LEMMA OneNumber ==
  ASSUME NEW i \in DOMAIN Shown
  PROVE  SafetyNumber(Local, Shown[i]) = SafetyNumber(Shown[i], Local)
<1>1. CASE Shown[i].user = Local.user
  BY <1>1, ViewsAssumptions DEF SafetyNumber, Fingerprint
<1>2. CASE Shown[i].user < Local.user
  BY <1>2, ViewsAssumptions DEF SafetyNumber
<1>3. CASE Local.user < Shown[i].user
  BY <1>3, ViewsAssumptions DEF SafetyNumber
<1> QED BY <1>1, <1>2, <1>3, ViewsAssumptions

LEMMA CommitViews ==
  ASSUME ViewsInv, Unmount \/ \E i \in DOMAIN Shown : MountView(i) \/ Rerender(i)
  PROVE  ViewsInv'
<1>1. /\ effectDue' = TRUE /\ input' \in DOMAIN Shown \cup {0} /\ instance' \in Nat
      /\ UNCHANGED <<kind, current, runs, urls, overtaken>>
  BY DEF Unmount, MountView, Rerender, Commit, ViewsInv
<1> QED BY <1>1 DEF ViewsInv, OfNewestProps, EndShows, Numbers, Steps

LEMMA EffectViews ==
  ASSUME ViewsInv, Effect PROVE ViewsInv'
<1>1. /\ effectDue' = FALSE /\ urls' = urls \ {current}
      /\ overtaken' = (overtaken \/ (current # 0 /\ runs[current].at = "put"))
      /\ UNCHANGED <<kind, input, instance>> /\ Numbers' = Numbers
  BY DEF Effect, Cleanup, Numbers
<1>2. urls' = {}
  BY <1>1 DEF ViewsInv
<1>3. overtaken' \in BOOLEAN
      /\ (overtaken' = FALSE => overtaken = FALSE /\ ~(current # 0 /\ runs[current].at = "put"))
  BY <1>1 DEF ViewsInv
<1>4. Len(runs) \in Nat /\ DOMAIN runs = 1..Len(runs)
  BY DEF ViewsInv
<1>5. overtaken' = FALSE => \A r \in DOMAIN runs : runs[r].at # "put"
  BY <1>3, <1>4 DEF ViewsInv
<1>6. CASE input = 0
  <2>1. current' = 0 /\ UNCHANGED <<runs, screen>>
    BY <1>6 DEF Effect
  <2>2. OfNewestProps' /\ EndShows'
    BY <1>1, <1>6, <2>1 DEF OfNewestProps, EndShows, Mounted
  <2>3. Steps' = Steps /\ current' \in 0..Len(runs') /\ ~Mounted'
    BY <1>1, <1>4, <1>6, <2>1 DEF Steps, Mounted
  <2> QED BY <1>1, <1>2, <1>3, <1>5, <2>1, <2>2, <2>3 DEF ViewsInv
<1>7. CASE input # 0
  <2> DEFINE new == [of |-> input, instance |-> instance, at |-> FirstStep]
  <2>1. /\ current' = Len(runs) + 1 /\ runs' = Append(runs, new)
        /\ screen' = IF Numbers THEN Blank ELSE screen
    BY <1>7 DEF Effect
  <2>2. FirstStep \in Steps \ {"end", "put", "decode"}
    BY DEF FirstStep, Steps, Numbers, ViewsInv, Kinds
  <2>3. new \in [of : DOMAIN Shown, instance : Nat, at : Steps]
    BY <1>7, <2>2 DEF ViewsInv
  <2>4. /\ new.of = input /\ new.instance = instance /\ new.at \notin {"end", "put", "decode"}
    BY <2>2
  <2> HIDE DEF new
  <2>5. /\ runs' \in Seq([of : DOMAIN Shown, instance : Nat, at : Steps])
        /\ Len(runs') = Len(runs) + 1 /\ runs'[Len(runs) + 1] = new
        /\ \A r \in DOMAIN runs : runs'[r] = runs[r]
    BY <2>1, <2>3 DEF ViewsInv
  <2>6. Steps' = Steps /\ runs'[current'] = new /\ current' \in 0..Len(runs') /\ current' # 0
    BY <1>1, <1>4, <2>1, <2>5 DEF Steps
  <2>7. DOMAIN runs' = 1..(Len(runs) + 1)
    BY <2>5
  <2>8. overtaken' = FALSE => \A r \in DOMAIN runs' : runs'[r].at # "put"
    BY <1>4, <1>5, <2>4, <2>5, <2>7
  <2>9. Numbers => screen'.is # "ok"
    BY <2>1 DEF Blank, Screen
  <2> QED BY <1>1, <1>2, <1>3, <1>7, <2>4, <2>5, <2>6, <2>8, <2>9
          DEF ViewsInv, OfNewestProps, EndShows, Mounted
<1> QED BY <1>6, <1>7

LEMMA RunTyped ==
  ASSUME ViewsInv, NEW r \in DOMAIN runs
  PROVE  /\ runs[r] \in [of : DOMAIN Shown, instance : Nat, at : Steps]
         /\ runs[r].at \in Steps /\ r \in Nat \ {0}
         /\ current # 0 => current \in DOMAIN runs
<1>1. runs \in Seq([of : DOMAIN Shown, instance : Nat, at : Steps]) /\ current \in 0..Len(runs)
  BY DEF ViewsInv
<1>2. DOMAIN runs = 1..Len(runs) /\ Len(runs) \in Nat
  BY <1>1
<1>3. runs[r] \in [of : DOMAIN Shown, instance : Nat, at : Steps]
  BY <1>1, <1>2, ElementOfSeq
<1> QED BY <1>1, <1>2, <1>3

(* What Goto changes.                                                      *)
LEMMA Went ==
  ASSUME ViewsInv, NEW r \in DOMAIN runs, NEW step \in Steps, Goto(r, step),
         UNCHANGED kind
  PROVE  /\ Numbers' = Numbers /\ Steps' = Steps
         /\ runs' \in Seq([of : DOMAIN Shown, instance : Nat, at : Steps])
         /\ Len(runs') = Len(runs) /\ DOMAIN runs' = DOMAIN runs
         /\ runs'[r].at = step
         /\ \A q \in DOMAIN runs : q # r => runs'[q].at = runs[q].at
         /\ \A q \in DOMAIN runs :
              runs'[q].of = runs[q].of /\ runs'[q].instance = runs[q].instance
<1>1. Numbers' = Numbers /\ Steps' = Steps
  BY DEF Numbers, Steps
<1>2. /\ runs \in Seq([of : DOMAIN Shown, instance : Nat, at : Steps])
      /\ runs' = [runs EXCEPT ![r].at = step]
  BY DEF Goto, ViewsInv
<1>3. [runs[r] EXCEPT !.at = step] \in [of : DOMAIN Shown, instance : Nat, at : Steps]
  BY RunTyped
<1> QED BY <1>1, <1>2, <1>3

(* A run goes on, with a URL of its own if it is the current one.          *)
LEMMA RunGoesOn ==
  ASSUME ViewsInv, NEW r \in DOMAIN runs, NEW step \in Steps \ {"end"}, Goto(r, step),
         UNCHANGED <<Rest, screen>>, urls \subseteq urls', urls' \subseteq {current},
         step \in {"put", "decode"} => r = current /\ current \in urls'
  PROVE  ViewsInv'
<1>1. UNCHANGED <<kind, input, instance, effectDue, current, overtaken, screen>>
  BY DEF Rest
<1>2. current \in DOMAIN runs \/ current = 0
  BY DEF ViewsInv
<1>3. Expected(input)' = Expected(input)
  BY <1>1, Went DEF Expected, SafetyNumber, Fingerprint
<1>4. OfNewestProps'
  BY <1>1, <1>2, Went DEF ViewsInv, OfNewestProps, Mounted
<1>5. EndShows'
  BY <1>1, <1>2, <1>3, Went DEF ViewsInv, EndShows
<1> QED BY <1>1, <1>2, <1>4, <1>5, Went DEF ViewsInv, Mounted

(* A run that was cancelled sees it and stops.                             *)
LEMMA RunGivesUp ==
  ASSUME ViewsInv, NEW r \in DOMAIN runs, GiveUp(r), UNCHANGED <<Rest, urls>>
  PROVE  ViewsInv'
<1>1. UNCHANGED <<kind, input, instance, effectDue, current, overtaken, screen, urls>>
  BY DEF Rest, GiveUp
<1>2. current \in DOMAIN runs \/ current = 0
  BY DEF ViewsInv
<1>3. r # current /\ Goto(r, "end") /\ "end" \in Steps
  BY DEF GiveUp, Steps
<1>4. Expected(input)' = Expected(input)
  BY <1>1, <1>3, Went DEF Expected, SafetyNumber, Fingerprint
<1>5. OfNewestProps'
  BY <1>1, <1>2, <1>3, Went DEF ViewsInv, OfNewestProps, Mounted
<1>6. EndShows'
  BY <1>1, <1>2, <1>3, <1>4, Went DEF ViewsInv, EndShows
<1> QED BY <1>1, <1>2, <1>3, <1>5, <1>6, Went DEF ViewsInv, Mounted

(* The current run sets the screen, if its props are still the newest to   *)
(* what belongs to them.                                                   *)
LEMMA RunFinishes ==
  ASSUME ViewsInv, NEW r \in DOMAIN runs, r = current, NEW is, NEW shows,
         Finish(r, is, shows), UNCHANGED Rest, urls \subseteq urls', urls' \subseteq {current},
         is = "ok" => Numbers \/ current \in urls',
         is = "ok" /\ effectDue = FALSE => shows = Expected(input)
  PROVE  ViewsInv'
<1>1. /\ UNCHANGED <<kind, input, instance, effectDue, current, overtaken>>
      /\ Goto(r, "end") /\ "end" \in Steps
      /\ screen' = IF Mounted /\ runs[r].instance = instance
                   THEN [is |-> is, by |-> r, shows |-> shows] ELSE screen
  BY DEF Rest, Finish, SetScreen, Screen, Steps, Mounted
<1>2. current \in DOMAIN runs /\ current # 0
  BY DEF ViewsInv
<1>3. effectDue = FALSE => /\ Mounted
                           /\ screen' = [is |-> is, by |-> r, shows |-> shows]
  BY <1>1, <1>2 DEF ViewsInv, OfNewestProps
<1>4. Expected(input)' = Expected(input)
  BY <1>1, Went DEF Expected, SafetyNumber, Fingerprint
<1>5. OfNewestProps'
  BY <1>1, <1>2, Went DEF ViewsInv, OfNewestProps, Mounted
<1>6. EndShows'
  BY <1>1, <1>2, <1>3, <1>4, Went DEF EndShows
<1> QED BY <1>1, <1>2, <1>3, <1>5, <1>6, Went DEF ViewsInv, Mounted

(* A write to the cache returns to a run that was cancelled meanwhile.     *)
LEMMA OvertakenFinishes ==
  ASSUME ViewsInv, NEW r \in DOMAIN runs, r # current, PutPlaintext(r)
  PROVE  ViewsInv'
<1>1. /\ UNCHANGED <<kind, input, instance, effectDue, current, overtaken, urls>>
      /\ runs[r].at = "put" /\ Goto(r, "end") /\ "end" \in Steps
  BY DEF PutPlaintext, Finish, Rest, Steps
<1>2. overtaken = TRUE
  BY <1>1 DEF ViewsInv
<1>3. Numbers = FALSE
  BY <1>1, RunTyped DEF Steps, Numbers
<1>4. current \in DOMAIN runs \/ current = 0
  BY DEF ViewsInv
<1>5. OfNewestProps'
  BY <1>1, <1>4, Went DEF ViewsInv, OfNewestProps, Mounted
<1>6. EndShows'
  BY <1>1, <1>2 DEF EndShows
<1> QED BY <1>1, <1>2, <1>3, <1>4, <1>5, <1>6, Went DEF ViewsInv, Mounted

LEMMA AnswerViews ==
  ASSUME ViewsInv, NEW r \in DOMAIN runs, NEW is, NEW shows, Answered(r, is, shows),
         UNCHANGED <<Rest, urls>>,
         r = current /\ is = "ok" => Numbers \/ current \in urls,
         r = current /\ is = "ok" /\ effectDue = FALSE => shows = Expected(input)
  PROVE  ViewsInv'
<1>1. CASE r = current /\ Finish(r, is, shows)
  <2>1. UNCHANGED Rest /\ urls \subseteq urls' /\ urls' \subseteq {current}
    BY DEF ViewsInv
  <2>2. current \in urls => current \in urls'
    BY <2>1
  <2> QED BY <1>1, <2>1, <2>2, RunFinishes
<1>2. CASE GiveUp(r)
  BY <1>2, RunGivesUp
<1> QED BY <1>1, <1>2 DEF Answered

\* The props of the current run are those that are shown.
LEMMA CurrentShows ==
  ASSUME ViewsInv, current # 0, effectDue = FALSE
  PROVE  /\ input \in DOMAIN Shown /\ runs[current].of = input
         /\ Numbers = FALSE => Expected(input) = runs[current].of
         /\ Numbers => Expected(input) = SafetyNumber(Local, Shown[runs[current].of])
<1>1. input \in DOMAIN Shown /\ runs[current].of = input
  BY DEF ViewsInv, OfNewestProps, Mounted
<1> QED BY <1>1, OneNumber DEF Expected

LEMMA AttachmentViews ==
  ASSUME ViewsInv, NEW r \in DOMAIN runs,
         \/ ReadCache(r) \/ DownloadFails(r) \/ DecryptFails(r) \/ Downloaded(r)
         \/ PutPlaintext(r) \/ Decoded(r)
  PROVE  ViewsInv'
<1>1. /\ runs[r].at \in Steps \ {"compute", "qr", "end"} /\ r # 0
      /\ current # 0 => current \in DOMAIN runs
  BY RunTyped DEF ReadCache, DownloadFails, DecryptFails, Downloaded, PutPlaintext, Decoded
<1>2. Numbers = FALSE /\ Steps = {"cache", "download", "put", "decode", "end"}
  BY <1>1 DEF Steps, Numbers
<1>3. ASSUME r = current, effectDue = FALSE PROVE runs[r].of = Expected(input)
  BY <1>1, <1>2, <1>3, CurrentShows
<1>4. CASE ReadCache(r)
  <2>1. CASE r = current /\ Finish(r, "ok", runs[r].of) /\ urls' = urls \cup {r}
    BY <1>3, <1>4, <2>1, RunFinishes DEF ReadCache, ViewsInv
  <2>2. CASE GiveUp(r) /\ UNCHANGED urls
    BY <1>4, <2>2, RunGivesUp DEF ReadCache
  <2>3. CASE Goto(r, "download") /\ UNCHANGED <<screen, urls>>
    BY <1>2, <1>4, <2>3, RunGoesOn DEF ReadCache, ViewsInv
  <2> QED BY <1>4, <2>1, <2>2, <2>3 DEF ReadCache
<1>5. CASE DownloadFails(r)
  BY <1>5, AnswerViews DEF DownloadFails
<1>6. CASE DecryptFails(r)
  BY <1>6, AnswerViews DEF DecryptFails
<1>7. CASE Downloaded(r)
  <2>1. r = current /\ urls' = urls \cup {r} /\ UNCHANGED Rest
    BY <1>7 DEF Downloaded
  <2>2. \/ \E step \in {"put", "decode"} : Goto(r, step) /\ UNCHANGED screen
        \/ Finish(r, "ok", runs[r].of)
    BY <1>7 DEF Downloaded
  <2>3. CASE Finish(r, "ok", runs[r].of)
    BY <1>3, <2>1, <2>3, RunFinishes DEF ViewsInv
  <2>4. CASE \E step \in {"put", "decode"} : Goto(r, step) /\ UNCHANGED screen
    BY <1>2, <2>1, <2>4, RunGoesOn DEF ViewsInv
  <2> QED BY <2>2, <2>3, <2>4
<1>8. CASE PutPlaintext(r)
  <2>1. CASE r = current
    BY <1>1, <1>3, <1>8, <2>1, RunFinishes DEF PutPlaintext, ViewsInv
  <2> QED BY <1>8, <2>1, OvertakenFinishes
<1>9. CASE Decoded(r)
  <2>1. urls' = urls
    BY <1>9 DEF Decoded, ViewsInv
  <2> QED BY <1>1, <1>3, <1>9, <2>1, AnswerViews DEF Decoded, ViewsInv
<1> QED BY <1>4, <1>5, <1>6, <1>7, <1>8, <1>9

LEMMA NumberViews ==
  ASSUME ViewsInv, NEW r \in DOMAIN runs, ComputeSafetyNumber(r) \/ QrDrawn(r)
  PROVE  ViewsInv'
<1>1. runs[r].at \in {"compute", "qr"} /\ runs[r].at \in Steps /\ r # 0
  BY RunTyped DEF ComputeSafetyNumber, QrDrawn
<1>2. Numbers /\ Steps = {"compute", "qr", "end"}
  BY <1>1 DEF Steps
<1>3. UNCHANGED <<Rest, urls>>
  BY DEF ComputeSafetyNumber, QrDrawn
<1>4. CASE Goto(r, "qr") /\ UNCHANGED screen
  BY <1>2, <1>3, <1>4, RunGoesOn DEF ViewsInv
<1>5. CASE Answered(r, "ok", SafetyNumber(Local, Shown[runs[r].of]))
  BY <1>1, <1>2, <1>3, <1>5, AnswerViews, CurrentShows
<1>6. CASE Answered(r, "error", <<>>)
  BY <1>3, <1>6, AnswerViews
<1> QED BY <1>4, <1>5, <1>6 DEF ComputeSafetyNumber, QrDrawn

(* What a view shows is the answer of its newest props, for any number of  *)
(* mounts, renders and runs, however long each of them takes.              *)
THEOREM ViewsShowCurrent == ViewsSpec => []ShowsCurrent
<1>1. ViewsInit => ViewsInv
  <2> SUFFICES ASSUME ViewsInit PROVE ViewsInv
    OBVIOUS
  <2>1. runs = <<>> /\ current = 0 /\ input = 0 /\ effectDue = FALSE /\ kind \in Kinds
        /\ overtaken = FALSE /\ instance = 0 /\ urls = {}
    BY DEF ViewsInit
  <2>2. runs \in Seq([of : DOMAIN Shown, instance : Nat, at : Steps]) /\ Len(runs) = 0
        /\ DOMAIN runs = {}
    BY <2>1
  <2>3. OfNewestProps /\ EndShows /\ ~Mounted
    BY <2>1 DEF OfNewestProps, EndShows, Mounted
  <2>4. current \in 0..Len(runs) /\ instance \in Nat /\ input \in DOMAIN Shown \cup {0}
    BY <2>1, <2>2
  <2> QED BY <2>1, <2>2, <2>3, <2>4 DEF ViewsInv
<1>2. ViewsInv /\ [ViewsNext]_viewVars => ViewsInv'
  <2> SUFFICES ASSUME ViewsInv, [ViewsNext]_viewVars PROVE ViewsInv'
    OBVIOUS
  <2>1. CASE UNCHANGED viewVars
    BY <2>1 DEF viewVars, ViewsInv, OfNewestProps, EndShows, Mounted, Numbers, Steps, Expected,
               SafetyNumber, Fingerprint
  <2> QED BY <2>1, CommitViews, EffectViews, AttachmentViews, NumberViews DEF ViewsNext
<1>3. ViewsInv => ShowsCurrent
  BY DEF ViewsInv, EndShows, ShowsCurrent, Mounted
<1> QED BY <1>1, <1>2, <1>3, PTL DEF ViewsSpec

-----------------------------------------------------------------------------
(* DmThreads.  Handlers that await between the writes of one message, and  *)
(* the reads of a screen among them.                                       *)

Rowed == [thread : Peers, mine : BOOLEAN, at : Nat, state : {"sending", "delivered"}]
Handled == [does : {"send", "inbound", "ack"}, thread : Peers, at : Nat,
            step : {"insert", "enqueue", "upsert", "record", "flip"}, row : Nat]
Pictures == (SUBSET (Nat \X {"sending", "delivered"})) \cup [Peers -> [last : Nat, unread : Nat]]
Got == {NotRead} \cup {<<x>> : x \in Pictures}

\* A handler has come no further than the time, and the row that it has
\* written, or flips, is of its thread and time.
HandlerOk(h) ==
  /\ h \in Handled
  /\ h.does # "ack" => h.at <= clock
  /\ \/ h.does = "send" /\ h.step \in {"insert", "enqueue", "upsert"}
     \/ h.does = "inbound" /\ h.step \in {"insert", "record"}
     \/ h.does = "ack" /\ h.step = "flip"
  /\ h.step # "insert" => h.row \in DOMAIN rows /\ rows[h.row].thread = h.thread
  /\ h.step # "insert" /\ h.does # "ack" => rows[h.row].at = h.at
  /\ h.step = "record" => rows[h.row].mine = FALSE

Flags == failed \in BOOLEAN /\ outOfOrder \in BOOLEAN

DmTypes ==
  /\ screenOf \in {"thread", "list", "none"} /\ selected \in Peers
  /\ rows \in Seq(Rowed)
  /\ threads \in [Peers -> [last : Nat, unread : Nat]]
  /\ clock \in Nat
  /\ reads \in Seq([thread : Peers, got : Got])
  /\ Flags
  /\ \A h \in handlers : HandlerOk(h)
  /\ \A i \in DOMAIN rows : rows[i].at <= clock
  /\ \A t \in Peers : threads[t].last <= clock

\* What no step changes of a row: all but its state.
RowsKept ==
  \A i \in DOMAIN rows :
    /\ i \in DOMAIN rows'
    /\ rows'[i].thread = rows[i].thread /\ rows'[i].mine = rows[i].mine
    /\ rows'[i].at = rows[i].at

LEMMA HandlerStaysOk ==
  ASSUME DmTypes, RowsKept, clock' \in Nat, clock <= clock', NEW h \in handlers
  PROVE  HandlerOk(h)'
<1>1. HandlerOk(h)
  BY DEF DmTypes
<1>2. h.at \in Nat /\ clock \in Nat
  BY <1>1 DEF DmTypes, HandlerOk, Handled
<1>3. h.does # "ack" => h.at <= clock'
  BY <1>1, <1>2 DEF HandlerOk
<1>4. h.step # "insert" => h.row \in DOMAIN rows' /\ rows'[h.row].thread = h.thread
  BY <1>1 DEF HandlerOk, RowsKept
<1>5. h.step # "insert" /\ h.does # "ack" => rows'[h.row].at = h.at
  BY <1>1 DEF HandlerOk, RowsKept
<1>6. h.step = "record" => rows'[h.row].mine = FALSE
  BY <1>1 DEF HandlerOk, RowsKept
<1> QED BY <1>1, <1>3, <1>4, <1>5, <1>6 DEF HandlerOk

LEMMA RowTyped ==
  ASSUME DmTypes
  PROVE  /\ DOMAIN rows = 1..Len(rows) /\ Len(rows) \in Nat /\ DOMAIN rows \subseteq Nat \ {0}
         /\ \A i \in DOMAIN rows : /\ rows[i] \in Rowed /\ rows[i].at \in Nat
                                   /\ rows[i].thread \in Peers /\ rows[i].mine \in BOOLEAN
                                   /\ rows[i].state \in {"sending", "delivered"}
<1>1. DOMAIN rows = 1..Len(rows) /\ Len(rows) \in Nat
  BY LenProperties DEF DmTypes
<1>2. \A i \in DOMAIN rows : rows[i] \in Rowed
  BY <1>1, ElementOfSeq DEF DmTypes
<1> QED BY <1>1, <1>2 DEF Rowed

LEMMA RowAppended ==
  ASSUME DmTypes, NEW r \in Rowed, rows' = Append(rows, r)
  PROVE  /\ rows' \in Seq(Rowed) /\ RowsKept
         /\ Len(rows) + 1 \in Nat /\ Len(rows) + 1 \notin DOMAIN rows
         /\ DOMAIN rows' = DOMAIN rows \cup {Len(rows) + 1}
         /\ rows'[Len(rows) + 1] = r
         /\ \A i \in DOMAIN rows : rows'[i] = rows[i]
<1>1. rows \in Seq(Rowed)
  BY DEF DmTypes
<1>2. /\ rows' \in Seq(Rowed) /\ Len(rows') = Len(rows) + 1 /\ Len(rows) \in Nat
      /\ DOMAIN rows = 1..Len(rows) /\ DOMAIN rows' = 1..Len(rows')
      /\ rows'[Len(rows) + 1] = r /\ \A i \in 1..Len(rows) : rows'[i] = rows[i]
  BY <1>1
<1> QED BY <1>2 DEF RowsKept

LEMMA RowFlipped ==
  ASSUME DmTypes, NEW k \in DOMAIN rows, rows' = [rows EXCEPT ![k].state = "delivered"]
  PROVE  /\ rows' \in Seq(Rowed) /\ RowsKept
         /\ DOMAIN rows' = DOMAIN rows
         /\ \A i \in DOMAIN rows \ {k} : rows'[i] = rows[i]
<1>1. rows \in Seq(Rowed) /\ k \in 1..Len(rows)
  BY RowTyped DEF DmTypes
<1>2. rows[k] \in Rowed
  BY RowTyped
<1>3. [rows[k] EXCEPT !.state = "delivered"] \in Rowed
  BY <1>2 DEF Rowed
<1> DEFINE r == [rows[k] EXCEPT !.state = "delivered"]
<1>4. r.thread = rows[k].thread /\ r.mine = rows[k].mine /\ r.at = rows[k].at
  BY <1>2 DEF Rowed
<1>5. rows' = [rows EXCEPT ![k] = r]
  OBVIOUS
<1> HIDE DEF r
<1>6. rows' \in Seq(Rowed) /\ DOMAIN rows' = DOMAIN rows
      /\ rows'[k] = r /\ \A i \in DOMAIN rows \ {k} : rows'[i] = rows[i]
  BY <1>1, <1>3, <1>5, ExceptSeq DEF r
<1> QED BY <1>4, <1>6 DEF RowsKept

\* The handler goes on to its next step, with the row it has written.
LEMMA Continued ==
  ASSUME NEW h \in Handled, NEW step \in {"enqueue", "upsert", "record"}, NEW row \in Nat,
         Continue(h, step, row)
  PROVE  \E g \in Handled :
           /\ g.does = h.does /\ g.thread = h.thread /\ g.at = h.at
           /\ g.step = step /\ g.row = row
           /\ handlers' = (handlers \ {h}) \cup {g}
<1> DEFINE g == [h EXCEPT !.step = step, !.row = row]
<1>1. g \in Handled
  BY DEF Handled
<1>2. /\ g.does = h.does /\ g.thread = h.thread /\ g.at = h.at
      /\ g.step = step /\ g.row = row
  BY DEF Handled
<1>3. handlers' = (handlers \ {h}) \cup {g}
  BY DEF Continue
<1> QED BY <1>1, <1>2, <1>3

\* A picture of the database is what a read may get.
LEMMA SnapshotGot ==
  ASSUME DmTypes, NEW t \in Peers PROVE Snapshot(t) \in Got /\ Snapshot(t) # NotRead
<1>1. /\ DOMAIN rows \subseteq Nat
      /\ \A i \in DOMAIN rows : rows[i].state \in {"sending", "delivered"}
  BY RowTyped
<1>2. Ids(t) \subseteq Nat /\ \A i \in Ids(t) : rows[i].state \in {"sending", "delivered"}
  BY <1>1 DEF Ids
<1>3. ASSUME NEW x \in ListForThread(t) PROVE x \in Nat \X {"sending", "delivered"}
  <2>1. PICK i \in Ids(t) : x = <<i, rows[i].state>>
    BY <1>3 DEF ListForThread
  <2> QED BY <1>2, <2>1
<1>4. ListForThread(t) \in Pictures /\ threads \in Pictures
  BY <1>3 DEF Pictures, DmTypes
<1>5. \A x \in Pictures : <<x>> \in Got /\ <<x>> # NotRead
  BY DEF Got, NotRead
<1> QED BY <1>4, <1>5 DEF Snapshot

LEMMA Emitted ==
  ASSUME DmTypes, NEW t \in Peers, Emit(t)
  PROVE  /\ reads' \in Seq([thread : Peers, got : Got])
         /\ ~Listens(t) => reads' = reads
         /\ Listens(t) => /\ reads' # <<>> /\ reads'[Len(reads')].thread = selected
                          /\ reads'[Len(reads')].got = NotRead
<1>1. NewRead(selected) \in [thread : Peers, got : Got]
  BY DEF DmTypes, NewRead, Got
<1>2. NewRead(selected).thread = selected /\ NewRead(selected).got = NotRead
  BY DEF NewRead
<1> DEFINE r == NewRead(selected)
<1> HIDE DEF r
<1>3. reads \in Seq([thread : Peers, got : Got])
  BY DEF DmTypes
<1>4. CASE Listens(t)
  <2>1. reads' = Append(reads, r)
    BY <1>4 DEF Emit, r
  <2>2. reads' \in Seq([thread : Peers, got : Got]) /\ Len(reads') = Len(reads) + 1
        /\ Len(reads) \in Nat /\ reads'[Len(reads')] = r
    BY <1>1, <1>3, <2>1 DEF r
  <2> QED BY <1>2, <1>4, <2>2 DEF r
<1>5. CASE ~Listens(t)
  BY <1>3, <1>5 DEF Emit
<1> QED BY <1>4, <1>5

-----------------------------------------------------------------------------

\* A message of the open conversation is stored and not yet announced.
Unannounced ==
  screenOf = "thread" /\ \E h \in handlers : h.step = "record" /\ h.thread = selected

ReadFresh(got) == got = Snapshot(selected) \/ Unannounced

\* The last read is of what is open; what it has got, or the screen shows when
\* no read is under way, is what the database holds now.
ScreenFollows ==
  screenOf # "none" /\ failed = FALSE /\ outOfOrder = FALSE =>
    IF reads = <<>> THEN ReadFresh(shownRows)
    ELSE /\ reads[Len(reads)].thread = selected
         /\ reads[Len(reads)].got = NotRead \/ ReadFresh(reads[Len(reads)].got)

\* Messages stored and not yet counted.
Uncounted == {h.row : h \in {h \in handlers : h.step = "record"}}
Incoming(t) == {i \in Ids(t) : rows[i].mine = FALSE}

UnreadCounts ==
  /\ \A g, h \in handlers : g.step = "record" /\ h.step = "record" /\ g.row = h.row => g = h
  /\ \A t \in Peers : threads[t].unread = Cardinality(Incoming(t) \ Uncounted)

\* The time of a thread, as long as no send of it overlaps another handler: a
\* row that is later has a handler that will write its time.
Timed(t) ==
  /\ \A i \in Ids(t) :
       \/ rows[i].at <= threads[t].last
       \/ \E h \in handlers : h.step \in {"enqueue", "upsert", "record"} /\ h.row = i
  /\ \A h \in handlers : h.does = "send" /\ h.thread = t =>
       /\ \A g \in handlers : g.thread = t /\ g.does # "ack" => g = h
       /\ threads[t].last <= h.at
       /\ \A i \in Ids(t) : rows[i].at <= h.at

ThreadsFollow ==
  failed = FALSE => UnreadCounts /\ \A t \in Peers \ interleaved : Timed(t)

DmInv == DmTypes /\ ScreenFollows /\ ThreadsFollow

\* A change that is announced reaches the screen by a new read, or is of a
\* conversation that is not open.
LEMMA Announced ==
  ASSUME DmInv, NEW t \in Peers, Emit(t), UNCHANGED <<Screens, failed>>,
         \A u \in Peers \ {t} : ListForThread(u)' = ListForThread(u),
         \A h \in handlers : h.step = "record" /\ h.thread # t => h \in handlers'
  PROVE  ScreenFollows'
<1>1. UNCHANGED <<screenOf, selected, shownRows, outOfOrder, failed>>
  BY DEF Screens
<1>2. CASE Listens(t)
  BY <1>1, <1>2, Emitted DEF ScreenFollows, DmInv
<1>3. CASE ~Listens(t)
  <2>1. reads' = reads
    BY <1>3, Emitted DEF DmInv
  <2>2. CASE screenOf = "none"
    BY <1>1, <2>2 DEF ScreenFollows
  <2>3. CASE screenOf = "thread"
    <3>1. selected # t /\ selected \in Peers
      BY <1>3, <2>3 DEF Listens, DmInv, DmTypes
    <3>2. Snapshot(selected)' = Snapshot(selected)
      BY <1>1, <2>3, <3>1 DEF Snapshot
    <3>3. Unannounced => Unannounced'
      BY <1>1, <3>1 DEF Unannounced
    <3> QED BY <1>1, <2>1, <3>2, <3>3 DEF DmInv, ScreenFollows, ReadFresh
  <2> QED BY <1>3, <2>2, <2>3 DEF Listens, DmInv, DmTypes
<1> QED BY <1>2, <1>3

\* A step the screen does not hear of.
LEMMA Unheard ==
  ASSUME DmInv, UNCHANGED <<Screens, reads, failed>>,
         screenOf = "list" => threads' = threads,
         Unannounced => Unannounced',
         screenOf = "thread" =>
           Unannounced' \/ ListForThread(selected)' = ListForThread(selected)
  PROVE  ScreenFollows'
<1>1. UNCHANGED <<screenOf, selected, shownRows, outOfOrder, failed, reads>>
  BY DEF Screens
<1>2. screenOf # "none" => Unannounced' \/ Snapshot(selected)' = Snapshot(selected)
  BY <1>1 DEF Snapshot, DmInv, DmTypes
<1> QED BY <1>1, <1>2 DEF DmInv, ScreenFollows, ReadFresh

\* The rows of a conversation do not change with those of another.
LEMMA ListKept ==
  ASSUME NEW t, \A i : i \in Ids(t)' <=> i \in Ids(t), \A i \in Ids(t) : rows'[i] = rows[i]
  PROVE  ListForThread(t)' = ListForThread(t)
<1>1. Ids(t)' = Ids(t)
  OBVIOUS
<1>2. \A i \in Ids(t) : {j \in Ids(t)' : rows'[j].at < rows'[i].at}
                          = {j \in Ids(t) : rows[j].at < rows[i].at}
  BY <1>1
<1>3. {i \in Ids(t)' : Cardinality({j \in Ids(t)' : rows'[j].at < rows'[i].at}) < Limit}
        = {i \in Ids(t) : Cardinality({j \in Ids(t) : rows[j].at < rows[i].at}) < Limit}
  BY <1>1, <1>2
<1> DEFINE A == {i \in Ids(t) : Cardinality({j \in Ids(t) : rows[j].at < rows[i].at}) < Limit}
<1>4. ListForThread(t) = {<<i, rows[i].state>> : i \in A}
  BY DEF ListForThread
<1>5. ListForThread(t)' = {<<i, rows'[i].state>> : i \in A}
  BY <1>3 DEF ListForThread
<1>6. \A i \in A : rows'[i] = rows[i]
  OBVIOUS
<1> HIDE DEF A
<1> QED BY <1>4, <1>5, <1>6

\* A step of a handler of another thread.
LEMMA TimedElsewhere ==
  ASSUME DmTypes, NEW t, Timed(t), Ids(t)' = Ids(t), \A i \in Ids(t) : rows'[i].at = rows[i].at,
         threads'[t] = threads[t],
         \A h \in handlers' \ handlers : h.thread # t,
         \A h \in handlers \ handlers' : h.thread # t
  PROVE  Timed(t)'
<1>1. \A i \in Ids(t), h \in handlers :
        h.step \in {"enqueue", "upsert", "record"} /\ h.row = i => h.thread = t
  BY DEF DmTypes, HandlerOk, Ids
<1> QED BY <1>1 DEF Timed

\* What is left of the types when rows are only added to or flipped.
LEMMA TypesKept ==
  ASSUME DmTypes, RowsKept, rows' \in Seq(Rowed), clock' \in Nat, clock <= clock',
         \A i \in DOMAIN rows' \ DOMAIN rows : rows'[i].at <= clock',
         UNCHANGED screenOf, selected' \in Peers, reads' \in Seq([thread : Peers, got : Got]),
         Flags',
         threads' \in [Peers -> [last : Nat, unread : Nat]],
         \A t \in Peers : threads'[t].last = threads[t].last \/ threads'[t].last <= clock,
         \A h \in handlers' \ handlers : HandlerOk(h)'
  PROVE  DmTypes'
<1>1. \A h \in handlers' : HandlerOk(h)'
  BY HandlerStaysOk
<1>2. \A i \in DOMAIN rows : rows[i].at \in Nat /\ rows[i].at <= clock /\ rows'[i].at = rows[i].at
  BY RowTyped DEF DmTypes, RowsKept
<1>3. clock \in Nat /\ \A t \in Peers : threads[t].last \in Nat /\ threads[t].last <= clock
  BY DEF DmTypes
<1>4. \A i \in DOMAIN rows' : rows'[i].at <= clock'
  BY <1>2, <1>3
<1>5. \A t \in Peers : threads'[t].last <= clock'
  <2>1. \A t \in Peers : threads'[t].last \in Nat
    OBVIOUS
  <2> QED BY <1>3, <2>1
<1> QED BY <1>1, <1>4, <1>5 DEF DmTypes

LEMMA StartInv ==
  ASSUME DmInv, NEW t \in Peers, SendMessage(t) \/ HandleInbound(t) PROVE DmInv'
<1>1. PICK does \in {"send", "inbound"} : StartHandler(does, t, "insert", 0)
  BY DEF SendMessage, HandleInbound
<1>2. PICK g : g = [does |-> does, thread |-> t, at |-> clock + 1, step |-> "insert", row |-> 0]
  OBVIOUS
<1>3. /\ handlers' = handlers \cup {g} /\ clock' = clock + 1
      /\ UNCHANGED <<screenOf, rows, threads, selected, selects, reads, shownRows, outOfOrder,
                     failed>>
      /\ interleaved' = IF \E h \in handlers : h.thread = t /\ "send" \in {does, h.does}
                        THEN interleaved \cup {t} ELSE interleaved
  BY <1>1, <1>2 DEF StartHandler
<1>4. /\ g \in Handled /\ g.does = does /\ g.thread = t /\ g.at = clock + 1
      /\ g.step = "insert" /\ clock \in Nat
  BY <1>2 DEF DmInv, DmTypes, Handled
<1>5. RowsKept
  BY <1>3 DEF RowsKept
<1>6. HandlerOk(g)'
  <2>1. g.at <= clock' /\ (g.does = "send" \/ g.does = "inbound")
    BY <1>3, <1>4
  <2> QED BY <1>4, <2>1 DEF HandlerOk
<1>7. DmTypes'
  <2>1. /\ rows' \in Seq(Rowed) /\ clock' \in Nat /\ clock <= clock' /\ DOMAIN rows' = DOMAIN rows
        /\ \A f \in handlers' \ handlers : f = g
    BY <1>3, <1>4 DEF DmInv, DmTypes
  <2>2. /\ UNCHANGED <<screenOf, selected, reads, threads>> /\ DmTypes
        /\ selected \in Peers /\ reads \in Seq([thread : Peers, got : Got])
        /\ threads \in [Peers -> [last : Nat, unread : Nat]]
    BY <1>3 DEF DmInv, DmTypes
  <2>3. Flags'
    BY <1>3 DEF DmInv, DmTypes, Flags
  <2> QED BY <1>5, <1>6, <2>1, <2>2, <2>3, TypesKept
<1>8. ScreenFollows'
  BY <1>3, <1>4, Unheard DEF DmInv, Screens, Unannounced, ListForThread, Ids
<1>9. Uncounted' = Uncounted /\ \A u : Ids(u)' = Ids(u) /\ Incoming(u)' = Incoming(u)
  BY <1>3, <1>4 DEF Uncounted, Incoming, Ids
<1>10. ASSUME failed = FALSE PROVE UnreadCounts'
  BY <1>3, <1>4, <1>9, <1>10 DEF DmInv, ThreadsFollow, UnreadCounts
<1>11. ASSUME failed = FALSE, NEW u \in Peers \ interleaved' PROVE Timed(u)'
  <2>1. u \notin interleaved /\ Timed(u)
    BY <1>3, <1>11 DEF DmInv, ThreadsFollow
  <2>2. CASE u # t
    BY <1>3, <1>4, <1>9, <2>1, <2>2 DEF Timed
  <2>3. CASE u = t
    <3>1. \A h \in handlers : h.thread = t => does # "send" /\ h.does # "send"
      BY <1>3, <1>11, <2>3
    <3>2. \A i \in Ids(t) : rows[i].at <= clock + 1
      BY <1>4, RowTyped DEF DmInv, DmTypes, Ids
    <3>3. threads[t].last <= clock + 1
      BY <1>4 DEF DmInv, DmTypes
    <3> QED BY <1>3, <1>4, <1>9, <2>1, <2>3, <3>1, <3>2, <3>3 DEF Timed
  <2> QED BY <2>2, <2>3
<1> QED BY <1>3, <1>7, <1>8, <1>10, <1>11 DEF DmInv, ThreadsFollow

LEMMA InsertOutgoingInv ==
  ASSUME DmInv, NEW h \in handlers, InsertOutgoing(h) PROVE DmInv'
<1>1. /\ h.does = "send" /\ h.step = "insert" /\ rows' = Append(rows, Row(h))
      /\ Continue(h, "enqueue", Len(rows) + 1) /\ Emit(h.thread)
      /\ UNCHANGED <<screenOf, selected, selects, shownRows, outOfOrder, threads, clock,
                     interleaved, failed>>
  BY DEF InsertOutgoing, Screens
<1>2. h \in Handled /\ HandlerOk(h) /\ h.thread \in Peers /\ h.at \in Nat /\ h.at <= clock
  BY <1>1 DEF DmInv, DmTypes, HandlerOk, Handled
<1> DEFINE r == Row(h)
           k == Len(rows) + 1
<1>3. r \in Rowed /\ r.thread = h.thread /\ r.mine = TRUE /\ r.at = h.at
  BY <1>1, <1>2 DEF Row, Rowed
<1> HIDE DEF r
<1>4. /\ rows' \in Seq(Rowed) /\ RowsKept /\ k \in Nat /\ k \notin DOMAIN rows
      /\ DOMAIN rows' = DOMAIN rows \cup {k} /\ rows'[k] = r
      /\ \A i \in DOMAIN rows : rows'[i] = rows[i]
  BY <1>1, <1>3, RowAppended DEF DmInv, r
<1> HIDE DEF k
<1>5. PICK g \in Handled : /\ g.does = h.does /\ g.thread = h.thread /\ g.at = h.at
                           /\ g.step = "enqueue" /\ g.row = k
                           /\ handlers' = (handlers \ {h}) \cup {g}
  BY <1>1, <1>2, <1>4, Continued DEF k
<1>6. HandlerOk(g)'
  BY <1>1, <1>2, <1>3, <1>4, <1>5 DEF HandlerOk
<1>7. DmTypes'
  <2>1. /\ clock' \in Nat /\ clock <= clock' /\ \A f \in handlers' \ handlers : f = g
        /\ \A i \in DOMAIN rows' \ DOMAIN rows : rows'[i].at <= clock'
    BY <1>1, <1>2, <1>3, <1>4, <1>5 DEF DmInv, DmTypes
  <2>2. reads' \in Seq([thread : Peers, got : Got])
    BY <1>1, <1>2, Emitted DEF DmInv
  <2>3. Flags'
    BY <1>1 DEF DmInv, DmTypes, Flags
  <2> QED BY <1>1, <1>4, <1>6, <2>1, <2>2, <2>3, TypesKept DEF DmInv, DmTypes
<1>8. ASSUME NEW t, t # h.thread PROVE Ids(t)' = Ids(t) /\ ListForThread(t)' = ListForThread(t)
  <2>1. \A i : i \in Ids(t)' <=> i \in Ids(t)
    BY <1>3, <1>4, <1>8 DEF Ids
  <2>2. \A i \in Ids(t) : rows'[i] = rows[i]
    BY <1>4 DEF Ids
  <2> QED BY <2>1, <2>2, ListKept
<1>9. Ids(h.thread)' = Ids(h.thread) \cup {k}
  BY <1>3, <1>4 DEF Ids
<1>10. ScreenFollows'
  BY <1>1, <1>2, <1>5, <1>8, Announced DEF Screens
<1>11. Uncounted' = Uncounted /\ \A t : Incoming(t)' = Incoming(t)
  BY <1>1, <1>3, <1>4, <1>5 DEF Uncounted, Incoming, Ids
<1>12. ASSUME failed = FALSE PROVE UnreadCounts'
  BY <1>1, <1>5, <1>11, <1>12 DEF DmInv, ThreadsFollow, UnreadCounts
<1>13. ASSUME failed = FALSE, NEW t \in Peers \ interleaved PROVE Timed(t)'
  <2>1. Timed(t)
    BY <1>13 DEF DmInv, ThreadsFollow
  <2>2. CASE t # h.thread
    <3>1. /\ Ids(t)' = Ids(t) /\ \A i \in Ids(t) : rows'[i].at = rows[i].at
          /\ \A f \in handlers' \ handlers : f.thread # t
          /\ \A f \in handlers \ handlers' : f.thread # t
      BY <1>4, <1>5, <1>8, <2>2 DEF Ids
    <3> QED BY <1>1, <2>1, <3>1, TimedElsewhere DEF DmInv
  <2>3. CASE t = h.thread
    BY <1>1, <1>2, <1>3, <1>4, <1>5, <1>9, <2>1, <2>3 DEF Timed, Ids
  <2> QED BY <2>2, <2>3
<1> QED BY <1>1, <1>7, <1>10, <1>12, <1>13 DEF DmInv, ThreadsFollow

LEMMA InsertIncomingInv ==
  ASSUME DmInv, NEW h \in handlers, InsertIncoming(h) PROVE DmInv'
<1>1. /\ h.does = "inbound" /\ h.step = "insert" /\ rows' = Append(rows, Row(h))
      /\ Continue(h, "record", Len(rows) + 1)
      /\ UNCHANGED <<screenOf, selected, selects, shownRows, outOfOrder, reads, threads, clock,
                     interleaved, failed>>
  BY DEF InsertIncoming, Screens
<1>2. h \in Handled /\ HandlerOk(h) /\ h.thread \in Peers /\ h.at \in Nat /\ h.at <= clock
  BY <1>1 DEF DmInv, DmTypes, HandlerOk, Handled
<1> DEFINE r == Row(h)
           k == Len(rows) + 1
<1>3. r \in Rowed /\ r.thread = h.thread /\ r.mine = FALSE /\ r.at = h.at
  BY <1>1, <1>2 DEF Row, Rowed
<1> HIDE DEF r
<1>4. /\ rows' \in Seq(Rowed) /\ RowsKept /\ k \in Nat /\ k \notin DOMAIN rows
      /\ DOMAIN rows' = DOMAIN rows \cup {k} /\ rows'[k] = r
      /\ \A i \in DOMAIN rows : rows'[i] = rows[i]
  BY <1>1, <1>3, RowAppended DEF DmInv, r
<1> HIDE DEF k
<1>5. PICK g \in Handled : /\ g.does = h.does /\ g.thread = h.thread /\ g.at = h.at
                           /\ g.step = "record" /\ g.row = k
                           /\ handlers' = (handlers \ {h}) \cup {g}
  BY <1>1, <1>2, <1>4, Continued DEF k
<1>6. HandlerOk(g)'
  BY <1>1, <1>2, <1>3, <1>4, <1>5 DEF HandlerOk
<1>7. DmTypes'
  <2>1. Flags'
    BY <1>1 DEF DmInv, DmTypes, Flags
  <2> QED BY <1>1, <1>2, <1>3, <1>4, <1>5, <1>6, <2>1, TypesKept DEF DmInv, DmTypes
<1>8. ASSUME NEW t, t # h.thread PROVE Ids(t)' = Ids(t) /\ ListForThread(t)' = ListForThread(t)
  <2>1. \A i : i \in Ids(t)' <=> i \in Ids(t)
    BY <1>3, <1>4, <1>8 DEF Ids
  <2>2. \A i \in Ids(t) : rows'[i] = rows[i]
    BY <1>4 DEF Ids
  <2> QED BY <2>1, <2>2, ListKept
<1>9. Ids(h.thread)' = Ids(h.thread) \cup {k}
  BY <1>3, <1>4 DEF Ids
<1>10. ScreenFollows'
  BY <1>1, <1>5, <1>8, Unheard DEF Screens, Unannounced
<1>11. Uncounted' = Uncounted \cup {k}
  BY <1>1, <1>5 DEF Uncounted
<1>12. \A t : Incoming(t)' \ {k} = Incoming(t) /\ k \notin Incoming(t)
  BY <1>4 DEF Incoming, Ids
<1>13. \A t : Incoming(t)' \ Uncounted' = Incoming(t) \ Uncounted
  BY <1>11, <1>12
<1>14. \A f \in handlers : f.step = "record" => f.row # k
  BY <1>4 DEF DmInv, DmTypes, HandlerOk
<1>15. ASSUME failed = FALSE PROVE UnreadCounts'
  BY <1>1, <1>5, <1>13, <1>14, <1>15 DEF DmInv, ThreadsFollow, UnreadCounts
<1>16. ASSUME failed = FALSE, NEW t \in Peers \ interleaved PROVE Timed(t)'
  <2>1. Timed(t)
    BY <1>16 DEF DmInv, ThreadsFollow
  <2>2. CASE t # h.thread
    <3>1. /\ Ids(t)' = Ids(t) /\ \A i \in Ids(t) : rows'[i].at = rows[i].at
          /\ \A f \in handlers' \ handlers : f.thread # t
          /\ \A f \in handlers \ handlers' : f.thread # t
      BY <1>4, <1>5, <1>8, <2>2 DEF Ids
    <3> QED BY <1>1, <2>1, <3>1, TimedElsewhere DEF DmInv
  <2>3. CASE t = h.thread
    BY <1>1, <1>2, <1>3, <1>4, <1>5, <1>9, <2>1, <2>3 DEF Timed, Ids
  <2> QED BY <2>2, <2>3
<1> QED BY <1>1, <1>7, <1>10, <1>15, <1>16 DEF DmInv, ThreadsFollow

LEMMA EnqueueInv ==
  ASSUME DmInv, NEW h \in handlers, Enqueue(h) PROVE DmInv'
<1>1. /\ h.does = "send" /\ h.step = "enqueue" /\ Continue(h, "upsert", h.row)
      /\ UNCHANGED <<screenOf, selected, selects, shownRows, outOfOrder, reads, rows, threads,
                     clock, interleaved, failed>>
  BY DEF Enqueue, Screens
<1>2. h \in Handled /\ HandlerOk(h) /\ h.row \in Nat
  BY DEF DmInv, DmTypes, HandlerOk, Handled
<1>3. PICK g \in Handled : /\ g.does = h.does /\ g.thread = h.thread /\ g.at = h.at
                           /\ g.step = "upsert" /\ g.row = h.row
                           /\ handlers' = (handlers \ {h}) \cup {g}
  BY <1>1, <1>2, Continued
<1>4. HandlerOk(g)' /\ RowsKept
  BY <1>1, <1>2, <1>3 DEF HandlerOk, RowsKept
<1>5. DmTypes'
  <2>1. clock' \in Nat /\ clock <= clock' /\ \A f \in handlers' \ handlers : f = g
    BY <1>1, <1>3 DEF DmInv, DmTypes
  <2>2. Flags'
    BY <1>1 DEF DmInv, DmTypes, Flags
  <2> QED BY <1>1, <1>4, <2>1, <2>2, TypesKept DEF DmInv, DmTypes
<1>6. ScreenFollows'
  BY <1>1, <1>3, Unheard DEF Screens, Unannounced, ListForThread, Ids
<1>7. Uncounted' = Uncounted /\ \A t : Ids(t)' = Ids(t) /\ Incoming(t)' = Incoming(t)
  BY <1>1, <1>3 DEF Uncounted, Incoming, Ids
<1>8. ASSUME failed = FALSE PROVE UnreadCounts'
  BY <1>1, <1>3, <1>7, <1>8 DEF DmInv, ThreadsFollow, UnreadCounts
<1>9. ASSUME failed = FALSE, NEW t \in Peers \ interleaved PROVE Timed(t)'
  <2>1. Timed(t)
    BY <1>9 DEF DmInv, ThreadsFollow
  <2> QED BY <1>1, <1>3, <1>7, <2>1 DEF Timed
<1> QED BY <1>1, <1>5, <1>6, <1>8, <1>9 DEF DmInv, ThreadsFollow

LEMMA UpsertInv ==
  ASSUME DmInv, NEW h \in handlers, Upsert(h) PROVE DmInv'
<1>1. /\ h.does = "send" /\ h.step = "upsert" /\ handlers' = handlers \ {h} /\ Emit(h.thread)
      /\ threads' = [threads EXCEPT ![h.thread] = Upserted(threads[h.thread], h.at)]
      /\ UNCHANGED <<screenOf, selected, selects, shownRows, outOfOrder, rows, clock,
                     interleaved, failed>>
  BY DEF Upsert, Screens, End
<1>2. h \in Handled /\ HandlerOk(h) /\ h.thread \in Peers /\ h.at \in Nat /\ h.at <= clock
  BY <1>1 DEF DmInv, DmTypes, HandlerOk, Handled
<1>3. /\ threads \in [Peers -> [last : Nat, unread : Nat]]
      /\ threads' \in [Peers -> [last : Nat, unread : Nat]]
      /\ threads'[h.thread].last = h.at /\ threads'[h.thread].unread = threads[h.thread].unread
      /\ \A t \in Peers : t # h.thread => threads'[t] = threads[t]
  BY <1>1, <1>2 DEF DmInv, DmTypes, Upserted
<1>4. RowsKept
  BY <1>1 DEF RowsKept
<1>5. DmTypes'
  <2>1. clock' \in Nat /\ clock <= clock' /\ selected' \in Peers /\ rows' \in Seq(Rowed)
    BY <1>1 DEF DmInv, DmTypes
  <2>2. \A t \in Peers : threads'[t].last = threads[t].last \/ threads'[t].last <= clock
    BY <1>2, <1>3
  <2>3. Flags'
    BY <1>1 DEF DmInv, DmTypes, Flags
  <2> QED BY <1>1, <1>2, <1>3, <1>4, <2>1, <2>2, <2>3, TypesKept, Emitted DEF DmInv
<1>6. ScreenFollows'
  BY <1>1, <1>2, Announced DEF Screens, ListForThread, Ids
<1>7. Uncounted' = Uncounted /\ \A t : Ids(t)' = Ids(t) /\ Incoming(t)' = Incoming(t)
  BY <1>1 DEF Uncounted, Incoming, Ids
<1>8. ASSUME failed = FALSE PROVE UnreadCounts'
  <2>1. \A t \in Peers : threads'[t].unread = threads[t].unread
    BY <1>3
  <2> QED BY <1>1, <1>7, <1>8, <2>1 DEF DmInv, ThreadsFollow, UnreadCounts
<1>9. ASSUME failed = FALSE, NEW t \in Peers \ interleaved PROVE Timed(t)'
  <2>1. Timed(t)
    BY <1>9 DEF DmInv, ThreadsFollow
  <2>2. CASE t # h.thread
    <3>1. threads'[t] = threads[t] /\ \A i \in Ids(t) : rows'[i].at = rows[i].at
      BY <1>1, <1>3, <2>2
    <3> QED BY <1>1, <1>7, <2>1, <2>2, <3>1, TimedElsewhere DEF DmInv
  <2>3. CASE t = h.thread
    <3>1. \A i \in Ids(t) : rows[i].at <= h.at
      BY <1>1, <2>1, <2>3 DEF Timed
    <3>2. \A g \in handlers' : g.thread = t => g.does # "send"
      BY <1>1, <2>1, <2>3 DEF Timed
    <3> QED BY <1>1, <1>3, <1>7, <2>3, <3>1, <3>2 DEF Timed
  <2> QED BY <2>2, <2>3
<1> QED BY <1>1, <1>5, <1>6, <1>8, <1>9 DEF DmInv, ThreadsFollow

LEMMA RecordIncomingInv ==
  ASSUME DmInv, NEW h \in handlers, RecordIncoming(h) PROVE DmInv'
<1>1. /\ h.does = "inbound" /\ h.step = "record" /\ handlers' = handlers \ {h} /\ Emit(h.thread)
      /\ threads' = [threads EXCEPT ![h.thread] = Recorded(threads[h.thread], h.at)]
      /\ UNCHANGED <<screenOf, selected, selects, shownRows, outOfOrder, rows, clock,
                     interleaved, failed>>
  BY DEF RecordIncoming, Screens, End
<1>2. /\ h \in Handled /\ HandlerOk(h) /\ h.thread \in Peers /\ h.at \in Nat /\ h.at <= clock
      /\ h.row \in DOMAIN rows /\ rows[h.row].thread = h.thread /\ rows[h.row].at = h.at
      /\ rows[h.row].mine = FALSE
  BY <1>1 DEF DmInv, DmTypes, HandlerOk, Handled
<1>3. /\ threads \in [Peers -> [last : Nat, unread : Nat]]
      /\ \A t \in Peers : threads[t].last <= clock /\ threads[t].last \in Nat
      /\ threads[h.thread].unread \in Nat /\ clock \in Nat
  BY <1>2 DEF DmInv, DmTypes
<1>4. PICK last \in Nat : /\ Recorded(threads[h.thread], h.at)
                               = [last |-> last, unread |-> threads[h.thread].unread + 1]
                          /\ threads[h.thread].last <= last /\ h.at <= last /\ last <= clock
  BY <1>2, <1>3 DEF Recorded
<1>5. /\ threads' \in [Peers -> [last : Nat, unread : Nat]]
      /\ threads'[h.thread].last = last
      /\ threads'[h.thread].unread = threads[h.thread].unread + 1
      /\ \A t \in Peers : t # h.thread => threads'[t] = threads[t]
  BY <1>1, <1>2, <1>3, <1>4
<1>6. RowsKept
  BY <1>1 DEF RowsKept
<1>7. DmTypes'
  <2>1. clock' \in Nat /\ clock <= clock' /\ selected' \in Peers /\ rows' \in Seq(Rowed)
    BY <1>1 DEF DmInv, DmTypes
  <2>2. \A t \in Peers : threads'[t].last = threads[t].last \/ threads'[t].last <= clock
    BY <1>4, <1>5
  <2>3. Flags'
    BY <1>1 DEF DmInv, DmTypes, Flags
  <2> QED BY <1>1, <1>2, <1>5, <1>6, <2>1, <2>2, <2>3, TypesKept, Emitted DEF DmInv
<1>8. ScreenFollows'
  BY <1>1, <1>2, Announced DEF Screens, ListForThread, Ids
<1>9. \A t : Ids(t)' = Ids(t) /\ Incoming(t)' = Incoming(t)
  BY <1>1 DEF Incoming, Ids
<1>10. ASSUME failed = FALSE PROVE UnreadCounts'
  <2>1. UnreadCounts
    BY <1>10 DEF DmInv, ThreadsFollow
  <2>2. Uncounted = Uncounted' \cup {h.row} /\ h.row \notin Uncounted'
    BY <1>1, <2>1 DEF Uncounted, UnreadCounts
  <2>3. ASSUME NEW t \in Peers PROVE threads'[t].unread = Cardinality(Incoming(t)' \ Uncounted')
    <3> DEFINE C == Incoming(t) \ Uncounted
    <3>1. IsFiniteSet(C) /\ Cardinality(C) = threads[t].unread
      <4>1. C \in SUBSET (1..Len(rows)) /\ Len(rows) \in Nat
        BY RowTyped DEF DmInv, Incoming, Ids
      <4>2. IsFiniteSet(1..Len(rows))
        BY <4>1, FS_Interval
      <4> QED BY <2>1, <4>1, <4>2, FS_Subset DEF UnreadCounts
    <3>2. CASE t = h.thread
      <4>1. Incoming(t)' \ Uncounted' = C \cup {h.row} /\ h.row \notin C
        BY <1>2, <1>9, <2>2, <3>2 DEF Incoming, Ids
      <4> HIDE DEF C
      <4>2. Cardinality(C \cup {h.row}) = Cardinality(C) + 1
        BY <3>1, <4>1, FS_AddElement
      <4> QED BY <1>5, <3>1, <3>2, <4>1, <4>2
    <3>3. CASE t # h.thread
      <4>1. Incoming(t)' \ Uncounted' = C
        BY <1>2, <1>9, <2>2, <3>3 DEF Incoming, Ids
      <4> QED BY <1>5, <3>1, <3>3, <4>1
    <3> QED BY <3>2, <3>3
  <2>4. \A f, g \in handlers' : f.step = "record" /\ g.step = "record" /\ f.row = g.row => f = g
    BY <1>1, <2>1 DEF UnreadCounts
  <2> QED BY <2>3, <2>4 DEF UnreadCounts
<1>11. ASSUME failed = FALSE, NEW t \in Peers \ interleaved PROVE Timed(t)'
  <2>1. Timed(t)
    BY <1>11 DEF DmInv, ThreadsFollow
  <2>2. CASE t # h.thread
    <3>1. threads'[t] = threads[t] /\ \A i \in Ids(t) : rows'[i].at = rows[i].at
      BY <1>1, <1>5, <2>2
    <3> QED BY <1>1, <1>9, <2>1, <2>2, <3>1, TimedElsewhere DEF DmInv
  <2>3. CASE t = h.thread
    <3>1. \A g \in handlers : g.thread = t => g.does # "send"
      BY <1>1, <2>1, <2>3 DEF Timed
    <3>2. ASSUME NEW i \in Ids(t)
          PROVE  \/ rows[i].at <= last
                 \/ \E g \in handlers' : g.step \in {"enqueue", "upsert", "record"} /\ g.row = i
      <4>1. CASE rows[i].at <= threads[t].last
        <5>1. rows[i].at \in Nat
          BY RowTyped DEF DmInv, Ids
        <5> QED BY <1>3, <1>4, <2>3, <4>1, <5>1
      <4>2. CASE \E g \in handlers : g.step \in {"enqueue", "upsert", "record"} /\ g.row = i
        BY <1>1, <1>2, <1>4, <4>2
      <4> QED BY <2>1, <4>1, <4>2 DEF Timed
    <3> QED BY <1>1, <1>5, <1>9, <2>3, <3>1, <3>2 DEF Timed
  <2> QED BY <2>2, <2>3
<1> QED BY <1>1, <1>7, <1>8, <1>10, <1>11 DEF DmInv, ThreadsFollow

\* After an error between two writes nothing is claimed but the types.
LEMMA FailsInv ==
  ASSUME DmInv, NEW h \in handlers, EnqueueFails(h) \/ RecordFails(h) PROVE DmInv'
<1>1. /\ handlers' = handlers \ {h} /\ failed' = TRUE
      /\ UNCHANGED <<screenOf, selected, outOfOrder, reads, rows, threads, clock>>
  BY DEF EnqueueFails, RecordFails, End, Screens
<1>2. DmTypes'
  <2>1. RowsKept /\ clock' \in Nat /\ clock <= clock'
    BY <1>1 DEF RowsKept, DmInv, DmTypes
  <2>2. Flags'
    BY <1>1 DEF DmInv, DmTypes, Flags
  <2> QED BY <1>1, <2>1, <2>2, TypesKept DEF DmInv, DmTypes
<1> QED BY <1>1, <1>2 DEF DmInv, ScreenFollows, ThreadsFollow

LEMMA AcknowledgedInv ==
  ASSUME DmInv, NEW i \in DOMAIN rows, Acknowledged(i) PROVE DmInv'
<1> DEFINE ack(n) == [does |-> "ack", thread |-> rows[i].thread, at |-> n, step |-> "flip", row |-> i]
<1>10. PICK n \in {0, 1} : handlers' = handlers \cup {ack(n)}
  BY DEF Acknowledged
<1>1. PICK g : g = ack(n)
  OBVIOUS
<1>2. /\ handlers' = handlers \cup {g}
      /\ UNCHANGED <<screenOf, selected, selects, shownRows, outOfOrder, reads, rows, threads,
                     clock, interleaved, failed>>
  BY <1>1, <1>10 DEF Acknowledged, Screens
<1>3. /\ g \in Handled /\ g.does = "ack" /\ g.step = "flip" /\ g.row = i /\ g.at \in {0, 1}
      /\ g.thread = rows[i].thread
  BY <1>1, RowTyped DEF DmInv, Handled
<1>4. HandlerOk(g)' /\ RowsKept
  BY <1>2, <1>3 DEF HandlerOk, RowsKept, DmInv, DmTypes
<1>5. DmTypes'
  <2>1. clock' \in Nat /\ clock <= clock' /\ \A f \in handlers' \ handlers : f = g
    BY <1>2 DEF DmInv, DmTypes
  <2>2. Flags'
    BY <1>2 DEF DmInv, DmTypes, Flags
  <2> QED BY <1>2, <1>4, <2>1, <2>2, TypesKept DEF DmInv, DmTypes
<1>6. ScreenFollows'
  BY <1>2, <1>3, Unheard DEF Screens, Unannounced, ListForThread, Ids
<1>7. Uncounted' = Uncounted /\ \A t : Ids(t)' = Ids(t) /\ Incoming(t)' = Incoming(t)
  BY <1>2, <1>3 DEF Uncounted, Incoming, Ids
<1>8. ASSUME failed = FALSE PROVE UnreadCounts'
  BY <1>2, <1>3, <1>7, <1>8 DEF DmInv, ThreadsFollow, UnreadCounts
<1>9. ASSUME failed = FALSE, NEW t \in Peers \ interleaved PROVE Timed(t)'
  <2>1. Timed(t)
    BY <1>9 DEF DmInv, ThreadsFollow
  <2> QED BY <1>2, <1>3, <1>7, <2>1 DEF Timed
<1> QED BY <1>2, <1>5, <1>6, <1>8, <1>9 DEF DmInv, ThreadsFollow

LEMMA FlipInv ==
  ASSUME DmInv, NEW h \in handlers, SetStateByClientNonce(h) PROVE DmInv'
<1>1. /\ h.does = "ack" /\ rows' = [rows EXCEPT ![h.row].state = "delivered"]
      /\ handlers' = handlers \ {h} /\ Emit(h.thread)
      /\ UNCHANGED <<screenOf, selected, selects, shownRows, outOfOrder, threads, clock,
                     interleaved, failed>>
  BY DEF SetStateByClientNonce, Screens, End
<1>2. /\ h.step = "flip" /\ h.thread \in Peers
      /\ h.row \in DOMAIN rows /\ rows[h.row].thread = h.thread
  BY <1>1 DEF DmInv, DmTypes, HandlerOk, Handled
<1>3. /\ rows' \in Seq(Rowed) /\ RowsKept /\ DOMAIN rows' = DOMAIN rows
      /\ \A i \in DOMAIN rows \ {h.row} : rows'[i] = rows[i]
  BY <1>1, <1>2, RowFlipped DEF DmInv
<1>4. DmTypes'
  <2>1. clock' \in Nat /\ clock <= clock' /\ selected' \in Peers
    BY <1>1 DEF DmInv, DmTypes
  <2>2. Flags'
    BY <1>1 DEF DmInv, DmTypes, Flags
  <2> QED BY <1>1, <1>2, <1>3, <2>1, <2>2, TypesKept, Emitted DEF DmInv, DmTypes
<1>5. \A t : Ids(t)' = Ids(t) /\ Incoming(t)' = Incoming(t)
  BY <1>3 DEF RowsKept, Incoming, Ids
<1>6. ASSUME NEW t \in Peers \ {h.thread} PROVE ListForThread(t)' = ListForThread(t)
  <2>1. \A i \in Ids(t) : rows'[i] = rows[i]
    BY <1>2, <1>3 DEF Ids
  <2> QED BY <1>5, <2>1, ListKept
<1>7. ScreenFollows'
  BY <1>1, <1>2, <1>6, Announced DEF Screens
<1>8. Uncounted' = Uncounted
  BY <1>1, <1>2 DEF Uncounted
<1>9. ASSUME failed = FALSE PROVE UnreadCounts'
  BY <1>1, <1>5, <1>8, <1>9 DEF DmInv, ThreadsFollow, UnreadCounts
<1>10. ASSUME failed = FALSE, NEW t \in Peers \ interleaved PROVE Timed(t)'
  <2>1. Timed(t)
    BY <1>10 DEF DmInv, ThreadsFollow
  <2>2. \A i \in Ids(t) : rows'[i].at = rows[i].at
    BY <1>3 DEF RowsKept, Ids
  <2> QED BY <1>1, <1>2, <1>5, <2>1, <2>2 DEF Timed
<1> QED BY <1>1, <1>4, <1>7, <1>9, <1>10 DEF DmInv, ThreadsFollow

(* The screen: it opens another conversation, and its reads are made and   *)
(* answered.                                                               *)
LEMMA ScreenInv ==
  ASSUME DmInv, UNCHANGED <<screenOf, rows, threads, clock, handlers, interleaved, failed>>,
         selected' \in Peers, reads' \in Seq([thread : Peers, got : Got]),
         Flags', ScreenFollows'
  PROVE  DmInv'
<1>1. DmTypes'
  <2>1. RowsKept /\ clock' \in Nat /\ clock <= clock'
    BY DEF RowsKept, DmInv, DmTypes
  <2> QED BY <2>1, TypesKept DEF DmInv, DmTypes
<1>2. Uncounted' = Uncounted /\ \A t : Ids(t)' = Ids(t) /\ Incoming(t)' = Incoming(t)
  BY DEF Uncounted, Incoming, Ids
<1>3. failed = FALSE /\ UnreadCounts => UnreadCounts'
  BY <1>2 DEF UnreadCounts
<1>4. \A t : Timed(t) => Timed(t)'
  BY <1>2 DEF Timed
<1> QED BY <1>1, <1>3, <1>4 DEF DmInv, ThreadsFollow

LEMMA SelectInv ==
  ASSUME DmInv, NEW t \in Peers, Select(t) PROVE DmInv'
<1>1. /\ selected' = t /\ reads' = Append(reads, NewRead(t))
      /\ UNCHANGED <<screenOf, rows, threads, clock, handlers, shownRows, outOfOrder,
                     interleaved, failed>>
  BY DEF Select
<1>2. PICK r : r = NewRead(t)
  OBVIOUS
<1>3. r \in [thread : Peers, got : Got] /\ r.thread = t /\ r.got = NotRead
  BY <1>2 DEF NewRead, Got
<1>4. /\ reads' \in Seq([thread : Peers, got : Got]) /\ Len(reads') = Len(reads) + 1
      /\ Len(reads) \in Nat /\ reads'[Len(reads) + 1] = r
  <2> DEFINE R == [thread : Peers, got : Got]
  <2>1. reads \in Seq(R) /\ r \in R /\ reads' = Append(reads, r)
    BY <1>1, <1>2, <1>3 DEF DmInv, DmTypes
  <2> HIDE DEF R
  <2>2. /\ reads' \in Seq(R) /\ Len(reads') = Len(reads) + 1
        /\ Len(reads) \in Nat /\ reads'[Len(reads) + 1] = r
    BY <2>1
  <2> QED BY <2>2 DEF R
<1>5. reads' # <<>> /\ reads'[Len(reads')] = r
  BY <1>4
<1>6. ScreenFollows'
  BY <1>1, <1>3, <1>5 DEF ScreenFollows
<1>7. Flags'
  BY <1>1 DEF DmInv, DmTypes, Flags
<1> QED BY <1>1, <1>4, <1>6, <1>7, ScreenInv

LEMMA ReadInv ==
  ASSUME DmInv, NEW k \in DOMAIN reads, Read(k) PROVE DmInv'
<1>1. /\ reads[k].got = NotRead
      /\ reads' = [reads EXCEPT ![k].got = Snapshot(reads[k].thread)]
      /\ UNCHANGED <<screenOf, selected, rows, threads, clock, handlers, shownRows, outOfOrder,
                     interleaved, failed>>
  BY DEF Read, Screens
<1>2. /\ reads \in Seq([thread : Peers, got : Got]) /\ k \in 1..Len(reads)
      /\ reads[k] \in [thread : Peers, got : Got] /\ Len(reads) \in Nat
  BY ElementOfSeq, LenProperties DEF DmInv, DmTypes
<1>3. PICK r : r = [reads[k] EXCEPT !.got = Snapshot(reads[k].thread)]
  OBVIOUS
<1>4. r \in [thread : Peers, got : Got] /\ r.thread = reads[k].thread
      /\ r.got = Snapshot(r.thread)
  BY <1>2, <1>3, SnapshotGot DEF DmInv
<1>5. reads' = [reads EXCEPT ![k] = r]
  BY <1>1, <1>3
<1>6. /\ reads' \in Seq([thread : Peers, got : Got]) /\ Len(reads') = Len(reads)
      /\ \A j \in 1..Len(reads) : reads'[j] = IF j = k THEN r ELSE reads[j]
  BY <1>2, <1>4, <1>5, ExceptSeq
<1>7. reads # <<>> /\ reads' # <<>> /\ Len(reads) \in 1..Len(reads)
  BY <1>2, <1>6
<1>8. ScreenFollows'
  <2>1. Unannounced' = Unannounced /\ Snapshot(selected)' = Snapshot(selected)
    BY <1>1 DEF Unannounced, Snapshot, ListForThread, Ids
  <2>2. CASE k = Len(reads)
    BY <1>1, <1>4, <1>6, <1>7, <2>1, <2>2 DEF DmInv, ScreenFollows, ReadFresh
  <2>3. CASE k # Len(reads)
    BY <1>1, <1>6, <1>7, <2>1, <2>3 DEF DmInv, ScreenFollows, ReadFresh
  <2> QED BY <2>2, <2>3
<1>9. selected' \in Peers /\ Flags'
  BY <1>1 DEF DmInv, DmTypes, Flags
<1> QED BY <1>1, <1>6, <1>8, <1>9, ScreenInv

LEMMA SetStateInv ==
  ASSUME DmInv, NEW k \in DOMAIN reads, SetState(k) PROVE DmInv'
<1> DEFINE R == [thread : Peers, got : Got]
           A == SubSeq(reads, 1, k - 1)
           B == SubSeq(reads, k + 1, Len(reads))
<1>1. /\ reads[k].got # NotRead /\ shownRows' = reads[k].got /\ reads' = A \o B
      /\ outOfOrder' = (outOfOrder \/ k # 1)
      /\ UNCHANGED <<screenOf, selected, rows, threads, clock, handlers, interleaved, failed>>
  BY DEF SetState
<1>2. reads \in Seq(R) /\ k \in 1..Len(reads) /\ Len(reads) \in Nat
  BY LenProperties DEF DmInv, DmTypes
<1>3. \A i \in 1..Len(reads) : reads[i] \in R
  BY <1>2, ElementOfSeq
<1>4. /\ A \in Seq(R) /\ Len(A) = k - 1
      /\ B \in Seq(R) /\ Len(B) = Len(reads) - k
      /\ \A i \in 1..(Len(reads) - k) : B[i] = reads[k + i]
  <2>1. A \in Seq(R) /\ Len(A) = IF 1 <= k - 1 THEN k - 1 - 1 + 1 ELSE 0
    BY <1>2, <1>3, SubSeqProperties
  <2>2. /\ B \in Seq(R) /\ Len(B) = IF k + 1 <= Len(reads) THEN Len(reads) - (k + 1) + 1 ELSE 0
        /\ \A i \in 1..(Len(reads) - (k + 1) + 1) : B[i] = reads[k + 1 + i - 1]
    BY <1>2, <1>3, SubSeqProperties
  <2> QED BY <1>2, <2>1, <2>2
<1> HIDE DEF A, B
<1> HIDE DEF R
<1>5. /\ reads' \in Seq(R) /\ Len(reads') = Len(reads) - 1
      /\ \A i \in 1..(Len(A) + Len(B)) : reads'[i] = IF i <= Len(A) THEN A[i] ELSE B[i - Len(A)]
  <2>1. /\ reads' \in Seq(R) /\ Len(reads') = Len(A) + Len(B)
        /\ \A i \in 1..(Len(A) + Len(B)) :
             reads'[i] = IF i <= Len(A) THEN A[i] ELSE B[i - Len(A)]
    BY <1>1, <1>4, ConcatProperties
  <2> QED BY <1>2, <1>4, <2>1
<1>6. outOfOrder' \in BOOLEAN /\ (outOfOrder' = FALSE => k = 1 /\ outOfOrder = FALSE)
  BY <1>1 DEF DmInv, DmTypes, Flags
<1>7. ScreenFollows'
  <2>1. SUFFICES ASSUME screenOf # "none", failed = FALSE, k = 1, outOfOrder = FALSE
                 PROVE  ScreenFollows'
    BY <1>1, <1>6 DEF ScreenFollows
  <2>2. Unannounced' = Unannounced /\ Snapshot(selected)' = Snapshot(selected)
    BY <1>1 DEF Unannounced, Snapshot, ListForThread, Ids
  <2>3. reads # <<>>
    BY <1>2
  <2>4. CASE Len(reads) = 1
    <3>1. reads' = <<>>
      BY <1>5, <2>4
    <3> QED BY <1>1, <2>1, <2>2, <2>3, <2>4, <3>1 DEF DmInv, ScreenFollows, ReadFresh
  <2>5. CASE Len(reads) # 1
    <3>1. /\ Len(reads') \in Nat \ {0} /\ reads' # <<>>
          /\ reads'[Len(reads')] = reads[Len(reads)]
      BY <1>2, <1>4, <1>5, <2>1, <2>5
    <3> QED BY <1>1, <2>1, <2>2, <2>3, <3>1 DEF DmInv, ScreenFollows, ReadFresh
  <2> QED BY <2>4, <2>5
<1>8. selected' \in Peers /\ Flags'
  BY <1>1, <1>6 DEF DmInv, DmTypes, Flags
<1> QED BY <1>1, <1>5, <1>7, <1>8, ScreenInv DEF R

LEMMA DmInitInv == DmInit => DmInv
<1> SUFFICES ASSUME DmInit PROVE DmInv
  OBVIOUS
<1>1. /\ screenOf \in {"thread", "list", "none"} /\ selected \in Peers /\ rows = <<>>
      /\ threads = [p \in Peers |-> [last |-> 0, unread |-> 0]] /\ clock = 0 /\ handlers = {}
      /\ reads = (IF screenOf = "none" THEN <<>> ELSE <<NewRead(selected)>>)
      /\ failed = FALSE /\ outOfOrder = FALSE
  BY DEF DmInit
<1>2. rows \in Seq(Rowed) /\ DOMAIN rows = {}
  BY <1>1
<1>3. NewRead(selected) \in [thread : Peers, got : Got]
  BY <1>1 DEF NewRead, Got
<1>4. reads \in Seq([thread : Peers, got : Got])
  <2>1. CASE screenOf = "none"
    BY <1>1, <2>1
  <2>2. CASE screenOf # "none"
    BY <1>1, <1>3, <2>2
  <2> QED BY <2>1, <2>2
<1>5. DmTypes
  <2>1. Flags
    BY <1>1 DEF Flags
  <2> QED BY <1>1, <1>2, <1>4, <2>1 DEF DmTypes
<1>6. ScreenFollows
  <2>1. CASE screenOf = "none"
    BY <2>1 DEF ScreenFollows
  <2>2. CASE screenOf # "none"
    <3>1. reads = <<NewRead(selected)>>
      BY <1>1, <2>2
    <3>2. reads # <<>> /\ Len(reads) = 1 /\ reads[1] = NewRead(selected)
      BY <3>1
    <3> QED BY <3>2 DEF ScreenFollows, NewRead
  <2> QED BY <2>1, <2>2
<1>7. UnreadCounts
  <2>1. \A t : Incoming(t) \ Uncounted = {}
    BY <1>2 DEF Incoming, Ids
  <2> QED BY <1>1, <2>1, FS_EmptySet DEF UnreadCounts
<1>8. \A t \in Peers : Timed(t)
  BY <1>1, <1>2 DEF Timed, Ids
<1> QED BY <1>5, <1>6, <1>7, <1>8 DEF DmInv, ThreadsFollow

LEMMA DmStep == DmInv /\ [DmNext]_dmVars => DmInv'
<1> SUFFICES ASSUME DmInv, [DmNext]_dmVars PROVE DmInv'
  OBVIOUS
<1>1. CASE UNCHANGED dmVars
  <2>1. ScreenFollows'
    BY <1>1 DEF dmVars, DmInv, ScreenFollows, ReadFresh, Unannounced, Snapshot, ListForThread, Ids
  <2>2. Flags'
    BY <1>1 DEF dmVars, DmInv, DmTypes, Flags
  <2> QED BY <1>1, <2>1, <2>2, ScreenInv DEF dmVars, DmInv, DmTypes
<1>2. ASSUME NEW t \in Peers, SendMessage(t) \/ HandleInbound(t) \/ Select(t) PROVE DmInv'
  BY <1>2, StartInv, SelectInv
<1>3. ASSUME NEW h \in handlers,
             \/ InsertOutgoing(h) \/ Enqueue(h) \/ EnqueueFails(h) \/ Upsert(h)
             \/ InsertIncoming(h) \/ RecordIncoming(h) \/ RecordFails(h)
             \/ SetStateByClientNonce(h)
      PROVE  DmInv'
  BY <1>3, InsertOutgoingInv, EnqueueInv, FailsInv, UpsertInv, InsertIncomingInv,
     RecordIncomingInv, FlipInv
<1>4. ASSUME NEW k \in DOMAIN reads, Read(k) \/ SetState(k) PROVE DmInv'
  BY <1>4, ReadInv, SetStateInv
<1> QED BY <1>1, <1>2, <1>3, <1>4, AcknowledgedInv DEF DmNext

(* The screen comes to show what the database holds, for any number of     *)
(* conversations, messages, handlers and reads under way together.         *)
THEOREM ScreenIsSettled == DmSpec => []ScreenSettles
<1>1. DmInv => ScreenSettles
  BY DEF DmInv, ScreenFollows, ScreenSettles, ReadFresh, Unannounced
<1> QED BY <1>1, DmInitInv, DmStep, PTL DEF DmSpec

(* The row of a thread counts its messages and has the time of the newest, *)
(* however the handlers of the threads interleave.                         *)
THEOREM ThreadsAreKept == DmSpec => []ThreadsMatch
<1>1. DmInv => ThreadsMatch
  <2> SUFFICES ASSUME DmInv, ~failed /\ handlers = {}
               PROVE  \A t \in Peers :
                        /\ threads[t].unread = Cardinality({i \in Ids(t) : ~rows[i].mine})
                        /\ t \notin interleaved => \A i \in Ids(t) : rows[i].at <= threads[t].last
    BY DEF ThreadsMatch
  <2> TAKE t \in Peers
  <2>1. Uncounted = {}
    BY DEF Uncounted
  <2>2. {i \in Ids(t) : ~rows[i].mine} = Incoming(t) \ Uncounted
    BY <2>1, RowTyped DEF DmInv, Incoming, Ids
  <2>3. threads[t].unread = Cardinality(Incoming(t) \ Uncounted)
    BY DEF DmInv, ThreadsFollow, UnreadCounts
  <2>4. t \notin interleaved => \A i \in Ids(t) : rows[i].at <= threads[t].last
    BY DEF DmInv, ThreadsFollow, Timed
  <2> QED BY <2>2, <2>3, <2>4
<1> QED BY <1>1, DmInitInv, DmStep, PTL DEF DmSpec

-----------------------------------------------------------------------------
(* Attachments.  The cap of the decrypted attachments' cache, for any      *)
(* uploads of any sizes, any cap and any number of putCiphertext under way *)
(* at once.                                                                *)

(* The rows of the table, oldest first: one for each upload.               *)
Distinct(s) == \A i, j \in 1..Len(s) : s[i] = s[j] => i = j

LEMMA RowRemoved ==
  ASSUME NEW S, NEW s \in Seq(S), NEW k \in 1..Len(s)
  PROVE  /\ RemoveAt(s, k) \in Seq(S)
         /\ Len(RemoveAt(s, k)) = Len(s) - 1
         /\ \A i \in 1..Len(s) - 1 : RemoveAt(s, k)[i] = IF i < k THEN s[i] ELSE s[i + 1]
<1> DEFINE older == SubSeq(s, 1, k - 1)
           newer == SubSeq(s, k + 1, Len(s))
<1>1. PICK n \in Nat : n = Len(s)
  BY LenProperties
<1>2. k \in 1..n /\ Len(s) = n
  BY <1>1
<1>3. older \in Seq(S) /\ Len(older) = k - 1 /\ \A i \in 1..k - 1 : older[i] = s[i]
  <2>1. 1 \in 1..n + 1 /\ k - 1 \in 0..n
    BY <1>2
  <2>2. /\ older \in Seq(S)
        /\ Len(older) = IF 1 <= k - 1 THEN (k - 1) - 1 + 1 ELSE 0
        /\ \A i \in 1..(k - 1) - 1 + 1 : older[i] = s[1 + i - 1]
    BY <2>1, <1>2, SubSeqProperties
  <2> HIDE DEF older
  <2>3. \A i \in 1..k - 1 : 1 + i - 1 = i /\ i \in 1..(k - 1) - 1 + 1
    BY <1>2
  <2> QED BY <2>2, <2>3, <1>2
<1>4. newer \in Seq(S) /\ Len(newer) = n - k /\ \A i \in 1..n - k : newer[i] = s[k + i]
  <2>1. k + 1 \in 1..n + 1 /\ n \in 0..n
    BY <1>2
  <2>2. /\ newer \in Seq(S)
        /\ Len(newer) = IF k + 1 <= n THEN n - (k + 1) + 1 ELSE 0
        /\ \A i \in 1..n - (k + 1) + 1 : newer[i] = s[(k + 1) + i - 1]
    BY <2>1, <1>2, SubSeqProperties
  <2> HIDE DEF newer
  <2>3. \A i \in 1..n - k : (k + 1) + i - 1 = k + i /\ i \in 1..n - (k + 1) + 1
    BY <1>2
  <2> QED BY <2>2, <2>3, <1>2
<1>5. RemoveAt(s, k) = older \o newer
  BY DEF RemoveAt
<1> HIDE DEF older, newer
<1>6. /\ older \o newer \in Seq(S)
      /\ Len(older \o newer) = Len(older) + Len(newer)
      /\ \A i \in 1..Len(older) + Len(newer) : (older \o newer)[i] =
           IF i <= Len(older) THEN older[i] ELSE newer[i - Len(older)]
  BY <1>3, <1>4, ConcatProperties
<1>7. ASSUME NEW i \in 1..n - 1
      PROVE  (older \o newer)[i] = IF i < k THEN s[i] ELSE s[i + 1]
  <2>1. (older \o newer)[i] = IF i <= k - 1 THEN older[i] ELSE newer[i - (k - 1)]
    BY <1>2, <1>3, <1>4, <1>6
  <2>2. CASE i < k
    BY <2>1, <2>2, <1>2, <1>3
  <2>3. CASE ~ (i < k)
    <3>1. i - (k - 1) \in 1..n - k /\ k + (i - (k - 1)) = i + 1 /\ ~ (i <= k - 1)
      BY <2>3, <1>2
    <3> QED BY <2>1, <2>3, <3>1, <1>4
  <2> QED BY <2>2, <2>3
<1>8. Len(older \o newer) = n - 1
  BY <1>2, <1>3, <1>4, <1>6
<1> QED BY <1>2, <1>5, <1>6, <1>7, <1>8

(* A row that is read or written is the newest, and no other row changes. *)
LEMMA RowTouched ==
  ASSUME NEW a \in Uploads, lru \in Seq(Uploads), Distinct(lru)
  PROVE  /\ Touched(a) \in Seq(Uploads)
         /\ Distinct(Touched(a))
         /\ ToSet(Touched(a)) = ToSet(lru) \cup {a}
<1>1. PICK n \in Nat : n = Len(lru)
  BY LenProperties
<1>2. DOMAIN lru = 1..n
  BY <1>1, LenProperties
<1>3. CASE a \in ToSet(lru)
  <2>1. PICK k \in 1..n : k = RowOf(a) /\ lru[k] = a
    BY <1>2, <1>3 DEF RowOf, ToSet
  <2> DEFINE r == RemoveAt(lru, k)
  <2>2. /\ r \in Seq(Uploads) /\ Len(r) = n - 1
        /\ \A i \in 1..n - 1 : r[i] = IF i < k THEN lru[i] ELSE lru[i + 1]
    BY <1>1, <2>1, RowRemoved
  <2>3. Touched(a) = Append(r, a)
    BY <1>3, <2>1 DEF Touched
  <2> HIDE DEF r
  <2> DEFINE t == Append(r, a)
  <2>4. /\ t \in Seq(Uploads) /\ Len(t) = n /\ t[n] = a
        /\ \A i \in 1..n - 1 : t[i] = r[i]
    BY <2>2, <1>1, AppendProperties
  <2>5. DOMAIN t = 1..n
    BY <2>4, LenProperties
  <2> HIDE DEF t
  <2>6. \A i \in 1..n - 1 : t[i] = IF i < k THEN lru[i] ELSE lru[i + 1]
    BY <2>2, <2>4
  <2>7. \A i, j \in 1..n : lru[i] = lru[j] => i = j
    BY <1>1 DEF Distinct
  <2>8. Distinct(t)
    <3>1. \A i \in 1..n - 1 : t[i] # a
      BY <2>1, <2>6, <2>7
    <3>2. \A i, j \in 1..n - 1 : t[i] = t[j] => i = j
      BY <2>1, <2>6, <2>7
    <3>3. \A i, j \in 1..n : t[i] = t[j] => i = j
      BY <3>1, <3>2, <2>4
    <3> QED BY <3>3, <2>4 DEF Distinct
  <2>9. ToSet(t) = ToSet(lru)
    <3>1. ASSUME NEW i \in 1..n PROVE t[i] \in ToSet(lru)
      <4>1. CASE i = n
        BY <4>1, <2>4, <1>3
      <4>2. CASE i \in 1..n - 1
        <5>1. (IF i < k THEN i ELSE i + 1) \in 1..n
          BY <4>2
        <5> QED BY <5>1, <4>2, <2>6, <1>2 DEF ToSet
      <4> QED BY <4>1, <4>2
    <3>2. ASSUME NEW i \in 1..n PROVE lru[i] \in ToSet(t)
      <4>1. CASE i = k
        BY <4>1, <2>1, <2>4, <2>5 DEF ToSet
      <4>2. CASE i < k
        <5>1. i \in 1..n - 1 /\ i \in 1..n
          BY <4>2
        <5>2. t[i] = lru[i]
          BY <5>1, <4>2, <2>6
        <5> QED BY <5>1, <5>2, <2>5 DEF ToSet
      <4>3. CASE i > k
        <5>1. i - 1 \in 1..n - 1 /\ i - 1 \in 1..n /\ ~ (i - 1 < k) /\ (i - 1) + 1 = i
          BY <4>3
        <5>2. t[i - 1] = lru[i]
          BY <5>1, <2>6
        <5> QED BY <5>1, <5>2, <2>5 DEF ToSet
      <4> QED BY <4>1, <4>2, <4>3
    <3> QED BY <3>1, <3>2, <2>5, <1>2 DEF ToSet
  <2> QED BY <2>3, <2>4, <2>8, <2>9, <1>3 DEF t
<1>4. CASE a \notin ToSet(lru)
  <2> DEFINE t == Append(lru, a)
  <2>1. Touched(a) = t
    BY <1>4 DEF Touched
  <2>2. /\ t \in Seq(Uploads) /\ Len(t) = n + 1 /\ t[n + 1] = a
        /\ \A i \in 1..n : t[i] = lru[i]
    BY <1>1, AppendProperties
  <2>3. DOMAIN t = 1..n + 1
    BY <2>2, LenProperties
  <2> HIDE DEF t
  <2>4. \A i, j \in 1..n : lru[i] = lru[j] => i = j
    BY <1>1 DEF Distinct
  <2>5. \A i \in 1..n : lru[i] # a
    BY <1>4, <1>2 DEF ToSet
  <2>6. \A i \in 1..n + 1 : i \in 1..n \/ i = n + 1
    OBVIOUS
  <2>7. Distinct(t)
    BY <2>2, <2>4, <2>5, <2>6 DEF Distinct
  <2>8. 1..n + 1 = 1..n \cup {n + 1}
    OBVIOUS
  <2>9. ToSet(t) = ToSet(lru) \cup {a}
    BY <2>2, <2>3, <2>8, <1>2 DEF ToSet
  <2> QED BY <2>1, <2>2, <2>7, <2>9
<1> QED BY <1>3, <1>4

(* A set of numbers has a least one: the first row evictOverflow stops at. *)
LEMMA LeastOf ==
  ASSUME NEW S \in SUBSET Nat, S # {} PROVE \E m \in S : \A k \in S : m <= k
<1>1. PICK m \in S : \A k \in S : ~ (<<k, m>> \in OpToRel(<, Nat))
  BY NatLessThanWellFounded, WFMin, Zenon
<1>2. \A k \in S : ~ (k < m)
  BY <1>1, Zenon DEF OpToRel
<1> QED BY <1>2

LEMMA RowsFinite ==
  ASSUME NEW S, NEW s \in Seq(S)
  PROVE  IsFiniteSet(ToSet(s)) /\ ToSet(s) \subseteq S
<1>1. PICK n \in Nat : n = Len(s)
  BY LenProperties
<1>2. DOMAIN s = 1..n /\ \A i \in 1..n : s[i] \in S
  BY <1>1, LenProperties, ElementOfSeq
<1> DEFINE f == [i \in 1..n |-> s[i]]
<1>3. f \in Surjection(1..n, ToSet(s))
  BY <1>2 DEF Surjection, ToSet
<1>4. IsFiniteSet(1..n)
  BY FS_Interval
<1> HIDE DEF f
<1>5. IsFiniteSet(ToSet(s))
  BY <1>3, <1>4, FS_Surjection
<1> QED BY <1>2, <1>5 DEF ToSet

(* A sum of sizes is how many bytes there are, so that it grows with what  *)
(* is cached and is the sum of its parts.                                  *)
LEMMA BytesFinite ==
  ASSUME NEW C \in SUBSET Uploads, IsFiniteSet(C)
  PROVE  IsFiniteSet(Bytes(C)) /\ SizeOf(C) \in Nat
<1> DEFINE each == {{a} \X (1..Size[a]) : a \in C}
           f == [a \in C |-> {a} \X (1..Size[a])]
<1>1. f \in Surjection(C, each)
  BY DEF Surjection
<1> HIDE DEF f
<1>2. IsFiniteSet(each)
  <2> HIDE DEF each
  <2> QED BY <1>1, FS_Surjection
<1>3. ASSUME NEW a \in C PROVE IsFiniteSet({a} \X (1..Size[a]))
  <2>1. PICK n \in Nat : n = Size[a]
    BY SizesInBytes
  <2>2. IsFiniteSet({a})
    BY FS_Singleton
  <2>4. IsFiniteSet(1..n)
    BY FS_Interval
  <2>3. IsFiniteSet({a} \X (1..n))
    BY <2>2, <2>4, FS_Product
  <2> QED BY <2>1, <2>3
<1>4. \A b \in each : IsFiniteSet(b)
  BY <1>3
<1>5. Bytes(C) = UNION each
  BY DEF Bytes
<1> HIDE DEF each
<1>6. IsFiniteSet(Bytes(C))
  BY <1>2, <1>4, <1>5, FS_UNION
<1> QED BY <1>6, FS_CardinalityType DEF SizeOf

LEMMA SizeGrows ==
  ASSUME NEW D \in SUBSET Uploads, IsFiniteSet(D), NEW C \in SUBSET D
  PROVE  SizeOf(C) \in Nat /\ SizeOf(D) \in Nat /\ SizeOf(C) <= SizeOf(D)
<1>1. IsFiniteSet(C) /\ C \in SUBSET Uploads
  BY FS_Subset
<1>2. Bytes(C) \in SUBSET Bytes(D)
  BY DEF Bytes
<1>3. IsFiniteSet(Bytes(D)) /\ SizeOf(D) \in Nat
  BY BytesFinite
<1>4. SizeOf(C) \in Nat
  BY <1>1, BytesFinite
<1>5. Cardinality(Bytes(C)) <= Cardinality(Bytes(D))
  BY <1>2, <1>3, FS_Subset
<1> QED BY <1>3, <1>4, <1>5 DEF SizeOf

LEMMA SizeOfParts ==
  ASSUME NEW C \in SUBSET Uploads, IsFiniteSet(C),
         NEW D \in SUBSET Uploads, IsFiniteSet(D), C \cap D = {}
  PROVE  SizeOf(C \cup D) = SizeOf(C) + SizeOf(D)
<1>1. IsFiniteSet(Bytes(C)) /\ IsFiniteSet(Bytes(D)) /\ SizeOf(C) \in Nat /\ SizeOf(D) \in Nat
  BY BytesFinite
<1>2. Bytes(C \cup D) = Bytes(C) \cup Bytes(D)
  BY DEF Bytes
<1>3. Bytes(C) \cap Bytes(D) = {}
  <2>1. ASSUME NEW b \in Bytes(C), b \in Bytes(D) PROVE FALSE
    <3>1. PICK c \in C : b \in {c} \X (1..Size[c])
      BY DEF Bytes
    <3>2. PICK d \in D : b \in {d} \X (1..Size[d])
      BY <2>1 DEF Bytes
    <3>3. b[1] = c /\ b[1] = d
      BY <3>1, <3>2
    <3> QED BY <3>3
  <2> QED BY <2>1
<1>4. Cardinality(Bytes(C) \cup Bytes(D))
        = Cardinality(Bytes(C)) + Cardinality(Bytes(D)) - Cardinality(Bytes(C) \cap Bytes(D))
  BY <1>1, FS_Union
<1>5. Cardinality(Bytes(C) \cup Bytes(D)) = SizeOf(C) + SizeOf(D)
  BY <1>1, <1>3, <1>4, FS_EmptySet DEF SizeOf
<1> QED BY <1>2, <1>5 DEF SizeOf

(* What evictOverflow leaves of a total it read that was no less than what *)
(* the cache holds now is within the cap.                                  *)
LEMMA OldestEvicted ==
  ASSUME lru \in Seq(Uploads), Distinct(lru), NEW total \in Nat
  PROVE  LET rest == SubSeq(lru, Evicted(total) + 1, Len(lru))
         IN  /\ rest \in Seq(Uploads)
             /\ Distinct(rest)
             /\ ToSet(rest) \subseteq ToSet(lru)
             /\ TotalBytes <= total => SizeOf(ToSet(rest)) <= MaxBytes
<1>1. PICK n \in Nat : n = Len(lru)
  BY LenProperties
<1>2. DOMAIN lru = 1..n /\ \A i \in 1..n : lru[i] \in Uploads
  BY <1>1, LenProperties, ElementOfSeq
<1> DEFINE Oldest(i) == {lru[j] : j \in 1..i}
           K == {i \in 1..n : total - SizeOf(Oldest(i)) <= MaxBytes} \cup {n}
<1>3. PICK k \in K : k = Evicted(total)
  <2>1. K \in SUBSET Nat /\ K # {}
    OBVIOUS
  <2>2. Evicted(total) = Min(K)
    BY <1>1 DEF Evicted
  <2> HIDE DEF K
  <2>3. \E m \in K : \A i \in K : m <= i
    BY <2>1, LeastOf
  <2> QED BY <2>2, <2>3 DEF Min
<1>4. k \in 0..n /\ (k # n => k \in 1..n /\ total - SizeOf(Oldest(k)) <= MaxBytes)
  BY DEF K
<1> HIDE DEF K
<1> DEFINE rest == SubSeq(lru, k + 1, n)
<1>5. /\ rest \in Seq(Uploads) /\ Len(rest) = n - k
      /\ \A i \in 1..n - k : rest[i] = lru[k + i]
  <2>1. \A i \in k + 1..n : lru[i] \in Uploads
    BY <1>2, <1>4
  <2>2. /\ rest \in Seq(Uploads)
        /\ Len(rest) = IF k + 1 <= n THEN n - (k + 1) + 1 ELSE 0
        /\ \A i \in 1..n - (k + 1) + 1 : rest[i] = lru[(k + 1) + i - 1]
    BY <2>1, <1>4, SubSeqProperties
  <2> HIDE DEF rest
  <2>3. \A i \in 1..n - k : (k + 1) + i - 1 = k + i /\ i \in 1..n - (k + 1) + 1
    BY <1>4
  <2> QED BY <2>2, <2>3, <1>4
<1>6. DOMAIN rest = 1..n - k
  BY <1>5, <1>4, LenProperties
<1> HIDE DEF rest
<1>7. \A i, j \in 1..n : lru[i] = lru[j] => i = j
  BY <1>1 DEF Distinct
<1>8. \A i \in 1..n - k : k + i \in 1..n
  BY <1>4
<1>9. Distinct(rest)
  BY <1>4, <1>5, <1>7, <1>8 DEF Distinct
<1>10. ToSet(rest) \subseteq ToSet(lru)
  BY <1>2, <1>5, <1>6, <1>8 DEF ToSet
<1>11. ASSUME TotalBytes <= total PROVE SizeOf(ToSet(rest)) <= MaxBytes
  <2>1. CASE k = n
    <3>1. 1..n - k = {}
      BY <2>1
    <3>2. ToSet(rest) = {}
      BY <3>1, <1>6 DEF ToSet
    <3>3. SizeOf({}) = 0
      BY FS_EmptySet DEF SizeOf, Bytes
    <3> QED BY <3>2, <3>3, SizesInBytes
  <2>2. CASE k # n
    <3>1. IsFiniteSet(ToSet(lru)) /\ ToSet(lru) \in SUBSET Uploads
      BY RowsFinite
    <3>2. Oldest(k) \subseteq ToSet(lru)
      BY <1>2, <1>4 DEF ToSet
    <3>3. ToSet(lru) = Oldest(k) \cup ToSet(rest)
      <4>1. ASSUME NEW i \in 1..n PROVE lru[i] \in Oldest(k) \cup ToSet(rest)
        <5>1. CASE i <= k
          BY <5>1
        <5>2. CASE i > k
          <6>1. i - k \in 1..n - k /\ k + (i - k) = i
            BY <5>2, <1>4
          <6> QED BY <6>1, <1>5, <1>6 DEF ToSet
        <5> QED BY <5>1, <5>2, <1>4
      <4>2. ToSet(lru) \subseteq Oldest(k) \cup ToSet(rest)
        <5> HIDE DEF Oldest
        <5> QED BY <4>1, <1>2 DEF ToSet
      <4> QED BY <4>2, <3>2, <1>10
    <3>4. Oldest(k) \cap ToSet(rest) = {}
      <4>1. ASSUME NEW j \in 1..k, NEW i \in 1..n - k PROVE lru[j] # rest[i]
        <5>1. j \in 1..n /\ k + i \in 1..n /\ j # k + i
          BY <1>4
        <5> QED BY <5>1, <1>5, <1>7
      <4> QED BY <4>1, <1>6 DEF ToSet
    <3>5. IsFiniteSet(Oldest(k)) /\ IsFiniteSet(ToSet(rest))
      <4> HIDE DEF Oldest
      <4> QED BY <3>1, <3>2, <1>10, FS_Subset
    <3> HIDE DEF Oldest
    <3>6. SizeOf(Oldest(k)) \in Nat /\ SizeOf(ToSet(rest)) \in Nat
      BY <3>1, <3>2, <3>5, <1>10, BytesFinite
    <3>7. TotalBytes = SizeOf(Oldest(k)) + SizeOf(ToSet(rest))
      <4>1. SizeOf(Oldest(k) \cup ToSet(rest)) = SizeOf(Oldest(k)) + SizeOf(ToSet(rest))
        BY <3>1, <3>2, <3>4, <3>5, <1>10, SizeOfParts
      <4> QED BY <4>1, <3>3 DEF TotalBytes
    <3>8. total - SizeOf(Oldest(k)) <= MaxBytes
      BY <2>2, <1>4
    <3> QED BY <3>6, <3>7, <3>8, <1>11, SizesInBytes
  <2> QED BY <2>1, <2>2
<1> QED BY <1>1, <1>3, <1>5, <1>9, <1>10, <1>11 DEF rest

(* Whatever is over the cap when it is looked at, some call of             *)
(* putCiphertext has still to see: one that has not read the total yet, or *)
(* has read at least as much as there is and will delete the difference.   *)
(* Or else a call was cut off, and none has read the total since.          *)
StillEvicted ==
  TotalBytes > MaxBytes /\ ~cutOff => \E p \in puts : p.total = 0 \/ p.total >= TotalBytes

CacheInv ==
  /\ known \subseteq Uploads
  /\ lru \in Seq(Uploads) /\ Distinct(lru)
  /\ puts \subseteq [call: Writes, id: Uploads, total: Nat]
  /\ cutOff \in BOOLEAN
  /\ StillEvicted

LEMMA TotalIsNat ==
  ASSUME lru \in Seq(Uploads)
  PROVE  TotalBytes \in Nat
<1>1. IsFiniteSet(ToSet(lru)) /\ ToSet(lru) \in SUBSET Uploads
  BY RowsFinite
<1> QED BY <1>1, BytesFinite DEF TotalBytes

(* A row touched leaves what is cached, and so the sum, as it was.         *)
LEMMA CacheTouchKeeps ==
  ASSUME CacheInv, NEW a \in Uploads, UNCHANGED <<puts, cutOff>>, known' \subseteq Uploads,
         lru' = IF a \in ToSet(lru) THEN Touched(a) ELSE lru
  PROVE  CacheInv'
<1>1. lru' \in Seq(Uploads) /\ Distinct(lru') /\ ToSet(lru') = ToSet(lru)
  <2>1. CASE a \in ToSet(lru)
    <3>1. lru \in Seq(Uploads) /\ Distinct(lru) /\ lru' = Touched(a)
      BY <2>1 DEF CacheInv
    <3>2. Touched(a) \in Seq(Uploads) /\ Distinct(Touched(a)) /\ ToSet(Touched(a)) = ToSet(lru) \cup {a}
      BY <3>1, RowTouched
    <3>3. ToSet(lru) \cup {a} = ToSet(lru)
      BY <2>1
    <3> QED BY <3>1, <3>2, <3>3
  <2>2. CASE a \notin ToSet(lru)
    BY <2>2 DEF CacheInv
  <2> QED BY <2>1, <2>2
<1>2. TotalBytes' = TotalBytes
  BY <1>1 DEF TotalBytes
<1>3. StillEvicted'
  BY <1>2 DEF CacheInv, StillEvicted
<1> QED BY <1>1, <1>3 DEF CacheInv

(* A write is over the cap only with its own evictOverflow still to come.  *)
LEMMA CachePutKeeps ==
  ASSUME CacheInv, NEW w \in Writes, NEW a \in Uploads, PutCiphertext(w, a)
  PROVE  CacheInv'
<1>1. lru' \in Seq(Uploads) /\ Distinct(lru')
  BY RowTouched DEF CacheInv, PutCiphertext
<1>2. PICK p \in puts' : p = [call |-> w, id |-> a, total |-> 0]
  BY DEF PutCiphertext
<1>3. StillEvicted'
  BY <1>2 DEF StillEvicted
<1>4. puts' \subseteq [call: Writes, id: Uploads, total: Nat]
  BY DEF CacheInv, PutCiphertext
<1>5. known' \subseteq Uploads /\ cutOff' \in BOOLEAN
  BY DEF CacheInv, PutCiphertext, uploadVars
<1> QED BY <1>1, <1>3, <1>4, <1>5 DEF CacheInv

(* The total that is read is all there is, and a call that finds nothing   *)
(* to do leaves nothing over the cap.                                      *)
LEMMA CacheReadKeeps ==
  ASSUME CacheInv, NEW p \in puts, ReadTotal(p)
  PROVE  CacheInv'
<1>1. lru' = lru /\ known' = known /\ cutOff' = FALSE
  BY DEF ReadTotal, uploadVars
<1>2. TotalBytes' = TotalBytes /\ TotalBytes \in Nat /\ MaxBytes \in Nat
  BY <1>1, TotalIsNat, SizesInBytes DEF TotalBytes, CacheInv
<1>3. p \in [call: Writes, id: Uploads, total: Nat]
  BY DEF CacheInv
<1>4. CASE TotalBytes > MaxBytes
  <2> DEFINE q == [call |-> p.call, id |-> p.id, total |-> TotalBytes]
  <2>1. [p EXCEPT !.total = TotalBytes] = q
    BY <1>3
  <2>2. puts' = (puts \ {p}) \cup {q}
    BY <1>4, <2>1 DEF ReadTotal
  <2>3. q \in [call: Writes, id: Uploads, total: Nat] /\ q \in puts' /\ q.total >= TotalBytes
    BY <1>2, <1>3, <2>2
  <2>4. StillEvicted'
    BY <1>2, <2>3 DEF StillEvicted
  <2>5. puts' \subseteq [call: Writes, id: Uploads, total: Nat]
    BY <2>2, <2>3 DEF CacheInv
  <2> QED BY <1>1, <2>4, <2>5 DEF CacheInv
<1>5. CASE ~ (TotalBytes > MaxBytes)
  <2>1. StillEvicted'
    BY <1>2, <1>5 DEF StillEvicted
  <2>2. puts' \subseteq [call: Writes, id: Uploads, total: Nat]
    BY <1>5 DEF CacheInv, ReadTotal
  <2> QED BY <1>1, <2>1, <2>2 DEF CacheInv
<1> QED BY <1>4, <1>5

(* Deleting what one total asks for leaves either a cache within the cap,  *)
(* or another call that has still to see what came after that total.       *)
LEMMA CacheEvictKeeps ==
  ASSUME CacheInv, NEW p \in puts, Evict(p)
  PROVE  CacheInv'
<1>1. p \in [call: Writes, id: Uploads, total: Nat] /\ p.total \in Nat /\ p.total > 0
  BY DEF CacheInv, Evict
<1>2. known' = known /\ puts' = puts \ {p} /\ cutOff' = cutOff
  BY DEF Evict, uploadVars
<1>3. lru \in Seq(Uploads) /\ Distinct(lru) /\ MaxBytes \in Nat
  BY SizesInBytes DEF CacheInv
<1>4. TotalBytes \in Nat
  BY <1>3, TotalIsNat
<1>5. /\ lru' \in Seq(Uploads) /\ Distinct(lru') /\ ToSet(lru') \subseteq ToSet(lru)
      /\ TotalBytes <= p.total => TotalBytes' <= MaxBytes
  <2>1. CASE p.total <= MaxBytes
    <3>1. lru' = lru
      BY <2>1 DEF Evict
    <3>2. TotalBytes' = TotalBytes
      BY <3>1 DEF TotalBytes
    <3> QED BY <2>1, <3>1, <3>2, <1>1, <1>3, <1>4
  <2>2. CASE ~ (p.total <= MaxBytes)
    <3> DEFINE rest == SubSeq(lru, Evicted(p.total) + 1, Len(lru))
    <3>1. lru' = rest
      BY <2>2 DEF Evict
    <3>2. /\ rest \in Seq(Uploads) /\ Distinct(rest) /\ ToSet(rest) \subseteq ToSet(lru)
          /\ TotalBytes <= p.total => SizeOf(ToSet(rest)) <= MaxBytes
      <4>1. PICK total \in Nat : total = p.total
        BY <1>1
      <4>2. LET r == SubSeq(lru, Evicted(total) + 1, Len(lru))
            IN  /\ r \in Seq(Uploads) /\ Distinct(r) /\ ToSet(r) \subseteq ToSet(lru)
                /\ TotalBytes <= total => SizeOf(ToSet(r)) <= MaxBytes
        BY <1>3, OldestEvicted
      <4> QED BY <4>1, <4>2
    <3>3. TotalBytes' = SizeOf(ToSet(lru'))
      BY DEF TotalBytes
    <3> HIDE DEF rest
    <3> QED BY <3>1, <3>2, <3>3
  <2> QED BY <2>1, <2>2
<1>6. TotalBytes' \in Nat /\ TotalBytes' <= TotalBytes
  <2>1. IsFiniteSet(ToSet(lru)) /\ ToSet(lru) \in SUBSET Uploads
    BY <1>3, RowsFinite
  <2>2. PICK C \in SUBSET ToSet(lru) : C = ToSet(lru')
    BY <1>5
  <2>3. SizeOf(C) \in Nat /\ SizeOf(C) <= SizeOf(ToSet(lru))
    BY <2>1, SizeGrows
  <2> QED BY <2>2, <2>3 DEF TotalBytes
<1>7. StillEvicted'
  <2> SUFFICES ASSUME TotalBytes' > MaxBytes, ~cutOff'
               PROVE  \E q \in puts' : q.total = 0 \/ q.total >= TotalBytes'
    BY DEF StillEvicted
  <2>1. TotalBytes > MaxBytes /\ ~ (TotalBytes <= p.total) /\ ~cutOff
    BY <1>2, <1>3, <1>4, <1>5, <1>6
  <2>2. PICK q \in puts : q.total = 0 \/ q.total >= TotalBytes
    BY <2>1 DEF CacheInv, StillEvicted
  <2>3. q \in [call: Writes, id: Uploads, total: Nat]
    BY DEF CacheInv
  <2>4. q # p
    BY <1>1, <1>4, <2>1, <2>2
  <2>5. q.total = 0 \/ q.total >= TotalBytes'
    BY <1>4, <1>6, <2>2, <2>3
  <2> QED BY <1>2, <2>4, <2>5
<1>8. /\ known' \subseteq Uploads /\ puts' \subseteq [call: Writes, id: Uploads, total: Nat]
      /\ cutOff' \in BOOLEAN
  BY <1>2 DEF CacheInv
<1> QED BY <1>5, <1>7, <1>8 DEF CacheInv

(* A call that is cut off leaves its row to whoever reads the total next.  *)
LEMMA CacheCutKeeps ==
  ASSUME CacheInv, NEW p \in puts, PutCutOff(p)
  PROVE  CacheInv'
<1>1. known' = known /\ lru' = lru /\ puts' = puts \ {p} /\ cutOff' = TRUE
  BY DEF PutCutOff, uploadVars
<1>2. StillEvicted'
  BY <1>1 DEF StillEvicted
<1> QED BY <1>1, <1>2 DEF CacheInv

(* The server and the reader touch neither the table nor the calls.        *)
LEMMA CacheOthersKeep ==
  ASSUME CacheInv, known' \subseteq Uploads, lru' = lru, UNCHANGED <<puts, cutOff>>
  PROVE  CacheInv'
BY DEF CacheInv, StillEvicted, TotalBytes

(* What the cache's calls (putCiphertext, getByAttachmentId, evictOverflow)*)
(* keep however they interleave and wherever one is cut off: one row per   *)
(* upload, and no byte over the cap that no call is going to look at,      *)
(* unless one was cut off and none has read the total since.               *)
THEOREM CacheInvariant == AttachmentsSpec => []CacheInv
<1>1. AttachmentsInit => CacheInv
  <2> SUFFICES ASSUME AttachmentsInit PROVE CacheInv
    OBVIOUS
  <2>1. lru = <<>> /\ known = {} /\ puts = {} /\ cutOff = FALSE
    BY DEF AttachmentsInit
  <2>2. lru \in Seq(Uploads) /\ Len(lru) = 0 /\ DOMAIN lru = 1..0
    BY <2>1, EmptySeq, LenProperties
  <2>3. ToSet(lru) = {} /\ Distinct(lru)
    BY <2>2 DEF ToSet, Distinct
  <2>4. TotalBytes = 0
    BY <2>3, FS_EmptySet DEF TotalBytes, SizeOf, Bytes
  <2>5. StillEvicted
    BY <2>4, SizesInBytes DEF StillEvicted
  <2> QED BY <2>1, <2>2, <2>3, <2>5 DEF CacheInv
<1>2. CacheInv /\ [AttachmentsNext]_attachmentVars => CacheInv'
  <2> SUFFICES ASSUME CacheInv, [AttachmentsNext]_attachmentVars PROVE CacheInv'
    OBVIOUS
  <2>0. known \subseteq Uploads
    BY DEF CacheInv
  <2>1. CASE UNCHANGED attachmentVars
    <3>1. known' = known /\ lru' = lru /\ UNCHANGED <<puts, cutOff>>
      BY <2>1 DEF attachmentVars, uploadVars, cacheVars
    <3> QED BY <3>1, <2>0, CacheOthersKeep
  <2>2. ASSUME NEW a \in Uploads,
               \/ Post(a) \/ InsertAttachment(a) \/ PutObject(a) \/ PostFails(a)
               \/ ReferenceReturned(a) \/ Vanish(a)
        PROVE  CacheInv'
    <3>1. known' \subseteq Uploads /\ lru' = lru /\ UNCHANGED <<puts, cutOff>>
      BY <2>0, <2>2 DEF Post, InsertAttachment, PutObject, PostFails, ReferenceReturned, Vanish,
                 PostAs, cacheVars
    <3> QED BY <3>1, CacheOthersKeep
  <2>3. ASSUME NEW a \in Uploads,
               View(a) \/ ReadRow(a) \/ HeadObject(a) \/ GetFails(a) \/ Unview(a)
        PROVE  CacheInv'
    <3>1. known' = known /\ lru' = lru /\ UNCHANGED <<puts, cutOff>>
      BY <2>3 DEF View, ReadRow, HeadObject, GetFails, Unview, uploadVars, cacheVars
    <3> QED BY <3>1, <2>0, CacheOthersKeep
  <2>4. ASSUME NEW a \in Uploads, GetByAttachmentId(a) \/ GetObject(a) PROVE CacheInv'
    <3>1. /\ known' = known /\ UNCHANGED <<puts, cutOff>>
          /\ lru' = IF a \in ToSet(lru) THEN Touched(a) ELSE lru
      BY <2>4 DEF GetByAttachmentId, GetObject, uploadVars
    <3> QED BY <3>1, <2>0, CacheTouchKeeps
  <2>5. ASSUME NEW w \in Writes, NEW a \in Uploads, PutCiphertext(w, a) PROVE CacheInv'
    BY <2>5, CachePutKeeps
  <2>6. ASSUME NEW p \in puts, ReadTotal(p) PROVE CacheInv'
    BY <2>6, CacheReadKeeps
  <2>7. ASSUME NEW p \in puts, Evict(p) PROVE CacheInv'
    BY <2>7, CacheEvictKeeps
  <2>8. ASSUME NEW p \in puts, PutCutOff(p) PROVE CacheInv'
    BY <2>8, CacheCutKeeps
  <2>9. CASE AttachmentsNext
    BY <2>9, <2>2, <2>3, <2>4, <2>5, <2>6, <2>7, <2>8 DEF AttachmentsNext
  <2> QED BY <2>1, <2>9
<1> QED BY <1>1, <1>2, PTL DEF AttachmentsSpec

(* Once no putCiphertext is under way the cache is within its cap, for any *)
(* uploads of any sizes and any number of calls of one attachment at once, *)
(* although each reads the total in one step and deletes by it in a later  *)
(* one, unless one was cut off and none has read the total since.          *)
THEOREM CacheSettlesWithin == AttachmentsSpec => []CacheSettles
<1>1. CacheInv => CacheSettles
  <2> SUFFICES ASSUME CacheInv, puts = {}, ~cutOff PROVE TotalBytes <= MaxBytes
    BY DEF CacheSettles
  <2>1. TotalBytes \in Nat /\ MaxBytes \in Nat
    BY TotalIsNat, SizesInBytes DEF CacheInv
  <2>2. ~ (TotalBytes > MaxBytes)
    BY DEF CacheInv, StillEvicted
  <2> QED BY <2>1, <2>2
<1> QED BY <1>1, CacheInvariant, PTL
=============================================================================
