------------------------------ MODULE Session ------------------------------
(***************************************************************************)
(* Two devices that exchange messages through the ratchet:                 *)
(* apps/web/src/features/dm/controller.ts over the session store           *)
(* (db/repositories/sessions.ts, packages/crypto/src/store.ts).            *)
(*                                                                         *)
(* sendMessage and handleInbound load the session, run the ratchet and     *)
(* save the result across awaits; a job is one such call, suspended        *)
(* between two of them; nothing serialises the jobs of a device.  The      *)
(* server keeps every envelope and may deliver it late, out of order,      *)
(* again, or never.  A reload forgets the jobs.                            *)
(***************************************************************************)
EXTENDS Ratchet, FiniteSets

CONSTANTS
  AtOnce,                   \* calls of a device that may overlap
  MaxSends                  \* bound: how many messages each device sends

Alice == "alice"
Bob == "bob"
Ends == {Alice, Bob}

ASSUME SessionAssumptions ==
  /\ MaxSkipped \in Nat \ {0}
  /\ AtOnce \in Nat \ {0}
  /\ MaxSends \in [Ends -> Nat]

Peer(d) == IF d = Alice THEN Bob ELSE Alice
Slots == 1..AtOnce
MessageIds == 1..(MaxSends[Alice] + MaxSends[Bob])
NoCall == [at |-> "idle"]

VARIABLES
  session,                  \* the persisted ratchet state of each device
  job,                      \* the calls in progress
  wire,                     \* the envelopes each device has sent
  messageRows,              \* the message rows of each device
  opened,                   \* history: the messages decrypted and saved
  sealed,                   \* history: the envelopes sealed, sent or not
  refused,                  \* history: never opened, answered otherwise
  excused,                  \* history: devices that were overrun or misled
  overwritten               \* history: how often a device saved a session over
                            \* one that another call had changed meanwhile

sessionVars ==
  <<session, job, wire, messageRows, opened, sealed, refused, excused, overwritten>>

sessionHistory == <<opened, sealed, refused, excused, overwritten>>

Overwrites(d, i) == IF session[d] = job[d][i].state THEN overwritten[d] ELSE overwritten[d] + 1

(* A fresh key pair, named by its owner and the depth of the root, which   *)
(* never comes back but by a save that overwrites another.                 *)
FreshKey(d, i) == <<d, Len(job[d][i].state.rootKey), Overwrites(d, i)>>

InitialRatchets(opk) ==
  LET bundle == [ik |-> <<"ikB">>, spk |-> <<"spk">>, opk |-> opk]
      init == [ik |-> <<"ikA">>, ek |-> <<"ek">>, opk |-> opk]
  IN [d \in Ends |->
        IF d = Alice
        THEN InitSenderRatchet(
               EstablishSession(init.ik, init.ek, bundle), bundle.spk, <<Alice>>)
        ELSE InitReceiverRatchet(
               AcceptSession(bundle.ik, bundle.spk, opk, init), bundle.spk)]

SessionInit ==
  /\ session \in {InitialRatchets(opk) : opk \in {NoKey, <<"opk">>}}
  /\ job = [d \in Ends |-> [i \in Slots |-> NoCall]]
  /\ wire = [d \in Ends |-> {}]
  /\ messageRows = [d \in Ends |-> [id \in MessageIds |-> {}]]
  /\ opened = [d \in Ends |-> {}]
  /\ sealed = [d \in Ends |-> {}]
  /\ refused = [d \in Ends |-> {}]
  /\ excused = {}
  /\ overwritten = [d \in Ends |-> 0]

SetJob(d, i, j) == job' = [job EXCEPT ![d][i] = j]
LoadSession(d) == session[d]
SaveSession(d, i, s) ==
  /\ session' = [session EXCEPT ![d] = s]
  /\ overwritten' = [overwritten EXCEPT ![d] = Overwrites(d, i)]

----------------------------------------------------------------------------
(* sendMessage and retry: per recipient device, load, encrypt, save, then  *)
(* hand the envelope to the outbox.                                        *)

StartSend(d, i) ==
  /\ job[d][i] = NoCall
  /\ Cardinality(sealed[d]) < MaxSends[d]
  /\ SetJob(d, i, [at |-> "sealing", state |-> LoadSession(d)])
  /\ UNCHANGED <<session, wire, messageRows, sessionHistory>>

(* A device that has received nothing yet has no sending chain: it throws. *)
SendThrows(d, i) ==
  /\ job[d][i].at = "sealing"
  /\ job[d][i].state.sendingKey = NoKey
  /\ SetJob(d, i, NoCall)
  /\ UNCHANGED <<session, wire, messageRows, sessionHistory>>

\* Mutant of EncryptForDevice: the envelope goes out, the session is not saved.
EncryptUnsaved(d, i) ==
  LET s == job[d][i].state
      id == Cardinality(sealed[d]) + 1
  IN /\ job[d][i].at = "sealing"
     /\ s.sendingKey # NoKey
     /\ id <= MaxSends[d]
     /\ SetJob(d, i, [at |-> "sealed", msg |-> Seal(s, id)])
     /\ sealed' = [sealed EXCEPT ![d] = @ \cup {Seal(s, id)}]
     /\ UNCHANGED <<session, overwritten, excused, wire, messageRows, opened, refused>>

EncryptForDevice(d, i) ==
  LET s == job[d][i].state
      id == Cardinality(sealed[d]) + 1
      outstanding == (sealed[d] \cup {Seal(s, id)}) \ opened[Peer(d)]
  IN /\ job[d][i].at = "sealing"
     /\ s.sendingKey # NoKey
     /\ id <= MaxSends[d]
     /\ SaveSession(d, i, Sealed(s))
     /\ SetJob(d, i, [at |-> "sealed", msg |-> Seal(s, id)])
     /\ sealed' = [sealed EXCEPT ![d] = @ \cup {Seal(s, id)}]
     /\ excused' = IF Cardinality(outstanding) > MaxSkipped + 1
                   THEN excused \cup {Peer(d)} ELSE excused
     /\ UNCHANGED <<wire, messageRows, opened, refused>>

EnqueueSealed(d, i) ==
  /\ job[d][i].at = "sealed"
  /\ wire' = [wire EXCEPT ![d] = @ \cup {job[d][i].msg}]
  /\ SetJob(d, i, NoCall)
  /\ UNCHANGED <<session, messageRows, sessionHistory>>

----------------------------------------------------------------------------
(* handleInbound: load, decrypt, save whatever came out, then the row.     *)

StartInbound(d, i) ==
  /\ job[d][i] = NoCall
  /\ \E m \in wire[Peer(d)] :
       SetJob(d, i, [at |-> "opening", state |-> LoadSession(d), msg |-> m])
  /\ UNCHANGED <<session, wire, messageRows, sessionHistory>>

(* Above the loss threshold nothing is verified.  An old envelope then     *)
(* costs the device its chain, or moves its root to where its peer is not. *)
Misled(d, s, m, result) ==
  IF result.kind # "lost" THEN {}
  ELSE IF result.state.rootKey # s.rootKey /\ m.key.chain # Front(result.state.rootKey)
  THEN Ends
  ELSE IF m \in opened[d] THEN {d} ELSE {}

SaveInbound(d, i) ==
  LET m == job[d][i].msg
      result == DecryptFromDevice(job[d][i].state, m, FreshKey(d, i))
  IN /\ job[d][i].at = "opening"
     /\ SaveSession(d, i, result.state)
     /\ SetJob(d, i, IF result.kind \in {"ok", "invalid"}
                     THEN [at |-> result.kind, msg |-> m] ELSE NoCall)
     /\ IF result.kind = "ok"
        THEN /\ opened' = [opened EXCEPT ![d] = @ \cup {m}]
             /\ UNCHANGED <<refused, excused>>
        ELSE /\ refused' = [refused EXCEPT ![d] = @ \cup ({m} \ opened[d])]
             /\ excused' = excused \cup Misled(d, job[d][i].state, m, result)
             /\ UNCHANGED opened
     /\ UNCHANGED <<wire, messageRows, sealed>>

(* insertIncoming, with the body or with the placeholder.                  *)
InsertRow(d, i) ==
  LET id == job[d][i].msg.id
      row == CASE job[d][i].at = "invalid" -> "tampered"
               [] job[d][i].at = "ok" /\ "delivered" \in messageRows[d][id] -> "repeated"
               [] OTHER -> "delivered"
  IN /\ job[d][i].at \in {"ok", "invalid"}
     /\ messageRows' = [messageRows EXCEPT ![d][id] = @ \cup {row}]
     /\ SetJob(d, i, NoCall)
     /\ UNCHANGED <<session, wire, sessionHistory>>

(* The page is reloaded: what is persisted stays, the calls are gone.      *)
Reload(d) ==
  /\ \E i \in Slots : job[d][i] # NoCall
  /\ job' = [job EXCEPT ![d] = [i \in Slots |-> NoCall]]
  /\ UNCHANGED <<session, wire, messageRows, sessionHistory>>

SessionNext ==
  \E d \in Ends :
    \/ Reload(d)
    \/ \E i \in Slots :
         \/ StartSend(d, i) \/ SendThrows(d, i) \/ EncryptForDevice(d, i)
         \/ EnqueueSealed(d, i) \/ StartInbound(d, i) \/ SaveInbound(d, i)
         \/ InsertRow(d, i)

SessionSpec == SessionInit /\ [][SessionNext]_sessionVars

----------------------------------------------------------------------------
(* Properties.                                                             *)

Sent == UNION {wire[d] : d \in Ends}
Intact == {d \in Ends : overwritten[d] = 0}

(* A message key seals one envelope (ratchet.ts, expandMessageKey: the key *)
(* and IV are single-use), whatever reloads fall between saving the        *)
(* session and sending, and however calls overlap, as long as none of the  *)
(* device saves its session over what another has saved since it loaded.   *)
KeyUsedOnce == \A d \in Intact : \A m1 \in wire[d], m2 \in Sent : m1.key = m2.key => m1 = m2

(* The same of every device (dm/controller.ts:60-66: two concurrent sends  *)
(* to the same peer device would race on the chain counter; we serialise   *)
(* per device by iterating the recipients array).                          *)
EachKeyOnce == \A m1, m2 \in Sent : m1.key = m2.key => m1 = m2

(* However often and in whatever order an envelope is delivered, it adds   *)
(* at most one row with its body (req 4.12), at a device of which no call  *)
(* overwrote the session another had saved.                                *)
ShownOnce == \A d \in Intact : \A id \in MessageIds : "repeated" \notin messageRows[d][id]

(* A genuine envelope is turned down before it was ever opened only at a   *)
(* device with more than MaxSkipped others outstanding, or one misled by   *)
(* an old envelope; if that moved its root, at either end; unless a call   *)
(* of either overwrote the session that another had saved.                 *)
OnlyOverrunRefuses == Intact = Ends => \A d \in Ends : refused[d] # {} => d \in excused

=============================================================================
