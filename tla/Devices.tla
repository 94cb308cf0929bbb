------------------------------- MODULE Devices -------------------------------
(***************************************************************************)
(* The devices of one user and their one-time prekeys: enrollment          *)
(* (apps/web/src/features/devices/enrollment.ts), replenishment            *)
(* (features/auth/opkReplenishment.ts), the key store in IndexedDB         *)
(* (packages/crypto/src/prekeys.ts, db/repositories/prekeys.ts) and the    *)
(* routes of apps/api/src/routes/devices.ts and prekeys.ts.                *)
(*                                                                         *)
(* The tabs of a browser share its key store and its localStorage, and the *)
(* timer of a tab starts a check while the one before it is under way.  So *)
(* the actors are tasks: an enrolment, a check or a revocation that some   *)
(* tab of the browser has begun, several at a time.  Each await of the     *)
(* client and each SQL statement of the server is a step.  The signed      *)
(* prekey, minted with the first one-time prekey and never replaced on the *)
(* server (the route does not exist), is not kept apart.                   *)
(***************************************************************************)
EXTENDS Naturals, FiniteSets, Sequences

CONSTANTS
  Browsers,
  Tasks,                    \* what may be under way at a time
  BrowserOf,                \* the browser of each task
  MaxDevices,               \* deps.maxDevicesPerUser
  Threshold, Target,        \* of unused one-time prekeys
  MaxEnrolled,              \* bound: device rows ever inserted
  MaxMinted                 \* bound: prekeys a browser mints

ASSUME DevicesAssumption ==
  /\ BrowserOf \in [Tasks -> Browsers]
  /\ Threshold \in Nat /\ Target \in Nat \ {0} /\ Threshold <= Target

NoDevice == 0
Idle == [at |-> "idle"]

VARIABLES
  store,                    \* the prekey rows of each browser
  minted,                   \* how many prekeys it has generated
  cached,                   \* konvo:deviceId in its localStorage
  task,                     \* what each task is doing
  devices,                  \* the devices table: the browser of each row
  pool,                     \* one_time_prekeys of every device ever inserted
  conflict,                 \* history: browsers of which an upload met
                            \* UNIQUE (device_id, key_id)
  overlapped                \* history: browsers of which two tasks took one key
                            \* id at once, one wiped keys of another, or one
                            \* enrolled while another was about to wipe

devicesVars == <<store, minted, cached, task, devices, pool, conflict, overlapped>>

Enrolled == DOMAIN devices

DevicesInit ==
  /\ store = [b \in Browsers |-> {}]
  /\ minted = [b \in Browsers |-> 0]
  /\ cached = [b \in Browsers |-> NoDevice]
  /\ task = [t \in Tasks |-> Idle]
  /\ devices = <<>>
  /\ pool = <<>>
  /\ conflict = {} /\ overlapped = {}

SetTask(t, r) == task' = [task EXCEPT ![t] = r]
Unused(b) == {k \in store[b] : ~k.used}

----------------------------------------------------------------------------
(* enrollDeviceIfNeeded and generateInitialBundle.                         *)

Minting(want, dev) == [at |-> "mint", want |-> want, bundle |-> <<>>, dev |-> dev,
                       enrols |-> dev = NoDevice, id |-> 0]

(* A task has keys, or will have some, that are not yet all uploaded.      *)
Busy(t) == task[t].at \in {"mint", "save", "admitted", "insert"}

Beside(t) == {u \in Tasks \ {t} : BrowserOf[u] = BrowserOf[t]}
Overlaps(b, crossed) == overlapped' = IF crossed THEN overlapped \cup {b} ELSE overlapped

\* Mutant of Enroll: the cached device id is not looked at.
EnrollAgain(t) ==
  /\ task[t] = Idle
  /\ SetTask(t, [at |-> "check", retried |-> FALSE])
  /\ UNCHANGED <<store, minted, cached, devices, pool, conflict, overlapped>>

Enroll(t) ==
  /\ task[t] = Idle
  /\ cached[BrowserOf[t]] = NoDevice
  /\ SetTask(t, [at |-> "check", retried |-> FALSE])
  /\ UNCHANGED <<store, minted, cached, devices, pool, conflict, overlapped>>

(* A store that is not empty is wiped once; the second time it throws.     *)
CheckStore(t) ==
  /\ task[t].at = "check"
  /\ SetTask(t, CASE store[BrowserOf[t]] = {} -> Minting(Target, NoDevice)
                 [] store[BrowserOf[t]] # {} /\ task[t].retried -> Idle
                 [] OTHER -> [at |-> "wipe"])
  /\ UNCHANGED <<store, minted, cached, devices, pool, conflict, overlapped>>

Wipe(t) ==
  LET b == BrowserOf[t]
  IN /\ task[t].at = "wipe"
     /\ store' = [store EXCEPT ![b] = {}]
     /\ SetTask(t, [at |-> "check", retried |-> TRUE])
     /\ Overlaps(b, \E u \in Beside(t) : Busy(u))
     /\ UNCHANGED <<minted, cached, devices, pool, conflict>>

(* checkAndReplenishOpks: below the threshold, mint up to the target.      *)
Replenish(t) ==
  LET b == BrowserOf[t]
      left == Cardinality(Unused(b))
  IN /\ task[t] = Idle
     /\ cached[b] # NoDevice
     /\ left < Threshold
     /\ SetTask(t, Minting(Target - left, cached[b]))
     /\ UNCHANGED <<store, minted, cached, devices, pool, conflict, overlapped>>

\* Mutant of NextKeyId: numbered from one within each batch.
NextInBatch(t) == 1 + Len(task[t].bundle)

(* buildOneTimePreKey takes the next key id, and the row is added later.   *)
NextKeyId(t) ==
  LET ids == {k.id : k \in store[BrowserOf[t]]} \cup {0}
  IN 1 + CHOOSE n \in ids : \A m \in ids : m <= n

Allocate(t) ==
  /\ task[t].at = "mint"
  /\ Len(task[t].bundle) < task[t].want
  /\ minted[BrowserOf[t]] < MaxMinted
  /\ SetTask(t, [task[t] EXCEPT !.at = "save", !.id = NextKeyId(t)])
  /\ UNCHANGED <<store, minted, cached, devices, pool, conflict, overlapped>>

(* A row of its own (++id), whether or not another has this key id.        *)
SaveKey(t) ==
  LET b == BrowserOf[t]
      key == [id |-> task[t].id, secret |-> minted[b] + 1]
  IN /\ task[t].at = "save"
     /\ minted' = [minted EXCEPT ![b] = @ + 1]
     /\ store' = [store EXCEPT ![b] =
          @ \cup {[id |-> key.id, secret |-> key.secret, used |-> FALSE]}]
     /\ SetTask(t, [task[t] EXCEPT !.at = "mint", !.id = 0, !.bundle = Append(@, key)])
     /\ Overlaps(b, \E u \in Beside(t) : task[u].at = "save" /\ task[u].id = key.id)
     /\ UNCHANGED <<cached, devices, pool, conflict>>

----------------------------------------------------------------------------
(* POST /devices and POST /devices/:id/prekeys.                            *)

Ready(t) == task[t].at = "mint" /\ Len(task[t].bundle) = task[t].want

CountDevices(t) ==
  /\ Ready(t)
  /\ task[t].dev = NoDevice
  /\ SetTask(t, IF Cardinality(Enrolled) >= MaxDevices THEN Idle
               ELSE [task[t] EXCEPT !.at = "admitted"])
  /\ UNCHANGED <<store, minted, cached, devices, pool, conflict, overlapped>>

InsertDevice(t) ==
  /\ task[t].at = "admitted"
  /\ Len(pool) < MaxEnrolled
  /\ pool' = Append(pool, <<>>)
  /\ devices' = [d \in Enrolled \cup {Len(pool')} |->
                  IF d = Len(pool') THEN BrowserOf[t] ELSE devices[d]]
  /\ SetTask(t, [task[t] EXCEPT !.at = "insert", !.dev = Len(pool')])
  /\ UNCHANGED <<store, minted, cached, conflict, overlapped>>

CheckOwner(t) ==
  /\ Ready(t)
  /\ task[t].dev # NoDevice
  /\ SetTask(t, IF task[t].dev \in Enrolled
               THEN [task[t] EXCEPT !.at = "insert"] ELSE Idle)
  /\ UNCHANGED <<store, minted, cached, devices, pool, conflict, overlapped>>

(* The next key of the batch; a taken key id or a device that is gone is   *)
(* an error, and what was inserted before it stays.                        *)
InsertKey(t) ==
  LET d == task[t].dev
      key == Head(task[t].bundle)
      taken == d \in Enrolled /\ \E i \in DOMAIN pool[d] : pool[d][i].id = key.id
  IN /\ task[t].at = "insert"
     /\ task[t].bundle # <<>>
     /\ IF taken \/ d \notin Enrolled
        THEN SetTask(t, Idle) /\ UNCHANGED pool
        ELSE /\ pool' = [pool EXCEPT ![d] = Append(@,
                  [id |-> key.id, secret |-> key.secret, given |-> 0, used |-> FALSE])]
             /\ SetTask(t, [task[t] EXCEPT !.bundle = Tail(@)])
     /\ conflict' = IF taken THEN conflict \cup {BrowserOf[t]} ELSE conflict
     /\ UNCHANGED <<store, minted, cached, devices, overlapped>>

(* The reply; that of an enrolment brings the device id, which is cached.  *)
UploadAnswered(t) ==
  /\ task[t].at = "insert"
  /\ task[t].bundle = <<>>
  /\ cached' = [cached EXCEPT ![BrowserOf[t]] = IF task[t].enrols THEN task[t].dev ELSE @]
  /\ SetTask(t, Idle)
  /\ Overlaps(BrowserOf[t],
       task[t].enrols /\ \E u \in Beside(t) : task[u].at \in {"check", "wipe"})
  /\ UNCHANGED <<store, minted, devices, pool, conflict>>

(* A task ends at any step: by a reload, a request or a reply that is      *)
(* lost, an error of the database or a crash of the server in the middle   *)
(* of the statements of a batch.  Nothing is undone, and a reload does not *)
(* end what the server has begun: the task goes on beside the next ones.   *)
Abandon(t) ==
  /\ task[t] # Idle
  /\ SetTask(t, Idle)
  /\ UNCHANGED <<store, minted, cached, devices, pool, conflict, overlapped>>

----------------------------------------------------------------------------
(* GET prekey-bundle: a single UPDATE takes the oldest unused prekey.      *)

GiveFirst(d, free) ==
  LET i == CHOOSE i \in free : \A j \in free : i <= j
  IN pool' = [pool EXCEPT ![d][i].used = TRUE, ![d][i].given = @ + 1]

\* Mutant of FetchBundle: the sub-select does not skip used prekeys.
FetchAny(d) ==
  /\ DOMAIN pool[d] # {}
  /\ GiveFirst(d, DOMAIN pool[d])
  /\ pool'[d][1].given < 3
  /\ UNCHANGED <<store, minted, cached, task, devices, conflict, overlapped>>

FetchBundle(d) ==
  LET free == {i \in DOMAIN pool[d] : ~pool[d][i].used}
  IN /\ free # {}
     /\ GiveFirst(d, free)
     /\ UNCHANGED <<store, minted, cached, task, devices, conflict, overlapped>>

(* markOpkUsed: the first message of a peer that was given the prekey.     *)
Accept(b) ==
  /\ cached[b] \in Enrolled
  /\ \E i \in DOMAIN pool[cached[b]] :
       LET key == pool[cached[b]][i]
       IN /\ key.used
          /\ \E k \in Unused(b) : k.id = key.id
          /\ store' = [store EXCEPT ![b] =
               {IF k.id = key.id THEN [k EXCEPT !.used = TRUE] ELSE k : k \in @}]
  /\ UNCHANGED <<minted, cached, task, devices, pool, conflict, overlapped>>

(* DELETE /devices/:id cascades; then the id is dropped if it was ours.    *)
Revoke(t) ==
  /\ task[t] = Idle
  /\ \E d \in Enrolled :
       /\ devices' = [e \in Enrolled \ {d} |-> devices[e]]
       /\ pool' = [pool EXCEPT ![d] = <<>>]
       /\ SetTask(t, [at |-> "revoked", dev |-> d])
  /\ UNCHANGED <<store, minted, cached, conflict, overlapped>>

Revoked(t) ==
  /\ task[t].at = "revoked"
  /\ cached' = [cached EXCEPT ![BrowserOf[t]] = IF @ = task[t].dev THEN NoDevice ELSE @]
  /\ SetTask(t, Idle)
  /\ UNCHANGED <<store, minted, devices, pool, conflict, overlapped>>

DevicesNext ==
  \/ \E t \in Tasks :
       \/ Enroll(t) \/ CheckStore(t) \/ Wipe(t) \/ Replenish(t) \/ Allocate(t)
       \/ SaveKey(t) \/ CountDevices(t) \/ InsertDevice(t) \/ CheckOwner(t)
       \/ InsertKey(t) \/ UploadAnswered(t) \/ Abandon(t) \/ Revoke(t) \/ Revoked(t)
  \/ \E d \in Enrolled : FetchBundle(d)
  \/ \E b \in Browsers : Accept(b)

DevicesSpec == DevicesInit /\ [][DevicesNext]_devicesVars

----------------------------------------------------------------------------
(* Properties.                                                             *)

Held(b, key) == \E k \in store[b] : k.id = key.id /\ k.secret = key.secret

(* A prekey is given to one peer (routes/prekeys.ts: two concurrent        *)
(* readers can never return the same OPK twice).                           *)
GivenOnce == \A d \in Enrolled : \A i \in DOMAIN pool[d] : pool[d][i].given <= 1

(* Every prekey the server hands out for the device a browser believes to  *)
(* be is one whose private half that browser holds, whatever was lost, and *)
(* wherever a batch stopped; unless two tasks of the browser overlapped in *)
(* one of the three ways that `overlapped` records.                        *)
ServedKeysHeld ==
  \A b \in Browsers \ overlapped : cached[b] \in Enrolled =>
    \A i \in DOMAIN pool[cached[b]] : Held(b, pool[cached[b]][i])

(* An upload, of which the first part may have been stored, and others may *)
(* be under way, meets a key id that is taken (routes/devices.ts: clients  *)
(* allocate monotonically increasing keyIds) only in those cases.          *)
NoConflict == conflict \subseteq overlapped

(* Concurrent saves cannot collide (db/repositories/prekeys.ts:50-53).     *)
KeyIdsApart == \A b \in Browsers : \A j, k \in store[b] : j.id = k.id => j = k

=============================================================================
