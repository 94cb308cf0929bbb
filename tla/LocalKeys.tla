------------------------------ MODULE LocalKeys ------------------------------
(***************************************************************************)
(* The keys one browser keeps in IndexedDB: its identity, the key that     *)
(* wraps every private key (KEK), the signed prekeys and their rotation    *)
(* (packages/crypto/src/identity.ts, prekeys.ts; apps/web/src/db/          *)
(* repositories/identity.ts, prekeys.ts; features/devices/enrollment.ts;   *)
(* features/auth/opkReplenishment.ts), and the encrypted backup of all of  *)
(* them (features/settings/key-backup.ts).                                 *)
(*                                                                         *)
(* A worker is an asynchronous call under way in some tab; each of its     *)
(* awaits is a step, and a reload may end it at any.  Keys are numbered.   *)
(* One-time prekeys are minted and wrapped as the signed ones are and are  *)
(* the subject of Devices; sessions are copied into a backup unread.       *)
(***************************************************************************)
EXTENDS Naturals, Sequences

CONSTANTS
  Workers,
  MaxMade,                  \* bound: keys ever generated
  MaxDevices                \* bound: POST /devices accepted

VARIABLES
  kek,                      \* table aesKwKeys, 0 when empty
  identity,                 \* table identity: the key, and the KEK it is under
  prekeys,                  \* the signed rows of table prekeys
  lastRotated,              \* the cached time of the last rotation
  cachedId,                 \* konvo:deviceId
  served,                   \* what the server gives out for each device
  worker,
  made,                     \* keys generated so far
  backup, restored,         \* the newest backup, and what an import of it gave
  overlapped                \* history: two enrolments ran at once

storedVars == <<kek, identity, prekeys, lastRotated, cachedId>>
backupVars == <<backup, restored>>
keyVars == <<storedVars, served, worker, made, backupVars, overlapped>>

NoIdentity == [key |-> 0, under |-> 0]
NoBackup == [device |-> 0, identity |-> 0, keys |-> {}]
Idle == [at |-> "idle", job |-> "none"]

KeysInit ==
  /\ kek = 0 /\ identity = NoIdentity /\ prekeys = {} /\ lastRotated = "unknown"
  /\ cachedId = 0 /\ served = <<>>
  /\ worker = [w \in Workers |-> Idle]
  /\ made = 0
  /\ backup = NoBackup /\ restored = NoBackup
  /\ overlapped = FALSE

SetWorker(w, r) == worker' = [worker EXCEPT ![w] = r]
GoTo(w, at) == SetWorker(w, [worker[w] EXCEPT !.at = at])
Fresh == made + 1
Make == made < MaxMade /\ made' = Fresh

----------------------------------------------------------------------------
(* getOrCreateIdentity and getOrCreateAesKwKey.                            *)

(* loadWrappedIdentity: the row, or a new key pair on the first run.       *)
LoadIdentity(w) ==
  /\ worker[w].at = "load"
  /\ IF identity = NoIdentity
     THEN Make /\ SetWorker(w, [worker[w] EXCEPT !.at = "kek", !.own.key = Fresh])
     ELSE UNCHANGED made /\ SetWorker(w, [worker[w] EXCEPT !.at = "kek", !.own = identity])
  /\ UNCHANGED <<storedVars, served, backupVars, overlapped>>

(* With the KEK k the identity is wrapped, or unwrapped, which throws when *)
(* another KEK wrapped it; the second call hands the KEK to the caller.    *)
WithKek(w, k) ==
  LET r == [worker[w] EXCEPT !.under = k]
  IN  \/ r.at \in {"kek", "generate"} /\ r.own.under = 0 /\ SetWorker(w, [r EXCEPT !.at = "save"])
      \/ r.at \in {"kek", "generate"} /\ r.own.under = k /\ SetWorker(w, [r EXCEPT !.at = "kek2"])
      \/ r.at \in {"kek", "generate"} /\ r.own.under \notin {0, k} /\ SetWorker(w, Idle)
      \/ /\ r.at \in {"kek2", "generate2"}
         /\ SetWorker(w, [r EXCEPT !.at = IF r.job = "enroll" THEN "check" ELSE "mint"])

ReadKek(w) ==
  /\ worker[w].at \in {"kek", "kek2"}
  /\ IF kek # 0 THEN WithKek(w, kek)
                ELSE GoTo(w, IF worker[w].at = "kek" THEN "generate" ELSE "generate2")
  /\ UNCHANGED <<storedVars, served, made, backupVars, overlapped>>

\* Mutant of PutKek: the put is not awaited, and a reload forestalls it.
PutKekUnawaited(w) ==
  /\ worker[w].at \in {"generate", "generate2"}
  /\ Make
  /\ kek' \in {kek, Fresh}
  /\ WithKek(w, Fresh)
  /\ UNCHANGED <<identity, prekeys, lastRotated, cachedId, served, backupVars, overlapped>>

(* generateKey and put: whoever puts last is kept.                         *)
PutKek(w) ==
  /\ worker[w].at \in {"generate", "generate2"}
  /\ Make
  /\ kek' = Fresh
  /\ WithKek(w, Fresh)
  /\ UNCHANGED <<identity, prekeys, lastRotated, cachedId, served, backupVars, overlapped>>

SaveIdentity(w) ==
  /\ worker[w].at = "save"
  /\ identity' = [key |-> worker[w].own.key, under |-> worker[w].under]
  /\ GoTo(w, "kek2")
  /\ UNCHANGED <<kek, prekeys, lastRotated, cachedId, served, made, backupVars, overlapped>>

----------------------------------------------------------------------------
(* Enrolment, and the signed prekey.                                       *)

Begin(job, at) ==
  [at |-> at, job |-> job, own |-> NoIdentity, under |-> 0, wiped |-> FALSE, row |-> {},
   device |-> cachedId]

Enroll(w) ==
  /\ worker[w] = Idle
  /\ cachedId = 0
  /\ overlapped' = (overlapped \/ \E v \in Workers : worker[v].job = "enroll")
  /\ SetWorker(w, Begin("enroll", "load"))
  /\ UNCHANGED <<storedVars, served, made, backupVars>>

(* generateInitialBundle refuses a store that is not empty; it is wiped    *)
(* once and asked again.                                                   *)
CheckEmpty(w) ==
  /\ worker[w].at = "check"
  /\ \/ prekeys = {} /\ GoTo(w, "mint")
     \/ prekeys # {} /\ ~worker[w].wiped /\ GoTo(w, "wipe")
     \/ prekeys # {} /\ worker[w].wiped /\ SetWorker(w, Idle)
  /\ UNCHANGED <<storedVars, served, made, backupVars, overlapped>>

WipePrekeys(w) ==
  /\ worker[w].at = "wipe"
  /\ prekeys' = {}
  /\ SetWorker(w, [worker[w] EXCEPT !.at = "check", !.wiped = TRUE])
  /\ UNCHANGED <<kek, identity, lastRotated, cachedId, served, made, backupVars, overlapped>>

(* checkAndRotateSignedPreKey: only a signed prekey of seven days, and one *)
(* that the cache does not call younger.                                   *)
CurrentSigned == CHOOSE r \in prekeys : \A q \in prekeys : q.id <= r.id
CheckRotation(w) ==
  /\ worker[w] = Idle
  /\ cachedId # 0 /\ prekeys # {} /\ lastRotated # "recent"
  /\ IF CurrentSigned.aged
     THEN SetWorker(w, Begin("rotate", "load")) /\ UNCHANGED lastRotated
     ELSE lastRotated' = "recent" /\ UNCHANGED worker
  /\ UNCHANGED <<kek, identity, prekeys, cachedId, served, made, backupVars, overlapped>>

(* buildSignedPreKey: the next id is read, the key made, signed, wrapped.  *)
BuildSignedPreKey(w) ==
  /\ worker[w].at = "mint"
  /\ Make
  /\ LET id == IF prekeys = {} THEN 1 ELSE CurrentSigned.id + 1
         row == [id |-> id, key |-> Fresh, by |-> worker[w].own.key,
                 under |-> worker[w].under, aged |-> FALSE]
     IN  SetWorker(w, [worker[w] EXCEPT !.at = "add", !.row = {row}])
  /\ UNCHANGED <<storedVars, served, backupVars, overlapped>>

\* Mutant of Added: only the newest signed prekey is kept.
AddedAlone(w) == worker[w].row

Added(w) == prekeys \cup worker[w].row

(* saveSignedPreKey: add() throws when the id is taken.  A rotation ends   *)
(* here: its upload meets no route, after the cache was written.           *)
SaveSignedPreKey(w) ==
  /\ worker[w].at = "add"
  /\ IF \E r \in prekeys, q \in worker[w].row : r.id = q.id
     THEN SetWorker(w, Idle) /\ UNCHANGED <<prekeys, lastRotated>>
     ELSE /\ prekeys' = Added(w)
          /\ IF worker[w].job = "rotate"
             THEN lastRotated' = "recent" /\ SetWorker(w, Idle)
             ELSE UNCHANGED lastRotated /\ GoTo(w, "post")
  /\ UNCHANGED <<kek, identity, cachedId, served, made, backupVars, overlapped>>

PostDevice(w) ==
  /\ worker[w].at = "post"
  /\ Len(served) < MaxDevices
  /\ \E r \in worker[w].row :
       served' = Append(served, [identity |-> r.by, signed |-> r.key])
  /\ SetWorker(w, [worker[w] EXCEPT !.at = "posted", !.device = Len(served) + 1])
  /\ UNCHANGED <<storedVars, made, backupVars, overlapped>>

Enrolled(w) ==
  /\ worker[w].at = "posted"
  /\ cachedId' = worker[w].device
  /\ SetWorker(w, Idle)
  /\ UNCHANGED <<kek, identity, prekeys, lastRotated, served, made, backupVars, overlapped>>

SevenDays ==
  /\ \E r \in prekeys : ~r.aged
  /\ prekeys' = {[r EXCEPT !.aged = TRUE] : r \in prekeys}
  /\ lastRotated' = "old"
  /\ UNCHANGED <<kek, identity, cachedId, served, worker, made, backupVars, overlapped>>

(* The page is reloaded, or a request or its reply is lost.                *)
Abandon(w) ==
  /\ worker[w] # Idle
  /\ SetWorker(w, Idle)
  /\ UNCHANGED <<storedVars, served, made, backupVars, overlapped>>

----------------------------------------------------------------------------
(* exportEncryptedBackup and importEncryptedBackup.                        *)

(* handleExportSubmit, with two equal passphrases of 8 to 128 characters.  *)
Export(w) ==
  /\ worker[w] = Idle
  /\ SetWorker(w, Begin("export", "row"))
  /\ UNCHANGED <<storedVars, served, made, backupVars, overlapped>>

(* The identity row, then the KEK, under which the identity must open.     *)
ExportIdentity(w) ==
  /\ \/ worker[w].at = "row" /\ identity # NoIdentity
        /\ SetWorker(w, [worker[w] EXCEPT !.at = "kekRow", !.own = identity])
     \/ worker[w].at = "row" /\ identity = NoIdentity /\ SetWorker(w, Idle)
     \/ worker[w].at = "kekRow" /\ kek # 0 /\ worker[w].own.under = kek
        /\ SetWorker(w, [worker[w] EXCEPT !.at = "rows", !.under = kek])
     \/ worker[w].at = "kekRow" /\ (kek = 0 \/ worker[w].own.under # kek) /\ SetWorker(w, Idle)
  /\ UNCHANGED <<storedVars, served, made, backupVars, overlapped>>

(* The payload: all prekey rows, of whatever moment they are read.         *)
Payload(w) ==
  [device |-> worker[w].device, identity |-> worker[w].own.key,
   keys |-> {r.key : r \in prekeys}]

(* Each row must open with that KEK; a passphrase seals them all.          *)
ExportRows(w) ==
  /\ worker[w].at = "rows"
  /\ backup' = IF \A r \in prekeys : r.under = worker[w].under THEN Payload(w) ELSE backup
  /\ SetWorker(w, Idle)
  /\ UNCHANGED <<storedVars, served, made, restored, overlapped>>

(* A file that is no backup, and one cut short, are refused.               *)
IsBackup == backup # NoBackup

(* What is restored, session states included, is what was serialised.      *)
Restored == backup

(* The import, on whichever browser: another passphrase opens nothing.     *)
Import(samePassphrase) ==
  /\ IsBackup
  /\ samePassphrase
  /\ restored' = Restored
  /\ UNCHANGED <<storedVars, served, worker, made, backup, overlapped>>

KeysNext ==
  \/ SevenDays
  \/ \E same \in BOOLEAN : Import(same)
  \/ \E w \in Workers :
       \/ LoadIdentity(w) \/ ReadKek(w) \/ PutKek(w) \/ SaveIdentity(w)
       \/ Enroll(w) \/ CheckEmpty(w) \/ WipePrekeys(w) \/ CheckRotation(w)
       \/ BuildSignedPreKey(w) \/ SaveSignedPreKey(w) \/ PostDevice(w) \/ Enrolled(w)
       \/ Abandon(w) \/ Export(w) \/ ExportIdentity(w) \/ ExportRows(w)

KeysSpec == KeysInit /\ [][KeysNext]_keyVars

----------------------------------------------------------------------------
(* Whatever await a reload comes at, what the browser has saved it can     *)
(* still unwrap, unless two enrolments of a fresh browser overlapped: the  *)
(* reads and puts of getOrCreateAesKwKey are not one transaction, and the  *)
(* identity may stay wrapped under the KEK that lost.                      *)
KeysReadable ==
  overlapped \/ /\ identity # NoIdentity => identity.under = kek
                /\ \A r \in prekeys : r.under = kek

(* A backup that an enrolled browser made, in reads of their own while     *)
(* keys were rotated, restores the identity the server knows the device by *)
(* and the private half of the signed prekey it gives to those who write.  *)
BackupServes ==
  restored.device # 0 /\ ~overlapped =>
    /\ restored.identity = served[restored.device].identity
    /\ served[restored.device].signed \in restored.keys
=============================================================================
