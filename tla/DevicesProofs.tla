---------------------------- MODULE DevicesProofs ----------------------------
(***************************************************************************)
(* Proofs about what a device keeps.                                       *)
(*                                                                         *)
(* Devices, for every number of browsers, tabs, calls, devices and         *)
(* prekeys, the calls of a tab overlapping: a prekey is given once, key    *)
(* ids clash only in a browser where two calls kept prekeys side by side,  *)
(* and what the server hands out is held by every other browser.           *)
(* Push: the row of the live subscription is kept.                         *)
(* Session, for every number of messages, of overlapping calls and every   *)
(* MaxSkipped: while no call saves a session over what another has saved,  *)
(* a message key seals one envelope, a message is shown once, and a device *)
(* that was neither overrun nor misled opens whatever its peer sealed, in  *)
(* any order.                                                              *)
(***************************************************************************)
EXTENDS Devices, Push, Session, FiniteSetTheorems, SequenceTheorems,
        WellFoundedInduction, TLAPS

-----------------------------------------------------------------------------
(* Least and greatest numbers, which the CHOOSEs of the model name.        *)

LEMMA LeastOf ==
  ASSUME NEW S \in SUBSET Nat, S # {} PROVE \E m \in S : \A k \in S : m <= k
<1>1. PICK m \in S : \A k \in S : ~ (<<k, m>> \in OpToRel(<, Nat))
  BY NatLessThanWellFounded, WFMin, Zenon
<1>2. \A k \in S : ~ (k < m)
  BY <1>1, Zenon DEF OpToRel
<1> QED BY <1>2

LEMMA GreatestOf ==
  ASSUME NEW S \in SUBSET Nat, S # {}, NEW n \in Nat, \A k \in S : k <= n
  PROVE  \E m \in S : \A k \in S : k <= m
<1> DEFINE T == {n - k : k \in S}
<1>1. T \in SUBSET Nat
  <2>1. ASSUME NEW k \in S PROVE n - k \in Nat
    OBVIOUS
  <2> QED BY <2>1
<1>2. T # {}
  OBVIOUS
<1> HIDE DEF T
<1>3. PICK m \in T : \A k \in T : m <= k
  BY <1>1, <1>2, LeastOf
<1>4. PICK j \in S : m = n - j
  BY DEF T
<1>5. ASSUME NEW k \in S PROVE k <= j
  <2>1. n - k \in T
    BY DEF T
  <2>2. n - j <= n - k
    BY <1>3, <1>4, <2>1
  <2> QED BY <2>2
<1> QED BY <1>5

-----------------------------------------------------------------------------
(* Types.                                                                  *)

StoreRow == [id : Nat, secret : Nat, used : BOOLEAN]
BundleKey == [id : Nat, secret : Nat]
PoolRow == [id : Nat, secret : Nat, given : Nat, used : BOOLEAN]

Checks == [at : {"check"}, retried : BOOLEAN]
Wipes == [at : {"wipe"}]
Batches == [at : {"mint", "save", "admitted", "insert"}, want : Int, bundle : Seq(BundleKey),
            dev : Nat, enrols : BOOLEAN, id : Nat]
Revocations == [at : {"revoked"}, dev : Nat]
TaskStates == {Idle} \cup Checks \cup Wipes \cup Batches \cup Revocations

TypeOK ==
  /\ store \in [Browsers -> SUBSET StoreRow] /\ \A b \in Browsers : IsFiniteSet(store[b])
  /\ minted \in [Browsers -> Nat]
  /\ \A b \in Browsers : \A k \in store[b] : k.id <= minted[b]
  /\ \A t \in Tasks : task[t].at = "save" => task[t].id <= minted[BrowserOf[t]] + 1
  /\ pool \in Seq(Seq(PoolRow))
  /\ cached \in [Browsers -> 0..Len(pool)]
  /\ task \in [Tasks -> TaskStates]
  /\ \A t \in Tasks : task[t].at \in {"mint", "admitted", "insert", "save", "revoked"} =>
                       task[t].dev \in 0..Len(pool)
  /\ Enrolled \subseteq 1..Len(pool)
  /\ \A d \in Enrolled : devices[d] \in Browsers

LEMMA TaskKinds ==
  ASSUME TypeOK, NEW t \in Tasks
  PROVE  /\ task[t] = Idle => task[t].at = "idle"
         /\ task[t].at = "check" => task[t] \in Checks
         /\ task[t].at \in {"mint", "save", "admitted", "insert"} => task[t] \in Batches
         /\ task[t].at = "revoked" => task[t] \in Revocations
         /\ task[t] \in TaskStates
BY DEF TypeOK, TaskStates, Idle, Checks, Wipes, Batches, Revocations

LEMMA StoreStays ==
  ASSUME TypeOK, UNCHANGED <<store, minted>>
  PROVE  /\ store' \in [Browsers -> SUBSET StoreRow] /\ \A b \in Browsers : IsFiniteSet(store'[b])
         /\ minted' \in [Browsers -> Nat] /\ \A b \in Browsers : minted'[b] >= minted[b]
         /\ \A b \in Browsers : \A k \in store'[b] : k.id <= minted'[b]
BY DEF TypeOK

LEMMA PoolTypes ==
  ASSUME TypeOK
  PROVE  /\ pool \in Seq(Seq(PoolRow)) /\ Len(pool) \in Nat
         /\ \A d \in Enrolled : d \in 1..Len(pool) /\ pool[d] \in Seq(PoolRow)
<1>1. pool \in Seq(Seq(PoolRow)) /\ Enrolled \subseteq 1..Len(pool)
  BY DEF TypeOK
<1> QED BY <1>1

(* A task goes on, and nothing else changes but by growing.                 *)
LEMMA TaskTypes ==
  ASSUME TypeOK, NEW t \in Tasks, NEW r \in TaskStates, SetTask(t, r),
         r.at \in {"mint", "admitted", "insert", "save", "revoked"} => r.dev \in 0..Len(pool'),
         pool' \in Seq(Seq(PoolRow)), Len(pool') >= Len(pool),
         store' \in [Browsers -> SUBSET StoreRow], \A b \in Browsers : IsFiniteSet(store'[b]),
         minted' \in [Browsers -> Nat], \A b \in Browsers : minted'[b] >= minted[b],
         \A b \in Browsers : \A k \in store'[b] : k.id <= minted'[b],
         r.at = "save" => r.id <= minted'[BrowserOf[t]] + 1,
         cached' \in [Browsers -> 0..Len(pool')],
         Enrolled' \subseteq 1..Len(pool'), \A d \in Enrolled' : devices'[d] \in Browsers
  PROVE  TypeOK'
<1>1. task' \in [Tasks -> TaskStates] /\ task'[t] = r /\ \A u \in Tasks \ {t} : task'[u] = task[u]
  BY DEF TypeOK, SetTask
<1>2. Len(pool) \in Nat /\ Len(pool') \in Nat
  BY DEF TypeOK
<1>3. \A u \in Tasks : task'[u].at \in {"mint", "admitted", "insert", "save", "revoked"} =>
                        task'[u].dev \in 0..Len(pool')
  <2>1. ASSUME NEW u \in Tasks \ {t},
               task'[u].at \in {"mint", "admitted", "insert", "save", "revoked"}
        PROVE  task'[u].dev \in 0..Len(pool')
    <3>1. task[u].dev \in 0..Len(pool) /\ task'[u].dev = task[u].dev
      BY <1>1, <2>1 DEF TypeOK
    <3> QED BY <1>2, <3>1
  <2> QED BY <1>1, <2>1
<1>4. \A u \in Tasks : task'[u].at = "save" => task'[u].id <= minted'[BrowserOf[u]] + 1
  <2>1. ASSUME NEW u \in Tasks \ {t}, task'[u].at = "save"
        PROVE  task'[u].id <= minted'[BrowserOf[u]] + 1
    <3>1. task'[u] = task[u] /\ task[u].id <= minted[BrowserOf[u]] + 1
      BY <1>1, <2>1 DEF TypeOK
    <3>2. task[u].id \in Nat
      BY <2>1, <3>1, TaskKinds DEF Batches
    <3>3. /\ minted[BrowserOf[u]] \in Nat /\ minted'[BrowserOf[u]] \in Nat
          /\ minted[BrowserOf[u]] <= minted'[BrowserOf[u]]
      BY DevicesAssumption DEF TypeOK
    <3> QED BY <3>1, <3>2, <3>3
  <2> QED BY <1>1, <2>1
<1> QED BY <1>1, <1>3, <1>4 DEF TypeOK

(* A task goes on, and nothing else changes.                                *)
LEMMA TaskOnly ==
  ASSUME TypeOK, NEW t \in Tasks, NEW r \in TaskStates, SetTask(t, r),
         r.at \in {"mint", "admitted", "insert", "save", "revoked"} => r.dev \in 0..Len(pool),
         r.at = "save" => r.id <= minted[BrowserOf[t]] + 1,
         UNCHANGED <<store, minted, cached, devices, pool>>
  PROVE  TypeOK'
<1>1. Len(pool) >= Len(pool) /\ \A b \in Browsers : minted[b] >= minted[b]
  BY DEF TypeOK
<1> QED BY <1>1, TaskTypes DEF TypeOK, Enrolled

LEMMA IdleTypes ==
  ASSUME TypeOK, NEW t \in Tasks, SetTask(t, Idle),
         UNCHANGED <<store, minted, cached, devices, pool>>
  PROVE  TypeOK'
BY TaskOnly DEF TaskStates, Idle

LEMMA EnrollTypes ==
  ASSUME TypeOK, NEW t \in Tasks, Enroll(t) \/ CheckStore(t) PROVE TypeOK'
<1>0. UNCHANGED <<store, minted, cached, devices, pool>>
  BY DEF Enroll, CheckStore
<1>1. CASE SetTask(t, [at |-> "check", retried |-> FALSE])
  BY <1>0, <1>1, TaskOnly DEF TaskStates, Checks
<1>2. CASE SetTask(t, Minting(Target, NoDevice))
  <2>1. Minting(Target, NoDevice) \in Batches /\ Minting(Target, NoDevice).at = "mint"
        /\ Minting(Target, NoDevice).dev = 0
    BY DevicesAssumption DEF Minting, Batches, NoDevice
  <2>2. 0 \in 0..Len(pool)
    BY DEF TypeOK
  <2> QED BY <1>0, <1>2, <2>1, <2>2, TaskOnly DEF TaskStates
<1>3. CASE SetTask(t, Idle)
  BY <1>0, <1>3, IdleTypes
<1>4. CASE SetTask(t, [at |-> "wipe"])
  BY <1>0, <1>4, TaskOnly DEF TaskStates, Wipes
<1> QED BY <1>1, <1>2, <1>3, <1>4 DEF Enroll, CheckStore

LEMMA WipeTypes ==
  ASSUME TypeOK, NEW t \in Tasks, Wipe(t) PROVE TypeOK'
<1>1. SetTask(t, [at |-> "check", retried |-> TRUE]) /\ [at |-> "check", retried |-> TRUE] \in TaskStates
  BY DEF Wipe, TaskStates, Checks
<1>2. /\ store' \in [Browsers -> SUBSET StoreRow]
      /\ \A b \in Browsers : store'[b] = {} \/ store'[b] = store[b]
  BY DevicesAssumption DEF Wipe, TypeOK
<1>3. \A b \in Browsers : IsFiniteSet(store'[b])
  BY <1>2, FS_EmptySet DEF TypeOK
<1>4. /\ UNCHANGED <<minted, cached, devices, pool>> /\ Len(pool) >= Len(pool)
      /\ \A b \in Browsers : minted[b] >= minted[b]
  BY DEF Wipe, TypeOK
<1>5. \A b \in Browsers : \A k \in store'[b] : k.id <= minted[b]
  BY <1>2 DEF TypeOK
<1> QED BY <1>1, <1>2, <1>3, <1>4, <1>5, TaskTypes DEF TypeOK, Enrolled

(* What is not used of a store can be counted.                             *)
LEMMA ReplenishTypes ==
  ASSUME TypeOK, NEW t \in Tasks, Replenish(t) PROVE TypeOK'
<1> DEFINE b == BrowserOf[t]
           r == Minting(Target - Cardinality(Unused(b)), cached[b])
<1>1. b \in Browsers
  BY DevicesAssumption
<1>2. Cardinality(Unused(b)) \in Nat
  BY <1>1, FS_Subset, FS_CardinalityType DEF TypeOK, Unused
<1>3. cached[b] \in 0..Len(pool) /\ cached[b] \in Nat
  BY <1>1 DEF TypeOK
<1>4. SetTask(t, r) /\ UNCHANGED <<store, minted, cached, devices, pool>>
  BY DEF Replenish
<1> HIDE DEF b
<1>5. r \in Batches /\ r.dev = cached[b] /\ r.at = "mint"
  BY <1>2, <1>3, DevicesAssumption DEF Minting, Batches
<1> HIDE DEF r
<1> QED BY <1>3, <1>4, <1>5, TaskOnly DEF TaskStates

(* The number that comes after all key ids of a store: there is one.       *)
NextId(S, n) == (\A k \in S : k.id < n) /\ (n = 1 \/ \E k \in S : n = k.id + 1)

LEMMA OneNextId ==
  ASSUME NEW S \in SUBSET StoreRow, NEW m \in Nat, NEW n \in Nat, NextId(S, m), NextId(S, n)
  PROVE  m = n
<1>1. \A k \in S : k.id \in Nat
  BY DEF StoreRow
<1>2. ASSUME NEW x \in Nat, NEW y \in Nat, NextId(S, x), NextId(S, y) PROVE x <= y
  <2>1. CASE x = 1
    <3>1. CASE y = 0
      <4>1. PICK k \in S : y = k.id + 1
        BY <1>2, <3>1 DEF NextId
      <4> QED BY <1>1, <3>1, <4>1
    <3> QED BY <1>2, <2>1, <3>1
  <2>2. CASE x # 1
    <3>1. PICK k \in S : x = k.id + 1
      BY <1>2, <2>2 DEF NextId
    <3>2. k.id < y /\ k.id \in Nat
      BY <1>1, <1>2, <3>1 DEF NextId
    <3> QED BY <1>2, <3>1, <3>2
  <2> QED BY <2>1, <2>2
<1>3. m <= n /\ n <= m
  BY <1>2
<1> QED BY <1>3

(* The greatest key id of a store is there to be counted on from.          *)
LEMMA KeyIdIsFresh ==
  ASSUME TypeOK, NEW t \in Tasks
  PROVE  /\ NextKeyId(t) \in Nat
         /\ NextKeyId(t) <= minted[BrowserOf[t]] + 1
         /\ NextId(store[BrowserOf[t]], NextKeyId(t))
<1> DEFINE b == BrowserOf[t]
           ids == {k.id : k \in store[b]} \cup {0}
           top == CHOOSE n \in ids : \A m \in ids : m <= n
<1>1. b \in Browsers
  BY DevicesAssumption
<1>2. /\ store[b] \subseteq StoreRow /\ minted[b] \in Nat
      /\ \A k \in store[b] : k.id <= minted[b]
  BY <1>1 DEF TypeOK
<1>3. NextKeyId(t) = 1 + top
  BY DEF NextKeyId
<1> HIDE DEF b
<1>4. ids \in SUBSET Nat /\ ids # {} /\ \A m \in ids : m <= minted[b]
  BY <1>2 DEF StoreRow
<1>5. \A k \in store[b] : k.id \in ids
  OBVIOUS
<1>6. \A m \in ids : m = 0 \/ \E k \in store[b] : m = k.id
  OBVIOUS
<1> HIDE DEF ids
<1>7. \E n \in ids : \A m \in ids : m <= n
  BY <1>2, <1>4, GreatestOf
<1>8. top \in ids /\ \A m \in ids : m <= top
  BY <1>7
<1>9. top \in Nat /\ top <= minted[b]
  BY <1>4, <1>8
<1>10. top = 0 \/ \E k \in store[b] : top = k.id
  BY <1>6, <1>8
<1> HIDE DEF top
<1>11. ASSUME NEW k \in store[b] PROVE k.id < 1 + top
  <2>1. k.id \in Nat /\ k.id <= top
    BY <1>4, <1>5, <1>8
  <2> QED BY <1>9, <2>1
<1>12. 1 + top = 1 \/ \E k \in store[b] : 1 + top = k.id + 1
  BY <1>2, <1>9, <1>10 DEF StoreRow
<1>13. NextId(store[b], 1 + top)
  BY <1>11, <1>12 DEF NextId
<1> QED BY <1>2, <1>3, <1>9, <1>13 DEF b

LEMMA AllocateTypes ==
  ASSUME TypeOK, NEW t \in Tasks, Allocate(t) PROVE TypeOK'
<1>1. task[t] \in Batches /\ task[t].at = "mint" /\ task[t].dev \in 0..Len(pool)
  BY TaskKinds DEF Allocate, TypeOK
<1> DEFINE r == [task[t] EXCEPT !.at = "save", !.id = NextKeyId(t)]
<1>2. SetTask(t, r) /\ UNCHANGED <<store, minted, cached, devices, pool>>
  BY DEF Allocate
<1>3. r \in Batches /\ r.dev = task[t].dev /\ r.id = NextKeyId(t)
  BY <1>1, KeyIdIsFresh DEF Batches
<1> HIDE DEF r
<1> QED BY <1>1, <1>2, <1>3, KeyIdIsFresh, TaskOnly DEF TaskStates

(* The key a task saves.                                                    *)
NewKey(t) == [id |-> task[t].id, secret |-> minted[BrowserOf[t]] + 1]

LEMMA SaveFacts ==
  ASSUME TypeOK, NEW t \in Tasks, SaveKey(t)
  PROVE  /\ BrowserOf[t] \in Browsers /\ task[t] \in Batches /\ task[t].dev \in 0..Len(pool)
         /\ NewKey(t) \in BundleKey
         /\ \E r \in Batches :
              /\ SetTask(t, r) /\ r.at = "mint" /\ r.dev = task[t].dev
              /\ r.bundle = Append(task[t].bundle, NewKey(t))
         /\ store' = [store EXCEPT ![BrowserOf[t]] = store[BrowserOf[t]] \cup
              {[id |-> NewKey(t).id, secret |-> NewKey(t).secret, used |-> FALSE]}]
         /\ minted' = [minted EXCEPT ![BrowserOf[t]] = minted[BrowserOf[t]] + 1]
<1>1. BrowserOf[t] \in Browsers /\ task[t] \in Batches /\ task[t].dev \in 0..Len(pool)
  BY DevicesAssumption, TaskKinds DEF SaveKey, TypeOK
<1>2. NewKey(t) \in BundleKey
  BY <1>1 DEF NewKey, BundleKey, Batches, TypeOK
<1> DEFINE keys == Append(task[t].bundle, NewKey(t))
           r == [task[t] EXCEPT !.at = "mint", !.id = 0, !.bundle = keys]
<1>3. SetTask(t, r)
  BY DEF SaveKey, NewKey
<1>4. keys \in Seq(BundleKey)
  BY <1>1, <1>2 DEF Batches
<1> HIDE DEF keys
<1>5. r \in Batches /\ r.at = "mint" /\ r.dev = task[t].dev /\ r.bundle = keys
  BY <1>1, <1>4 DEF Batches
<1> HIDE DEF r
<1> QED BY <1>1, <1>2, <1>3, <1>5 DEF SaveKey, NewKey, keys

LEMMA SaveTypes ==
  ASSUME TypeOK, NEW t \in Tasks, SaveKey(t) PROVE TypeOK'
<1> DEFINE b == BrowserOf[t]
           row == [id |-> NewKey(t).id, secret |-> NewKey(t).secret, used |-> FALSE]
<1>1. PICK r \in Batches : SetTask(t, r) /\ r.at = "mint" /\ r.dev = task[t].dev
  BY SaveFacts
<1>2. b \in Browsers /\ row \in StoreRow /\ row.id = task[t].id /\ task[t].dev \in 0..Len(pool)
  BY SaveFacts DEF BundleKey, StoreRow, NewKey
<1>3. /\ store' = [store EXCEPT ![b] = store[b] \cup {row}]
      /\ minted' = [minted EXCEPT ![b] = minted[b] + 1]
      /\ UNCHANGED <<cached, devices, pool>>
  BY SaveFacts DEF SaveKey
<1>4. task[t].id <= minted[b] + 1 /\ minted[b] \in Nat
  BY <1>2 DEF SaveKey, TypeOK
<1> HIDE DEF b, row
<1>5. store' \in [Browsers -> SUBSET StoreRow] /\ minted' \in [Browsers -> Nat]
  BY <1>2, <1>3 DEF TypeOK
<1>6. ASSUME NEW c \in Browsers
      PROVE  /\ IsFiniteSet(store'[c]) /\ minted'[c] >= minted[c]
             /\ \A k \in store'[c] : k.id <= minted'[c]
  <2>1. CASE c = b
    <3>1. store'[b] = store[b] \cup {row} /\ minted'[b] = minted[b] + 1
      BY <1>2, <1>3 DEF TypeOK
    <3>2. IsFiniteSet(store'[b])
      <4>1. IsFiniteSet(store[b])
        BY <1>2 DEF TypeOK
      <4>2. IsFiniteSet(store[b] \cup {row})
        BY <4>1, FS_AddElement, Zenon
      <4> QED BY <3>1, <4>2, Zenon
    <3>3. ASSUME NEW k \in store[b] PROVE k.id <= minted[b] + 1
      <4>1. k.id \in Nat /\ k.id <= minted[b]
        BY <1>2 DEF TypeOK, StoreRow
      <4> QED BY <1>4, <4>1
    <3> QED BY <1>2, <1>4, <2>1, <3>1, <3>2, <3>3
  <2>2. CASE c # b
    BY <1>3, <2>2 DEF TypeOK
  <2> QED BY <2>1, <2>2
<1>7. Len(pool) >= Len(pool)
  BY DEF TypeOK
<1> QED BY <1>1, <1>2, <1>3, <1>5, <1>6, <1>7, TaskTypes DEF TypeOK, Enrolled, TaskStates

LEMMA ServerTypes ==
  ASSUME TypeOK, NEW t \in Tasks, CountDevices(t) \/ CheckOwner(t) PROVE TypeOK'
<1>1. task[t] \in Batches /\ task[t].at = "mint" /\ task[t].dev \in 0..Len(pool)
  BY TaskKinds DEF CountDevices, CheckOwner, Ready, TypeOK
<1>2. UNCHANGED <<store, minted, cached, devices, pool>>
  BY DEF CountDevices, CheckOwner
<1>3. CASE SetTask(t, Idle)
  BY <1>2, <1>3, IdleTypes
<1>4. ASSUME NEW at \in {"admitted", "insert"}, SetTask(t, [task[t] EXCEPT !.at = at])
      PROVE  TypeOK'
  <2> DEFINE r == [task[t] EXCEPT !.at = at]
  <2>1. r \in Batches /\ r.dev = task[t].dev /\ r.at = at /\ SetTask(t, r)
    BY <1>1, <1>4 DEF Batches
  <2> HIDE DEF r
  <2> QED BY <1>1, <1>2, <2>1, TaskOnly DEF TaskStates
<1> QED BY <1>3, <1>4 DEF CountDevices, CheckOwner

(* A new row of devices, and its empty pool.                               *)
LEMMA InsertFacts ==
  ASSUME TypeOK, NEW t \in Tasks, InsertDevice(t)
  PROVE  /\ BrowserOf[t] \in Browsers /\ task[t] \in Batches
         /\ Len(pool) \in Nat
         /\ pool' \in Seq(Seq(PoolRow)) /\ Len(pool') = Len(pool) + 1
         /\ pool'[Len(pool) + 1] = <<>>
         /\ \A d \in 1..Len(pool) : pool'[d] = pool[d]
         /\ Enrolled' = Enrolled \cup {Len(pool) + 1}
         /\ devices'[Len(pool) + 1] = BrowserOf[t]
         /\ \A d \in Enrolled : devices'[d] = devices[d]
         /\ \E r \in Batches : /\ SetTask(t, r) /\ r.at = "insert" /\ r.dev = Len(pool) + 1
                               /\ r.bundle = task[t].bundle
         /\ UNCHANGED <<store, minted, cached, conflict>>
<1>1. BrowserOf[t] \in Browsers /\ task[t] \in Batches
  BY DevicesAssumption, TaskKinds DEF InsertDevice
<1>2. pool \in Seq(Seq(PoolRow)) /\ Len(pool) \in Nat /\ Enrolled \subseteq 1..Len(pool)
  BY DEF TypeOK
<1>3. <<>> \in Seq(PoolRow) /\ pool' = Append(pool, <<>>)
  BY DEF InsertDevice
<1>4. /\ pool' \in Seq(Seq(PoolRow)) /\ Len(pool') = Len(pool) + 1
      /\ pool'[Len(pool) + 1] = <<>>
      /\ \A d \in 1..Len(pool) : pool'[d] = pool[d]
  BY <1>2, <1>3
<1>5. devices' = [d \in Enrolled \cup {Len(pool')} |->
                    IF d = Len(pool') THEN BrowserOf[t] ELSE devices[d]]
  BY DEF InsertDevice
<1>6. /\ Enrolled' = Enrolled \cup {Len(pool) + 1}
      /\ devices'[Len(pool) + 1] = BrowserOf[t]
      /\ \A d \in Enrolled : devices'[d] = devices[d]
  BY <1>2, <1>4, <1>5 DEF Enrolled
<1> DEFINE n == Len(pool) + 1
           r == [task[t] EXCEPT !.at = "insert", !.dev = n]
<1>7. SetTask(t, r) /\ n \in Nat
  BY <1>2, <1>4 DEF InsertDevice
<1> HIDE DEF n
<1>8. r \in Batches /\ r.at = "insert" /\ r.dev = n /\ r.bundle = task[t].bundle
  BY <1>1, <1>7 DEF Batches
<1> HIDE DEF r
<1> USE DEF n
<1> QED BY <1>1, <1>2, <1>4, <1>6, <1>7, <1>8 DEF InsertDevice

LEMMA InsertTypes ==
  ASSUME TypeOK, NEW t \in Tasks, InsertDevice(t) PROVE TypeOK'
<1>1. PICK r \in Batches : SetTask(t, r) /\ r.at = "insert" /\ r.dev = Len(pool) + 1
  BY InsertFacts
<1>2. /\ Len(pool) \in Nat /\ pool' \in Seq(Seq(PoolRow)) /\ Len(pool') = Len(pool) + 1
      /\ UNCHANGED <<store, minted, cached>>
  BY InsertFacts
<1>3. Enrolled' \subseteq 1..Len(pool') /\ \A d \in Enrolled' : devices'[d] \in Browsers
  <2>1. /\ Enrolled' = Enrolled \cup {Len(pool) + 1} /\ BrowserOf[t] \in Browsers
        /\ devices'[Len(pool) + 1] = BrowserOf[t]
        /\ \A d \in Enrolled : devices'[d] = devices[d]
    BY InsertFacts
  <2>2. Enrolled \subseteq 1..Len(pool) /\ \A d \in Enrolled : devices[d] \in Browsers
    BY DEF TypeOK
  <2>3. ASSUME NEW d \in Enrolled' PROVE d \in 1..Len(pool')
    <3>1. d \in 1..Len(pool) \/ d = Len(pool) + 1
      BY <2>1, <2>2, <2>3
    <3> QED BY <1>2, <3>1
  <2>4. ASSUME NEW d \in Enrolled' PROVE devices'[d] \in Browsers
    BY <2>1, <2>2, <2>4
  <2> QED BY <2>3, <2>4
<1>4. cached' \in [Browsers -> 0..Len(pool')]
  BY <1>2 DEF TypeOK
<1>5. r \in TaskStates /\ r.at # "save" /\ r.dev \in 0..Len(pool') /\ Len(pool') >= Len(pool)
  BY <1>1, <1>2 DEF TaskStates
<1> QED BY <1>1, <1>2, <1>3, <1>4, <1>5, StoreStays, TaskTypes

(* The row of a key the server takes.                                      *)
LEMMA KeyFacts ==
  ASSUME TypeOK, NEW t \in Tasks, InsertKey(t)
  PROVE  /\ task[t] \in Batches /\ task[t].at = "insert" /\ task[t].bundle # <<>>
         /\ \/ SetTask(t, Idle) /\ UNCHANGED pool
            \/ /\ task[t].dev \in Enrolled
               /\ \A i \in DOMAIN pool[task[t].dev] :
                    pool[task[t].dev][i].id # Head(task[t].bundle).id
               /\ \E row \in PoolRow :
                    /\ row.id = Head(task[t].bundle).id /\ row.secret = Head(task[t].bundle).secret
                    /\ row.given = 0 /\ row.used = FALSE
                    /\ pool' = [pool EXCEPT ![task[t].dev] = Append(pool[task[t].dev], row)]
               /\ \E r \in Batches : /\ SetTask(t, r) /\ r.at = "insert" /\ r.dev = task[t].dev
                                     /\ r.bundle = Tail(task[t].bundle)
         /\ UNCHANGED <<store, minted, cached, devices>>
<1>1. task[t] \in Batches /\ task[t].at = "insert" /\ task[t].bundle # <<>>
  BY TaskKinds DEF InsertKey
<1> DEFINE d == task[t].dev
           key == Head(task[t].bundle)
<1>2. task[t].bundle \in Seq(BundleKey) /\ key \in BundleKey /\ Tail(task[t].bundle) \in Seq(BundleKey)
  BY <1>1 DEF Batches
<1>3. CASE /\ d \in Enrolled /\ ~\E i \in DOMAIN pool[d] : pool[d][i].id = key.id
           /\ pool' = [pool EXCEPT ![d] = Append(@,
                [id |-> key.id, secret |-> key.secret, given |-> 0, used |-> FALSE])]
           /\ SetTask(t, [task[t] EXCEPT !.bundle = Tail(@)])
  <2> DEFINE row == [id |-> key.id, secret |-> key.secret, given |-> 0, used |-> FALSE]
             r == [task[t] EXCEPT !.bundle = Tail(task[t].bundle)]
  <2>1. row \in PoolRow /\ row.id = key.id /\ row.secret = key.secret
        /\ row.given = 0 /\ row.used = FALSE
    BY <1>2 DEF BundleKey, PoolRow
  <2>2. pool' = [pool EXCEPT ![d] = Append(pool[d], row)]
    BY <1>3
  <2>3. /\ r \in Batches /\ r.at = "insert" /\ r.dev = d /\ r.bundle = Tail(task[t].bundle)
    BY <1>1, <1>2 DEF Batches
  <2>4. SetTask(t, r)
    BY <1>3
  <2> HIDE DEF row, r
  <2> QED BY <1>1, <1>3, <2>1, <2>2, <2>3, <2>4 DEF InsertKey
<1> QED BY <1>1, <1>3 DEF InsertKey

LEMMA KeyTypes ==
  ASSUME TypeOK, NEW t \in Tasks, InsertKey(t) PROVE TypeOK'
<1>1. task[t] \in Batches /\ task[t].at = "insert" /\ UNCHANGED <<store, minted, cached, devices>>
  BY KeyFacts
<1>2. CASE SetTask(t, Idle) /\ UNCHANGED pool
  BY <1>1, <1>2, IdleTypes
<1>3. CASE /\ task[t].dev \in Enrolled
           /\ \E row \in PoolRow :
                pool' = [pool EXCEPT ![task[t].dev] = Append(pool[task[t].dev], row)]
           /\ \E r \in Batches : SetTask(t, r) /\ r.at = "insert" /\ r.dev = task[t].dev
  <2>1. PICK r \in Batches : SetTask(t, r) /\ r.at = "insert" /\ r.dev = task[t].dev
    BY <1>3
  <2>2. PICK row \in PoolRow : pool' = [pool EXCEPT ![task[t].dev] = Append(pool[task[t].dev], row)]
    BY <1>3
  <2>0. task[t].dev \in Enrolled
    BY <1>3
  <2>3. task[t].dev \in 1..Len(pool) /\ pool \in Seq(Seq(PoolRow)) /\ Len(pool) \in Nat
    BY <2>0, PoolTypes
  <2>4. Append(pool[task[t].dev], row) \in Seq(PoolRow)
    BY <2>3
  <2>5. pool' \in Seq(Seq(PoolRow)) /\ Len(pool') = Len(pool)
    BY <2>2, <2>3, <2>4
  <2>6. /\ cached' \in [Browsers -> 0..Len(pool')] /\ Enrolled' \subseteq 1..Len(pool')
        /\ \A d \in Enrolled' : devices'[d] \in Browsers
    BY <1>1, <2>5 DEF TypeOK, Enrolled
  <2>7. r \in TaskStates /\ r.at # "save" /\ r.dev \in 0..Len(pool') /\ Len(pool') >= Len(pool)
    BY <2>1, <2>3, <2>5 DEF TaskStates
  <2> QED BY <1>1, <2>1, <2>5, <2>6, <2>7, StoreStays, TaskTypes
<1> QED BY <1>2, <1>3, KeyFacts

LEMMA EndTypes ==
  ASSUME TypeOK, NEW t \in Tasks, UploadAnswered(t) \/ Revoked(t) \/ Abandon(t) PROVE TypeOK'
<1>1. SetTask(t, Idle) /\ UNCHANGED <<store, minted, devices, pool>>
  BY DEF UploadAnswered, Revoked, Abandon
<1>2. cached' \in [Browsers -> 0..Len(pool)]
  <2>1. BrowserOf[t] \in Browsers /\ 0 \in 0..Len(pool)
    BY DevicesAssumption DEF TypeOK
  <2>2. CASE UploadAnswered(t)
    <3>1. task[t].dev \in 0..Len(pool)
      BY <2>2 DEF UploadAnswered, TypeOK
    <3> QED BY <2>1, <2>2, <3>1 DEF UploadAnswered, TypeOK
  <2>3. CASE Revoked(t)
    <3>1. \E x \in 0..Len(pool) : cached' = [cached EXCEPT ![BrowserOf[t]] = x]
      BY <2>1, <2>3 DEF Revoked, TypeOK, NoDevice
    <3> QED BY <2>1, <3>1 DEF TypeOK
  <2>4. CASE UNCHANGED cached
    BY <2>4 DEF TypeOK
  <2> QED BY <2>2, <2>3, <2>4 DEF Abandon
<1>3. Len(pool) >= Len(pool) /\ \A b \in Browsers : minted[b] >= minted[b]
  BY DEF TypeOK
<1> QED BY <1>1, <1>2, <1>3, TaskTypes DEF TypeOK, TaskStates, Idle, Enrolled

(* The oldest of the prekeys that are left is there to be given.           *)
LEMMA GiveFacts ==
  ASSUME TypeOK, NEW d \in Enrolled, FetchBundle(d)
  PROVE  /\ d \in 1..Len(pool)
         /\ \E i \in DOMAIN pool[d], row \in PoolRow :
              /\ pool[d][i].used = FALSE
              /\ pool[d][i] \in PoolRow
              /\ row.id = pool[d][i].id /\ row.secret = pool[d][i].secret
              /\ row.given = pool[d][i].given + 1 /\ row.used = TRUE
              /\ pool' = [pool EXCEPT ![d] = [pool[d] EXCEPT ![i] = row]]
         /\ UNCHANGED <<store, minted, cached, task, devices, conflict>>
<1>1. d \in 1..Len(pool) /\ pool[d] \in Seq(PoolRow) /\ Len(pool) \in Nat
  BY DEF TypeOK
<1> DEFINE free == {i \in DOMAIN pool[d] : ~pool[d][i].used}
           i == CHOOSE j \in free : \A k \in free : j <= k
<1>2. free \in SUBSET Nat /\ free # {} /\ free \subseteq DOMAIN pool[d]
  BY <1>1 DEF FetchBundle
<1>3. i \in free
  <2> HIDE DEF free
  <2>1. \E j \in free : \A k \in free : j <= k
    BY <1>2, LeastOf
  <2> QED BY <2>1
<1>4. /\ pool' = [pool EXCEPT ![d][i].used = TRUE, ![d][i].given = @ + 1]
      /\ UNCHANGED <<store, minted, cached, task, devices, conflict>>
  BY DEF FetchBundle, GiveFirst
<1> HIDE DEF i
<1>5. i \in DOMAIN pool[d] /\ ~pool[d][i].used
  BY <1>3
<1> HIDE DEF free
<1> DEFINE old == pool[d][i]
           count == old.given + 1
           row == [old EXCEPT !.used = TRUE, !.given = count]
<1>6. old \in PoolRow
  BY <1>1, <1>5
<1>7. pool' = [pool EXCEPT ![d] = [pool[d] EXCEPT ![i] = row]]
  BY <1>1, <1>4, <1>5, <1>6 DEF PoolRow
<1>8. old.used = FALSE
  BY <1>5, <1>6 DEF PoolRow
<1> HIDE DEF old
<1>9. count \in Nat
  BY <1>6 DEF PoolRow
<1> HIDE DEF count
<1>10. /\ row \in PoolRow /\ row.id = old.id /\ row.secret = old.secret
       /\ row.given = count /\ row.used = TRUE
  BY <1>6, <1>9 DEF PoolRow
<1> HIDE DEF row
<1> QED BY <1>1, <1>4, <1>5, <1>6, <1>7, <1>8, <1>10 DEF old, count

LEMMA GiveTypes ==
  ASSUME TypeOK, NEW d \in Enrolled, FetchBundle(d) PROVE TypeOK'
<1>1. d \in 1..Len(pool) /\ pool \in Seq(Seq(PoolRow)) /\ pool[d] \in Seq(PoolRow) /\ Len(pool) \in Nat
  BY PoolTypes
<1>2. UNCHANGED <<store, minted, cached, task, devices>>
  BY GiveFacts
<1>3. PICK i \in DOMAIN pool[d], row \in PoolRow : pool' = [pool EXCEPT ![d] = [pool[d] EXCEPT ![i] = row]]
  BY GiveFacts
<1>4. [pool[d] EXCEPT ![i] = row] \in Seq(PoolRow)
  BY <1>1
<1>5. pool' \in Seq(Seq(PoolRow)) /\ Len(pool') = Len(pool)
  BY <1>1, <1>3, <1>4
<1> QED BY <1>2, <1>5 DEF TypeOK, Enrolled

(* A row marked as used stays what it is otherwise.                        *)
LEMMA AcceptFacts ==
  ASSUME TypeOK, NEW b \in Browsers, Accept(b)
  PROVE  /\ store' \in [Browsers -> SUBSET StoreRow]
         /\ \A c \in Browsers \ {b} : store'[c] = store[c]
         /\ IsFiniteSet(store'[b])
         /\ \A k \in store[b] : \E q \in store'[b] : q.id = k.id /\ q.secret = k.secret
         /\ \A q \in store'[b] : \E k \in store[b] : q.id = k.id
         /\ UNCHANGED <<minted, cached, task, devices, pool, conflict>>
<1>1. PICK n : store' = [store EXCEPT ![b] =
                 {IF k.id = n THEN [k EXCEPT !.used = TRUE] ELSE k : k \in store[b]}]
  BY DEF Accept
<1> DEFINE mark(k) == IF k.id = n THEN [k EXCEPT !.used = TRUE] ELSE k
           S == store[b]
           T == {mark(k) : k \in S}
<1>2. store \in [Browsers -> SUBSET StoreRow] /\ S \subseteq StoreRow /\ IsFiniteSet(S)
  BY DEF TypeOK
<1>3. ASSUME NEW k \in S
      PROVE  mark(k) \in StoreRow /\ mark(k).id = k.id /\ mark(k).secret = k.secret
  BY <1>2 DEF StoreRow
<1>4. store'[b] = T /\ \A c \in Browsers \ {b} : store'[c] = store[c]
  BY <1>1, <1>2
<1> HIDE DEF mark
<1>5. T \subseteq StoreRow
  BY <1>3
<1>6. IsFiniteSet(T)
  <2> DEFINE f == [k \in S |-> mark(k)]
  <2>1. f \in Surjection(S, T)
    BY DEF Surjection
  <2> HIDE DEF T, S, f
  <2> QED BY <1>2, <2>1, FS_Surjection
<1>7. store' \in [Browsers -> SUBSET StoreRow]
  BY <1>1, <1>2, <1>4, <1>5
<1>8. \A k \in store[b] : \E q \in store'[b] : q.id = k.id /\ q.secret = k.secret
  BY <1>3, <1>4
<1>9. \A q \in store'[b] : \E k \in store[b] : q.id = k.id
  BY <1>3, <1>4
<1> QED BY <1>4, <1>6, <1>7, <1>8, <1>9 DEF Accept

LEMMA AcceptTypes ==
  ASSUME TypeOK, NEW b \in Browsers, Accept(b) PROVE TypeOK'
<1>1. /\ store' \in [Browsers -> SUBSET StoreRow]
      /\ \A c \in Browsers \ {b} : store'[c] = store[c]
      /\ IsFiniteSet(store'[b]) /\ UNCHANGED <<minted, cached, task, devices, pool>>
  BY AcceptFacts
<1>2. \A c \in Browsers : IsFiniteSet(store'[c])
  BY <1>1 DEF TypeOK
<1>3. ASSUME NEW c \in Browsers, NEW q \in store'[c] PROVE q.id <= minted[c]
  <2>1. \E k \in store[c] : q.id = k.id
    BY <1>1, <1>3, AcceptFacts
  <2> QED BY <2>1 DEF TypeOK
<1> QED BY <1>1, <1>2, <1>3 DEF TypeOK, Enrolled

LEMMA RevokeFacts ==
  ASSUME TypeOK, NEW t \in Tasks, Revoke(t)
  PROVE  \E d \in Enrolled :
           /\ d \in 1..Len(pool)
           /\ Enrolled' = Enrolled \ {d} /\ \A e \in Enrolled' : devices'[e] = devices[e]
           /\ pool' \in Seq(Seq(PoolRow)) /\ Len(pool') = Len(pool)
           /\ pool'[d] = <<>> /\ \A e \in 1..Len(pool) \ {d} : pool'[e] = pool[e]
           /\ \E r \in Revocations : SetTask(t, r) /\ r.dev = d
           /\ UNCHANGED <<store, minted, cached, conflict>>
<1>1. PICK d \in Enrolled : /\ devices' = [e \in Enrolled \ {d} |-> devices[e]]
                            /\ pool' = [pool EXCEPT ![d] = <<>>]
                            /\ SetTask(t, [at |-> "revoked", dev |-> d])
                            /\ UNCHANGED <<store, minted, cached, conflict>>
  BY DEF Revoke
<1>2. d \in 1..Len(pool) /\ pool \in Seq(Seq(PoolRow)) /\ Len(pool) \in Nat
  BY PoolTypes
<1>3. Enrolled' = Enrolled \ {d} /\ \A e \in Enrolled' : devices'[e] = devices[e]
  BY <1>1 DEF Enrolled
<1>4. <<>> \in Seq(PoolRow)
  OBVIOUS
<1>5. /\ pool' \in Seq(Seq(PoolRow)) /\ Len(pool') = Len(pool)
      /\ pool'[d] = <<>> /\ \A e \in 1..Len(pool) \ {d} : pool'[e] = pool[e]
  BY <1>1, <1>2, <1>4
<1>6. \E r \in Revocations : SetTask(t, r) /\ r.dev = d
  <2>1. [at |-> "revoked", dev |-> d] \in Revocations
    BY <1>2 DEF Revocations
  <2> QED BY <1>1, <2>1
<1> QED BY <1>1, <1>2, <1>3, <1>5, <1>6

LEMMA RevokeTypes ==
  ASSUME TypeOK, NEW t \in Tasks, Revoke(t) PROVE TypeOK'
<1>1. PICK d \in Enrolled :
        /\ d \in 1..Len(pool) /\ Enrolled' = Enrolled \ {d}
        /\ \A e \in Enrolled' : devices'[e] = devices[e]
        /\ pool' \in Seq(Seq(PoolRow)) /\ Len(pool') = Len(pool)
        /\ \E r \in Revocations : SetTask(t, r) /\ r.dev = d
        /\ UNCHANGED <<store, minted, cached, conflict>>
  BY RevokeFacts
<1>2. PICK r \in Revocations : SetTask(t, r) /\ r.dev = d
  BY <1>1
<1>3. Len(pool) \in Nat
  BY PoolTypes
<1>4. r \in TaskStates /\ r.at # "save" /\ r.dev \in 0..Len(pool') /\ Len(pool') >= Len(pool)
  BY <1>1, <1>2, <1>3 DEF TaskStates, Revocations
<1>5. /\ cached' \in [Browsers -> 0..Len(pool')] /\ Enrolled' \subseteq 1..Len(pool')
      /\ \A e \in Enrolled' : devices'[e] \in Browsers
  BY <1>1 DEF TypeOK
<1> QED BY <1>1, <1>2, <1>4, <1>5, StoreStays, TaskTypes

LEMMA NextTypes ==
  ASSUME TypeOK, [DevicesNext]_devicesVars PROVE TypeOK'
<1>1. ASSUME NEW t \in Tasks,
             \/ Enroll(t) \/ CheckStore(t) \/ Wipe(t) \/ Replenish(t) \/ Allocate(t)
             \/ SaveKey(t) \/ CountDevices(t) \/ InsertDevice(t) \/ CheckOwner(t)
             \/ InsertKey(t) \/ UploadAnswered(t) \/ Abandon(t) \/ Revoke(t) \/ Revoked(t)
      PROVE  TypeOK'
  BY <1>1, EnrollTypes, WipeTypes, ReplenishTypes, AllocateTypes, SaveTypes, ServerTypes,
     InsertTypes, KeyTypes, EndTypes, RevokeTypes
<1>2. ASSUME NEW d \in Enrolled, FetchBundle(d) PROVE TypeOK'
  BY <1>2, GiveTypes
<1>3. ASSUME NEW b \in Browsers, Accept(b) PROVE TypeOK'
  BY <1>3, AcceptTypes
<1>4. CASE UNCHANGED devicesVars
  BY <1>4 DEF devicesVars, TypeOK, Enrolled
<1> QED BY <1>1, <1>2, <1>3, <1>4 DEF DevicesNext

LEMMA InitTypes == DevicesInit => TypeOK
<1> SUFFICES ASSUME DevicesInit PROVE TypeOK
  OBVIOUS
<1>1. pool = <<>> /\ pool \in Seq(Seq(PoolRow)) /\ Len(pool) = 0
  BY DEF DevicesInit
<1>2. Enrolled = {}
  BY DEF DevicesInit, Enrolled
<1>3. store \in [Browsers -> SUBSET StoreRow] /\ \A b \in Browsers : store[b] = {}
  BY DEF DevicesInit
<1>4. \A b \in Browsers : IsFiniteSet(store[b])
  BY <1>3, FS_EmptySet
<1>5. task \in [Tasks -> TaskStates] /\ \A t \in Tasks : task[t].at = "idle"
  BY DEF DevicesInit, TaskStates, Idle
<1> QED BY <1>1, <1>2, <1>3, <1>4, <1>5 DEF DevicesInit, TypeOK, NoDevice

(* Every reachable state has its types: key ids and device ids are numbers *)
(* that were handed out, and what a task holds names a device of the table  *)
(* or one that was revoked.                                                *)
THEOREM DeviceTypes == DevicesSpec => []TypeOK
BY InitTypes, NextTypes, PTL DEF DevicesSpec


-----------------------------------------------------------------------------
(* A prekey is given once: what is not used was not given, and the one     *)
(* statement that gives a prekey marks it.                                 *)

GoodRow(row) == row.given <= 1 /\ (row.used = FALSE => row.given = 0)
GivenInv == \A d \in 1..Len(pool) : \A i \in DOMAIN pool[d] : GoodRow(pool[d][i])

(* The pools a step of a task can leave.                                    *)
LEMMA PoolSteps ==
  ASSUME TypeOK, GivenInv, NEW t \in Tasks,
         InsertDevice(t) \/ InsertKey(t) \/ Revoke(t)
  PROVE  GivenInv'
<1>0. pool \in Seq(Seq(PoolRow)) /\ Len(pool) \in Nat
  BY PoolTypes
<1>1. CASE InsertDevice(t)
  <2>1. /\ Len(pool') = Len(pool) + 1 /\ pool'[Len(pool) + 1] = <<>>
        /\ \A d \in 1..Len(pool) : pool'[d] = pool[d]
    BY <1>1, InsertFacts
  <2>2. ASSUME NEW d \in 1..Len(pool'), NEW i \in DOMAIN pool'[d]
        PROVE  GoodRow(pool'[d][i])
    <3>1. d \in 1..Len(pool)
      <4>1. d \in 1..Len(pool) \/ d = Len(pool) + 1
        BY <1>0, <2>1, <2>2
      <4>2. DOMAIN pool'[Len(pool) + 1] = {}
        BY <2>1
      <4> QED BY <2>2, <4>1, <4>2
    <3> QED BY <2>1, <2>2, <3>1 DEF GivenInv
  <2> QED BY <2>2 DEF GivenInv, GoodRow
<1>2. CASE InsertKey(t) /\ UNCHANGED pool
  BY <1>2 DEF GivenInv, GoodRow
<1>3. CASE InsertKey(t) /\ ~UNCHANGED pool
  <2> DEFINE d == task[t].dev
  <2>1. /\ d \in Enrolled
        /\ \E row \in PoolRow : /\ row.given = 0 /\ row.used = FALSE
                                /\ pool' = [pool EXCEPT ![d] = Append(pool[d], row)]
    BY <1>3, KeyFacts
  <2>2. PICK row \in PoolRow : /\ row.given = 0 /\ row.used = FALSE
                               /\ pool' = [pool EXCEPT ![d] = Append(pool[d], row)]
    BY <2>1
  <2>3. d \in 1..Len(pool) /\ pool[d] \in Seq(PoolRow)
    BY <2>1, PoolTypes
  <2> HIDE DEF d
  <2>4. /\ Len(pool') = Len(pool) /\ pool'[d] = Append(pool[d], row)
        /\ \A e \in 1..Len(pool) \ {d} : pool'[e] = pool[e]
    BY <1>0, <2>2, <2>3
  <2>5. ASSUME NEW i \in DOMAIN Append(pool[d], row)
        PROVE  GoodRow(Append(pool[d], row)[i])
    <3>1. \/ i \in DOMAIN pool[d] /\ Append(pool[d], row)[i] = pool[d][i]
          \/ Append(pool[d], row)[i] = row
      BY <2>3, <2>5
    <3> QED BY <2>2, <2>3, <3>1 DEF GivenInv, GoodRow
  <2>6. ASSUME NEW e \in 1..Len(pool'), NEW i \in DOMAIN pool'[e]
        PROVE  GoodRow(pool'[e][i])
    BY <2>4, <2>5, <2>6 DEF GivenInv
  <2> QED BY <2>6 DEF GivenInv, GoodRow
<1>4. CASE Revoke(t)
  <2>1. PICK d \in Enrolled : /\ Len(pool') = Len(pool) /\ pool'[d] = <<>>
                              /\ \A e \in 1..Len(pool) \ {d} : pool'[e] = pool[e]
    BY <1>4, RevokeFacts
  <2>2. ASSUME NEW e \in 1..Len(pool'), NEW i \in DOMAIN pool'[e]
        PROVE  GoodRow(pool'[e][i])
    BY <2>1, <2>2 DEF GivenInv
  <2> QED BY <2>2 DEF GivenInv, GoodRow
<1> QED BY <1>1, <1>2, <1>3, <1>4

LEMMA GiveOnce ==
  ASSUME TypeOK, GivenInv, NEW d \in Enrolled, FetchBundle(d) PROVE GivenInv'
<1>1. /\ pool \in Seq(Seq(PoolRow)) /\ Len(pool) \in Nat
      /\ d \in 1..Len(pool) /\ pool[d] \in Seq(PoolRow)
  BY PoolTypes
<1>2. PICK i \in DOMAIN pool[d], row \in PoolRow :
        /\ pool[d][i].used = FALSE /\ row.given = pool[d][i].given + 1 /\ row.used = TRUE
        /\ pool' = [pool EXCEPT ![d] = [pool[d] EXCEPT ![i] = row]]
  BY GiveFacts
<1>3. GoodRow(row)
  BY <1>1, <1>2 DEF GivenInv, GoodRow
<1> DEFINE rows == [pool[d] EXCEPT ![i] = row]
<1>4. rows \in Seq(PoolRow) /\ pool' = [pool EXCEPT ![d] = rows]
  BY <1>1, <1>2
<1>6. \A j \in DOMAIN rows : j \in DOMAIN pool[d] /\ (rows[j] = row \/ rows[j] = pool[d][j])
  BY <1>1, <1>2
<1> HIDE DEF rows
<1>7. /\ Len(pool') = Len(pool) /\ pool'[d] = rows
      /\ \A e \in 1..Len(pool) \ {d} : pool'[e] = pool[e]
  BY <1>1, <1>4
<1>5. ASSUME NEW e \in 1..Len(pool'), NEW j \in DOMAIN pool'[e]
      PROVE  GoodRow(pool'[e][j])
  BY <1>1, <1>3, <1>5, <1>6, <1>7 DEF GivenInv
<1> QED BY <1>5 DEF GivenInv, GoodRow

(* A one-time prekey is handed to one peer at most, in any order of        *)
(* uploads, requests, revocations and enrollments.                         *)
THEOREM PrekeyGivenOnce == DevicesSpec => []GivenOnce
<1>1. DevicesInit => TypeOK /\ GivenInv
  <2>1. DevicesInit => Len(pool) = 0
    BY DEF DevicesInit
  <2>2. DevicesInit => GivenInv
    BY <2>1 DEF GivenInv
  <2> QED BY <2>2, InitTypes
<1>2. TypeOK /\ GivenInv /\ [DevicesNext]_devicesVars => (TypeOK /\ GivenInv)'
  <2> SUFFICES ASSUME TypeOK, GivenInv, [DevicesNext]_devicesVars PROVE (TypeOK /\ GivenInv)'
    OBVIOUS
  <2>1. TypeOK'
    BY NextTypes
  <2>2. CASE UNCHANGED pool
    BY <2>1, <2>2 DEF GivenInv, GoodRow
  <2>3. CASE \E t \in Tasks : InsertDevice(t) \/ InsertKey(t) \/ Revoke(t)
    BY <2>1, <2>3, PoolSteps
  <2>4. CASE \E d \in Enrolled : FetchBundle(d)
    BY <2>1, <2>4, GiveOnce
  <2> QED
    BY <2>2, <2>3, <2>4 DEF DevicesNext, devicesVars, Enroll, CheckStore, Wipe, Replenish, Allocate, SaveKey,
       CountDevices, CheckOwner, UploadAnswered, Abandon, Revoked, Accept
<1>3. TypeOK /\ GivenInv => GivenOnce
  BY PoolTypes DEF GivenInv, GoodRow, GivenOnce
<1> QED BY <1>1, <1>2, <1>3, PTL DEF DevicesSpec

-----------------------------------------------------------------------------
(* Whose a device is: what a browser believes to be, and what a task of it *)
(* fills, is a device of its own, if it is still enrolled.                 *)

Its(b, d) == d \in Enrolled => devices[d] = b
Fills(t, r) == r.at \in {"mint", "save", "admitted", "insert"} => Its(BrowserOf[t], r.dev)
OwnInv == (\A b \in Browsers : Its(b, cached[b])) /\ \A t \in Tasks : Fills(t, task[t])

OldStay == \A d \in 0..Len(pool) : d \in Enrolled' => d \in Enrolled /\ devices'[d] = devices[d]

LEMMA OwnStep ==
  ASSUME TypeOK, OwnInv, NEW t \in Tasks, NEW r, SetTask(t, r), OldStay, Fills(t, r)',
         \A b \in Browsers : cached'[b] = cached[b] \/ Its(b, cached[b])'
  PROVE  OwnInv'
<1>1. task'[t] = r /\ \A u \in Tasks \ {t} : task'[u] = task[u]
  BY DEF TypeOK, SetTask
<1>2. ASSUME NEW b \in Browsers PROVE Its(b, cached[b])'
  <2>1. CASE cached'[b] = cached[b]
    <3>1. PICK d : d = cached[b]
      OBVIOUS
    <3>2. d \in 0..Len(pool) /\ Its(b, d) /\ cached'[b] = d
      BY <2>1, <3>1 DEF TypeOK, OwnInv
    <3> QED BY <3>2 DEF Its, OldStay
  <2> QED BY <1>2, <2>1
<1>3. ASSUME NEW u \in Tasks PROVE Fills(u, task[u])'
  <2>1. CASE u = t
    BY <1>1, <2>1 DEF Fills, Its
  <2>2. CASE u # t
    <3>1. PICK q : q = task[u]
      OBVIOUS
    <3>2. task'[u] = q /\ Fills(u, q)
      BY <1>1, <2>2, <3>1 DEF OwnInv
    <3>3. q.at \in {"mint", "save", "admitted", "insert"} => q.dev \in 0..Len(pool)
      BY <3>1 DEF TypeOK
    <3>4. Fills(u, q)'
      BY <3>2, <3>3 DEF Fills, Its, OldStay
    <3> QED BY <3>2, <3>4 DEF Fills, Its
  <2> QED BY <2>1, <2>2
<1> QED BY <1>2, <1>3 DEF OwnInv, Its, Fills

LEMMA OwnQuiet ==
  ASSUME TypeOK, OwnInv, NEW t \in Tasks, NEW r, SetTask(t, r),
         UNCHANGED <<cached, devices>>, Fills(t, r)
  PROVE  OwnInv'
<1>1. OldStay /\ Fills(t, r)'
  BY DEF OldStay, Enrolled, Fills, Its
<1> QED BY <1>1, OwnStep

LEMMA OwnIdle ==
  ASSUME TypeOK, OwnInv, NEW t \in Tasks, SetTask(t, Idle), UNCHANGED <<cached, devices>>
  PROVE  OwnInv'
BY OwnQuiet DEF Fills, Idle

LEMMA OwnTask ==
  ASSUME TypeOK, OwnInv, NEW t \in Tasks,
         \/ Enroll(t) \/ CheckStore(t) \/ Wipe(t) \/ Replenish(t) \/ Abandon(t)
         \/ Allocate(t) \/ SaveKey(t) \/ CountDevices(t) \/ CheckOwner(t) \/ InsertKey(t)
  PROVE  OwnInv'
<1>1. UNCHANGED <<cached, devices>>
  BY DEF Enroll, CheckStore, Wipe, Replenish, Abandon, Allocate, SaveKey, CountDevices,
         CheckOwner, InsertKey
<1>2. CASE SetTask(t, Idle)
  BY <1>1, <1>2, OwnIdle
<1>3. CASE Enroll(t) \/ Wipe(t)
  <2>1. PICK again : SetTask(t, [at |-> "check", retried |-> again])
    BY <1>3 DEF Enroll, Wipe
  <2>2. PICK r : r = [at |-> "check", retried |-> again]
    OBVIOUS
  <2>3. Fills(t, r)
    BY <2>2 DEF Fills
  <2> QED BY <1>1, <2>1, <2>2, <2>3, OwnQuiet
<1>4. CASE CheckStore(t) /\ ~SetTask(t, Idle)
  <2>1. PICK r : SetTask(t, r) /\ (r.at = "wipe" \/ r.dev = NoDevice)
    <3>1. Minting(Target, NoDevice).dev = NoDevice
      BY DEF Minting
    <3> QED BY <1>4, <3>1 DEF CheckStore
  <2>2. NoDevice \notin Enrolled
    BY DEF TypeOK, NoDevice
  <2> QED BY <1>1, <2>1, <2>2, OwnQuiet DEF Fills, Its
<1>5. CASE Replenish(t)
  <2>1. PICK r : SetTask(t, r) /\ r.dev = cached[BrowserOf[t]]
    BY <1>5 DEF Replenish, Minting
  <2>2. Its(BrowserOf[t], cached[BrowserOf[t]])
    BY DevicesAssumption DEF OwnInv
  <2> QED BY <1>1, <2>1, <2>2, OwnQuiet DEF Fills
<1>6. ASSUME NEW r, SetTask(t, r), r.dev = task[t].dev,
             task[t].at \in {"mint", "save", "admitted", "insert"}
      PROVE  OwnInv'
  <2>1. Fills(t, r)
    BY <1>6 DEF OwnInv, Fills
  <2> QED BY <1>1, <1>6, <2>1, OwnQuiet
<1>7. CASE Allocate(t) \/ SaveKey(t)
  <2>1. \E r : SetTask(t, r) /\ r.dev = task[t].dev
    <3>1. CASE SaveKey(t)
      BY <3>1, SaveFacts
    <3>2. CASE Allocate(t)
      <4>1. task[t] \in Batches
        BY <3>2, TaskKinds DEF Allocate
      <4>2. PICK r : r = [task[t] EXCEPT !.at = "save", !.id = NextKeyId(t)]
        OBVIOUS
      <4>3. SetTask(t, r) /\ r.dev = task[t].dev
        BY <3>2, <4>1, <4>2 DEF Allocate, Batches
      <4> QED BY <4>3
    <3> QED BY <1>7, <3>1, <3>2
  <2>2. task[t].at \in {"mint", "save"}
    BY <1>7 DEF Allocate, SaveKey
  <2> QED BY <1>6, <2>1, <2>2
<1>8. CASE (CountDevices(t) \/ CheckOwner(t)) /\ ~SetTask(t, Idle)
  <2>1. task[t].at = "mint" /\ task[t] \in Batches
    BY <1>8, TaskKinds DEF CountDevices, CheckOwner, Ready
  <2>2. PICK at : SetTask(t, [task[t] EXCEPT !.at = at])
    BY <1>8 DEF CountDevices, CheckOwner
  <2>3. [task[t] EXCEPT !.at = at].dev = task[t].dev
    BY <2>1 DEF Batches
  <2> QED BY <1>6, <2>1, <2>2, <2>3
<1>9. CASE InsertKey(t) /\ ~SetTask(t, Idle)
  BY <1>6, <1>9, KeyFacts
<1> QED BY <1>2, <1>3, <1>4, <1>5, <1>7, <1>8, <1>9 DEF Abandon

LEMMA OwnDevice ==
  ASSUME TypeOK, OwnInv, NEW t \in Tasks,
         InsertDevice(t) \/ UploadAnswered(t) \/ Revoke(t) \/ Revoked(t)
  PROVE  OwnInv'
<1>1. NoDevice \notin Enrolled /\ \A d \in Enrolled : d \in 1..Len(pool)
  BY DEF TypeOK, NoDevice
<1>2. CASE InsertDevice(t)
  <2>1. PICK r \in Batches : SetTask(t, r) /\ r.dev = Len(pool) + 1
    BY <1>2, InsertFacts
  <2>2. /\ Len(pool) \in Nat /\ Enrolled' = Enrolled \cup {Len(pool) + 1}
        /\ devices'[Len(pool) + 1] = BrowserOf[t]
        /\ \A d \in Enrolled : devices'[d] = devices[d]
        /\ cached' = cached
    BY <1>2, InsertFacts
  <2>3. OldStay
    BY <2>2 DEF OldStay
  <2>4. Fills(t, r)'
    BY <2>1, <2>2 DEF Fills, Its
  <2> QED BY <2>1, <2>2, <2>3, <2>4, OwnStep
<1>3. CASE UploadAnswered(t) \/ Revoked(t)
  <2>1. SetTask(t, Idle) /\ devices' = devices
    BY <1>3 DEF UploadAnswered, Revoked
  <2>2. OldStay /\ Fills(t, Idle)'
    BY <2>1 DEF OldStay, Enrolled, Fills, Idle
  <2>3. PICK x : /\ cached' = [cached EXCEPT ![BrowserOf[t]] = x]
                 /\ x = cached[BrowserOf[t]] \/ x = NoDevice \/ Its(BrowserOf[t], x)
    <3>1. CASE UploadAnswered(t)
      <4>1. Its(BrowserOf[t], task[t].dev)
        BY <3>1 DEF UploadAnswered, OwnInv, Fills
      <4> QED BY <3>1, <4>1 DEF UploadAnswered
    <3>2. CASE Revoked(t)
      BY <3>2 DEF Revoked
    <3> QED BY <1>3, <3>1, <3>2
  <2>4. \A b \in Browsers : cached'[b] = cached[b] \/ Its(b, cached[b])'
    BY <1>1, <2>1, <2>3, DevicesAssumption DEF TypeOK, Its, Enrolled
  <2> QED BY <2>1, <2>2, <2>4, OwnStep
<1>4. CASE Revoke(t)
  <2>1. PICK d \in Enrolled :
          /\ Enrolled' = Enrolled \ {d} /\ \A e \in Enrolled' : devices'[e] = devices[e]
          /\ \E r \in Revocations : SetTask(t, r)
          /\ cached' = cached
    BY <1>4, RevokeFacts
  <2>2. PICK r \in Revocations : SetTask(t, r)
    BY <2>1
  <2>3. OldStay /\ Fills(t, r)'
    BY <2>1 DEF OldStay, Fills, Revocations
  <2> QED BY <2>1, <2>2, <2>3, OwnStep
<1> QED BY <1>2, <1>3, <1>4

LEMMA OwnNext ==
  ASSUME TypeOK, OwnInv, [DevicesNext]_devicesVars PROVE OwnInv'
<1>1. CASE UNCHANGED <<cached, devices, task>>
  BY <1>1 DEF OwnInv, Its, Fills, Enrolled
<1>2. CASE \E d \in Enrolled : FetchBundle(d)
  BY <1>1, <1>2 DEF FetchBundle
<1>3. CASE \E b \in Browsers : Accept(b)
  BY <1>1, <1>3 DEF Accept
<1> QED BY <1>1, <1>2, <1>3, OwnTask, OwnDevice DEF DevicesNext, devicesVars

-----------------------------------------------------------------------------
(* The keys of a browser, for any number of tasks of it at a time, as long *)
(* as no two of them overlapped in one of the ways Devices records.        *)

HeldIn(S, key) == \E k \in S : k.id = key.id /\ k.secret = key.secret
AllHeld(S, keys) == \A i \in DOMAIN keys : HeldIn(S, keys[i])
Distinct(keys) == \A i, j \in DOMAIN keys : keys[i].id = keys[j].id => i = j
Disjoint(keys, rows) == \A i \in DOMAIN keys, j \in DOMAIN rows : rows[j].id # keys[i].id

(* A device a browser names is its own, and each key of its pool is held.  *)
OwnKeys(b, d) == d \in Enrolled => devices[d] = b /\ AllHeld(store[b], pool[d])

(* A batch on its way: held, of new ids, for a device of this browser.     *)
GoodBatch(b, r) ==
  /\ AllHeld(store[b], r.bundle)
  /\ Distinct(r.bundle)
  /\ OwnKeys(b, r.dev)
  /\ r.dev \in Enrolled => Disjoint(r.bundle, pool[r.dev])

TaskInv(b, r) ==
  /\ r.at \in {"check", "wipe"} => cached[b] = NoDevice
  /\ r.at \in {"mint", "save", "admitted", "insert"} => GoodBatch(b, r)
  /\ r.at = "save" => NextId(store[b], r.id)

BrowserInv(b) ==
  /\ OwnKeys(b, cached[b])
  /\ \A t \in Tasks : BrowserOf[t] = b => TaskInv(b, task[t])
  /\ \A t, u \in Tasks :
       BrowserOf[t] = b /\ BrowserOf[u] = b /\ Busy(t) /\ Busy(u) /\ t # u
         => Disjoint(task[t].bundle, task[u].bundle)

KeysInv == conflict \subseteq overlapped /\ \A b \in Browsers \ overlapped : BrowserInv(b)

(* What a step leaves of what a browser holds, and of what is held for it. *)
SameKeys(rows, now) ==
  DOMAIN now = DOMAIN rows /\
  \A i \in DOMAIN rows : now[i].id = rows[i].id /\ now[i].secret = rows[i].secret

Kept(b) ==
  /\ \A k \in store[b] : HeldIn(store'[b], k)
  /\ \A d \in 0..Len(pool) : d \in Enrolled' =>
       /\ d \in Enrolled /\ devices'[d] = devices[d]
       /\ devices[d] = b => SameKeys(pool[d], pool'[d])

Left(b) ==
  /\ Kept(b) /\ cached'[b] = cached[b]
  /\ \A q \in store'[b] : \E k \in store[b] : q.id = k.id

LEMMA HeldKept ==
  ASSUME NEW b \in Browsers, Kept(b), NEW key, HeldIn(store[b], key)
  PROVE  HeldIn(store'[b], key)
BY DEF Kept, HeldIn

LEMMA OwnKept ==
  ASSUME NEW b \in Browsers, Kept(b), NEW d \in 0..Len(pool), OwnKeys(b, d)
  PROVE  OwnKeys(b, d)'
<1> SUFFICES ASSUME d \in Enrolled'
             PROVE  devices'[d] = b /\ AllHeld(store'[b], pool'[d])
  BY DEF OwnKeys, AllHeld, HeldIn
<1>1. /\ d \in Enrolled /\ devices'[d] = devices[d]
      /\ devices[d] = b => SameKeys(pool[d], pool'[d])
  BY DEF Kept
<1>2. devices[d] = b /\ AllHeld(store[b], pool[d])
  BY <1>1 DEF OwnKeys
<1>3. SameKeys(pool[d], pool'[d])
  BY <1>1, <1>2
<1>4. ASSUME NEW i \in DOMAIN pool'[d] PROVE HeldIn(store'[b], pool'[d][i])
  <2>1. i \in DOMAIN pool[d] /\ HeldIn(store'[b], pool[d][i])
    BY <1>2, <1>3, <1>4, HeldKept DEF AllHeld, SameKeys
  <2> QED BY <1>3, <2>1 DEF SameKeys, HeldIn
<1> QED BY <1>1, <1>2, <1>4 DEF AllHeld

LEMMA BatchKept ==
  ASSUME NEW b \in Browsers, Kept(b), NEW r, r.dev \in 0..Len(pool), GoodBatch(b, r)
  PROVE  GoodBatch(b, r)'
<1>1. AllHeld(store'[b], r.bundle)
  BY HeldKept DEF GoodBatch, AllHeld
<1>2. OwnKeys(b, r.dev)'
  <2>1. PICK d : d = r.dev
    OBVIOUS
  <2>2. OwnKeys(b, d)
    BY <2>1 DEF GoodBatch
  <2> QED BY <2>1, <2>2, OwnKept
<1>3. ASSUME r.dev \in Enrolled' PROVE Disjoint(r.bundle, pool'[r.dev])
  <2>1. /\ r.dev \in Enrolled
        /\ devices[r.dev] = b => SameKeys(pool[r.dev], pool'[r.dev])
    BY <1>3 DEF Kept
  <2>2. devices[r.dev] = b /\ Disjoint(r.bundle, pool[r.dev])
    BY <2>1 DEF GoodBatch, OwnKeys
  <2> QED BY <2>1, <2>2 DEF SameKeys, Disjoint
<1>4. Distinct(r.bundle)
  BY DEF GoodBatch
<1> QED BY <1>1, <1>2, <1>3, <1>4 DEF GoodBatch, AllHeld, Disjoint, Distinct, HeldIn

LEMMA NextIdKept ==
  ASSUME NEW b \in Browsers, Left(b), NEW n, NextId(store[b], n)
  PROVE  NextId(store'[b], n)
<1>1. \A k \in store[b] : \E q \in store'[b] : q.id = k.id
  BY DEF Left, Kept, HeldIn
<1>2. \A q \in store'[b] : \E k \in store[b] : q.id = k.id
  BY DEF Left
<1> QED BY <1>1, <1>2 DEF NextId

LEMMA TaskKept ==
  ASSUME NEW b \in Browsers, Left(b), NEW r, TaskInv(b, r),
         r.at \in {"mint", "save", "admitted", "insert"} => r.dev \in 0..Len(pool)
  PROVE  TaskInv(b, r)'
<1>1. ASSUME r.at \in {"mint", "save", "admitted", "insert"} PROVE GoodBatch(b, r)'
  BY <1>1, BatchKept DEF TaskInv, Left
<1>2. ASSUME r.at = "save" PROVE NextId(store'[b], r.id)
  BY <1>2, NextIdKept DEF TaskInv
<1> QED BY <1>1, <1>2 DEF TaskInv, Left

LEMMA BrowserKept ==
  ASSUME TypeOK, NEW b \in Browsers, Left(b), BrowserInv(b),
         \A t \in Tasks : BrowserOf[t] = b => task'[t] = task[t]
  PROVE  BrowserInv(b)'
<1>1. OwnKeys(b, cached[b])'
  <2>1. PICK d : d = cached[b]
    OBVIOUS
  <2>2. d \in 0..Len(pool) /\ OwnKeys(b, d) /\ cached'[b] = d /\ Kept(b)
    BY <2>1 DEF TypeOK, BrowserInv, Left
  <2>3. OwnKeys(b, d)'
    BY <2>2, OwnKept
  <2> QED BY <2>2, <2>3 DEF OwnKeys
<1>2. ASSUME NEW u \in Tasks, BrowserOf[u] = b PROVE TaskInv(b, task[u])'
  <2>1. PICK q : q = task[u]
    OBVIOUS
  <2>2. /\ task'[u] = q /\ TaskInv(b, q)
        /\ q.at \in {"mint", "save", "admitted", "insert"} => q.dev \in 0..Len(pool)
    BY <1>2, <2>1 DEF TypeOK, BrowserInv
  <2>3. TaskInv(b, q)'
    BY <2>2, TaskKept
  <2> QED BY <2>2, <2>3 DEF TaskInv, GoodBatch, OwnKeys
<1>3. ASSUME NEW t \in Tasks, NEW u \in Tasks, BrowserOf[t] = b, BrowserOf[u] = b,
             Busy(t)', Busy(u)', t # u
      PROVE  Disjoint(task'[t].bundle, task'[u].bundle)
  <2>1. task'[t] = task[t] /\ task'[u] = task[u] /\ Busy(t) /\ Busy(u)
    BY <1>3 DEF Busy
  <2> QED BY <1>3, <2>1 DEF BrowserInv
<1> QED BY <1>1, <1>2, <1>3 DEF BrowserInv, Disjoint, Busy

(* The batches of the other tasks of a browser have no key of these.       *)
Apart(t, keys) == \A u \in Beside(t) : Busy(u) => Disjoint(keys, task[u].bundle)

(* A task of one browser leaves the others as they are.                    *)
LEMMA TaskStep ==
  ASSUME TypeOK, KeysInv, NEW t \in Tasks, NEW r, SetTask(t, r),
         \A c \in Browsers \ {BrowserOf[t]} : Left(c),
         conflict' \subseteq overlapped', overlapped \subseteq overlapped',
         BrowserOf[t] \notin overlapped' =>
           /\ OwnKeys(BrowserOf[t], cached[BrowserOf[t]])'
           /\ TaskInv(BrowserOf[t], r)'
           /\ \A u \in Beside(t) : TaskInv(BrowserOf[t], task[u])'
           /\ r.at \in {"mint", "save", "admitted", "insert"} => Apart(t, r.bundle)
  PROVE  KeysInv'
<1>1. BrowserOf \in [Tasks -> Browsers]
  BY DevicesAssumption
<1>2. task'[t] = r /\ \A u \in Tasks \ {t} : task'[u] = task[u]
  BY DEF TypeOK, SetTask
<1>3. ASSUME NEW b \in Browsers \ overlapped', b # BrowserOf[t] PROVE BrowserInv(b)'
  BY <1>1, <1>2, <1>3, BrowserKept DEF KeysInv
<1>4. ASSUME BrowserOf[t] \notin overlapped' PROVE BrowserInv(BrowserOf[t])'
  <2> DEFINE b == BrowserOf[t]
  <2>1. BrowserInv(b)
    BY <1>1, <1>4 DEF KeysInv
  <2>2. ASSUME NEW u \in Tasks, BrowserOf[u] = b PROVE TaskInv(b, task[u])'
    <3>1. CASE u = t
      BY <1>2, <1>4, <3>1 DEF TaskInv, GoodBatch, OwnKeys
    <3>2. CASE u # t
      BY <1>4, <2>2, <3>2 DEF Beside
    <3> QED BY <3>1, <3>2
  <2>3. ASSUME NEW u \in Tasks, NEW v \in Tasks, BrowserOf[u] = b, BrowserOf[v] = b,
               Busy(u)', Busy(v)', u # v
        PROVE  Disjoint(task'[u].bundle, task'[v].bundle)
    <3>1. CASE u = t
      <4>1. v \in Beside(t) /\ task'[v] = task[v] /\ Busy(v) /\ task'[u] = r
        BY <1>2, <2>3, <3>1 DEF Beside, Busy
      <4>2. r.at \in {"mint", "save", "admitted", "insert"}
        BY <2>3, <4>1 DEF Busy
      <4> QED BY <1>4, <4>1, <4>2 DEF Apart
    <3>2. CASE v = t
      <4>1. u \in Beside(t) /\ task'[u] = task[u] /\ Busy(u) /\ task'[v] = r
        BY <1>2, <2>3, <3>2 DEF Beside, Busy
      <4>2. r.at \in {"mint", "save", "admitted", "insert"}
        BY <2>3, <4>1 DEF Busy
      <4>3. Disjoint(r.bundle, task[u].bundle)
        BY <1>4, <4>1, <4>2 DEF Apart
      <4> QED BY <4>1, <4>3 DEF Disjoint
    <3>3. CASE u # t /\ v # t
      <4>1. task'[u] = task[u] /\ task'[v] = task[v] /\ Busy(u) /\ Busy(v)
        BY <1>2, <2>3, <3>3 DEF Busy
      <4> QED BY <2>1, <2>3, <4>1 DEF BrowserInv
    <3> QED BY <3>1, <3>2, <3>3
  <2>4. OwnKeys(b, cached[b])'
    BY <1>4
  <2> HIDE DEF b
  <2>5. BrowserInv(b)'
    BY <2>2, <2>3, <2>4 DEF BrowserInv, Disjoint, Busy
  <2> QED BY <2>5 DEF b, BrowserInv, OwnKeys, AllHeld, TaskInv
<1> QED BY <1>3, <1>4 DEF KeysInv

(* What holds of a task of a browser that is not flagged.                  *)
LEMMA Unflagged ==
  ASSUME TypeOK, KeysInv, NEW t \in Tasks, BrowserOf[t] \notin overlapped
  PROVE  /\ BrowserOf[t] \in Browsers /\ BrowserInv(BrowserOf[t])
         /\ OwnKeys(BrowserOf[t], cached[BrowserOf[t]]) /\ TaskInv(BrowserOf[t], task[t])
         /\ \A u \in Beside(t) : u \in Tasks /\ BrowserOf[u] = BrowserOf[t] /\ TaskInv(BrowserOf[t], task[u])
         /\ Busy(t) => Apart(t, task[t].bundle)
<1>1. BrowserOf[t] \in Browsers
  BY DevicesAssumption
<1>2. BrowserInv(BrowserOf[t])
  BY <1>1 DEF KeysInv
<1> QED BY <1>1, <1>2 DEF BrowserInv, Beside, Apart

(* A step that leaves every browser what it has and moves one task on.     *)
LEMMA LeftStep ==
  ASSUME TypeOK, KeysInv, NEW t \in Tasks, NEW r, SetTask(t, r),
         \A c \in Browsers : Left(c), UNCHANGED <<conflict, overlapped>>,
         BrowserOf[t] \notin overlapped =>
           /\ TaskInv(BrowserOf[t], r)'
           /\ r.at \in {"mint", "save", "admitted", "insert"} => Apart(t, r.bundle)
  PROVE  KeysInv'
<1>1. ASSUME BrowserOf[t] \notin overlapped'
      PROVE  /\ OwnKeys(BrowserOf[t], cached[BrowserOf[t]])'
             /\ \A u \in Beside(t) : TaskInv(BrowserOf[t], task[u])'
  <2>1. PICK b : b = BrowserOf[t]
    OBVIOUS
  <2>2. /\ b \in Browsers /\ OwnKeys(b, cached[b]) /\ Left(b)
        /\ \A u \in Beside(t) : u \in Tasks /\ TaskInv(b, task[u])
    BY <1>1, <2>1, Unflagged
  <2>3. OwnKeys(b, cached[b])'
    <3>1. PICK d : d = cached[b]
      OBVIOUS
    <3>2. d \in 0..Len(pool) /\ OwnKeys(b, d) /\ cached'[b] = d /\ Kept(b)
      BY <2>2, <3>1 DEF TypeOK, Left
    <3>3. OwnKeys(b, d)'
      BY <2>2, <3>2, OwnKept
    <3> QED BY <3>2, <3>3 DEF OwnKeys
  <2>4. ASSUME NEW u \in Beside(t) PROVE TaskInv(b, task[u])'
    <3>1. PICK q : q = task[u]
      OBVIOUS
    <3>2. u \in Tasks /\ u # t /\ task'[u] = q /\ TaskInv(b, q)
      BY <2>2, <2>4, <3>1 DEF Beside, SetTask, TypeOK
    <3>3. q.at \in {"mint", "save", "admitted", "insert"} => q.dev \in 0..Len(pool)
      BY <3>1, <3>2 DEF TypeOK
    <3>4. TaskInv(b, q)'
      BY <2>2, <3>2, <3>3, TaskKept
    <3> QED BY <3>2, <3>4 DEF TaskInv, GoodBatch, OwnKeys
  <2> QED BY <2>1, <2>3, <2>4 DEF OwnKeys, AllHeld, TaskInv, GoodBatch
<1>2. conflict' \subseteq overlapped' /\ overlapped \subseteq overlapped'
  BY DEF KeysInv
<1> QED BY <1>1, <1>2, TaskStep

LEMMA QuietLeft ==
  ASSUME NEW b \in Browsers, UNCHANGED <<store, cached, devices, pool>> PROVE Left(b)
BY DEF Left, Kept, HeldIn, SameKeys, Enrolled

(* A step that only moves the task on.                                     *)
LEMMA QuietKeys ==
  ASSUME TypeOK, KeysInv, NEW t \in Tasks, NEW r, SetTask(t, r),
         UNCHANGED <<store, cached, devices, pool, conflict, overlapped>>,
         BrowserOf[t] \notin overlapped =>
           /\ TaskInv(BrowserOf[t], r)
           /\ r.at \in {"mint", "save", "admitted", "insert"} => Apart(t, r.bundle)
  PROVE  KeysInv'
<1>1. \A b \in Browsers : Left(b)
  BY QuietLeft
<1>2. TaskInv(BrowserOf[t], r) => TaskInv(BrowserOf[t], r)'
  BY DEF TaskInv, GoodBatch, OwnKeys, AllHeld, HeldIn, Disjoint, Distinct, Enrolled, NextId
<1> QED BY <1>1, <1>2, LeftStep

LEMMA IdleInv ==
  ASSUME NEW b PROVE TaskInv(b, Idle) /\ Idle.at = "idle"
BY DEF TaskInv, Idle

LEMMA IdleKeys ==
  ASSUME TypeOK, KeysInv, NEW t \in Tasks, SetTask(t, Idle),
         UNCHANGED <<store, cached, devices, pool, conflict, overlapped>>
  PROVE  KeysInv'
BY IdleInv, QuietKeys

(* An empty batch for the device the browser believes to be.               *)
LEMMA EmptyBatch ==
  ASSUME NEW b, NEW want, NEW d, OwnKeys(b, d), NEW t
  PROVE  /\ TaskInv(b, Minting(want, d)) /\ Minting(want, d).at = "mint"
         /\ Apart(t, Minting(want, d).bundle)
<1> DEFINE r == Minting(want, d)
<1>1. r.at = "mint" /\ r.bundle = <<>> /\ r.dev = d /\ DOMAIN r.bundle = {}
  BY DEF Minting
<1> HIDE DEF r
<1>2. AllHeld(store[b], r.bundle) /\ Distinct(r.bundle) /\ Disjoint(r.bundle, pool[r.dev])
  BY <1>1 DEF AllHeld, Distinct, Disjoint
<1>3. OwnKeys(b, r.dev)
  BY <1>1
<1>4. GoodBatch(b, r)
  BY <1>2, <1>3 DEF GoodBatch
<1>5. TaskInv(b, r)
  BY <1>1, <1>4 DEF TaskInv
<1>6. Apart(t, r.bundle)
  BY <1>1 DEF Apart, Disjoint
<1> QED BY <1>1, <1>5, <1>6 DEF r

LEMMA EnrollKeys ==
  ASSUME TypeOK, KeysInv, NEW t \in Tasks,
         Enroll(t) \/ CheckStore(t) \/ Replenish(t) \/ Abandon(t)
  PROVE  KeysInv'
<1> DEFINE b == BrowserOf[t]
<1>1. UNCHANGED <<store, cached, devices, pool, conflict, overlapped>>
  BY DEF Enroll, CheckStore, Replenish, Abandon
<1>2. b \notin overlapped => OwnKeys(b, cached[b]) /\ TaskInv(b, task[t])
  BY Unflagged
<1>3. CASE SetTask(t, Idle)
  BY <1>1, <1>3, IdleKeys
<1>4. CASE Enroll(t)
  <2>1. PICK r : r = [at |-> "check", retried |-> FALSE]
    OBVIOUS
  <2>2. r.at = "check" /\ SetTask(t, r) /\ cached[b] = NoDevice
    BY <1>4, <2>1 DEF Enroll
  <2>3. TaskInv(b, r)
    BY <2>2 DEF TaskInv
  <2> QED BY <1>1, <2>2, <2>3, QuietKeys
<1>5. CASE CheckStore(t)
  <2>1. b \notin overlapped => cached[b] = NoDevice
    BY <1>2, <1>5 DEF CheckStore, TaskInv
  <2>2. PICK r : r \in {Minting(Target, NoDevice), [at |-> "wipe"], Idle} /\ SetTask(t, r)
    BY <1>5 DEF CheckStore
  <2>3. CASE r = Minting(Target, NoDevice)
    <3>1. OwnKeys(b, NoDevice)
      BY DEF TypeOK, NoDevice, OwnKeys
    <3>2. TaskInv(b, r) /\ Apart(t, r.bundle)
      BY <2>3, <3>1, EmptyBatch
    <3> QED BY <1>1, <2>2, <3>2, QuietKeys
  <2>4. CASE r = [at |-> "wipe"]
    <3>1. r.at = "wipe"
      BY <2>4
    <3>2. b \notin overlapped => TaskInv(b, r)
      BY <2>1, <3>1 DEF TaskInv
    <3> QED BY <1>1, <2>2, <3>1, <3>2, QuietKeys
  <2> QED BY <1>3, <2>2, <2>3, <2>4
<1>6. CASE Replenish(t)
  <2>1. PICK r : SetTask(t, r) /\ \E want : r = Minting(want, cached[b])
    BY <1>6 DEF Replenish
  <2>2. b \notin overlapped => TaskInv(b, r) /\ Apart(t, r.bundle)
    BY <1>2, <2>1, EmptyBatch
  <2> QED BY <1>1, <2>1, <2>2, QuietKeys
<1> QED BY <1>3, <1>4, <1>5, <1>6 DEF Abandon

LEMMA AllocateKeys ==
  ASSUME TypeOK, KeysInv, NEW t \in Tasks, Allocate(t) PROVE KeysInv'
<1> DEFINE b == BrowserOf[t]
<1>1. UNCHANGED <<store, cached, devices, pool, conflict, overlapped>>
  BY DEF Allocate
<1>2. /\ b \notin overlapped => TaskInv(b, task[t]) /\ Apart(t, task[t].bundle)
      /\ task[t].at = "mint" /\ task[t] \in Batches
  BY Unflagged, TaskKinds DEF Allocate, Busy
<1>3. PICK r : r = [task[t] EXCEPT !.at = "save", !.id = NextKeyId(t)]
  OBVIOUS
<1>4. /\ SetTask(t, r) /\ r.at = "save" /\ r.bundle = task[t].bundle /\ r.dev = task[t].dev
      /\ r.id = NextKeyId(t)
  BY <1>2, <1>3 DEF Allocate, Batches
<1>5. NextId(store[b], r.id)
  BY <1>4, KeyIdIsFresh
<1>6. b \notin overlapped => TaskInv(b, r) /\ Apart(t, r.bundle)
  BY <1>2, <1>4, <1>5 DEF TaskInv, GoodBatch
<1> QED BY <1>1, <1>4, <1>6, QuietKeys

LEMMA ReadyKeys ==
  ASSUME TypeOK, KeysInv, NEW t \in Tasks, CountDevices(t) \/ CheckOwner(t)
  PROVE  KeysInv'
<1> DEFINE b == BrowserOf[t]
<1>1. UNCHANGED <<store, cached, devices, pool, conflict, overlapped>>
  BY DEF CountDevices, CheckOwner
<1>2. /\ b \notin overlapped => TaskInv(b, task[t]) /\ Apart(t, task[t].bundle)
      /\ task[t].at = "mint" /\ task[t] \in Batches
  BY Unflagged, TaskKinds DEF CountDevices, CheckOwner, Ready, Busy
<1>3. CASE SetTask(t, Idle)
  BY <1>1, <1>3, IdleKeys
<1>4. ASSUME NEW at \in {"admitted", "insert"}, SetTask(t, [task[t] EXCEPT !.at = at])
      PROVE  KeysInv'
  <2>1. PICK r : r = [task[t] EXCEPT !.at = at]
    OBVIOUS
  <2>2. SetTask(t, r) /\ r.at = at /\ r.bundle = task[t].bundle /\ r.dev = task[t].dev
    BY <1>2, <1>4, <2>1 DEF Batches
  <2>3. b \notin overlapped => TaskInv(b, r) /\ Apart(t, r.bundle)
    BY <1>2, <1>4, <2>2 DEF TaskInv, GoodBatch
  <2> QED BY <1>1, <2>2, <2>3, QuietKeys
<1> QED BY <1>3, <1>4 DEF CountDevices, CheckOwner

(* Only the wiped browser loses keys, of which no task of it has any.      *)
LEMMA WipeKeys ==
  ASSUME TypeOK, KeysInv, NEW t \in Tasks, Wipe(t) PROVE KeysInv'
<1> DEFINE b == BrowserOf[t]
<1>1. PICK r : r = [at |-> "check", retried |-> TRUE]
  OBVIOUS
<1>2. /\ SetTask(t, r) /\ r.at = "check" /\ UNCHANGED <<cached, devices, pool, conflict>>
      /\ \A c \in Browsers \ {b} : store'[c] = store[c]
      /\ Overlaps(b, \E u \in Beside(t) : Busy(u))
  BY <1>1 DEF Wipe, TypeOK
<1>3. overlapped \subseteq overlapped' /\ conflict' \subseteq overlapped'
  BY <1>2 DEF Overlaps, KeysInv
<1>4. NoDevice \notin Enrolled
  BY DEF TypeOK, NoDevice
<1>5. ASSUME b \notin overlapped'
      PROVE  /\ OwnKeys(b, cached[b])' /\ TaskInv(b, r)'
             /\ \A u \in Beside(t) : TaskInv(b, task[u])'
  <2>1. b \notin overlapped /\ \A u \in Beside(t) : ~Busy(u)
    BY <1>2, <1>5 DEF Overlaps
  <2>2. TaskInv(b, task[t]) /\ \A u \in Beside(t) : u \in Tasks \ {t} /\ TaskInv(b, task[u])
    BY <2>1, Unflagged DEF Beside
  <2>3. cached[b] = NoDevice
    BY <2>2 DEF TaskInv, Wipe
  <2>4. OwnKeys(b, cached[b])' /\ TaskInv(b, r)'
    BY <1>2, <1>4, <2>3 DEF OwnKeys, Enrolled, TaskInv
  <2>5. ASSUME NEW u \in Beside(t) PROVE TaskInv(b, task[u])'
    <3>1. task'[u] = task[u] /\ ~Busy(u)
      BY <1>2, <2>1, <2>2, <2>5 DEF TypeOK, SetTask
    <3> QED BY <1>2, <2>2, <2>3, <2>5, <3>1 DEF TaskInv, Busy
  <2> QED BY <2>4, <2>5
<1>6. \A c \in Browsers \ {b} : Left(c)
  BY <1>2 DEF Left, Kept, HeldIn, SameKeys, Enrolled
<1> QED BY <1>2, <1>3, <1>5, <1>6, TaskStep

(* A saved key is held, and its id is above all that the store has; no     *)
(* other task of the browser was given the same.                           *)
LEMMA SaveKeys ==
  ASSUME TypeOK, KeysInv, NEW t \in Tasks, SaveKey(t) PROVE KeysInv'
<1> DEFINE b == BrowserOf[t]
<1>1. PICK key : key = NewKey(t)
  OBVIOUS
<1>2. PICK old : old = task[t]
  OBVIOUS
<1>3. /\ b \in Browsers /\ old \in Batches /\ old.dev \in 0..Len(pool) /\ key \in BundleKey
      /\ old.at = "save" /\ key.id = old.id
      /\ UNCHANGED <<cached, devices, pool, conflict>>
      /\ Overlaps(b, \E u \in Beside(t) : task[u].at = "save" /\ task[u].id = key.id)
  <2>1. /\ task[t].at = "save" /\ UNCHANGED <<cached, devices, pool, conflict>>
        /\ Overlaps(b, \E u \in Beside(t) : task[u].at = "save" /\ task[u].id = task[t].id)
    BY Zenon DEF SaveKey
  <2>2. NewKey(t).id = task[t].id
    BY DEF NewKey
  <2> QED BY <1>1, <1>2, <2>1, <2>2, SaveFacts
<1>4. PICK r \in Batches : /\ SetTask(t, r) /\ r.at = "mint" /\ r.dev = old.dev
                           /\ r.bundle = Append(old.bundle, key)
  BY <1>1, <1>2, SaveFacts
<1>5. PICK row : row = [id |-> key.id, secret |-> key.secret, used |-> FALSE]
  OBVIOUS
<1>6. store' = [store EXCEPT ![b] = store[b] \cup {row}] /\ row.id = key.id /\ row.secret = key.secret
  BY <1>1, <1>5, SaveFacts
<1>7. \A c \in Browsers \ {b} : Left(c)
  BY <1>3, <1>6 DEF TypeOK, Left, Kept, HeldIn, SameKeys, Enrolled
<1>8. store'[b] = store[b] \cup {row}
  BY <1>3, <1>6 DEF TypeOK
<1>9. Kept(b) /\ HeldIn(store'[b], key)
  BY <1>3, <1>6, <1>8 DEF Kept, HeldIn, SameKeys, Enrolled
<1>20. overlapped \subseteq overlapped' /\ conflict' \subseteq overlapped'
  BY <1>3 DEF Overlaps, KeysInv
<1>21. store[b] \subseteq StoreRow /\ old.id \in Nat /\ old.bundle \in Seq(BundleKey)
  BY <1>3 DEF TypeOK, Batches
<1>22. ASSUME b \notin overlapped'
       PROVE  /\ OwnKeys(b, cached[b])' /\ TaskInv(b, r)' /\ Apart(t, r.bundle)
              /\ \A u \in Beside(t) : TaskInv(b, task[u])'
  <2>1. b \notin overlapped /\ \A u \in Beside(t) : ~(task[u].at = "save" /\ task[u].id = key.id)
    BY <1>3, <1>22 DEF Overlaps
  <2>2. /\ OwnKeys(b, cached[b]) /\ GoodBatch(b, old) /\ NextId(store[b], old.id)
        /\ Apart(t, old.bundle)
        /\ \A u \in Beside(t) : u \in Tasks \ {t} /\ TaskInv(b, task[u])
    BY <1>2, <1>3, <2>1, Unflagged DEF TaskInv, Busy, Beside
  <2>3. ASSUME NEW x, HeldIn(store[b], x) PROVE x.id # key.id
    BY <1>3, <1>21, <2>2, <2>3 DEF HeldIn, StoreRow, NextId
  <2>4. \A d \in 0..Len(pool) : OwnKeys(b, d) => OwnKeys(b, d)'
    BY <1>3, <1>9, OwnKept
  <2>5. OwnKeys(b, cached[b])'
    <3>1. PICK d : d = cached[b]
      OBVIOUS
    <3>2. d \in 0..Len(pool) /\ OwnKeys(b, d) /\ cached'[b] = d
      BY <1>3, <2>2, <3>1 DEF TypeOK
    <3>3. OwnKeys(b, d)'
      BY <2>4, <3>2
    <3> QED BY <3>2, <3>3 DEF OwnKeys
  <2>6. TaskInv(b, r)'
    <3>1. \A i \in DOMAIN r.bundle : \/ i \in DOMAIN old.bundle /\ r.bundle[i] = old.bundle[i]
                                     \/ i = Len(old.bundle) + 1 /\ r.bundle[i] = key
      BY <1>3, <1>4, <1>21
    <3>2. AllHeld(store'[b], r.bundle)
      BY <1>3, <1>9, <2>2, <3>1, HeldKept DEF AllHeld, GoodBatch
    <3>3. Distinct(r.bundle)
      <4>1. AllHeld(store[b], old.bundle) /\ Distinct(old.bundle)
        BY <2>2 DEF GoodBatch
      <4>2. \A i \in DOMAIN old.bundle : old.bundle[i].id # key.id
        BY <2>3, <4>1 DEF AllHeld
      <4> QED BY <3>1, <4>1, <4>2 DEF Distinct
    <3>4. ASSUME old.dev \in Enrolled PROVE Disjoint(r.bundle, pool[old.dev])
      <4>1. Disjoint(old.bundle, pool[old.dev]) /\ AllHeld(store[b], pool[old.dev])
        BY <2>2, <3>4 DEF GoodBatch, OwnKeys
      <4>2. \A j \in DOMAIN pool[old.dev] : pool[old.dev][j].id # key.id
        BY <2>3, <4>1 DEF AllHeld
      <4> QED BY <3>1, <4>1, <4>2 DEF Disjoint
    <3>5. OwnKeys(b, old.dev)'
      <4>1. PICK d : d = old.dev
        OBVIOUS
      <4>2. OwnKeys(b, d)'
        BY <1>3, <2>2, <2>4, <4>1 DEF GoodBatch
      <4> QED BY <4>1, <4>2
    <3>6. GoodBatch(b, r)'
      BY <1>3, <1>4, <3>2, <3>3, <3>4, <3>5
         DEF GoodBatch, OwnKeys, AllHeld, HeldIn, Disjoint, Distinct, Enrolled
    <3> QED BY <1>4, <3>6 DEF TaskInv
  <2>7. Apart(t, r.bundle)
    <3>1. ASSUME NEW u \in Beside(t), Busy(u) PROVE Disjoint(r.bundle, task[u].bundle)
      <4>1. Disjoint(old.bundle, task[u].bundle) /\ AllHeld(store[b], task[u].bundle)
        BY <2>2, <3>1 DEF Apart, TaskInv, Busy, GoodBatch
      <4>2. \A j \in DOMAIN task[u].bundle : task[u].bundle[j].id # key.id
        BY <2>3, <4>1 DEF AllHeld
      <4>3. \A i \in DOMAIN r.bundle : (i \in DOMAIN old.bundle /\ r.bundle[i] = old.bundle[i])
                                       \/ r.bundle[i] = key
        BY <1>3, <1>4, <1>21
      <4> QED BY <4>1, <4>2, <4>3 DEF Disjoint
    <3> QED BY <3>1 DEF Apart
  <2>8. ASSUME NEW u \in Beside(t) PROVE TaskInv(b, task[u])'
    <3>1. PICK q : q = task[u]
      OBVIOUS
    <3>2. u \in Tasks /\ task'[u] = q /\ TaskInv(b, q) /\ cached'[b] = cached[b]
      BY <1>3, <1>4, <2>2, <2>8, <3>1 DEF TypeOK, SetTask
    <3>3. q.at # "save"
      <4>1. q.at = "save" => NextId(store[b], q.id) /\ q.id \in Nat
        BY <3>1, <3>2, TaskKinds DEF TaskInv, Batches
      <4>2. q.at = "save" => q.id = key.id
        BY <1>3, <1>21, <2>2, <4>1, OneNextId
      <4> QED BY <2>1, <2>8, <3>1, <4>2
    <3>4. q.at \in {"mint", "save", "admitted", "insert"} => q.dev \in 0..Len(pool) /\ GoodBatch(b, q)
      BY <3>1, <3>2 DEF TypeOK, TaskInv
    <3>5. q.at \in {"mint", "save", "admitted", "insert"} => GoodBatch(b, q)'
      BY <1>3, <1>9, <3>4, BatchKept
    <3> QED BY <3>2, <3>3, <3>5 DEF TaskInv, GoodBatch, OwnKeys
  <2> QED BY <2>5, <2>6, <2>7, <2>8
<1> QED BY <1>4, <1>7, <1>20, <1>22, TaskStep

(* The device of a browser, to which its tasks so far belonged or not.     *)
LEMMA InsertKeys ==
  ASSUME TypeOK, KeysInv, NEW t \in Tasks, InsertDevice(t) PROVE KeysInv'
<1> DEFINE b == BrowserOf[t]
<1>1. PICK n : n = Len(pool) + 1
  OBVIOUS
<1>2. PICK r \in Batches : /\ SetTask(t, r) /\ r.at = "insert" /\ r.dev = n
                           /\ r.bundle = task[t].bundle
  BY <1>1, InsertFacts
<1>3. /\ b \in Browsers /\ Len(pool) \in Nat
      /\ pool'[n] = <<>> /\ \A d \in 1..Len(pool) : pool'[d] = pool[d]
      /\ Enrolled' = Enrolled \cup {n} /\ devices'[n] = b
      /\ \A d \in Enrolled : devices'[d] = devices[d]
      /\ UNCHANGED <<store, minted, cached, conflict>>
  BY <1>1, InsertFacts
<1>4. Enrolled \subseteq 1..Len(pool) /\ n \notin 0..Len(pool)
      /\ UNCHANGED <<conflict, overlapped>> /\ task[t].at = "admitted"
  BY <1>1, <1>3 DEF TypeOK, InsertDevice
<1>5. \A c \in Browsers : Left(c)
  <2>1. ASSUME NEW d \in 0..Len(pool), d \in Enrolled'
        PROVE  d \in Enrolled /\ devices'[d] = devices[d] /\ pool'[d] = pool[d]
    BY <1>3, <1>4, <2>1
  <2> QED BY <1>3, <2>1 DEF Left, Kept, HeldIn, SameKeys
<1>6. ASSUME b \notin overlapped PROVE TaskInv(b, r)' /\ Apart(t, r.bundle)
  <2>1. GoodBatch(b, task[t]) /\ Apart(t, task[t].bundle)
    BY <1>4, <1>6, Unflagged DEF TaskInv, Busy
  <2>2. AllHeld(store[b], r.bundle) /\ Distinct(r.bundle)
    BY <1>2, <2>1 DEF GoodBatch
  <2>3. AllHeld(store'[b], pool'[n]) /\ Disjoint(r.bundle, pool'[n])
    BY <1>3 DEF AllHeld, Disjoint
  <2>4. OwnKeys(b, n)'
    BY <1>3, <2>3 DEF OwnKeys, AllHeld, HeldIn
  <2>5. GoodBatch(b, r)'
    BY <1>2, <1>3, <2>2, <2>3, <2>4 DEF GoodBatch, OwnKeys, AllHeld, HeldIn, Disjoint, Distinct
  <2> QED BY <1>2, <2>1, <2>5 DEF TaskInv
<1> QED BY <1>2, <1>4, <1>5, <1>6, LeftStep

(* An upload meets no key id that is taken, and only its own pool grows,   *)
(* by a key that no other task of the browser has.                         *)
LEMMA UploadKeys ==
  ASSUME TypeOK, OwnInv, KeysInv, NEW t \in Tasks, InsertKey(t) PROVE KeysInv'
<1> DEFINE b == BrowserOf[t]
<1>1. PICK old : old = task[t]
  OBVIOUS
<1>2. /\ b \in Browsers /\ old \in Batches /\ old.at = "insert" /\ old.bundle # <<>>
      /\ UNCHANGED <<store, minted, cached, devices, overlapped>>
  BY <1>1, KeyFacts, DevicesAssumption DEF InsertKey
<1>3. PICK d : d = old.dev
  OBVIOUS
<1>4. b \notin overlapped =>
        /\ OwnKeys(b, cached[b]) /\ OwnKeys(b, d)
        /\ AllHeld(store[b], old.bundle) /\ Distinct(old.bundle) /\ Apart(t, old.bundle)
        /\ d \in Enrolled => Disjoint(old.bundle, pool[d])
  BY <1>1, <1>2, <1>3, Unflagged DEF TaskInv, GoodBatch, Busy
<1>5. old.bundle \in Seq(BundleKey) /\ 1 \in DOMAIN old.bundle
      /\ Head(old.bundle) = old.bundle[1]
      /\ \A i \in DOMAIN Tail(old.bundle) :
           i + 1 \in DOMAIN old.bundle /\ Tail(old.bundle)[i] = old.bundle[i + 1] /\ i + 1 # 1
  BY <1>2 DEF Batches
<1>6. /\ conflict' \subseteq overlapped' /\ overlapped \subseteq overlapped'
      /\ b \notin overlapped => conflict' = conflict
  <2>1. ASSUME b \notin overlapped, d \in Enrolled, NEW i \in DOMAIN pool[d]
        PROVE  pool[d][i].id # Head(old.bundle).id
    BY <1>4, <1>5, <2>1 DEF Disjoint
  <2>2. b \notin overlapped => conflict' = conflict
    BY <1>1, <1>3, <2>1 DEF InsertKey
  <2>3. conflict' \subseteq conflict \cup {b}
    BY DEF InsertKey
  <2> QED BY <1>2, <2>2, <2>3 DEF KeysInv
<1>7. CASE SetTask(t, Idle) /\ UNCHANGED pool
  <2>1. \A c \in Browsers : Left(c)
    BY <1>2, <1>7, QuietLeft
  <2>2. CASE b \in overlapped
    BY <1>2, <1>6, <1>7, <2>1, <2>2, TaskStep
  <2>3. CASE b \notin overlapped
    BY <1>2, <1>6, <1>7, <2>3, IdleKeys
  <2> QED BY <2>2, <2>3
<1>8. CASE ~(SetTask(t, Idle) /\ UNCHANGED pool)
  <2>1. PICK row \in PoolRow :
          /\ row.id = Head(old.bundle).id /\ row.secret = Head(old.bundle).secret
          /\ pool' = [pool EXCEPT ![d] = Append(pool[d], row)]
    BY <1>1, <1>3, <1>8, KeyFacts
  <2>2. PICK r \in Batches : /\ SetTask(t, r) /\ r.at = "insert" /\ r.dev = d
                             /\ r.bundle = Tail(old.bundle)
    BY <1>1, <1>3, <1>8, KeyFacts
  <2>3. d \in Enrolled /\ d \in 1..Len(pool) /\ pool[d] \in Seq(PoolRow)
    BY <1>1, <1>3, <1>8, KeyFacts, PoolTypes
  <2>4. /\ pool'[d] = Append(pool[d], row)
        /\ \A e \in 1..Len(pool) \ {d} : pool'[e] = pool[e]
    BY <2>1, <2>3, PoolTypes
  <2>7. \A i \in DOMAIN pool'[d] : pool'[d][i] = row \/ (i \in DOMAIN pool[d] /\ pool'[d][i] = pool[d][i])
    BY <2>3, <2>4
  <2>9. Enrolled' = Enrolled /\ devices' = devices
    BY <1>2 DEF Enrolled
  <2>5. ASSUME NEW c \in Browsers \ {b} PROVE Left(c)
    <3>1. devices[d] = b
      BY <1>1, <1>2, <1>3, <2>3 DEF OwnInv, Fills, Its
    <3>2. ASSUME NEW e \in Enrolled, devices[e] = c PROVE pool'[e] = pool[e]
      BY <2>4, <2>5, <3>1, <3>2 DEF TypeOK
    <3>3. store'[c] = store[c] /\ cached'[c] = cached[c]
      BY <1>2
    <3> QED BY <2>9, <3>2, <3>3 DEF Left, Kept, HeldIn, SameKeys
  <2>6. ASSUME b \notin overlapped
        PROVE  /\ OwnKeys(b, cached[b])' /\ TaskInv(b, r)' /\ Apart(t, r.bundle)
               /\ \A u \in Beside(t) : TaskInv(b, task[u])'
    <3>1. HeldIn(store[b], row) /\ AllHeld(store[b], pool[d])
      BY <1>4, <1>5, <2>1, <2>3, <2>6 DEF AllHeld, HeldIn, OwnKeys
    <3>2. AllHeld(store'[b], pool'[d])
      BY <1>2, <2>7, <3>1 DEF AllHeld
    <3>3. \A e \in 0..Len(pool) : OwnKeys(b, e) => OwnKeys(b, e)'
      <4>1. ASSUME NEW e \in 0..Len(pool), OwnKeys(b, e) PROVE OwnKeys(b, e)'
        <5>1. CASE e = d
          BY <1>4, <2>3, <2>6, <2>9, <3>2, <5>1 DEF OwnKeys, AllHeld, HeldIn
        <5>2. CASE e # d
          <6>1. e \in Enrolled => pool'[e] = pool[e]
            BY <2>4, <5>2 DEF TypeOK
          <6> QED BY <1>2, <2>9, <4>1, <6>1 DEF OwnKeys, AllHeld, HeldIn
        <5> QED BY <5>1, <5>2
      <4> QED BY <4>1
    <3>4. OwnKeys(b, cached[b])'
      <4>1. PICK e : e = cached[b]
        OBVIOUS
      <4>2. e \in 0..Len(pool) /\ OwnKeys(b, e) /\ cached'[b] = e
        BY <1>2, <1>4, <2>6, <4>1 DEF TypeOK
      <4>3. OwnKeys(b, e)'
        BY <3>3, <4>2
      <4> QED BY <4>2, <4>3 DEF OwnKeys
    <3>5. TaskInv(b, r)'
      <4>1. ASSUME NEW i \in DOMAIN r.bundle PROVE HeldIn(store'[b], r.bundle[i])
        BY <1>2, <1>4, <1>5, <2>2, <2>6, <4>1 DEF AllHeld
      <4>2. ASSUME NEW i \in DOMAIN r.bundle, NEW j \in DOMAIN r.bundle, r.bundle[i].id = r.bundle[j].id
            PROVE  i = j
        <5>1. i + 1 = j + 1
          BY <1>4, <1>5, <2>2, <2>6, <4>2 DEF Distinct
        <5>2. i \in Nat /\ j \in Nat
          BY <2>2, <4>2 DEF Batches
        <5> QED BY <5>1, <5>2
      <4>3. ASSUME NEW i \in DOMAIN r.bundle PROVE r.bundle[i].id # row.id
        BY <1>4, <1>5, <2>1, <2>2, <2>6, <4>3 DEF Distinct
      <4>4. ASSUME NEW i \in DOMAIN r.bundle, NEW j \in DOMAIN pool[d] PROVE pool[d][j].id # r.bundle[i].id
        BY <1>4, <1>5, <2>2, <2>3, <2>6, <4>4 DEF Disjoint
      <4>5. Disjoint(r.bundle, pool'[d])
        BY <2>7, <4>3, <4>4 DEF Disjoint
      <4>6. OwnKeys(b, d)'
        BY <1>4, <2>3, <2>6, <2>9, <3>2 DEF OwnKeys, AllHeld, HeldIn
      <4>7. GoodBatch(b, r)'
        BY <2>2, <4>1, <4>2, <4>5, <4>6 DEF GoodBatch, OwnKeys, AllHeld, HeldIn, Disjoint, Distinct
      <4> QED BY <2>2, <4>7 DEF TaskInv
    <3>6. Apart(t, r.bundle)
      <4>1. ASSUME NEW u \in Beside(t), Busy(u) PROVE Disjoint(r.bundle, task[u].bundle)
        <5>1. Disjoint(old.bundle, task[u].bundle)
          BY <1>4, <2>6, <4>1 DEF Apart
        <5> QED BY <1>5, <2>2, <5>1 DEF Disjoint
      <4> QED BY <4>1 DEF Apart
    <3>7. ASSUME NEW u \in Beside(t) PROVE TaskInv(b, task[u])'
      <4>1. PICK q : q = task[u]
        OBVIOUS
      <4>2. u \in Tasks /\ task'[u] = q /\ TaskInv(b, q) /\ cached'[b] = cached[b] /\ store'[b] = store[b]
        BY <1>2, <2>2, <2>6, <3>7, <4>1, Unflagged DEF Beside, TypeOK, SetTask
      <4>3. ASSUME q.at \in {"mint", "save", "admitted", "insert"} PROVE GoodBatch(b, q)'
        <5>1. q.dev \in 0..Len(pool) /\ GoodBatch(b, q) /\ Busy(u)
          BY <4>1, <4>2, <4>3 DEF TypeOK, TaskInv, Busy
        <5>2. OwnKeys(b, q.dev)'
          <6>1. PICK e : e = q.dev
            OBVIOUS
          <6>2. OwnKeys(b, e)'
            BY <3>3, <5>1, <6>1 DEF GoodBatch
          <6> QED BY <6>1, <6>2
        <5>3. ASSUME q.dev \in Enrolled PROVE Disjoint(q.bundle, pool'[q.dev])
          <6>1. Disjoint(q.bundle, pool[q.dev])
            BY <5>1, <5>3 DEF GoodBatch
          <6>2. CASE q.dev = d
            <7>1. Disjoint(old.bundle, q.bundle)
              BY <1>4, <2>6, <3>7, <4>1, <5>1 DEF Apart
            <7>2. \A i \in DOMAIN q.bundle : row.id # q.bundle[i].id
              BY <1>5, <2>1, <7>1 DEF Disjoint
            <7> QED BY <2>7, <6>1, <6>2, <7>2 DEF Disjoint
          <6>3. CASE q.dev # d
            BY <2>4, <5>3, <6>1, <6>3 DEF TypeOK
          <6> QED BY <6>2, <6>3
        <5>4. AllHeld(store'[b], q.bundle) /\ Distinct(q.bundle)
          BY <4>2, <5>1 DEF GoodBatch
        <5> QED BY <2>9, <5>2, <5>3, <5>4 DEF GoodBatch, OwnKeys, AllHeld, HeldIn, Disjoint, Distinct
      <4>4. TaskInv(b, q)'
        BY <4>2, <4>3 DEF TaskInv, NextId
      <4> QED BY <4>2, <4>4 DEF TaskInv, GoodBatch, OwnKeys
    <3> QED BY <3>4, <3>5, <3>6, <3>7
  <2> QED BY <1>2, <1>6, <2>2, <2>5, <2>6, TaskStep
<1> QED BY <1>7, <1>8

(* A reply, and the end of a revocation.                                   *)
LEMMA ReplyKeys ==
  ASSUME TypeOK, KeysInv, NEW t \in Tasks, UploadAnswered(t) \/ Revoked(t) PROVE KeysInv'
<1> DEFINE b == BrowserOf[t]
<1>1. /\ b \in Browsers /\ SetTask(t, Idle) /\ UNCHANGED <<store, minted, devices, pool, conflict>>
  BY DevicesAssumption DEF UploadAnswered, Revoked
<1>2. PICK d : cached' = [cached EXCEPT ![b] = d] /\ d \in {cached[b], task[t].dev, NoDevice}
  BY DEF UploadAnswered, Revoked
<1>3. cached'[b] = d /\ \A c \in Browsers \ {b} : cached'[c] = cached[c]
  BY <1>1, <1>2 DEF TypeOK
<1>4. overlapped \subseteq overlapped' /\ conflict' \subseteq overlapped'
  BY <1>1 DEF UploadAnswered, Revoked, Overlaps, KeysInv
<1>5. \A c \in Browsers \ {b} : Left(c)
  BY <1>1, <1>3 DEF Left, Kept, HeldIn, SameKeys, Enrolled
<1>6. ASSUME b \notin overlapped'
      PROVE  /\ OwnKeys(b, cached[b])' /\ TaskInv(b, Idle)'
             /\ \A u \in Beside(t) : TaskInv(b, task[u])'
  <2>1. /\ OwnKeys(b, cached[b]) /\ TaskInv(b, task[t])
        /\ \A u \in Beside(t) : u \in Tasks \ {t} /\ TaskInv(b, task[u])
    BY <1>4, <1>6, Unflagged DEF Beside
  <2>2. OwnKeys(b, d)
    <3>1. OwnKeys(b, NoDevice)
      BY DEF TypeOK, NoDevice, OwnKeys
    <3>2. CASE UploadAnswered(t)
      <4>1. OwnKeys(b, task[t].dev)
        BY <2>1, <3>2 DEF UploadAnswered, TaskInv, GoodBatch
      <4> QED BY <1>2, <2>1, <3>1, <4>1
    <3>3. CASE Revoked(t)
      <4>1. d = cached[b] \/ d = NoDevice
        <5>1. cached'[b] \in {cached[b], NoDevice}
          BY <1>1, <3>3 DEF Revoked, TypeOK
        <5> QED BY <1>3, <5>1
      <4> QED BY <2>1, <3>1, <4>1
    <3> QED BY <3>2, <3>3
  <2>3. OwnKeys(b, cached[b])'
    BY <1>1, <1>3, <2>2 DEF OwnKeys, AllHeld, HeldIn, Enrolled
  <2>4. TaskInv(b, Idle)'
    BY DEF TaskInv, Idle
  <2>5. ASSUME NEW u \in Beside(t) PROVE TaskInv(b, task[u])'
    <3>1. task'[u] = task[u] /\ TaskInv(b, task[u])
      BY <1>1, <2>1, <2>5 DEF TypeOK, SetTask
    <3>2. task[u].at \in {"check", "wipe"} => cached'[b] = NoDevice
      <4>1. CASE UploadAnswered(t)
        <5>1. task[u].at \in {"check", "wipe"} => ~task[t].enrols
          BY <1>6, <2>5, <4>1 DEF UploadAnswered, Overlaps
        <5>2. ~task[t].enrols => cached'[b] = cached[b]
          BY <1>1, <4>1 DEF UploadAnswered, TypeOK
        <5> QED BY <3>1, <5>1, <5>2 DEF TaskInv
      <4>2. CASE Revoked(t)
        <5>1. cached'[b] \in {cached[b], NoDevice}
          BY <1>1, <4>2 DEF Revoked, TypeOK
        <5> QED BY <3>1, <5>1 DEF TaskInv
      <4> QED BY <4>1, <4>2
    <3> QED BY <1>1, <3>1, <3>2 DEF TaskInv, GoodBatch, OwnKeys, Enrolled
  <2> QED BY <2>3, <2>4, <2>5
<1> QED BY <1>1, <1>4, <1>5, <1>6, IdleInv, TaskStep

LEMMA RevokeKeys ==
  ASSUME TypeOK, KeysInv, NEW t \in Tasks, Revoke(t) PROVE KeysInv'
<1>1. PICK d \in Enrolled :
        /\ Enrolled' = Enrolled \ {d} /\ \A e \in Enrolled' : devices'[e] = devices[e]
        /\ \A e \in 1..Len(pool) \ {d} : pool'[e] = pool[e]
        /\ \E r \in Revocations : SetTask(t, r) /\ r.dev = d
        /\ UNCHANGED <<store, minted, cached, conflict>>
  BY RevokeFacts
<1>2. PICK r \in Revocations : SetTask(t, r)
  BY <1>1
<1>3. \A e \in Enrolled' : e \in Enrolled /\ devices'[e] = devices[e] /\ pool'[e] = pool[e]
  BY <1>1, PoolTypes
<1>4. \A c \in Browsers : Left(c)
  BY <1>1, <1>3 DEF Left, Kept, HeldIn, SameKeys
<1>5. TaskInv(BrowserOf[t], r)' /\ r.at = "revoked"
  BY DEF TaskInv, Revocations
<1>6. UNCHANGED <<conflict, overlapped>>
  BY DEF Revoke
<1> QED BY <1>2, <1>4, <1>5, <1>6, LeftStep

(* A step of the server or of a peer, that moves no task.                  *)
LEMMA PeerKeys ==
  ASSUME TypeOK, KeysInv, \A b \in Browsers : Left(b), UNCHANGED <<task, conflict, overlapped>>
  PROVE  KeysInv'
BY BrowserKept DEF KeysInv

LEMMA GiveKeys ==
  ASSUME TypeOK, KeysInv, NEW d \in Enrolled, FetchBundle(d) PROVE KeysInv'
<1>1. /\ pool \in Seq(Seq(PoolRow)) /\ d \in 1..Len(pool) /\ pool[d] \in Seq(PoolRow)
  BY PoolTypes
<1>2. PICK i \in DOMAIN pool[d], row \in PoolRow :
        /\ row.id = pool[d][i].id /\ row.secret = pool[d][i].secret
        /\ pool' = [pool EXCEPT ![d] = [pool[d] EXCEPT ![i] = row]]
        /\ UNCHANGED <<store, minted, cached, task, devices, conflict>>
  BY GiveFacts
<1> DEFINE rows == [pool[d] EXCEPT ![i] = row]
<1>3. SameKeys(pool[d], rows)
  BY <1>1, <1>2 DEF SameKeys
<1>4. pool' = [pool EXCEPT ![d] = rows]
  BY <1>2
<1> HIDE DEF rows
<1>5. pool'[d] = rows /\ \A e \in 1..Len(pool) \ {d} : pool'[e] = pool[e]
  BY <1>1, <1>4
<1>6. \A e \in Enrolled : SameKeys(pool[e], pool'[e])
  <2>1. \A e \in Enrolled : e \in 1..Len(pool)
    BY PoolTypes
  <2>2. \A e \in 1..Len(pool) : SameKeys(pool[e], pool[e])
    BY DEF SameKeys
  <2> QED BY <1>3, <1>5, <2>1, <2>2
<1>7. \A b \in Browsers : Left(b)
  BY <1>2, <1>6 DEF Left, Kept, HeldIn, Enrolled
<1>8. overlapped' = overlapped
  BY DEF FetchBundle
<1> QED BY <1>2, <1>7, <1>8, PeerKeys

LEMMA AcceptKeys ==
  ASSUME TypeOK, KeysInv, NEW b \in Browsers, Accept(b) PROVE KeysInv'
<1>1. /\ \A c \in Browsers \ {b} : store'[c] = store[c]
      /\ \A k \in store[b] : HeldIn(store'[b], k)
      /\ \A q \in store'[b] : \E k \in store[b] : q.id = k.id
      /\ UNCHANGED <<minted, cached, task, devices, pool, conflict>>
  BY AcceptFacts DEF HeldIn
<1>2. \A c \in Browsers : Left(c)
  BY <1>1 DEF Left, Kept, HeldIn, SameKeys, Enrolled
<1>3. overlapped' = overlapped
  BY DEF Accept
<1> QED BY <1>1, <1>2, <1>3, PeerKeys

LEMMA KeysInvariant == DevicesSpec => [](TypeOK /\ OwnInv /\ KeysInv)
<1>1. DevicesInit => TypeOK /\ OwnInv /\ KeysInv
  <2> SUFFICES ASSUME DevicesInit PROVE OwnInv /\ KeysInv
    BY InitTypes
  <2>1. Enrolled = {} /\ conflict = {} /\ \A t \in Tasks : task[t] = Idle /\ ~Busy(t)
    BY DEF DevicesInit, Enrolled, Busy, Idle
  <2>2. OwnInv
    BY <2>1 DEF OwnInv, Its, Fills, Idle
  <2>3. KeysInv
    BY <2>1, IdleInv DEF KeysInv, BrowserInv, OwnKeys
  <2> QED BY <2>2, <2>3
<1>2. TypeOK /\ OwnInv /\ KeysInv /\ [DevicesNext]_devicesVars => (TypeOK /\ OwnInv /\ KeysInv)'
  <2> SUFFICES ASSUME TypeOK, OwnInv, KeysInv, [DevicesNext]_devicesVars
               PROVE  TypeOK' /\ OwnInv' /\ KeysInv'
    OBVIOUS
  <2>1. TypeOK' /\ OwnInv'
    BY NextTypes, OwnNext
  <2>2. ASSUME NEW t \in Tasks,
               \/ Enroll(t) \/ CheckStore(t) \/ Wipe(t) \/ Replenish(t) \/ Allocate(t)
               \/ SaveKey(t) \/ CountDevices(t) \/ InsertDevice(t) \/ CheckOwner(t)
               \/ InsertKey(t) \/ UploadAnswered(t) \/ Abandon(t) \/ Revoke(t) \/ Revoked(t)
        PROVE  KeysInv'
    BY <2>2, EnrollKeys, AllocateKeys, ReadyKeys, WipeKeys, SaveKeys, InsertKeys, UploadKeys,
       ReplyKeys, RevokeKeys
  <2>3. CASE UNCHANGED devicesVars
    <3>1. \A b \in Browsers : Left(b)
      BY <2>3, QuietLeft DEF devicesVars
    <3>2. UNCHANGED <<task, conflict, overlapped>>
      BY <2>3 DEF devicesVars
    <3> QED BY <2>1, <3>1, <3>2, PeerKeys
  <2> QED BY <2>1, <2>2, <2>3, GiveKeys, AcceptKeys DEF DevicesNext
<1> QED BY <1>1, <1>2, PTL DEF DevicesSpec

(* However many tasks of a browser overlap, and wherever a batch stops, an *)
(* upload meets a key id that is taken only if two of them took one id at  *)
(* once, or one wiped or enrolled beside another.                          *)
THEOREM KeyIdsNeverClash == DevicesSpec => []NoConflict
<1>1. TypeOK /\ OwnInv /\ KeysInv => NoConflict
  BY DEF KeysInv, NoConflict
<1> QED BY <1>1, KeysInvariant, PTL

(* But for those cases the browser holds the private half of every prekey  *)
(* the server has for the device it believes to be, whatever replies were  *)
(* lost, whatever batch was cut off and however often it wiped and minted. *)
THEOREM ServedKeysAreHeld == DevicesSpec => []ServedKeysHeld
<1>1. TypeOK /\ OwnInv /\ KeysInv => ServedKeysHeld
  BY DEF KeysInv, BrowserInv, OwnKeys, AllHeld, HeldIn, ServedKeysHeld, Held
<1> QED BY <1>1, KeysInvariant, PTL

-----------------------------------------------------------------------------
(* Push.  The rows of a device are replaced by whatever POST comes, so it  *)
(* matters which subscription each POST under way is about.                *)

PushRows == [id : Nat, endpoint : Nat]
PushPosts == [call : Nat, endpoint : Nat, step : {"delete", "insert"},
              for : {"mounted", "others", "nobody"}]

PushTypes ==
  /\ lastSubscription \in Nat /\ subscription \in {0, lastSubscription}
  /\ lastRow \in Nat /\ savedId \in 0..lastRow /\ deleting \subseteq 0..lastRow
  /\ subscriptions \subseteq PushRows
  /\ \A s \in subscriptions : s.id <= lastRow /\ s.endpoint <= lastSubscription
  /\ subscribing \subseteq PushPosts
  /\ \A p \in subscribing : p.endpoint <= lastSubscription
  /\ torn \in BOOLEAN

(* A DELETE under way is of a row that was, when it was sent, of the       *)
(* subscription that just ended.                                           *)
LateDeletes ==
  \A s \in subscriptions : s.id \in deleting /\ subscription # 0 => s.endpoint # subscription

OneEnabling ==
  /\ \A p, q \in subscribing : p.for # "nobody" /\ q.for # "nobody" => p = q
  /\ \A p \in subscribing : p.for # "nobody" => subscription \in {0, p.endpoint}

(* The row is there, or on its way.                                        *)
RowIsDue ==
  enabled /\ subscription # 0 =>
    \/ \E s \in subscriptions : s.endpoint = subscription
    \/ \E p \in subscribing : p.step = "insert" /\ p.endpoint = subscription

PushInv == PushTypes /\ LateDeletes /\ (torn = FALSE => OneEnabling /\ RowIsDue)

LEMMA SubscribeKeeps == ASSUME PushInv, Subscribe PROVE PushInv'
<1>1. PICK p \in PushPosts : /\ subscribing' = subscribing \cup {p} /\ p.for = "mounted"
                             /\ p.step = "delete" /\ p.endpoint = subscription'
  <2>1. PICK n \in 1..MaxPosts : subscribing' = subscribing \cup
          {[call |-> n, endpoint |-> subscription', step |-> "delete", for |-> "mounted"]}
    BY DEF Subscribe
  <2>2. subscription' \in Nat
    BY DEF Subscribe, PushInv, PushTypes
  <2>3. [call |-> n, endpoint |-> subscription', step |-> "delete", for |-> "mounted"] \in PushPosts
    BY <2>2 DEF PushPosts
  <2> QED BY <2>1, <2>3
<1>2. /\ lastSubscription' \in Nat /\ lastSubscription' >= lastSubscription
      /\ subscription' = lastSubscription'
      /\ subscription = 0 => lastSubscription' = lastSubscription + 1
      /\ subscription # 0 => lastSubscription' = lastSubscription
  BY DEF Subscribe, PushInv, PushTypes
<1>3. UNCHANGED <<enabled, savedId, deleting, subscriptions, lastRow>>
  BY DEF Subscribe
<1>4. torn' \in BOOLEAN
      /\ (torn' = FALSE => torn = FALSE /\ ~enabled /\ \A q \in subscribing : q.for = "nobody")
  BY DEF Subscribe, PushInv, PushTypes
<1>5. PushTypes'
  BY <1>1, <1>2, <1>3, <1>4 DEF PushInv, PushTypes, PushRows, PushPosts
<1>6. LateDeletes'
  BY <1>1, <1>2, <1>3 DEF PushInv, PushTypes, LateDeletes, PushRows
<1>7. torn' = FALSE => OneEnabling' /\ RowIsDue'
  BY <1>1, <1>2, <1>3, <1>4 DEF PushInv, OneEnabling, RowIsDue
<1> QED BY <1>5, <1>6, <1>7 DEF PushInv

LEMMA EnableFailsKeeps ==
  ASSUME PushInv, NEW p \in subscribing, EnableFails(p) PROVE PushInv'
<1>1. PICK q : q = [p EXCEPT !.for = "nobody"]
  OBVIOUS
<1>2. /\ q \in PushPosts /\ q.for = "nobody" /\ q.endpoint = p.endpoint /\ q.step = p.step
      /\ subscribing' = (subscribing \ {p}) \cup {q}
  BY <1>1 DEF EnableFails, PushInv, PushTypes, PushPosts
<1>3. /\ enabled' = FALSE /\ savedId' = 0 /\ subscription' \in {0, subscription}
      /\ UNCHANGED <<lastSubscription, deleting, subscriptions, lastRow, torn>>
  BY DEF EnableFails, Forget
<1>4. PushTypes' /\ LateDeletes'
  BY <1>2, <1>3 DEF PushInv, PushTypes, LateDeletes
<1>5. torn' = FALSE => OneEnabling' /\ RowIsDue'
  BY <1>2, <1>3 DEF PushInv, OneEnabling, RowIsDue
<1> QED BY <1>4, <1>5 DEF PushInv

LEMMA ToggleKeeps ==
  ASSUME PushInv,
         \/ Disable \/ GetSubscription \/ Reconciled \/ SubscriptionEnds \/ SendPush
         \/ \E who \in {"mounted", "others"} : Disabled(who)
         \/ \E s \in sending : PushSent(s)
         \/ UNCHANGED pushVars
  PROVE  PushInv'
<1>1. /\ subscription' \in {0, subscription} /\ savedId' \in {0, savedId}
      /\ enabled' \in {FALSE, enabled}
      /\ UNCHANGED <<lastSubscription, subscribing, subscriptions, lastRow, torn>>
  BY DEF Disable, GetSubscription, Reconciled, SubscriptionEnds, SendPush, Disabled, PushSent, Forget,
         pageVars, subscriptionVars, rowVars, pushVars
<1>2. \/ deleting' = deleting
      \/ subscription' = 0 /\ deleting' = deleting \cup ({savedId} \ {0})
  BY DEF Disable, GetSubscription, Reconciled, SubscriptionEnds, SendPush, Disabled, PushSent,
     rowVars, pushVars
<1>3. savedId' \in 0..lastRow /\ deleting' \subseteq 0..lastRow
  <2>1. 0 \in 0..lastRow /\ savedId \in 0..lastRow /\ deleting \subseteq 0..lastRow
    BY DEF PushInv, PushTypes
  <2> QED BY <1>1, <1>2, <2>1
<1>4. PushTypes'
  BY <1>1, <1>3 DEF PushInv, PushTypes
<1>5. LateDeletes'
  BY <1>1, <1>2 DEF PushInv, LateDeletes
<1>6. torn' = FALSE => OneEnabling' /\ RowIsDue'
  BY <1>1 DEF PushInv, OneEnabling, RowIsDue
<1> QED BY <1>4, <1>5, <1>6 DEF PushInv

LEMMA MountKeeps ==
  ASSUME PushInv, NEW left \in {"others", "nobody"}, Mount(left) PROVE PushInv'
<1> DEFINE now(p) == [p EXCEPT !.for = IF p.for = "nobody" THEN p.for ELSE left]
<1>1. subscribing' = {now(p) : p \in subscribing}
  BY DEF Mount
<1>2. \A p \in subscribing : /\ now(p) \in PushPosts /\ now(p).endpoint = p.endpoint
                             /\ now(p).step = p.step
                             /\ now(p).for # "nobody" => p.for # "nobody"
  BY DEF PushInv, PushTypes, PushPosts
<1> HIDE DEF now
<1>3. UNCHANGED <<enabled, savedId, subscriptionVars, deleting, subscriptions, lastRow, torn>>
  BY DEF Mount
<1>4. PushTypes' /\ LateDeletes'
  BY <1>1, <1>2, <1>3 DEF PushInv, PushTypes, LateDeletes, subscriptionVars
<1>5. torn' = FALSE => OneEnabling' /\ RowIsDue'
  BY <1>1, <1>2, <1>3 DEF PushInv, OneEnabling, RowIsDue, subscriptionVars
<1> QED BY <1>4, <1>5 DEF PushInv

(* A POST that does not set torn is about the newest of the rows' own.     *)
LEMMA DeleteRowsKeeps ==
  ASSUME PushInv, NEW p \in subscribing, DeleteRows(p) PROVE PushInv'
<1>1. PICK q : q = [p EXCEPT !.step = "insert"]
  OBVIOUS
<1>2. /\ q \in PushPosts /\ q.for = p.for /\ q.endpoint = p.endpoint /\ q.step = "insert"
      /\ p.step = "delete" /\ subscribing' = (subscribing \ {p}) \cup {q} /\ subscriptions' = {}
  BY <1>1 DEF DeleteRows, PushInv, PushTypes, PushPosts
<1>3. /\ torn' \in BOOLEAN
      /\ torn' = FALSE => torn = FALSE /\ \A s \in subscriptions : ~(s.endpoint > p.endpoint)
      /\ UNCHANGED <<enabled, savedId, subscription, lastSubscription, deleting, lastRow>>
  BY DEF DeleteRows, PushInv, PushTypes, pageVars, subscriptionVars
<1>4. PushTypes' /\ LateDeletes'
  BY <1>2, <1>3 DEF PushInv, PushTypes, LateDeletes
<1>5. ASSUME torn' = FALSE PROVE OneEnabling' /\ RowIsDue'
  <2>1. OneEnabling /\ RowIsDue
    BY <1>3, <1>5 DEF PushInv
  <2>2. OneEnabling'
    BY <1>2, <1>3, <2>1 DEF OneEnabling
  <2>3. ASSUME NEW s \in subscriptions, s.endpoint = subscription, subscription # 0
        PROVE  q.endpoint = subscription
    BY <1>2, <1>3, <1>5, <2>3 DEF PushInv, PushTypes, PushRows, PushPosts
  <2> QED BY <1>2, <1>3, <2>1, <2>2, <2>3 DEF RowIsDue
<1> QED BY <1>4, <1>5 DEF PushInv

LEMMA InsertKeeps ==
  ASSUME PushInv, NEW p \in subscribing, InsertSubscription(p) PROVE PushInv'
<1>1. PICK row : row = [id |-> lastRow', endpoint |-> p.endpoint]
  OBVIOUS
<1>2. /\ lastRow' = lastRow + 1 /\ lastRow \in Nat /\ row \in PushRows
      /\ row.id = lastRow + 1 /\ row.endpoint = p.endpoint
      /\ subscriptions' = subscriptions \cup {row} /\ subscribing' = subscribing \ {p}
  BY <1>1 DEF InsertSubscription, PushInv, PushTypes, PushRows, PushPosts
<1>3. /\ savedId' \in {savedId, lastRow'}
      /\ enabled' # enabled => p.for # "nobody"
      /\ UNCHANGED <<subscription, lastSubscription, deleting, torn>>
  BY DEF InsertSubscription, subscriptionVars
<1>4. PushTypes'
  <2>1. 0..lastRow \subseteq 0..lastRow' /\ lastRow' \in 0..lastRow'
    BY <1>2
  <2>2. savedId' \in 0..lastRow' /\ deleting' \subseteq 0..lastRow'
    BY <1>3, <2>1 DEF PushInv, PushTypes
  <2>3. \A s \in subscriptions' : s \in PushRows /\ s.id <= lastRow' /\ s.endpoint <= lastSubscription'
    BY <1>2, <1>3 DEF PushInv, PushTypes, PushRows
  <2> QED BY <1>2, <1>3, <2>2, <2>3 DEF PushInv, PushTypes
<1>5. LateDeletes'
  BY <1>2, <1>3 DEF PushInv, PushTypes, LateDeletes
<1>6. ASSUME torn' = FALSE PROVE OneEnabling' /\ RowIsDue'
  <2>1. OneEnabling /\ RowIsDue
    BY <1>3, <1>6 DEF PushInv
  <2> QED BY <1>2, <1>3, <2>1 DEF OneEnabling, RowIsDue
<1> QED BY <1>4, <1>5, <1>6 DEF PushInv

(* A DELETE, a POST or a send that ends: no row of the present             *)
(* subscription goes.                                                      *)
LEMMA EndingKeeps ==
  ASSUME PushInv,
         \/ \E p \in subscribing : SubscribeFails(p)
         \/ \E id \in deleting : DeleteSubscription(id)
         \/ \E s \in sending : Gone(s)
  PROVE  PushInv'
<1>1. /\ subscribing' \subseteq subscribing /\ deleting' \subseteq deleting
      /\ subscriptions' \subseteq subscriptions
      /\ UNCHANGED <<enabled, savedId, subscription, lastSubscription, lastRow>>
      /\ torn' \in BOOLEAN /\ (torn' = FALSE => torn = FALSE)
  BY DEF SubscribeFails, DeleteSubscription, Gone, pageVars, subscriptionVars, PushInv, PushTypes
<1>2. \A s \in subscriptions : s.endpoint = subscription /\ subscription # 0 => s \in subscriptions'
  BY DEF SubscribeFails, DeleteSubscription, Gone, PushInv, LateDeletes
<1>3. torn' = FALSE => \A p \in subscribing : p.step = "insert" => p \in subscribing'
  BY DEF SubscribeFails, DeleteSubscription, Gone, PushInv, PushTypes
<1>4. PushTypes' /\ LateDeletes'
  BY <1>1 DEF PushInv, PushTypes, LateDeletes
<1>5. torn' = FALSE => OneEnabling' /\ RowIsDue'
  BY <1>1, <1>2, <1>3 DEF PushInv, OneEnabling, RowIsDue
<1> QED BY <1>4, <1>5 DEF PushInv

(* While the toggle is saved as on and the browser has its subscription,   *)
(* the server has a row of it, for any number of subscriptions, calls,     *)
(* reloads and expiries, with the exceptions that LiveRowKept names.       *)
THEOREM LiveRowIsKept == PushSpec => []LiveRowKept
<1>1. PushInit => PushInv
  <2> SUFFICES ASSUME PushInit PROVE PushInv
    OBVIOUS
  <2>1. /\ lastSubscription = 0 /\ subscription = 0 /\ lastRow = 0 /\ savedId = 0
        /\ deleting = {} /\ subscriptions = {} /\ subscribing = {} /\ torn = FALSE
    BY DEF PushInit
  <2>2. PushTypes
    <3>1. savedId \in 0..lastRow /\ deleting \subseteq 0..lastRow
      BY <2>1
    <3>2. subscriptions \subseteq PushRows /\ subscribing \subseteq PushPosts
      BY <2>1
    <3> QED BY <2>1, <3>1, <3>2 DEF PushTypes
  <2> QED BY <2>1, <2>2 DEF PushInv, LateDeletes, OneEnabling, RowIsDue
<1>2. PushInv /\ [PushNext]_pushVars => PushInv'
  <2> SUFFICES ASSUME PushInv, [PushNext]_pushVars PROVE PushInv'
    OBVIOUS
  <2> QED BY SubscribeKeeps, EnableFailsKeeps, ToggleKeeps, MountKeeps, DeleteRowsKeeps,
             InsertKeeps, EndingKeeps DEF PushNext, ReloadToggle, RemountToggle
<1>3. PushInv => LiveRowKept
  BY DEF PushInv, PushTypes, RowIsDue, LiveRowKept
<1> QED BY <1>1, <1>2, <1>3, PTL DEF PushSpec

-----------------------------------------------------------------------------
(* Ratchet.  What a ratchet state can still open, and what it never opens  *)
(* again, whatever it is given.                                            *)

Pubs == {<<x>> : x \in {"ikA", "ikB", "spk", "opk", "ek", "alice"}} \cup Ends \X Nat \X Nat
Secrets == (SUBSET Pubs) \cup Seq(SUBSET Pubs)
Roots == Seq(Secrets)
Keys == [chain : Roots, n : Nat]
Entries == [dh : Pubs \cup {NoKey}, n : Nat, key : Keys]
States == [rootKey : Roots, sendingDh : Pubs, receivingDh : Pubs \cup {NoKey},
           sendingKey : Keys \cup {NoKey}, receivingKey : Keys \cup {NoKey},
           ns : Nat, nr : Nat, pn : Nat, skipped : Seq(Entries)]
Messages == [dh : Pubs, pn : Nat, n : Nat, key : Keys, id : Nat]

EntriesIn(stored) == {stored[i] : i \in DOMAIN stored}
KeysIn(stored) == {stored[i].key : i \in DOMAIN stored}
KeysDiffer(stored) == \A i, j \in DOMAIN stored : stored[i].key = stored[j].key => i = j

\* The key is of a chain the state has left, or it has gone past the key.
Behind(k, s) ==
  /\ Len(k.chain) < Len(s.rootKey)
  /\ s.receivingKey # NoKey /\ k.chain = s.receivingKey.chain => k.n < s.receivingKey.n

\* The state never opens anything with the key again.
Retired(k, s) == Behind(k, s) /\ k \notin KeysIn(s.skipped)

StateOk(s) ==
  /\ s \in States
  /\ s.sendingKey # NoKey => s.sendingKey.chain = s.rootKey
  /\ s.receivingKey # NoKey =>
       Len(s.receivingKey.chain) < Len(s.rootKey) /\ s.receivingKey.n = s.nr
  /\ KeysDiffer(s.skipped)
  /\ \A k \in KeysIn(s.skipped) : Behind(k, s)

LEMMA StateTyped ==
  ASSUME NEW s \in States
  PROVE  /\ s.rootKey \in Roots /\ s.sendingDh \in Pubs /\ s.receivingDh \in Pubs \cup {NoKey}
         /\ s.sendingKey \in Keys \cup {NoKey} /\ s.receivingKey \in Keys \cup {NoKey}
         /\ s.ns \in Nat /\ s.nr \in Nat /\ s.pn \in Nat /\ s.skipped \in Seq(Entries)
  BY DEF States

LEMMA RootGrows ==
  ASSUME NEW r \in Roots, NEW x \in Pubs, NEW y \in Pubs
  PROVE  Append(r, Dh(x, y)) \in Roots /\ Len(Append(r, Dh(x, y))) = Len(r) + 1 /\ Len(r) \in Nat
<1>1. Dh(x, y) \in Secrets
  BY DEF Dh, Secrets
<1> DEFINE z == Dh(x, y)
<1> HIDE DEF z
<1>2. r \in Seq(Secrets) /\ z \in Secrets
  BY <1>1 DEF Roots, z
<1>3. Append(r, z) \in Seq(Secrets) /\ Len(Append(r, z)) = Len(r) + 1 /\ Len(r) \in Nat
  BY <1>2
<1> QED BY <1>3 DEF z, Roots

LEMMA Stepped ==
  ASSUME NEW k \in Keys, NEW j \in Nat
  PROVE  /\ ChainStep(k, j) \in Keys /\ ChainStep(k, j).chain = k.chain
         /\ ChainStep(k, j).n = k.n + j /\ k.n \in Nat /\ k # NoKey
  BY DEF ChainStep, Keys, NoKey

\* Two keys of one chain are told apart by their number.
LEMMA SameKey ==
  ASSUME NEW k \in Keys, NEW l \in Keys, k.chain = l.chain, k.n = l.n PROVE k = l
  BY DEF Keys

-----------------------------------------------------------------------------
(* The store of skipped keys.                                              *)

LEMMA KeysSkipped ==
  ASSUME NEW dh \in Pubs \cup {NoKey}, NEW key \in Keys, NEW n \in Nat, NEW k \in Nat
  PROVE  /\ SkippedKeys(dh, key, n, k) \in Seq(Entries)
         /\ KeysDiffer(SkippedKeys(dh, key, n, k))
         /\ \A l \in KeysIn(SkippedKeys(dh, key, n, k)) :
              l \in Keys /\ l.chain = key.chain /\ l.n >= key.n /\ l.n < key.n + k
<1> DEFINE E == SkippedKeys(dh, key, n, k)
<1>1. ASSUME NEW i \in 1..k
      PROVE  /\ [dh |-> dh, n |-> n + i - 1, key |-> ChainStep(key, i - 1)] \in Entries
             /\ E[i].key = ChainStep(key, i - 1)
             /\ E[i].key \in Keys /\ E[i].key.chain = key.chain /\ E[i].key.n = key.n + (i - 1)
  <2>1. i - 1 \in Nat /\ n + i - 1 \in Nat
    OBVIOUS
  <2>2. ChainStep(key, i - 1) \in Keys /\ ChainStep(key, i - 1).chain = key.chain
        /\ ChainStep(key, i - 1).n = key.n + (i - 1)
    BY <2>1, Stepped
  <2>3. E[i] = [dh |-> dh, n |-> n + i - 1, key |-> ChainStep(key, i - 1)]
    BY DEF SkippedKeys
  <2> QED BY <2>1, <2>2, <2>3 DEF Entries
<1>2. E \in Seq(Entries) /\ DOMAIN E = 1..k
  BY <1>1 DEF SkippedKeys
<1>3. key.n \in Nat
  BY DEF Keys
<1> HIDE DEF E
<1>4. KeysDiffer(E)
  <2>1. ASSUME NEW i \in 1..k, NEW j \in 1..k, E[i].key = E[j].key PROVE i = j
    <3>1. key.n + (i - 1) = key.n + (j - 1)
      BY <1>1, <2>1
    <3> QED BY <1>3, <3>1
  <2> QED BY <1>2, <2>1 DEF KeysDiffer
<1>5. ASSUME NEW l \in KeysIn(E)
      PROVE  l \in Keys /\ l.chain = key.chain /\ l.n >= key.n /\ l.n < key.n + k
  <2>1. PICK i \in 1..k : l = E[i].key
    BY <1>2 DEF KeysIn
  <2>2. l \in Keys /\ l.chain = key.chain /\ l.n = key.n + (i - 1)
    BY <1>1, <2>1
  <2> QED BY <1>3, <2>2
<1> QED BY <1>2, <1>4, <1>5 DEF E

\* What is appended is kept apart, and nothing else gets into the store.
LEMMA Appended ==
  ASSUME NEW stored \in Seq(Entries), NEW entries \in Seq(Entries),
         KeysDiffer(stored), KeysDiffer(entries), KeysIn(stored) \cap KeysIn(entries) = {}
  PROVE  /\ AppendSkipped(stored, entries) \in Seq(Entries)
         /\ KeysDiffer(AppendSkipped(stored, entries))
         /\ KeysIn(AppendSkipped(stored, entries)) \subseteq KeysIn(stored) \cup KeysIn(entries)
<1> DEFINE all == stored \o entries
           from == Len(all) - MaxSkipped + 1
           last == SubSeq(all, from, Len(all))
<1>1. /\ all \in Seq(Entries) /\ Len(all) = Len(stored) + Len(entries)
      /\ Len(stored) \in Nat /\ Len(entries) \in Nat
      /\ \A i \in 1..Len(all) : all[i] = IF i <= Len(stored) THEN stored[i] ELSE entries[i - Len(stored)]
      /\ DOMAIN stored = 1..Len(stored) /\ DOMAIN entries = 1..Len(entries) /\ DOMAIN all = 1..Len(all)
  BY ConcatProperties, LenProperties
<1> HIDE DEF all
<1>2. \A i \in 1..Len(all) : all[i].key \in KeysIn(stored) \cup KeysIn(entries)
  <2> TAKE i \in 1..Len(all)
  <2>1. CASE i <= Len(stored)
    BY <1>1, <2>1 DEF KeysIn
  <2>2. CASE ~(i <= Len(stored))
    <3>1. i - Len(stored) \in DOMAIN entries /\ all[i] = entries[i - Len(stored)]
      BY <1>1, <2>2
    <3> QED BY <3>1 DEF KeysIn
  <2> QED BY <2>1, <2>2
<1>3. ASSUME NEW i \in 1..Len(all), NEW j \in 1..Len(all), all[i].key = all[j].key PROVE i = j
  <2>1. CASE i <= Len(stored) /\ j <= Len(stored)
    <3>1. i \in DOMAIN stored /\ j \in DOMAIN stored /\ stored[i].key = stored[j].key
      BY <1>1, <1>3, <2>1
    <3> QED BY <3>1 DEF KeysDiffer
  <2>2. CASE ~(i <= Len(stored)) /\ ~(j <= Len(stored))
    <3>1. /\ i - Len(stored) \in DOMAIN entries /\ all[i] = entries[i - Len(stored)]
          /\ j - Len(stored) \in DOMAIN entries /\ all[j] = entries[j - Len(stored)]
      BY <1>1, <2>2
    <3>2. i - Len(stored) = j - Len(stored)
      BY <1>3, <3>1 DEF KeysDiffer
    <3> QED BY <1>1, <3>2
  <2>3. ASSUME NEW a \in 1..Len(all), NEW b \in 1..Len(all), a <= Len(stored), ~(b <= Len(stored))
        PROVE  all[a].key # all[b].key
    <3>1. all[a].key \in KeysIn(stored)
      <4>1. a \in DOMAIN stored /\ all[a] = stored[a]
        BY <1>1, <2>3
      <4> QED BY <4>1 DEF KeysIn
    <3>2. b - Len(stored) \in DOMAIN entries /\ all[b] = entries[b - Len(stored)]
      BY <1>1, <2>3
    <3>3. all[b].key \in KeysIn(entries)
      BY <3>2 DEF KeysIn
    <3> QED BY <3>1, <3>3
  <2> QED BY <1>3, <2>1, <2>2, <2>3
<1>4. CASE Len(all) <= MaxSkipped
  <2>1. AppendSkipped(stored, entries) = all
    BY <1>4 DEF AppendSkipped, all
  <2> QED BY <1>1, <1>2, <1>3, <2>1 DEF KeysIn, KeysDiffer
<1>5. CASE ~(Len(all) <= MaxSkipped)
  <2>1. AppendSkipped(stored, entries) = last
    BY <1>5 DEF AppendSkipped, all
  <2>2. from \in 1..Len(all) /\ MaxSkipped \in Nat /\ Len(all) \in Nat
    BY <1>1, <1>5, SessionAssumptions
  <2>3. \A i \in from..Len(all) : all[i] \in Entries
    BY <1>1, <2>2, ElementOfSeq
  <2>4. /\ last \in Seq(Entries) /\ Len(last) = Len(all) - from + 1
        /\ \A i \in 1..(Len(all) - from + 1) : last[i] = all[from + i - 1]
    BY <2>2, <2>3, SubSeqProperties
  <2> HIDE DEF last, from
  <2>5. DOMAIN last = 1..(Len(all) - from + 1)
    BY <2>4, LenProperties
  <2>6. \A i \in DOMAIN last : from + i - 1 \in 1..Len(all) /\ last[i] = all[from + i - 1]
    BY <2>2, <2>4, <2>5
  <2>7. KeysIn(last) \subseteq KeysIn(stored) \cup KeysIn(entries)
    BY <1>2, <2>6 DEF KeysIn
  <2>8. ASSUME NEW i \in DOMAIN last, NEW j \in DOMAIN last, last[i].key = last[j].key PROVE i = j
    <3>1. from + i - 1 = from + j - 1
      BY <1>3, <2>6, <2>8
    <3> QED BY <2>2, <2>5, <3>1
  <2> QED BY <2>1, <2>4, <2>7, <2>8 DEF KeysDiffer
<1> QED BY <1>4, <1>5

\* A key that is taken from the store leaves nothing of it behind.
LEMMA Removed ==
  ASSUME NEW stored \in Seq(Entries), KeysDiffer(stored), NEW i \in DOMAIN stored
  PROVE  /\ RemoveAt(stored, i) \in Seq(Entries)
         /\ KeysDiffer(RemoveAt(stored, i))
         /\ KeysIn(RemoveAt(stored, i)) \subseteq KeysIn(stored) \ {stored[i].key}
         /\ EntriesIn(RemoveAt(stored, i)) = EntriesIn(stored) \ {stored[i]}
<1> DEFINE A == SubSeq(stored, 1, i - 1)
           B == SubSeq(stored, i + 1, Len(stored))
           C == A \o B
<1>1. Len(stored) \in Nat /\ DOMAIN stored = 1..Len(stored) /\ i \in 1..Len(stored)
  BY LenProperties
<1>2. \A j \in 1..Len(stored) : stored[j] \in Entries
  BY ElementOfSeq
<1>3. /\ A \in Seq(Entries) /\ Len(A) = i - 1 /\ \A j \in 1..(i - 1) : A[j] = stored[j]
  <2>1. A \in Seq(Entries) /\ Len(A) = (IF 1 <= i - 1 THEN i - 1 - 1 + 1 ELSE 0)
        /\ \A j \in 1..(i - 1 - 1 + 1) : A[j] = stored[1 + j - 1]
    BY <1>1, <1>2, SubSeqProperties
  <2> QED BY <1>1, <2>1
<1>4. /\ B \in Seq(Entries) /\ Len(B) = Len(stored) - i
      /\ \A j \in 1..(Len(stored) - i) : B[j] = stored[i + j]
  <2>1. B \in Seq(Entries) /\ Len(B) = (IF i + 1 <= Len(stored) THEN Len(stored) - (i + 1) + 1 ELSE 0)
        /\ \A j \in 1..(Len(stored) - (i + 1) + 1) : B[j] = stored[i + 1 + j - 1]
    BY <1>1, <1>2, SubSeqProperties
  <2> QED BY <1>1, <2>1
<1> HIDE DEF A, B
<1>5. /\ C \in Seq(Entries) /\ Len(C) = Len(A) + Len(B)
      /\ \A j \in 1..(Len(A) + Len(B)) : C[j] = IF j <= Len(A) THEN A[j] ELSE B[j - Len(A)]
  BY <1>3, <1>4, ConcatProperties
<1>6. RemoveAt(stored, i) = C
  BY DEF RemoveAt, A, B
<1> HIDE DEF C
<1>7. DOMAIN C = 1..(Len(stored) - 1)
  BY <1>1, <1>3, <1>4, <1>5, LenProperties
<1>8. ASSUME NEW j \in DOMAIN C
      PROVE  \E k \in DOMAIN stored : k = (IF j < i THEN j ELSE j + 1) /\ C[j] = stored[k]
  <2>1. CASE j < i
    BY <1>1, <1>3, <1>4, <1>5, <1>7, <2>1
  <2>2. CASE ~(j < i)
    <3>1. C[j] = B[j - (i - 1)] /\ j - (i - 1) \in 1..(Len(stored) - i)
      BY <1>1, <1>3, <1>4, <1>5, <1>7, <2>2
    <3>2. B[j - (i - 1)] = stored[i + (j - (i - 1))] /\ i + (j - (i - 1)) = j + 1
      BY <1>1, <1>4, <1>7, <3>1
    <3> QED BY <1>1, <1>7, <2>2, <3>1, <3>2
  <2> QED BY <2>1, <2>2
<1>9. ASSUME NEW j \in DOMAIN C PROVE C[j].key \in KeysIn(stored) \ {stored[i].key}
  <2>1. PICK k \in DOMAIN stored : k = (IF j < i THEN j ELSE j + 1) /\ C[j] = stored[k]
    BY <1>8
  <2>2. k # i
    BY <1>1, <1>7, <2>1
  <2> QED BY <2>1, <2>2 DEF KeysDiffer, KeysIn
<1>10. ASSUME NEW j \in DOMAIN C, NEW k \in DOMAIN C, C[j].key = C[k].key PROVE j = k
  <2>2. PICK a \in DOMAIN stored : a = (IF j < i THEN j ELSE j + 1) /\ C[j] = stored[a]
    BY <1>8
  <2>3. PICK b \in DOMAIN stored : b = (IF k < i THEN k ELSE k + 1) /\ C[k] = stored[b]
    BY <1>8
  <2>4. a = b
    BY <1>10, <2>2, <2>3 DEF KeysDiffer
  <2> QED BY <1>1, <1>7, <2>2, <2>3, <2>4
<1>11. ASSUME NEW k \in DOMAIN stored, k # i PROVE \E j \in DOMAIN C : C[j] = stored[k]
  <2>1. PICK j : j = IF k < i THEN k ELSE k - 1
    OBVIOUS
  <2>2. j \in DOMAIN C /\ k = (IF j < i THEN j ELSE j + 1)
    BY <1>1, <1>7, <1>11, <2>1
  <2> QED BY <1>8, <2>2
<1>12. EntriesIn(C) = EntriesIn(stored) \ {stored[i]}
  <2>1. ASSUME NEW j \in DOMAIN C PROVE C[j] \in EntriesIn(stored) /\ C[j] # stored[i]
    <3>1. C[j].key # stored[i].key
      BY <1>9
    <3> QED BY <1>8, <3>1 DEF EntriesIn
  <2>2. ASSUME NEW k \in DOMAIN stored, stored[k] # stored[i] PROVE stored[k] \in EntriesIn(C)
    BY <1>11, <2>2 DEF EntriesIn
  <2> QED BY <2>1, <2>2 DEF EntriesIn
<1> QED BY <1>5, <1>6, <1>9, <1>10, <1>12 DEF KeysIn, KeysDiffer

LEMMA StoreGrows ==
  ASSUME NEW stored \in Seq(Entries), KeysDiffer(stored),
         NEW dh \in Pubs \cup {NoKey}, NEW key \in Keys, NEW n \in Nat, NEW k \in Nat,
         \A l \in KeysIn(stored) : l.chain = key.chain => l.n < key.n
  PROVE  /\ AppendSkipped(stored, SkippedKeys(dh, key, n, k)) \in Seq(Entries)
         /\ KeysDiffer(AppendSkipped(stored, SkippedKeys(dh, key, n, k)))
         /\ \A l \in KeysIn(AppendSkipped(stored, SkippedKeys(dh, key, n, k))) :
              \/ l \in KeysIn(stored)
              \/ l \in Keys /\ l.chain = key.chain /\ l.n >= key.n /\ l.n < key.n + k
<1> DEFINE E == SkippedKeys(dh, key, n, k)
<1>1. /\ E \in Seq(Entries) /\ KeysDiffer(E)
      /\ \A l \in KeysIn(E) : l \in Keys /\ l.chain = key.chain /\ l.n >= key.n /\ l.n < key.n + k
  BY KeysSkipped
<1> HIDE DEF E
<1>2. ASSUME NEW l \in KeysIn(stored), l \in KeysIn(E) PROVE FALSE
  <2>1. l.chain = key.chain /\ l.n >= key.n /\ l.n \in Nat /\ key.n \in Nat
    BY <1>1, <1>2 DEF Keys
  <2>2. l.n < key.n
    BY <2>1
  <2> QED BY <2>1, <2>2
<1>3. KeysIn(stored) \cap KeysIn(E) = {}
  BY <1>2
<1>4. /\ AppendSkipped(stored, E) \in Seq(Entries) /\ KeysDiffer(AppendSkipped(stored, E))
      /\ KeysIn(AppendSkipped(stored, E)) \subseteq KeysIn(stored) \cup KeysIn(E)
  BY <1>1, <1>3, Appended
<1> QED BY <1>1, <1>4 DEF E

LEMMA KeysTyped ==
  ASSUME NEW stored \in Seq(Entries) PROVE KeysIn(stored) \subseteq Keys
<1>1. \A i \in DOMAIN stored : stored[i] \in Entries
  BY LenProperties, ElementOfSeq
<1> QED BY <1>1 DEF KeysIn, Entries

-----------------------------------------------------------------------------
(* One envelope given to a state.                                          *)

\* What was retired stays so; the root is as it was, or has grown by two and
\* starts a sending chain.
Moves(s, t) ==
  /\ StateOk(t)
  /\ \A k \in Keys : Retired(k, s) => Retired(k, t)
  /\ \/ t.rootKey = s.rootKey /\ t.sendingKey = s.sendingKey
     \/ Len(t.rootKey) = Len(s.rootKey) + 2 /\ t.sendingKey = FirstKey(t.rootKey)

Answers == {"ok", "invalid", "duplicate", "lost"}

Safely(s, m, r) ==
  /\ Moves(s, r.state)
  /\ r.kind \in Answers
  /\ r.kind = "ok" => Retired(m.key, s) = FALSE /\ Retired(m.key, r.state)

LEMMA Stays == ASSUME NEW s, StateOk(s) PROVE Moves(s, s)
  BY DEF Moves

\* The chain is given up.
LEMMA LostMoves ==
  ASSUME NEW s, StateOk(s), NEW n \in Nat
  PROVE  Moves(s, [s EXCEPT !.receivingKey = NoKey, !.nr = n])
<1> DEFINE t == [s EXCEPT !.receivingKey = NoKey, !.nr = n]
<1>1. /\ t \in States /\ t.rootKey = s.rootKey /\ t.sendingKey = s.sendingKey
      /\ t.receivingKey = NoKey /\ t.skipped = s.skipped
  BY DEF StateOk, States
<1> HIDE DEF t
<1>2. \A k : Behind(k, s) => Behind(k, t)
  BY <1>1 DEF Behind
<1>3. StateOk(t)
  BY <1>1, <1>2 DEF StateOk
<1>4. Moves(s, t)
  BY <1>1, <1>2, <1>3 DEF Moves, Retired
<1> QED BY <1>4 DEF t

\* The state goes on to the key of number n of its receiving chain.
LEMMA ChainAdvances ==
  ASSUME NEW s, StateOk(s), s.receivingKey # NoKey, NEW dh \in Pubs, NEW gap \in Nat
  PROVE  LET key == ChainStep(s.receivingKey, gap)
             t == [[s EXCEPT !.skipped = AppendSkipped(@, SkippedKeys(dh, s.receivingKey, s.nr, gap))]
                     EXCEPT !.receivingKey = ChainStep(key, 1), !.nr = s.nr + gap + 1]
         IN  /\ Moves(s, t) /\ t.rootKey = s.rootKey /\ t.sendingKey = s.sendingKey
             /\ Retired(key, s) = FALSE /\ Retired(key, t)
<1> DEFINE rk == s.receivingKey
           key == ChainStep(rk, gap)
           stored == AppendSkipped(s.skipped, SkippedKeys(dh, rk, s.nr, gap))
           t == [[s EXCEPT !.skipped = stored]
                     EXCEPT !.receivingKey = ChainStep(key, 1), !.nr = s.nr + gap + 1]
<1>1. /\ s \in States /\ rk \in Keys /\ s.nr \in Nat /\ rk.n = s.nr /\ s.skipped \in Seq(Entries)
      /\ Len(rk.chain) < Len(s.rootKey) /\ KeysDiffer(s.skipped)
      /\ \A k \in KeysIn(s.skipped) : Behind(k, s)
  BY StateTyped DEF StateOk
<1>2. /\ key \in Keys /\ key.chain = rk.chain /\ key.n = rk.n + gap /\ rk.n \in Nat
  BY <1>1, Stepped
<1>3. /\ ChainStep(key, 1) \in Keys /\ ChainStep(key, 1).chain = rk.chain
      /\ ChainStep(key, 1).n = rk.n + gap + 1 /\ ChainStep(key, 1) # NoKey
  <2> HIDE DEF key
  <2>1. /\ ChainStep(key, 1) \in Keys /\ ChainStep(key, 1).chain = key.chain
        /\ ChainStep(key, 1).n = key.n + 1 /\ ChainStep(key, 1) # NoKey
    BY <1>2, Stepped
  <2> QED BY <1>2, <2>1
<1>4. \A l \in KeysIn(s.skipped) : l.chain = rk.chain => l.n < rk.n
  BY <1>1 DEF Behind
<1>5. /\ stored \in Seq(Entries) /\ KeysDiffer(stored)
      /\ \A l \in KeysIn(stored) :
           \/ l \in KeysIn(s.skipped)
           \/ l \in Keys /\ l.chain = rk.chain /\ l.n >= rk.n /\ l.n < rk.n + gap
  BY <1>1, <1>4, StoreGrows
<1> HIDE DEF stored, key
<1>6. s.nr + gap + 1 \in Nat
  BY <1>1
<1>7. /\ t \in States /\ t.rootKey = s.rootKey /\ t.sendingKey = s.sendingKey
      /\ t.skipped = stored /\ t.receivingKey = ChainStep(key, 1) /\ t.nr = s.nr + gap + 1
  BY <1>1, <1>3, <1>5, <1>6 DEF States
<1> HIDE DEF t
<1>8. ASSUME NEW k \in Keys, Behind(k, s) PROVE Behind(k, t)
  <2>1. k.n \in Nat /\ (k.chain = rk.chain => k.n < rk.n)
    BY <1>8 DEF Behind, Keys
  <2> QED BY <1>2, <1>3, <1>7, <1>8, <2>1 DEF Behind
<1>9. ASSUME NEW k \in KeysIn(stored) PROVE Behind(k, t)
  <2>1. CASE k \in KeysIn(s.skipped)
    BY <1>1, <1>8, <2>1, KeysTyped
  <2>2. CASE k \in Keys /\ k.chain = rk.chain /\ k.n >= rk.n /\ k.n < rk.n + gap
    <3>1. k.n < rk.n + gap + 1
      BY <1>2, <2>2 DEF Keys
    <3> QED BY <1>1, <1>3, <1>7, <2>2, <3>1 DEF Behind
  <2> QED BY <1>5, <2>1, <2>2
<1>10. StateOk(t)
  BY <1>1, <1>2, <1>3, <1>5, <1>7, <1>9 DEF StateOk
<1>11. ASSUME NEW k \in Keys, Retired(k, s) PROVE Retired(k, t)
  <2>1. k.n \in Nat /\ Behind(k, s) /\ k \notin KeysIn(s.skipped)
        /\ (k.chain = rk.chain => k.n < rk.n)
    BY <1>11 DEF Retired, Behind, Keys
  <2>2. k \notin KeysIn(stored)
    BY <1>2, <1>5, <2>1
  <2> QED BY <1>7, <1>8, <2>1, <2>2 DEF Retired
<1>12. Retired(key, s) = FALSE
  BY <1>2 DEF Retired, Behind
<1>13. Retired(key, t)
  <2>1. Behind(key, t)
    BY <1>1, <1>2, <1>3, <1>7 DEF Behind
  <2>2. key \notin KeysIn(stored)
    <3>1. key \notin KeysIn(s.skipped)
      BY <1>2, <1>4
    <3> QED BY <1>2, <1>5, <3>1
  <2> QED BY <1>7, <2>1, <2>2 DEF Retired
<1>14. Moves(s, t)
  BY <1>7, <1>10, <1>11 DEF Moves
<1> QED BY <1>7, <1>12, <1>13, <1>14 DEF t, key, stored

\* Both steps of a turn of the Diffie-Hellman ratchet: chains of roots that
\* are longer than any before.
LEMMA RatchetTurns ==
  ASSUME NEW s, StateOk(s), NEW m \in Messages, NEW fresh \in Pubs
  PROVE  LET next == Ratcheted(s, m, fresh)
         IN  /\ Moves(s, next) /\ next.receivingKey # NoKey /\ next.receivingKey \in Keys
             /\ next.receivingKey.n = 0 /\ next.nr = 0
             /\ Len(next.receivingKey.chain) = Len(s.rootKey) + 1
<1> DEFINE received == Append(s.rootKey, Dh(s.sendingDh, m.dh))
           mixed == Append(received, Dh(fresh, m.dh))
           rest == IF s.receivingKey = NoKey \/ m.pn <= s.nr THEN <<>>
                   ELSE SkippedKeys(s.receivingDh, s.receivingKey, s.nr, m.pn - s.nr)
           stored == AppendSkipped(s.skipped, rest)
           next == Ratcheted(s, m, fresh)
<1>1. /\ s \in States /\ s.rootKey \in Roots /\ s.sendingDh \in Pubs /\ s.nr \in Nat /\ s.ns \in Nat
      /\ s.receivingDh \in Pubs \cup {NoKey} /\ s.receivingKey \in Keys \cup {NoKey}
      /\ s.skipped \in Seq(Entries) /\ KeysDiffer(s.skipped)
      /\ \A k \in KeysIn(s.skipped) : Behind(k, s)
  BY StateTyped DEF StateOk
<1>2. m.dh \in Pubs /\ m.pn \in Nat
  BY DEF Messages
<1>3. received \in Roots /\ Len(received) = Len(s.rootKey) + 1 /\ Len(s.rootKey) \in Nat
  BY <1>1, <1>2, RootGrows
<1>4. mixed \in Roots /\ Len(mixed) = Len(s.rootKey) + 2
  <2>1. mixed \in Roots /\ Len(mixed) = Len(received) + 1
    BY <1>2, <1>3, RootGrows
  <2> QED BY <1>3, <2>1
<1> HIDE DEF received, mixed
<1>5. /\ FirstKey(received) \in Keys /\ FirstKey(received).chain = received
      /\ FirstKey(received).n = 0 /\ FirstKey(received) # NoKey
      /\ FirstKey(mixed) \in Keys /\ FirstKey(mixed).chain = mixed
  BY <1>3, <1>4 DEF FirstKey, Keys, NoKey
<1>6. /\ stored \in Seq(Entries) /\ KeysDiffer(stored)
      /\ \A l \in KeysIn(stored) :
           \/ l \in KeysIn(s.skipped)
           \/ /\ s.receivingKey # NoKey /\ l \in Keys
              /\ l.chain = s.receivingKey.chain /\ l.n >= s.receivingKey.n
  <2>1. CASE s.receivingKey = NoKey \/ m.pn <= s.nr
    <3>1. rest = <<>> /\ <<>> \in Seq(Entries) /\ KeysDiffer(<<>>) /\ KeysIn(<<>>) = {}
      BY <2>1 DEF KeysDiffer, KeysIn
    <3>2. KeysIn(s.skipped) \cap KeysIn(<<>>) = {}
      BY <3>1
    <3>3. /\ AppendSkipped(s.skipped, <<>>) \in Seq(Entries)
          /\ KeysDiffer(AppendSkipped(s.skipped, <<>>))
          /\ KeysIn(AppendSkipped(s.skipped, <<>>)) \subseteq KeysIn(s.skipped) \cup KeysIn(<<>>)
      BY <1>1, <3>1, <3>2, Appended
    <3>4. stored = AppendSkipped(s.skipped, <<>>)
      BY <3>1
    <3> HIDE DEF stored
    <3> QED BY <3>1, <3>3, <3>4
  <2>2. CASE ~(s.receivingKey = NoKey \/ m.pn <= s.nr)
    <3>1. /\ rest = SkippedKeys(s.receivingDh, s.receivingKey, s.nr, m.pn - s.nr)
          /\ m.pn - s.nr \in Nat /\ s.receivingKey \in Keys
      BY <1>1, <1>2, <2>2
    <3>2. \A l \in KeysIn(s.skipped) : l.chain = s.receivingKey.chain => l.n < s.receivingKey.n
      BY <1>1, <2>2 DEF Behind
    <3>3. /\ stored \in Seq(Entries) /\ KeysDiffer(stored)
          /\ \A l \in KeysIn(stored) :
               \/ l \in KeysIn(s.skipped)
               \/ /\ l \in Keys /\ l.chain = s.receivingKey.chain
                  /\ l.n >= s.receivingKey.n /\ l.n < s.receivingKey.n + (m.pn - s.nr)
      <4>1. PICK g \in Nat : g = m.pn - s.nr
        BY <3>1
      <4> DEFINE grown == AppendSkipped(s.skipped, SkippedKeys(s.receivingDh, s.receivingKey, s.nr, g))
      <4>2. /\ grown \in Seq(Entries) /\ KeysDiffer(grown)
            /\ \A l \in KeysIn(grown) :
                 \/ l \in KeysIn(s.skipped)
                 \/ /\ l \in Keys /\ l.chain = s.receivingKey.chain
                    /\ l.n >= s.receivingKey.n /\ l.n < s.receivingKey.n + g
        <5>1. /\ s.skipped \in Seq(Entries) /\ KeysDiffer(s.skipped) /\ s.nr \in Nat
              /\ s.receivingDh \in Pubs \cup {NoKey} /\ s.receivingKey \in Keys
          BY <1>1, <3>1
        <5>2. PICK st \in Seq(Entries) : st = s.skipped
          BY <5>1
        <5>3. PICK dh \in Pubs \cup {NoKey} : dh = s.receivingDh
          BY <5>1
        <5>4. PICK key \in Keys : key = s.receivingKey
          BY <5>1
        <5>5. PICK n \in Nat : n = s.nr
          BY <5>1
        <5>6. KeysDiffer(st) /\ \A l \in KeysIn(st) : l.chain = key.chain => l.n < key.n
          BY <3>2, <5>1, <5>2, <5>4
        <5>7. /\ AppendSkipped(st, SkippedKeys(dh, key, n, g)) \in Seq(Entries)
              /\ KeysDiffer(AppendSkipped(st, SkippedKeys(dh, key, n, g)))
              /\ \A l \in KeysIn(AppendSkipped(st, SkippedKeys(dh, key, n, g))) :
                   \/ l \in KeysIn(st)
                   \/ l \in Keys /\ l.chain = key.chain /\ l.n >= key.n /\ l.n < key.n + g
          BY <5>6, StoreGrows
        <5> QED BY <5>2, <5>3, <5>4, <5>5, <5>7
      <4>3. stored = grown
        BY <3>1, <4>1
      <4> HIDE DEF stored, grown
      <4> QED BY <4>1, <4>2, <4>3
    <3> QED BY <2>2, <3>3
  <2> QED BY <2>1, <2>2
<1>7. next = [rootKey |-> mixed, sendingDh |-> fresh, receivingDh |-> m.dh,
              sendingKey |-> FirstKey(mixed), receivingKey |-> FirstKey(received),
              ns |-> 0, nr |-> 0, pn |-> s.ns, skipped |-> stored]
  BY DEF Ratcheted, received, mixed
<1> HIDE DEF stored
<1>8. /\ next \in States /\ next.rootKey = mixed /\ next.sendingKey = FirstKey(mixed)
      /\ next.receivingKey = FirstKey(received) /\ next.nr = 0 /\ next.skipped = stored
  BY <1>1, <1>2, <1>4, <1>5, <1>6, <1>7 DEF States
<1> HIDE DEF next
<1>9. ASSUME NEW k \in Keys, Len(k.chain) \in Nat, Len(k.chain) < Len(s.rootKey) PROVE Behind(k, next)
  <2>1. Len(k.chain) < Len(mixed) /\ k.chain # received
    BY <1>3, <1>4, <1>9
  <2> QED BY <1>5, <1>8, <2>1 DEF Behind
<1>10. \A k \in Keys : Len(k.chain) \in Nat
  BY LenProperties DEF Keys, Roots
<1>11. ASSUME NEW k \in KeysIn(stored) PROVE Behind(k, next)
  <2>1. k \in Keys
    BY <1>6, KeysTyped
  <2>2. Len(k.chain) < Len(s.rootKey)
    BY <1>1, <1>6 DEF Behind, StateOk
  <2> QED BY <1>9, <1>10, <2>1, <2>2
<1>12. StateOk(next)
  BY <1>3, <1>4, <1>5, <1>6, <1>8, <1>11 DEF StateOk
<1>13. ASSUME NEW k \in Keys, Retired(k, s) PROVE Retired(k, next)
  <2>1. /\ k \notin KeysIn(s.skipped) /\ Len(k.chain) < Len(s.rootKey)
        /\ (s.receivingKey # NoKey /\ k.chain = s.receivingKey.chain => k.n < s.receivingKey.n)
    BY <1>13 DEF Retired, Behind
  <2>2. k.n \in Nat /\ (s.receivingKey # NoKey => s.receivingKey.n \in Nat)
    BY <1>1 DEF Keys
  <2>3. k \notin KeysIn(stored)
    BY <1>6, <2>1, <2>2
  <2> QED BY <1>8, <1>9, <1>10, <2>1, <2>3 DEF Retired
<1>14. Moves(s, next)
  BY <1>4, <1>8, <1>12, <1>13 DEF Moves
<1> QED BY <1>3, <1>5, <1>8, <1>14 DEF next

LEMMA MovesOn ==
  ASSUME NEW s, NEW b, NEW t, Moves(s, b), Moves(b, t),
         t.rootKey = b.rootKey, t.sendingKey = b.sendingKey
  PROVE  Moves(s, t)
  BY DEF Moves

\* Trial decryption with a key of the receiving chain of b, the state s itself
\* or the state after a turn of the ratchet.
LEMMA TriesKey ==
  ASSUME NEW s, StateOk(s), NEW m \in Messages, NEW b, Moves(s, b), b.receivingKey # NoKey,
         NEW gap \in Nat, m.n = b.nr + gap, Retired(ChainStep(b.receivingKey, gap), s) = FALSE
  PROVE  Safely(s, m,
           TryKey(s, [b EXCEPT !.skipped = AppendSkipped(@, SkippedKeys(m.dh, b.receivingKey, b.nr, gap))],
                  ChainStep(b.receivingKey, gap), m))
<1> DEFINE key == ChainStep(b.receivingKey, gap)
           candidate == [b EXCEPT !.skipped =
                           AppendSkipped(@, SkippedKeys(m.dh, b.receivingKey, b.nr, gap))]
           t == [candidate EXCEPT !.receivingKey = ChainStep(key, 1), !.nr = b.nr + gap + 1]
           result == TryKey(s, candidate, key, m)
<1>1. m.dh \in Pubs /\ StateOk(b)
  BY DEF Messages, Moves
<1>2. /\ Moves(b, t) /\ t.rootKey = b.rootKey /\ t.sendingKey = b.sendingKey /\ Retired(key, t)
  BY <1>1, ChainAdvances
<1>3. result = IF m.key = key THEN Result(t, "ok") ELSE Result(s, "invalid")
  BY DEF TryKey
<1>4. Retired(key, s) = FALSE
  OBVIOUS
<1> HIDE DEF t, key, candidate, result
<1>5. Moves(s, t) /\ Moves(s, s)
  BY <1>2, MovesOn, Stays
<1>6. ASSUME m.key = key PROVE Safely(s, m, result)
  <2>1. result.state = t /\ result.kind = "ok"
    BY <1>3, <1>6 DEF Result
  <2> QED BY <1>2, <1>4, <1>5, <1>6, <2>1 DEF Safely, Answers
<1>7. ASSUME m.key # key PROVE Safely(s, m, result)
  <2>1. result.state = s /\ result.kind = "invalid"
    BY <1>3, <1>7 DEF Result
  <2> QED BY <1>5, <2>1 DEF Safely, Answers
<1>8. Safely(s, m, result)
  BY <1>6, <1>7
<1> QED BY <1>8 DEF result, candidate, key

LEMMA GivesUp ==
  ASSUME NEW s, StateOk(s), NEW m \in Messages, NEW b, Moves(s, b)
  PROVE  Safely(s, m, Result([b EXCEPT !.receivingKey = NoKey, !.nr = m.n + 1], "lost"))
<1> DEFINE t == [b EXCEPT !.receivingKey = NoKey, !.nr = m.n + 1]
<1>1. m.n + 1 \in Nat /\ StateOk(b)
  BY DEF Messages, Moves
<1>2. Moves(b, t)
  BY <1>1, LostMoves
<1>3. t.rootKey = b.rootKey /\ t.sendingKey = b.sendingKey
  BY <1>1 DEF StateOk, States
<1> HIDE DEF t
<1>4. Moves(s, t)
  BY <1>2, <1>3, MovesOn
<1>5. Safely(s, m, Result(t, "lost"))
  BY <1>4 DEF Safely, Answers, Result
<1> QED BY <1>5 DEF t

LEMMA Unmoved ==
  ASSUME NEW s, StateOk(s), NEW m, NEW kind \in {"invalid", "duplicate"}
  PROVE  Safely(s, m, Result(s, kind))
  BY Stays DEF Safely, Answers, Result

LEMMA SkippedOpens ==
  ASSUME NEW s, StateOk(s), NEW m \in Messages, NEW i \in DOMAIN s.skipped
  PROVE  Safely(s, m, TrySkippedKey(s, i, m))
<1> DEFINE stored == RemoveAt(s.skipped, i)
           t == [s EXCEPT !.skipped = stored]
<1>1. /\ s \in States /\ s.skipped \in Seq(Entries) /\ KeysDiffer(s.skipped)
      /\ \A k \in KeysIn(s.skipped) : Behind(k, s)
  BY StateTyped DEF StateOk
<1>2. /\ stored \in Seq(Entries) /\ KeysDiffer(stored)
      /\ KeysIn(stored) \subseteq KeysIn(s.skipped) \ {s.skipped[i].key}
  BY <1>1, Removed
<1>3. TrySkippedKey(s, i, m) = IF s.skipped[i].key = m.key THEN Result(t, "ok") ELSE Result(s, "invalid")
  BY DEF TrySkippedKey
<1>4. s.skipped[i].key \in KeysIn(s.skipped)
  BY DEF KeysIn
<1> HIDE DEF stored
<1>5. /\ t \in States /\ t.skipped = stored /\ t.rootKey = s.rootKey /\ t.sendingKey = s.sendingKey
      /\ t.receivingKey = s.receivingKey /\ t.nr = s.nr
  BY <1>1, <1>2 DEF States
<1> HIDE DEF t
<1>6. \A k : Behind(k, t) <=> Behind(k, s)
  BY <1>5 DEF Behind
<1>7. StateOk(t)
  BY <1>1, <1>2, <1>5, <1>6 DEF StateOk
<1>8. \A k : Retired(k, s) => Retired(k, t)
  BY <1>2, <1>5, <1>6 DEF Retired
<1>9. Moves(s, t)
  BY <1>5, <1>7, <1>8 DEF Moves
<1>10. CASE s.skipped[i].key = m.key
  <2>1. Retired(m.key, s) = FALSE /\ Retired(m.key, t)
    BY <1>1, <1>2, <1>4, <1>5, <1>6, <1>10 DEF Retired
  <2>2. Safely(s, m, Result(t, "ok"))
    BY <1>9, <2>1 DEF Safely, Answers, Result
  <2> QED BY <1>3, <1>10, <2>2
<1>11. CASE s.skipped[i].key # m.key
  BY <1>3, <1>11, Unmoved
<1> QED BY <1>10, <1>11

\* What can come of an envelope, by the chain it is of.
LEMMA SameChainWays ==
  ASSUME NEW s, StateOk(s), NEW m \in Messages
  PROVE  \/ /\ s.receivingKey = NoKey \/ m.n < s.nr
            /\ DecryptSameChain(s, m) = Result(s, "duplicate")
         \/ /\ s.receivingKey # NoKey /\ m.n - s.nr > MaxSkipped
            /\ DecryptSameChain(s, m) = Result([s EXCEPT !.receivingKey = NoKey, !.nr = m.n + 1], "lost")
         \/ \E gap \in Nat :
              /\ s.receivingKey # NoKey /\ m.n = s.nr + gap
              /\ DecryptSameChain(s, m) =
                   TryKey(s, [s EXCEPT !.skipped = AppendSkipped(@, SkippedKeys(m.dh, s.receivingKey, s.nr, gap))],
                          ChainStep(s.receivingKey, gap), m)
<1>1. s.nr \in Nat /\ m.n \in Nat
  BY StateTyped DEF StateOk, Messages
<1>2. CASE s.receivingKey = NoKey \/ m.n < s.nr
  <2>1. DecryptSameChain(s, m) = Result(s, "duplicate")
    BY <1>1, <1>2, SessionAssumptions DEF DecryptSameChain
  <2> QED BY <1>2, <2>1
<1>3. CASE s.receivingKey # NoKey /\ ~(m.n < s.nr) /\ m.n - s.nr > MaxSkipped
  <2>1. DecryptSameChain(s, m) = Result([s EXCEPT !.receivingKey = NoKey, !.nr = m.n + 1], "lost")
    BY <1>3 DEF DecryptSameChain, AdvancePastLossThreshold
  <2> QED BY <1>3, <2>1
<1>4. CASE s.receivingKey # NoKey /\ ~(m.n < s.nr) /\ ~(m.n - s.nr > MaxSkipped)
  <2>1. PICK gap \in Nat : gap = m.n - s.nr /\ m.n = s.nr + gap
    BY <1>1, <1>4
  <2>2. DecryptSameChain(s, m) =
          TryKey(s, [s EXCEPT !.skipped = AppendSkipped(@, SkippedKeys(m.dh, s.receivingKey, s.nr, gap))],
                 ChainStep(s.receivingKey, gap), m)
    BY <1>4, <2>1 DEF DecryptSameChain, DecryptAdvanceChain
  <2> QED BY <1>4, <2>1, <2>2
<1> QED BY <1>2, <1>3, <1>4

LEMMA NewChainWays ==
  ASSUME NEW s, StateOk(s), NEW m \in Messages, NEW fresh \in Pubs,
         NEW next, next = Ratcheted(s, m, fresh)
  PROVE  \/ /\ s.receivingKey # NoKey /\ m.pn - s.nr > MaxSkipped
            /\ DecryptNewChain(s, m, fresh) = Result([s EXCEPT !.receivingKey = NoKey, !.nr = m.n + 1], "lost")
         \/ /\ m.n > MaxSkipped
            /\ DecryptNewChain(s, m, fresh) = Result([next EXCEPT !.receivingKey = NoKey, !.nr = m.n + 1], "lost")
         \/ DecryptNewChain(s, m, fresh) =
              TryKey(s, [next EXCEPT !.skipped = AppendSkipped(@, SkippedKeys(m.dh, next.receivingKey, next.nr, m.n))],
                     ChainStep(next.receivingKey, m.n), m)
<1>1. next.nr = 0
  BY RatchetTurns
<1>2. m.n \in Nat /\ m.pn \in Nat /\ s.nr \in Nat /\ MaxSkipped \in Nat
  BY StateTyped, SessionAssumptions DEF StateOk, Messages
<1>3. DecryptNewChain(s, m, fresh) =
        CASE s.receivingKey # NoKey /\ m.pn - s.nr > MaxSkipped ->
               Result([s EXCEPT !.receivingKey = NoKey, !.nr = m.n + 1], "lost")
          [] (s.receivingKey = NoKey \/ m.pn - s.nr <= MaxSkipped) /\ m.n > MaxSkipped ->
               Result([next EXCEPT !.receivingKey = NoKey, !.nr = m.n + 1], "lost")
          [] OTHER ->
               TryKey(s, [next EXCEPT !.skipped = AppendSkipped(@, SkippedKeys(m.dh, next.receivingKey, 0, m.n))],
                      ChainStep(next.receivingKey, m.n), m)
  BY DEF DecryptNewChain, AdvancePastLossThreshold
<1>4. CASE s.receivingKey # NoKey /\ m.pn - s.nr > MaxSkipped
  <2>1. DecryptNewChain(s, m, fresh) = Result([s EXCEPT !.receivingKey = NoKey, !.nr = m.n + 1], "lost")
    <3>1. ~(s.receivingKey = NoKey \/ m.pn - s.nr <= MaxSkipped)
      BY <1>2, <1>4
    <3> QED BY <1>3, <1>4, <3>1
  <2> QED BY <1>4, <2>1
<1>5. CASE ~(s.receivingKey # NoKey /\ m.pn - s.nr > MaxSkipped) /\ m.n > MaxSkipped
  <2>1. DecryptNewChain(s, m, fresh) = Result([next EXCEPT !.receivingKey = NoKey, !.nr = m.n + 1], "lost")
    <3>1. s.receivingKey = NoKey \/ m.pn - s.nr <= MaxSkipped
      BY <1>2, <1>5
    <3> QED BY <1>3, <1>5, <3>1
  <2> QED BY <1>5, <2>1
<1>6. CASE ~(s.receivingKey # NoKey /\ m.pn - s.nr > MaxSkipped) /\ ~(m.n > MaxSkipped)
  <2>1. DecryptNewChain(s, m, fresh) =
          TryKey(s, [next EXCEPT !.skipped = AppendSkipped(@, SkippedKeys(m.dh, next.receivingKey, next.nr, m.n))],
                 ChainStep(next.receivingKey, m.n), m)
    BY <1>1, <1>2, <1>3, <1>6
  <2> QED BY <2>1
<1> QED BY <1>4, <1>5, <1>6

LEMMA Ways ==
  ASSUME NEW s, StateOk(s), NEW m, NEW fresh
  PROVE  \/ \E i \in DOMAIN s.skipped :
              /\ s.skipped[i].dh = m.dh /\ s.skipped[i].n = m.n
              /\ DecryptFromDevice(s, m, fresh) = TrySkippedKey(s, i, m)
         \/ /\ \A i \in DOMAIN s.skipped : ~(s.skipped[i].dh = m.dh /\ s.skipped[i].n = m.n)
            /\ \/ s.receivingDh = m.dh /\ DecryptFromDevice(s, m, fresh) = DecryptSameChain(s, m)
               \/ s.receivingDh # m.dh /\ DecryptFromDevice(s, m, fresh) = DecryptNewChain(s, m, fresh)
<1> DEFINE held == {i \in DOMAIN s.skipped : s.skipped[i].dh = m.dh /\ s.skipped[i].n = m.n}
<1>1. CASE held # {}
  <2>1. \E i \in held : \A j \in held : i <= j
    <3>1. held \subseteq Nat
      BY LenProperties, StateTyped DEF StateOk
    <3> QED BY <1>1, <3>1, LeastOf
  <2>2. PICK i \in held : i = CHOOSE k \in held : \A j \in held : k <= j
    BY <2>1
  <2>3. DecryptFromDevice(s, m, fresh) = TrySkippedKey(s, i, m)
    BY <1>1, <2>2 DEF DecryptFromDevice
  <2> QED BY <2>2, <2>3
<1>2. CASE held = {} /\ s.receivingDh = m.dh
  BY <1>2 DEF DecryptFromDevice
<1>3. CASE held = {} /\ s.receivingDh # m.dh
  BY <1>3 DEF DecryptFromDevice
<1> QED BY <1>1, <1>2, <1>3

LEMMA SameChainOpens ==
  ASSUME NEW s, StateOk(s), NEW m \in Messages PROVE Safely(s, m, DecryptSameChain(s, m))
<1>1. CASE DecryptSameChain(s, m) = Result(s, "duplicate")
  BY <1>1, Unmoved
<1>2. CASE DecryptSameChain(s, m) = Result([s EXCEPT !.receivingKey = NoKey, !.nr = m.n + 1], "lost")
  BY <1>2, GivesUp, Stays
<1>3. ASSUME NEW gap \in Nat, s.receivingKey # NoKey, m.n = s.nr + gap,
             DecryptSameChain(s, m) =
               TryKey(s, [s EXCEPT !.skipped = AppendSkipped(@, SkippedKeys(m.dh, s.receivingKey, s.nr, gap))],
                      ChainStep(s.receivingKey, gap), m)
      PROVE  Safely(s, m, DecryptSameChain(s, m))
  <2>1. m.dh \in Pubs
    BY DEF Messages
  <2>2. Retired(ChainStep(s.receivingKey, gap), s) = FALSE
    BY <1>3, <2>1, ChainAdvances
  <2> QED BY <1>3, <2>2, TriesKey, Stays
<1> QED BY <1>1, <1>2, <1>3, SameChainWays

LEMMA NewChainOpens ==
  ASSUME NEW s, StateOk(s), NEW m \in Messages, NEW fresh \in Pubs
  PROVE  Safely(s, m, DecryptNewChain(s, m, fresh))
<1>1. PICK next : next = Ratcheted(s, m, fresh)
  OBVIOUS
<1>2. /\ Moves(s, next) /\ next.receivingKey # NoKey /\ next.receivingKey \in Keys
      /\ next.nr = 0 /\ Len(next.receivingKey.chain) = Len(s.rootKey) + 1
  BY <1>1, RatchetTurns
<1>3. CASE DecryptNewChain(s, m, fresh) = Result([s EXCEPT !.receivingKey = NoKey, !.nr = m.n + 1], "lost")
  BY <1>3, GivesUp, Stays
<1>4. CASE DecryptNewChain(s, m, fresh) = Result([next EXCEPT !.receivingKey = NoKey, !.nr = m.n + 1], "lost")
  BY <1>2, <1>4, GivesUp
<1>5. CASE DecryptNewChain(s, m, fresh) =
             TryKey(s, [next EXCEPT !.skipped = AppendSkipped(@, SkippedKeys(m.dh, next.receivingKey, next.nr, m.n))],
                    ChainStep(next.receivingKey, m.n), m)
  <2>1. m.n \in Nat
    BY DEF Messages
  <2>2. Retired(ChainStep(next.receivingKey, m.n), s) = FALSE
    <3>1. ChainStep(next.receivingKey, m.n).chain = next.receivingKey.chain
      BY <1>2, <2>1, Stepped
    <3>2. Len(s.rootKey) \in Nat
      BY LenProperties, StateTyped DEF StateOk, Roots
    <3> QED BY <1>2, <3>1, <3>2 DEF Retired, Behind
  <2>3. m.n = next.nr + m.n
    BY <1>2, <2>1
  <2> QED BY <1>2, <1>5, <2>1, <2>2, <2>3, TriesKey
<1> QED BY <1>1, <1>3, <1>4, <1>5, NewChainWays

\* An envelope that opens had a key that was not retired, and is retired now for
\* good: an envelope opens once, whatever a state is given in between.
THEOREM DecryptsSafely ==
  ASSUME NEW s, StateOk(s), NEW m \in Messages, NEW fresh \in Pubs
  PROVE  Safely(s, m, DecryptFromDevice(s, m, fresh))
  BY Ways, SkippedOpens, SameChainOpens, NewChainOpens

(* Session.  Two devices, whose calls overlap as they please, over a       *)
(* network that keeps every envelope.                                      *)

Jobs ==
  {NoCall} \cup [at : {"sealing"}, state : States] \cup [at : {"sealed"}, msg : Messages]
  \cup [at : {"opening"}, state : States, msg : Messages] \cup [at : {"ok", "invalid"}, msg : Messages]

SessionTypes ==
  /\ session \in [Ends -> States]
  /\ job \in [Ends -> [Slots -> Jobs]]
  /\ wire \in [Ends -> SUBSET Messages]
  /\ messageRows \in [Ends -> [MessageIds -> SUBSET {"delivered", "tampered", "repeated"}]]
  /\ opened \in [Ends -> SUBSET Messages]
  /\ sealed \in [Ends -> SUBSET Messages]
  /\ \A d \in Ends : IsFiniteSet(sealed[d]) /\ Cardinality(sealed[d]) <= MaxSends[d]
  /\ overwritten \in [Ends -> Nat]

\* The roots that Alice sends from have an even length and those of Bob an odd
\* one: the two mix their secrets in by turns.
Turn(d, n) == IF d = Alice THEN \E k \in Nat : n = 2 * k ELSE \E k \in Nat : n = 2 * k + 1

\* The state has sealed with the key, or will not come to it.
Past(k, s) ==
  \/ Len(k.chain) < Len(s.rootKey)
  \/ s.sendingKey # NoKey /\ k.chain = s.rootKey /\ k.n < s.sendingKey.n

\* A state of device d, saved or in the hands of a call.
Sound(d, s) == StateOk(s) /\ Turn(d, Len(s.rootKey))

\* A call of device d, to which the envelopes I came and which has sealed O.
JobOk(d, j, I, O) ==
  /\ j.at \in {"sealing", "opening"} => Sound(d, j.state)
  /\ j.at \in {"opening", "ok", "invalid"} => j.msg \in I
  /\ j.at = "sealed" => j.msg \in O

DeviceOk(d) ==
  /\ Sound(d, session[d])
  /\ opened[d] \subseteq wire[Peer(d)]
  /\ wire[d] \subseteq sealed[d]
  /\ \A i \in Slots : JobOk(d, job[d][i], wire[Peer(d)], sealed[d])

NamesOk(d) ==
  /\ \A m \in sealed[d] : m.id \in 1..Cardinality(sealed[d]) /\ Turn(d, Len(m.key.chain))
  /\ \A m1, m2 \in sealed[d] : m1.id = m2.id => m1 = m2

\* What holds besides while no call of d has overwritten what another saved.
RowsOk(d) ==
  /\ \A m \in opened[d] : Retired(m.key, session[d])
  /\ \A i \in Slots : job[d][i].at = "ok" =>
       job[d][i].msg \in opened[d] /\ "delivered" \notin messageRows[d][job[d][i].msg.id]
  /\ \A i, k \in Slots :
       job[d][i].at = "ok" /\ job[d][k].at = "ok" /\ job[d][i].msg = job[d][k].msg => i = k
  /\ \A id \in MessageIds :
       /\ "repeated" \notin messageRows[d][id]
       /\ "delivered" \in messageRows[d][id] => \E m \in opened[d] : m.id = id

SentOk(d) ==
  /\ \A m \in sealed[d] : Past(m.key, session[d])
  /\ \A m1, m2 \in sealed[d] : m1.key = m2.key => m1 = m2

KeptOk(d) == overwritten[d] = 0 => RowsOk(d) /\ SentOk(d)

SessionInv == SessionTypes /\ \A d \in Ends : DeviceOk(d) /\ NamesOk(d) /\ KeptOk(d)

LEMMA PeerOf ==
  ASSUME NEW d \in Ends
  PROVE  Peer(d) \in Ends /\ Peer(d) # d /\ Peer(Peer(d)) = d /\ \A e \in Ends \ {d} : e = Peer(d)
  BY DEF Ends, Peer, Alice, Bob

LEMMA CallTyped ==
  ASSUME NEW j \in Jobs
  PROVE  /\ j.at \in {"idle", "sealing", "sealed", "opening", "ok", "invalid"}
         /\ j.at = "sealing" => j.state \in States
         /\ j.at = "opening" => j.state \in States /\ j.msg \in Messages
         /\ j.at \in {"sealed", "ok", "invalid"} => j.msg \in Messages
  BY DEF Jobs, NoCall

LEMMA CallSet ==
  ASSUME SessionTypes, NEW d \in Ends, NEW i \in Slots, NEW j \in Jobs, SetJob(d, i, j)
  PROVE  /\ job' \in [Ends -> [Slots -> Jobs]] /\ job'[d][i] = j
         /\ \A k \in Slots \ {i} : job'[d][k] = job[d][k]
         /\ \A e \in Ends \ {d} : job'[e] = job[e]
  BY DEF SessionTypes, SetJob

\* A save: what it was loaded from is still what is there, or it is counted.
LEMMA Saves ==
  ASSUME SessionTypes, NEW d \in Ends, NEW i \in Slots, NEW t \in States, SaveSession(d, i, t)
  PROVE  /\ session' \in [Ends -> States] /\ session'[d] = t
         /\ \A e \in Ends \ {d} : session'[e] = session[e] /\ overwritten'[e] = overwritten[e]
         /\ overwritten' \in [Ends -> Nat]
         /\ Overwrites(d, i) \in Nat /\ overwritten'[d] = Overwrites(d, i)
         /\ Overwrites(d, i) = 0 => overwritten[d] = 0 /\ job[d][i].state = session[d]
<1>1. Overwrites(d, i) \in Nat /\ (Overwrites(d, i) = 0 => overwritten[d] = 0 /\ job[d][i].state = session[d])
  <2>1. overwritten[d] \in Nat /\ overwritten[d] + 1 \in Nat /\ overwritten[d] + 1 # 0
    BY DEF SessionTypes
  <2>2. CASE session[d] = job[d][i].state
    BY <2>1, <2>2 DEF Overwrites
  <2>3. CASE session[d] # job[d][i].state
    BY <2>1, <2>3 DEF Overwrites
  <2> QED BY <2>2, <2>3
<1>2. PICK n \in Nat : n = Overwrites(d, i)
  BY <1>1
<1>3. /\ session' = [session EXCEPT ![d] = t]
      /\ overwritten' = [overwritten EXCEPT ![d] = n]
  BY <1>2 DEF SaveSession
<1> QED BY <1>1, <1>2, <1>3 DEF SessionTypes

LEMMA JobKept ==
  ASSUME NEW d, NEW j, NEW I, NEW O, JobOk(d, j, I, O), NEW I2, NEW O2, I \subseteq I2, O \subseteq O2
  PROVE  JobOk(d, j, I2, O2)
  BY DEF JobOk

\* A device the step is not about: its peer may have sent.
LEMMA OtherEnd ==
  ASSUME NEW e \in Ends, DeviceOk(e), NamesOk(e), KeptOk(e),
         session'[e] = session[e], job'[e] = job[e], wire'[e] = wire[e],
         messageRows'[e] = messageRows[e], opened'[e] = opened[e], sealed'[e] = sealed[e],
         overwritten'[e] = overwritten[e],
         wire[Peer(e)] \subseteq wire'[Peer(e)]
  PROVE  DeviceOk(e)' /\ NamesOk(e)' /\ KeptOk(e)'
<1>1. DeviceOk(e)'
  BY DEF DeviceOk, JobOk
<1>2. NamesOk(e)'
  BY DEF NamesOk
<1>3. KeptOk(e)'
  BY DEF KeptOk, RowsOk, SentOk
<1> QED BY <1>1, <1>2, <1>3

\* A call that has only begun, or is over.
Quiet(d, j) ==
  \/ j = NoCall
  \/ j.at = "sealing" /\ j.state = session[d]
  \/ j.at = "opening" /\ j.state = session[d] /\ j.msg \in wire[Peer(d)]

\* A step that only begins or drops calls.
LEMMA QuietInv ==
  ASSUME SessionInv, NEW d \in Ends, job' \in [Ends -> [Slots -> Jobs]],
         \A i \in Slots : job'[d][i] = job[d][i] \/ Quiet(d, job'[d][i]),
         \A e \in Ends \ {d} : job'[e] = job[e],
         UNCHANGED <<session, wire, messageRows, opened, sealed, overwritten>>
  PROVE  SessionInv'
<1>1. SessionTypes'
  BY DEF SessionInv, SessionTypes
<1>2. ASSUME NEW e \in Ends \ {d} PROVE DeviceOk(e)' /\ NamesOk(e)' /\ KeptOk(e)'
  BY <1>2, OtherEnd DEF SessionInv
<1>3. DeviceOk(d) /\ NamesOk(d) /\ KeptOk(d)
  BY DEF SessionInv
<1>4. ASSUME NEW i \in Slots PROVE JobOk(d, job'[d][i], wire[Peer(d)], sealed[d])
  <2>1. CASE job'[d][i] = job[d][i]
    BY <1>3, <2>1 DEF DeviceOk, JobOk
  <2>2. CASE Quiet(d, job'[d][i])
    BY <1>3, <2>2 DEF DeviceOk, JobOk, Quiet, NoCall
  <2> QED BY <2>1, <2>2
<1>5. DeviceOk(d)'
  BY <1>3, <1>4 DEF DeviceOk
<1>6. NamesOk(d)'
  BY <1>3 DEF NamesOk
<1>7. \A i \in Slots : job'[d][i].at = "ok" => job'[d][i] = job[d][i]
  BY DEF Quiet, NoCall
<1>8. KeptOk(d)'
  <2>1. ASSUME RowsOk(d) PROVE RowsOk(d)'
    <3>1. \A i \in Slots : job'[d][i].at = "ok" =>
            job'[d][i].msg \in opened[d] /\ "delivered" \notin messageRows[d][job'[d][i].msg.id]
      BY <1>7, <2>1 DEF RowsOk
    <3>2. \A i, k \in Slots :
            job'[d][i].at = "ok" /\ job'[d][k].at = "ok" /\ job'[d][i].msg = job'[d][k].msg => i = k
      <4> SUFFICES ASSUME NEW i \in Slots, NEW k \in Slots, job'[d][i].at = "ok", job'[d][k].at = "ok",
                          job'[d][i].msg = job'[d][k].msg
                   PROVE  i = k
        OBVIOUS
      <4>1. job'[d][i] = job[d][i] /\ job'[d][k] = job[d][k]
        BY <1>7
      <4> QED BY <2>1, <4>1 DEF RowsOk
    <3> QED BY <2>1, <3>1, <3>2 DEF RowsOk
  <2>2. ASSUME SentOk(d) PROVE SentOk(d)'
    BY <2>2 DEF SentOk
  <2> QED BY <1>3, <2>1, <2>2 DEF KeptOk
<1> QED BY <1>1, <1>2, <1>5, <1>6, <1>8 DEF SessionInv

LEMMA StartInv ==
  ASSUME SessionInv, NEW d \in Ends, NEW i \in Slots,
         StartSend(d, i) \/ StartInbound(d, i) \/ SendThrows(d, i)
  PROVE  SessionInv'
<1>1. SessionTypes /\ session[d] \in States /\ Peer(d) \in Ends
  BY PeerOf DEF SessionInv, SessionTypes
<1>2. ASSUME NEW j \in Jobs, SetJob(d, i, j), Quiet(d, j),
             UNCHANGED <<session, wire, messageRows, opened, sealed, overwritten>>
      PROVE  SessionInv'
  <2>1. /\ job' \in [Ends -> [Slots -> Jobs]] /\ job'[d][i] = j
        /\ \A k \in Slots \ {i} : job'[d][k] = job[d][k]
        /\ \A e \in Ends \ {d} : job'[e] = job[e]
    BY <1>1, <1>2, CallSet
  <2>2. \A k \in Slots : job'[d][k] = job[d][k] \/ Quiet(d, job'[d][k])
    BY <1>2, <2>1
  <2> QED BY <1>2, <2>1, <2>2, QuietInv
<1>3. CASE StartSend(d, i)
  <2>1. PICK j : j = [at |-> "sealing", state |-> session[d]]
    OBVIOUS
  <2>2. j \in Jobs /\ j.at = "sealing" /\ j.state = session[d]
    BY <1>1, <2>1 DEF Jobs
  <2>3. SetJob(d, i, j) /\ UNCHANGED <<session, wire, messageRows, opened, sealed, overwritten>>
    BY <1>3, <2>1 DEF StartSend, LoadSession, sessionHistory
  <2>4. Quiet(d, j)
    BY <2>2 DEF Quiet
  <2> QED BY <1>2, <2>2, <2>3, <2>4
<1>4. CASE StartInbound(d, i)
  <2>1. PICK m \in wire[Peer(d)] :
          SetJob(d, i, [at |-> "opening", state |-> session[d], msg |-> m])
    BY <1>4 DEF StartInbound, LoadSession
  <2>2. PICK j : j = [at |-> "opening", state |-> session[d], msg |-> m]
    OBVIOUS
  <2>3. m \in Messages
    BY <1>1 DEF SessionTypes
  <2>4. j \in Jobs /\ j.at = "opening" /\ j.state = session[d] /\ j.msg = m
    BY <1>1, <2>2, <2>3 DEF Jobs
  <2>5. UNCHANGED <<session, wire, messageRows, opened, sealed, overwritten>>
    BY <1>4 DEF StartInbound, sessionHistory
  <2>6. Quiet(d, j)
    BY <2>4 DEF Quiet
  <2> QED BY <1>2, <2>1, <2>2, <2>4, <2>5, <2>6
<1>5. CASE SendThrows(d, i)
  <2>1. SetJob(d, i, NoCall) /\ UNCHANGED <<session, wire, messageRows, opened, sealed, overwritten>>
    BY <1>5 DEF SendThrows, sessionHistory
  <2>2. NoCall \in Jobs /\ Quiet(d, NoCall)
    BY DEF Jobs, Quiet
  <2> QED BY <1>2, <2>1, <2>2
<1> QED BY <1>3, <1>4, <1>5

LEMMA ReloadInv ==
  ASSUME SessionInv, NEW d \in Ends, Reload(d) PROVE SessionInv'
<1>1. SessionTypes /\ NoCall \in Jobs /\ Quiet(d, NoCall)
  BY DEF SessionInv, Jobs, Quiet
<1>2. /\ job' = [job EXCEPT ![d] = [i \in Slots |-> NoCall]]
      /\ UNCHANGED <<session, wire, messageRows, opened, sealed, overwritten>>
  BY DEF Reload, sessionHistory
<1>3. /\ job' \in [Ends -> [Slots -> Jobs]] /\ \A i \in Slots : job'[d][i] = NoCall
      /\ \A e \in Ends \ {d} : job'[e] = job[e]
  BY <1>1, <1>2 DEF SessionTypes
<1>4. \A i \in Slots : Quiet(d, job'[d][i])
  BY <1>1, <1>3
<1> QED BY <1>2, <1>3, <1>4, QuietInv

\* A state that has sealed with its key.
LEMMA SealsOn ==
  ASSUME NEW s, StateOk(s), s.sendingKey # NoKey
  PROVE  /\ StateOk(Sealed(s)) /\ Sealed(s).rootKey = s.rootKey /\ s.sendingKey \in Keys
         /\ s.sendingKey.chain = s.rootKey /\ s.sendingKey.n \in Nat
         /\ Sealed(s).sendingKey # NoKey /\ Sealed(s).sendingKey.n = s.sendingKey.n + 1
         /\ \A k : Retired(k, s) => Retired(k, Sealed(s))
<1> DEFINE t == Sealed(s)
<1>1. /\ s \in States /\ s.sendingKey \in Keys /\ s.sendingKey.chain = s.rootKey /\ s.ns \in Nat
      /\ s.rootKey \in Roots
  BY StateTyped DEF StateOk
<1>2. PICK key \in Keys : key = ChainStep(s.sendingKey, 1)
  BY <1>1, Stepped
<1>3. key.chain = s.rootKey /\ key.n = s.sendingKey.n + 1 /\ s.sendingKey.n \in Nat /\ key # NoKey
  BY <1>1, <1>2, Stepped
<1>4. t = [s EXCEPT !.sendingKey = key, !.ns = s.ns + 1]
  BY <1>2 DEF Sealed
<1>5. /\ t \in States /\ t.sendingKey = key /\ t.rootKey = s.rootKey
      /\ t.receivingKey = s.receivingKey /\ t.nr = s.nr /\ t.skipped = s.skipped
  <2>1. s.ns + 1 \in Nat
    BY <1>1
  <2> QED BY <1>1, <1>4, <2>1 DEF States
<1> HIDE DEF t
<1>6. \A k : Behind(k, s) <=> Behind(k, t)
  BY <1>5 DEF Behind
<1>7. StateOk(t)
  BY <1>3, <1>5, <1>6 DEF StateOk
<1>8. \A k : Retired(k, s) => Retired(k, t)
  BY <1>5, <1>6 DEF Retired
<1> QED BY <1>1, <1>3, <1>5, <1>7, <1>8 DEF t

LEMMA SealTyped ==
  ASSUME NEW s \in States, s.sendingKey \in Keys, NEW id \in Nat
  PROVE  Seal(s, id) \in Messages /\ Seal(s, id).key = s.sendingKey /\ Seal(s, id).id = id
<1>1. s.sendingDh \in Pubs /\ s.pn \in Nat /\ s.ns \in Nat
  BY StateTyped
<1>2. Seal(s, id) = [dh |-> s.sendingDh, pn |-> s.pn, n |-> s.ns, key |-> s.sendingKey, id |-> id]
  BY DEF Seal, Encrypted, Header
<1> QED BY <1>1, <1>2 DEF Messages

LEMMA SealInv ==
  ASSUME SessionInv, NEW d \in Ends, NEW i \in Slots, EncryptForDevice(d, i)
  PROVE  SessionInv'
<1>1. /\ SessionTypes /\ DeviceOk(d) /\ NamesOk(d) /\ KeptOk(d)
      /\ Peer(d) \in Ends /\ Peer(d) # d /\ JobOk(d, job[d][i], wire[Peer(d)], sealed[d])
      /\ IsFiniteSet(sealed[d]) /\ MaxSends[d] \in Nat
  BY PeerOf, SessionAssumptions DEF SessionInv, SessionTypes, DeviceOk
<1>2. PICK s : s = job[d][i].state
  OBVIOUS
<1>3. PICK id : id = Cardinality(sealed[d]) + 1
  OBVIOUS
<1>4. PICK m : m = Seal(s, id)
  OBVIOUS
<1>5. PICK t : t = Sealed(s)
  OBVIOUS
<1>6. PICK j : j = [at |-> "sealed", msg |-> m]
  OBVIOUS
<1>7. job[d][i].at = "sealing" /\ Sound(d, s)
  BY <1>1, <1>2 DEF EncryptForDevice, JobOk
<1>8. /\ s.sendingKey # NoKey /\ id <= MaxSends[d]
      /\ SaveSession(d, i, t) /\ SetJob(d, i, j)
      /\ sealed' = [sealed EXCEPT ![d] = @ \cup {m}]
      /\ UNCHANGED <<wire, messageRows, opened>>
  BY <1>2, <1>3, <1>4, <1>5, <1>6 DEF EncryptForDevice
<1>9. /\ StateOk(s) /\ s \in States /\ StateOk(t) /\ t \in States /\ t.rootKey = s.rootKey /\ s.sendingKey \in Keys
      /\ s.sendingKey.chain = s.rootKey /\ s.sendingKey.n \in Nat
      /\ t.sendingKey # NoKey /\ t.sendingKey.n = s.sendingKey.n + 1
      /\ \A k : Retired(k, s) => Retired(k, t)
  BY <1>5, <1>7, <1>8, SealsOn DEF Sound, StateOk
<1>10. id \in Nat /\ id \in 1..id /\ \A n \in 1..Cardinality(sealed[d]) : n \in 1..id /\ n # id
  <2>1. Cardinality(sealed[d]) \in Nat
    BY <1>1, FS_CardinalityType
  <2> QED BY <1>3, <2>1
<1>11. m \in Messages /\ m.key = s.sendingKey /\ m.id = id
  BY <1>4, <1>9, <1>10, SealTyped
<1>12. j \in Jobs /\ j.at = "sealed" /\ j.msg = m
  BY <1>6, <1>11 DEF Jobs
<1>13. /\ job' \in [Ends -> [Slots -> Jobs]] /\ job'[d][i] = j
       /\ \A k \in Slots \ {i} : job'[d][k] = job[d][k]
       /\ \A e \in Ends \ {d} : job'[e] = job[e]
  BY <1>1, <1>8, <1>12, CallSet
<1>14. /\ session' \in [Ends -> States] /\ session'[d] = t
       /\ \A e \in Ends \ {d} : session'[e] = session[e] /\ overwritten'[e] = overwritten[e]
       /\ overwritten' \in [Ends -> Nat]
       /\ overwritten'[d] = 0 => overwritten[d] = 0 /\ s = session[d]
  BY <1>1, <1>2, <1>8, <1>9, Saves
<1>15. /\ sealed'[d] = sealed[d] \cup {m} /\ sealed' \in [Ends -> SUBSET Messages]
       /\ \A e \in Ends \ {d} : sealed'[e] = sealed[e]
  BY <1>1, <1>8, <1>11 DEF SessionTypes
<1>16. IsFiniteSet(sealed'[d]) /\ Cardinality(sealed'[d]) = id
  <2>1. m \notin sealed[d]
    BY <1>1, <1>10, <1>11 DEF NamesOk
  <2>2. /\ IsFiniteSet(sealed[d] \cup {m})
        /\ Cardinality(sealed[d] \cup {m}) = Cardinality(sealed[d]) + 1
    <3>1. IsFiniteSet(sealed[d])
      BY <1>1
    <3> QED BY <2>1, <3>1, FS_AddElement
  <2> QED BY <1>3, <1>15, <2>2
<1>17. SessionTypes'
  <2>1. ASSUME NEW e \in Ends
        PROVE  IsFiniteSet(sealed'[e]) /\ Cardinality(sealed'[e]) <= MaxSends[e]
    <3>1. CASE e = d
      BY <1>8, <1>16, <3>1
    <3>2. CASE e # d
      BY <1>1, <1>15, <3>2 DEF SessionTypes
    <3> QED BY <3>1, <3>2
  <2> QED BY <1>1, <1>8, <1>13, <1>14, <1>15, <2>1 DEF SessionTypes
<1>18. ASSUME NEW e \in Ends \ {d} PROVE DeviceOk(e)' /\ NamesOk(e)' /\ KeptOk(e)'
  BY <1>8, <1>13, <1>14, <1>15, <1>18, OtherEnd DEF SessionInv
<1>19. Turn(d, Len(t.rootKey)) /\ Turn(d, Len(m.key.chain))
  BY <1>7, <1>9, <1>11 DEF Sound
<1>20. DeviceOk(d)'
  <2>1. ASSUME NEW k \in Slots PROVE JobOk(d, job'[d][k], wire'[Peer(d)], sealed'[d])
    <3>1. CASE k = i
      BY <1>12, <1>13, <1>15, <3>1 DEF JobOk
    <3>2. CASE k # i
      <4>1. JobOk(d, job[d][k], wire[Peer(d)], sealed[d]) /\ job'[d][k] = job[d][k]
        BY <1>1, <1>13, <3>2 DEF DeviceOk
      <4> QED BY <1>8, <1>15, <4>1, JobKept
    <3> QED BY <3>1, <3>2
  <2>2. Sound(d, t)
    BY <1>9, <1>19 DEF Sound
  <2> QED BY <1>1, <1>8, <1>14, <1>15, <2>1, <2>2 DEF DeviceOk
<1>21. NamesOk(d)'
  <2>1. \A n \in sealed[d] : n.id \in 1..id /\ n.id # id /\ Turn(d, Len(n.key.chain))
    BY <1>1, <1>10 DEF NamesOk
  <2>2. \A n \in sealed'[d] : n.id \in 1..Cardinality(sealed'[d]) /\ Turn(d, Len(n.key.chain))
    BY <1>10, <1>11, <1>15, <1>16, <1>19, <2>1
  <2>3. ASSUME NEW a \in sealed'[d], NEW b \in sealed'[d], a.id = b.id PROVE a = b
    BY <1>1, <1>11, <1>15, <2>1, <2>3 DEF NamesOk
  <2> QED BY <2>2, <2>3 DEF NamesOk
<1>22. ASSUME overwritten'[d] = 0 PROVE RowsOk(d)' /\ SentOk(d)'
  <2>1. RowsOk(d) /\ SentOk(d) /\ s = session[d]
    BY <1>1, <1>14, <1>22 DEF KeptOk
  <2>2. RowsOk(d)'
    <3>1. \A n \in opened[d] : Retired(n.key, t)
      BY <1>9, <2>1 DEF RowsOk
    <3>2. \A k \in Slots : job'[d][k].at = "ok" => job'[d][k] = job[d][k]
      BY <1>12, <1>13
    <3>3. \A k \in Slots : job'[d][k].at = "ok" =>
            job'[d][k].msg \in opened[d] /\ "delivered" \notin messageRows[d][job'[d][k].msg.id]
      BY <2>1, <3>2 DEF RowsOk
    <3>4. \A k, l \in Slots :
            job'[d][k].at = "ok" /\ job'[d][l].at = "ok" /\ job'[d][k].msg = job'[d][l].msg => k = l
      <4> SUFFICES ASSUME NEW k \in Slots, NEW l \in Slots, job'[d][k].at = "ok", job'[d][l].at = "ok",
                          job'[d][k].msg = job'[d][l].msg
                   PROVE  k = l
        OBVIOUS
      <4>1. job'[d][k] = job[d][k] /\ job'[d][l] = job[d][l]
        BY <3>2
      <4> QED BY <2>1, <4>1 DEF RowsOk
    <3> QED BY <1>8, <1>14, <2>1, <3>1, <3>3, <3>4 DEF RowsOk
  <2>3. ASSUME NEW n \in sealed[d] PROVE Past(n.key, t) /\ n.key # m.key
    <3>1. Past(n.key, s)
      BY <2>1, <2>3 DEF SentOk
    <3>2. n.key \in Keys
      BY <1>1, <2>3 DEF SessionTypes, Messages
    <3>3. n.key.n \in Nat /\ Len(n.key.chain) \in Nat /\ Len(s.rootKey) \in Nat
      BY <1>9, <3>2, LenProperties, StateTyped DEF Keys, Roots
    <3>4. Past(n.key, t)
      BY <1>9, <3>1, <3>3 DEF Past
    <3>5. n.key # m.key
      BY <1>9, <1>11, <3>1, <3>3 DEF Past
    <3> QED BY <3>4, <3>5
  <2>4. Past(m.key, t)
    BY <1>9, <1>11 DEF Past
  <2>5. ASSUME NEW a \in sealed'[d], NEW b \in sealed'[d], a.key = b.key PROVE a = b
    BY <1>15, <2>1, <2>3, <2>5 DEF SentOk
  <2>6. \A n \in sealed'[d] : Past(n.key, session'[d])
    BY <1>14, <1>15, <2>3, <2>4
  <2> QED BY <2>2, <2>5, <2>6 DEF SentOk
<1> QED BY <1>17, <1>18, <1>20, <1>21, <1>22 DEF SessionInv, KeptOk

LEMMA EnqueueInv ==
  ASSUME SessionInv, NEW d \in Ends, NEW i \in Slots, EnqueueSealed(d, i)
  PROVE  SessionInv'
<1>1. /\ SessionTypes /\ DeviceOk(d) /\ NamesOk(d) /\ KeptOk(d)
      /\ Peer(d) \in Ends /\ Peer(d) # d /\ job[d][i] \in Jobs
  BY PeerOf DEF SessionInv, SessionTypes
<1>2. PICK m : m = job[d][i].msg
  OBVIOUS
<1>3. /\ job[d][i].at = "sealed" /\ wire' = [wire EXCEPT ![d] = @ \cup {m}]
      /\ SetJob(d, i, NoCall)
      /\ UNCHANGED <<session, messageRows, opened, sealed, overwritten>>
  BY <1>2 DEF EnqueueSealed, sessionHistory
<1>4. m \in Messages /\ m \in sealed[d]
  BY <1>1, <1>2, <1>3, CallTyped DEF DeviceOk, JobOk
<1>5. NoCall \in Jobs /\ NoCall.at = "idle"
  BY DEF Jobs, NoCall
<1>6. /\ job' \in [Ends -> [Slots -> Jobs]] /\ job'[d][i] = NoCall
      /\ \A k \in Slots \ {i} : job'[d][k] = job[d][k]
      /\ \A e \in Ends \ {d} : job'[e] = job[e]
  BY <1>1, <1>3, <1>5, CallSet
<1>7. /\ wire'[d] = wire[d] \cup {m} /\ wire' \in [Ends -> SUBSET Messages]
      /\ \A e \in Ends \ {d} : wire'[e] = wire[e]
  BY <1>1, <1>3, <1>4 DEF SessionTypes
<1>8. SessionTypes'
  BY <1>1, <1>3, <1>6, <1>7 DEF SessionTypes
<1>9. ASSUME NEW e \in Ends \ {d} PROVE DeviceOk(e)' /\ NamesOk(e)' /\ KeptOk(e)'
  <2>1. Peer(e) = d
    BY PeerOf
  <2> QED BY <1>3, <1>6, <1>7, <1>9, <2>1, OtherEnd DEF SessionInv
<1>10. DeviceOk(d)'
  <2>1. wire'[Peer(d)] = wire[Peer(d)]
    BY <1>1, <1>7
  <2>2. ASSUME NEW k \in Slots PROVE JobOk(d, job'[d][k], wire'[Peer(d)], sealed'[d])
    <3>1. CASE k = i
      BY <1>5, <1>6, <3>1 DEF JobOk
    <3>2. CASE k # i
      <4>1. JobOk(d, job[d][k], wire[Peer(d)], sealed[d]) /\ job'[d][k] = job[d][k]
        BY <1>1, <1>6, <3>2 DEF DeviceOk
      <4> QED BY <1>3, <2>1, <4>1, JobKept
    <3> QED BY <3>1, <3>2
  <2> QED BY <1>1, <1>3, <1>4, <1>7, <2>1, <2>2 DEF DeviceOk
<1>11. NamesOk(d)'
  BY <1>1, <1>3 DEF NamesOk
<1>12. KeptOk(d)'
  <2>1. ASSUME RowsOk(d) PROVE RowsOk(d)'
    <3>1. \A k \in Slots : job'[d][k].at = "ok" => job'[d][k] = job[d][k]
      BY <1>5, <1>6
    <3>2. \A k \in Slots : job'[d][k].at = "ok" =>
            job'[d][k].msg \in opened[d] /\ "delivered" \notin messageRows[d][job'[d][k].msg.id]
      BY <2>1, <3>1 DEF RowsOk
    <3>3. \A k, l \in Slots :
            job'[d][k].at = "ok" /\ job'[d][l].at = "ok" /\ job'[d][k].msg = job'[d][l].msg => k = l
      <4> SUFFICES ASSUME NEW k \in Slots, NEW l \in Slots, job'[d][k].at = "ok", job'[d][l].at = "ok",
                          job'[d][k].msg = job'[d][l].msg
                   PROVE  k = l
        OBVIOUS
      <4>1. job'[d][k] = job[d][k] /\ job'[d][l] = job[d][l]
        BY <3>1
      <4> QED BY <2>1, <4>1 DEF RowsOk
    <3> QED BY <1>3, <2>1, <3>2, <3>3 DEF RowsOk
  <2> QED BY <1>1, <1>3, <2>1 DEF KeptOk, SentOk
<1> QED BY <1>8, <1>9, <1>10, <1>11, <1>12 DEF SessionInv

\* What was sealed stays past, and the roots keep their turn.
LEMMA MovesKeep ==
  ASSUME NEW d \in Ends, NEW s, NEW t, StateOk(s), Moves(s, t), Turn(d, Len(s.rootKey))
  PROVE  /\ Turn(d, Len(t.rootKey))
         /\ \A k \in Keys : Past(k, s) => Past(k, t)
<1>1. s.rootKey \in Roots /\ t.rootKey \in Roots
  BY StateTyped DEF Moves, StateOk
<1>2. Len(s.rootKey) \in Nat /\ \A k \in Keys : Len(k.chain) \in Nat
  BY <1>1, LenProperties DEF Roots, Keys
<1>3. CASE t.rootKey = s.rootKey /\ t.sendingKey = s.sendingKey
  BY <1>3 DEF Past
<1>4. CASE Len(t.rootKey) = Len(s.rootKey) + 2
  <2>1. Turn(d, Len(t.rootKey))
    <3>1. CASE d = Alice
      <4>1. PICK k \in Nat : Len(s.rootKey) = 2 * k
        BY <3>1 DEF Turn
      <4>2. Len(t.rootKey) = 2 * (k + 1) /\ k + 1 \in Nat
        BY <1>4, <4>1
      <4> QED BY <3>1, <4>2 DEF Turn
    <3>2. CASE d # Alice
      <4>1. PICK k \in Nat : Len(s.rootKey) = 2 * k + 1
        BY <3>2 DEF Turn
      <4>2. Len(t.rootKey) = 2 * (k + 1) + 1 /\ k + 1 \in Nat
        BY <1>4, <4>1
      <4> QED BY <3>2, <4>2 DEF Turn
    <3> QED BY <3>1, <3>2
  <2>2. ASSUME NEW k \in Keys, Past(k, s) PROVE Past(k, t)
    <3>1. Len(k.chain) <= Len(s.rootKey)
      BY <1>2, <2>2 DEF Past
    <3>2. Len(k.chain) < Len(t.rootKey)
      BY <1>2, <1>4, <3>1
    <3> QED BY <3>2 DEF Past
  <2> QED BY <2>1, <2>2
<1> QED BY <1>3, <1>4 DEF Moves

LEMMA OpenInv ==
  ASSUME SessionInv, NEW d \in Ends, NEW i \in Slots, SaveInbound(d, i)
  PROVE  SessionInv'
<1>1. /\ SessionTypes /\ DeviceOk(d) /\ NamesOk(d) /\ KeptOk(d)
      /\ DeviceOk(Peer(d)) /\ NamesOk(Peer(d))
      /\ Peer(d) \in Ends /\ Peer(d) # d /\ Peer(Peer(d)) = d
      /\ JobOk(d, job[d][i], wire[Peer(d)], sealed[d])
  BY PeerOf DEF SessionInv, DeviceOk
<1>2. PICK s : s = job[d][i].state
  OBVIOUS
<1>3. PICK m : m = job[d][i].msg
  OBVIOUS
<1>4. /\ job[d][i].at = "opening"
      /\ m \in wire[Peer(d)] /\ m \in Messages /\ StateOk(s) /\ s \in States
      /\ Turn(d, Len(s.rootKey))
  BY <1>1, <1>2, <1>3 DEF SaveInbound, JobOk, Sound, StateOk, SessionTypes
<1>5. PICK fresh : fresh = FreshKey(d, i)
  OBVIOUS
<1>6. fresh \in Pubs
  <2>1. Len(s.rootKey) \in Nat
    BY <1>4, LenProperties, StateTyped DEF Roots
  <2>2. Overwrites(d, i) \in Nat
    BY <1>1 DEF SessionTypes, Overwrites
  <2> QED BY <1>2, <1>5, <2>1, <2>2 DEF Pubs, FreshKey
<1>7. PICK r : r = DecryptFromDevice(s, m, fresh)
  OBVIOUS
<1>8. Safely(s, m, r)
  BY <1>4, <1>6, <1>7, DecryptsSafely
<1>9. PICK t : t = r.state
  OBVIOUS
<1>10. PICK j : j = IF r.kind \in {"ok", "invalid"} THEN [at |-> r.kind, msg |-> m] ELSE NoCall
  OBVIOUS
<1>11. /\ SaveSession(d, i, t) /\ SetJob(d, i, j)
       /\ r.kind = "ok" => opened' = [opened EXCEPT ![d] = @ \cup {m}]
       /\ r.kind # "ok" => opened' = opened
       /\ UNCHANGED <<wire, messageRows, sealed>>
  BY <1>2, <1>3, <1>5, <1>7, <1>9, <1>10 DEF SaveInbound
<1>12. /\ Moves(s, t) /\ StateOk(t) /\ t \in States
       /\ r.kind \in {"ok", "invalid", "duplicate", "lost"}
       /\ r.kind = "ok" => ~Retired(m.key, s) /\ Retired(m.key, t)
  BY <1>8, <1>9 DEF Safely, Moves, StateOk, Answers
<1>13. /\ Turn(d, Len(t.rootKey)) /\ \A k \in Keys : Past(k, s) => Past(k, t)
  BY <1>4, <1>12, MovesKeep
<1>14. /\ r.kind \in {"ok", "invalid"} => j = [at |-> r.kind, msg |-> m]
       /\ r.kind \notin {"ok", "invalid"} => j = NoCall
  BY <1>10
<1>15. /\ j \in Jobs /\ j.at \in {"idle", "ok", "invalid"}
       /\ j.at \in {"ok", "invalid"} => j.msg = m
       /\ j.at = "ok" => r.kind = "ok"
  <2>1. CASE r.kind \in {"ok", "invalid"}
    BY <1>4, <1>14, <2>1 DEF Jobs
  <2>2. CASE r.kind \notin {"ok", "invalid"}
    BY <1>14, <2>2 DEF Jobs, NoCall
  <2> QED BY <2>1, <2>2
<1>16. /\ job' \in [Ends -> [Slots -> Jobs]] /\ job'[d][i] = j
       /\ \A k \in Slots \ {i} : job'[d][k] = job[d][k]
       /\ \A e \in Ends \ {d} : job'[e] = job[e]
  BY <1>1, <1>11, <1>15, CallSet
<1>17. /\ session' \in [Ends -> States] /\ session'[d] = t
       /\ \A e \in Ends \ {d} : session'[e] = session[e] /\ overwritten'[e] = overwritten[e]
       /\ overwritten' \in [Ends -> Nat]
       /\ overwritten'[d] = 0 => overwritten[d] = 0 /\ s = session[d]
  BY <1>1, <1>2, <1>11, <1>12, Saves
<1>18. /\ opened' \in [Ends -> SUBSET Messages]
       /\ \A e \in Ends \ {d} : opened'[e] = opened[e]
       /\ r.kind = "ok" => opened'[d] = opened[d] \cup {m}
       /\ r.kind # "ok" => opened'[d] = opened[d]
  <2>1. opened \in [Ends -> SUBSET Messages]
    BY <1>1 DEF SessionTypes
  <2>2. CASE r.kind = "ok"
    BY <1>4, <1>11, <2>1, <2>2
  <2>3. CASE r.kind # "ok"
    BY <1>11, <2>1, <2>3
  <2> QED BY <2>2, <2>3
<1>19. SessionTypes'
  BY <1>1, <1>11, <1>16, <1>17, <1>18 DEF SessionTypes
<1>20. ASSUME NEW e \in Ends \ {d} PROVE DeviceOk(e)' /\ NamesOk(e)' /\ KeptOk(e)'
  BY <1>11, <1>16, <1>17, <1>18, <1>20, OtherEnd DEF SessionInv
<1>21. DeviceOk(d)'
  <2>1. ASSUME NEW k \in Slots PROVE JobOk(d, job'[d][k], wire'[Peer(d)], sealed'[d])
    <3>1. CASE k = i
      BY <1>4, <1>11, <1>15, <1>16, <3>1 DEF JobOk
    <3>2. CASE k # i
      <4>1. JobOk(d, job[d][k], wire[Peer(d)], sealed[d]) /\ job'[d][k] = job[d][k]
        BY <1>1, <1>16, <3>2 DEF DeviceOk
      <4> QED BY <1>11, <4>1
    <3> QED BY <3>1, <3>2
  <2>2. Sound(d, t)
    BY <1>12, <1>13 DEF Sound
  <2>3. opened'[d] \subseteq wire[Peer(d)]
    BY <1>1, <1>4, <1>12, <1>18 DEF DeviceOk
  <2> QED BY <1>1, <1>11, <1>17, <2>1, <2>2, <2>3 DEF DeviceOk
<1>22. NamesOk(d)'
  BY <1>1, <1>11 DEF NamesOk
<1>23. ASSUME overwritten'[d] = 0 PROVE RowsOk(d)'
  <2>1. RowsOk(d) /\ s = session[d]
    BY <1>1, <1>17, <1>23 DEF KeptOk
  <2>2. \A n \in opened'[d] : Retired(n.key, t)
    <3>1. \A n \in opened[d] : n.key \in Keys /\ Retired(n.key, s)
      BY <1>1, <2>1 DEF RowsOk, SessionTypes, Messages
    <3>2. \A n \in opened[d] : Retired(n.key, t)
      BY <1>12, <3>1 DEF Moves
    <3> QED BY <1>12, <1>18, <3>2
  <2>3. opened[d] \subseteq opened'[d]
    BY <1>18
  <2>4. ASSUME j.at = "ok"
        PROVE  m \in opened'[d] /\ m \notin opened[d] /\ "delivered" \notin messageRows[d][m.id]
    <3>1. r.kind = "ok"
      BY <1>15, <2>4
    <3>2. m \notin opened[d]
      BY <1>12, <2>1, <3>1 DEF RowsOk
    <3>3. m.id \in MessageIds
      <4>1. m.id \in 1..Cardinality(sealed[Peer(d)])
        BY <1>1, <1>4 DEF NamesOk, DeviceOk
      <4>2. /\ Cardinality(sealed[Peer(d)]) <= MaxSends[Peer(d)]
            /\ Cardinality(sealed[Peer(d)]) \in Nat
        BY <1>1, FS_CardinalityType DEF SessionTypes
      <4>3. MaxSends[Alice] \in Nat /\ MaxSends[Bob] \in Nat /\ Peer(d) \in {Alice, Bob}
        BY <1>1, SessionAssumptions DEF Ends
      <4> QED BY <4>1, <4>2, <4>3 DEF MessageIds
    <3>4. ASSUME NEW n \in opened[d], n.id = m.id PROVE n = m
      <4>1. n \in sealed[Peer(d)] /\ m \in sealed[Peer(d)]
        BY <1>1, <1>4, <3>4 DEF DeviceOk
      <4> QED BY <1>1, <3>4, <4>1 DEF NamesOk
    <3>5. "delivered" \notin messageRows[d][m.id]
      BY <2>1, <3>2, <3>3, <3>4 DEF RowsOk
    <3> QED BY <1>18, <3>1, <3>2, <3>5
  <2>5. ASSUME NEW k \in Slots \ {i}, job'[d][k].at = "ok"
        PROVE  /\ job'[d][k] = job[d][k] /\ job'[d][k].msg \in opened[d]
               /\ "delivered" \notin messageRows[d][job'[d][k].msg.id]
    BY <1>16, <2>1, <2>5 DEF RowsOk
  <2>6. ASSUME NEW k \in Slots, job'[d][k].at = "ok"
        PROVE  job'[d][k].msg \in opened'[d] /\ "delivered" \notin messageRows'[d][job'[d][k].msg.id]
    <3>1. CASE k = i
      BY <1>11, <1>15, <1>16, <2>4, <2>6, <3>1
    <3>2. CASE k # i
      BY <1>11, <2>3, <2>5, <2>6, <3>2
    <3> QED BY <3>1, <3>2
  <2>7. ASSUME NEW k \in Slots, NEW l \in Slots, job'[d][k].at = "ok", job'[d][l].at = "ok",
               job'[d][k].msg = job'[d][l].msg
        PROVE  k = l
    <3>1. CASE k = i
      <4>1. job'[d][k].msg = m /\ m \notin opened[d]
        BY <1>15, <1>16, <2>4, <2>7, <3>1
      <4>2. ~(l \in Slots \ {i})
        BY <2>5, <2>7, <4>1
      <4> QED BY <3>1, <4>2
    <3>2. CASE l = i
      <4>1. job'[d][l].msg = m /\ m \notin opened[d]
        BY <1>15, <1>16, <2>4, <2>7, <3>2
      <4>2. ~(k \in Slots \ {i})
        BY <2>5, <2>7, <4>1
      <4> QED BY <3>2, <4>2
    <3>3. CASE k # i /\ l # i
      <4>1. job'[d][k] = job[d][k] /\ job'[d][l] = job[d][l]
        BY <2>5, <2>7, <3>3
      <4> QED BY <2>1, <2>7, <4>1 DEF RowsOk
    <3> QED BY <3>1, <3>2, <3>3
  <2>8. ASSUME NEW id \in MessageIds
        PROVE  /\ "repeated" \notin messageRows'[d][id]
               /\ "delivered" \in messageRows'[d][id] => \E n \in opened'[d] : n.id = id
    BY <1>11, <2>1, <2>3 DEF RowsOk
  <2> QED BY <1>17, <2>2, <2>6, <2>7, <2>8 DEF RowsOk
<1>24. ASSUME overwritten'[d] = 0 PROVE SentOk(d)'
  <2>1. SentOk(d) /\ s = session[d]
    BY <1>1, <1>17, <1>24 DEF KeptOk
  <2>2. sealed'[d] = sealed[d] /\ \A n \in sealed[d] : n.key \in Keys
    BY <1>1, <1>11 DEF SessionTypes, Messages
  <2>3. \A n \in sealed[d] : Past(n.key, t)
    BY <1>13, <2>1, <2>2 DEF SentOk
  <2> QED BY <1>17, <2>1, <2>2, <2>3 DEF SentOk
<1> QED BY <1>19, <1>20, <1>21, <1>22, <1>23, <1>24 DEF SessionInv, KeptOk

LEMMA RowInv ==
  ASSUME SessionInv, NEW d \in Ends, NEW i \in Slots, InsertRow(d, i)
  PROVE  SessionInv'
<1>1. /\ SessionTypes /\ DeviceOk(d) /\ NamesOk(d) /\ KeptOk(d)
      /\ DeviceOk(Peer(d)) /\ NamesOk(Peer(d))
      /\ Peer(d) \in Ends /\ Peer(d) # d /\ job[d][i] \in Jobs
  BY PeerOf DEF SessionInv, SessionTypes
<1>2. PICK m : m = job[d][i].msg
  OBVIOUS
<1>3. PICK row : row = CASE job[d][i].at = "invalid" -> "tampered"
                         [] job[d][i].at = "ok" /\ "delivered" \in messageRows[d][m.id] -> "repeated"
                         [] OTHER -> "delivered"
  OBVIOUS
<1>4. /\ job[d][i].at \in {"ok", "invalid"}
      /\ messageRows' = [messageRows EXCEPT ![d][m.id] = @ \cup {row}]
      /\ SetJob(d, i, NoCall) /\ UNCHANGED <<session, wire, opened, sealed, overwritten>>
  BY <1>2, <1>3 DEF InsertRow, sessionHistory
<1>5. NoCall \in Jobs /\ NoCall.at = "idle"
  BY DEF Jobs, NoCall
<1>6. /\ job' \in [Ends -> [Slots -> Jobs]] /\ job'[d][i] = NoCall
      /\ \A k \in Slots \ {i} : job'[d][k] = job[d][k]
      /\ \A e \in Ends \ {d} : job'[e] = job[e]
  BY <1>1, <1>4, <1>5, CallSet
<1>7. row \in {"tampered", "delivered", "repeated"} /\ (row = "delivered" => job[d][i].at = "ok")
  BY <1>3, <1>4
<1>8. messageRows \in [Ends -> [MessageIds -> SUBSET {"delivered", "tampered", "repeated"}]]
  BY <1>1 DEF SessionTypes
<1>9. messageRows' \in [Ends -> [MessageIds -> SUBSET {"delivered", "tampered", "repeated"}]]
  BY <1>4, <1>7, <1>8
<1>10. /\ \A e \in Ends \ {d} : messageRows'[e] = messageRows[e]
       /\ \A id \in MessageIds :
            messageRows'[d][id] = IF id = m.id THEN messageRows[d][id] \cup {row} ELSE messageRows[d][id]
  BY <1>4, <1>8
<1>11. SessionTypes'
  BY <1>1, <1>4, <1>6, <1>9 DEF SessionTypes
<1>12. ASSUME NEW e \in Ends \ {d} PROVE DeviceOk(e)' /\ NamesOk(e)' /\ KeptOk(e)'
  BY <1>4, <1>6, <1>10, <1>12, OtherEnd DEF SessionInv
<1>13. DeviceOk(d)'
  <2>1. ASSUME NEW k \in Slots PROVE JobOk(d, job'[d][k], wire[Peer(d)], sealed[d])
    <3>1. CASE k = i
      BY <1>5, <1>6, <3>1 DEF JobOk
    <3>2. CASE k # i
      BY <1>1, <1>6, <3>2 DEF DeviceOk
    <3> QED BY <3>1, <3>2
  <2> QED BY <1>1, <1>4, <2>1 DEF DeviceOk
<1>14. NamesOk(d)'
  BY <1>1, <1>4 DEF NamesOk
<1>15. ASSUME RowsOk(d) PROVE RowsOk(d)'
  <2>1. row \in {"tampered", "delivered"} /\ (row = "delivered" => m \in opened[d])
    <3>1. CASE job[d][i].at = "invalid"
      BY <1>3, <3>1
    <3>2. CASE job[d][i].at = "ok"
      BY <1>2, <1>3, <1>15, <3>2 DEF RowsOk
    <3> QED BY <1>4, <3>1, <3>2
  <2>2. ASSUME NEW id \in MessageIds
        PROVE  /\ "repeated" \notin messageRows'[d][id]
               /\ "delivered" \in messageRows'[d][id] => \E n \in opened[d] : n.id = id
    <3>1. /\ "repeated" \notin messageRows[d][id]
          /\ "delivered" \in messageRows[d][id] => \E n \in opened[d] : n.id = id
      BY <1>15 DEF RowsOk
    <3>2. CASE id = m.id
      <4>1. messageRows'[d][id] = messageRows[d][id] \cup {row}
        BY <1>10, <3>2
      <4>2. CASE row = "tampered"
        BY <3>1, <4>1, <4>2
      <4>3. CASE row = "delivered"
        BY <2>1, <3>1, <3>2, <4>1, <4>3
      <4> QED BY <2>1, <4>2, <4>3
    <3>3. CASE id # m.id
      BY <1>10, <3>1, <3>3
    <3> QED BY <3>2, <3>3
  <2>3. \A k \in Slots : job'[d][k].at = "ok" => job'[d][k] = job[d][k] /\ k # i
    BY <1>5, <1>6
  <2>4. ASSUME NEW k \in Slots, job'[d][k].at = "ok"
        PROVE  job'[d][k].msg \in opened[d] /\ "delivered" \notin messageRows'[d][job'[d][k].msg.id]
    <3>1. PICK n : n = job[d][k].msg
      OBVIOUS
    <3>2. job'[d][k] = job[d][k] /\ k # i /\ n \in opened[d] /\ "delivered" \notin messageRows[d][n.id]
      BY <1>15, <2>3, <2>4, <3>1 DEF RowsOk
    <3>3. n.id \in MessageIds
      <4>1. n.id \in 1..Cardinality(sealed[Peer(d)])
        BY <1>1, <3>2 DEF NamesOk, DeviceOk
      <4>2. /\ Cardinality(sealed[Peer(d)]) <= MaxSends[Peer(d)]
            /\ Cardinality(sealed[Peer(d)]) \in Nat
        BY <1>1, FS_CardinalityType DEF SessionTypes
      <4>3. MaxSends[Alice] \in Nat /\ MaxSends[Bob] \in Nat /\ Peer(d) \in {Alice, Bob}
        BY <1>1, SessionAssumptions DEF Ends
      <4> QED BY <4>1, <4>2, <4>3 DEF MessageIds
    <3>4. CASE n.id = m.id
      <4>1. row # "delivered"
        <5>1. ASSUME row = "delivered" PROVE FALSE
          <6>1. m \in opened[d] /\ job[d][i].at = "ok" /\ job[d][k].at = "ok"
            BY <1>7, <2>1, <2>4, <3>2, <5>1
          <6>2. m = n
            <7>1. m \in sealed[Peer(d)] /\ n \in sealed[Peer(d)]
              BY <1>1, <3>2, <6>1 DEF DeviceOk
            <7> QED BY <1>1, <3>4, <7>1 DEF NamesOk
          <6> QED BY <1>2, <1>15, <3>1, <3>2, <6>1, <6>2 DEF RowsOk
        <5> QED BY <5>1
      <4> QED BY <1>10, <3>1, <3>2, <3>3, <3>4, <4>1
    <3>5. CASE n.id # m.id
      BY <1>10, <3>1, <3>2, <3>3, <3>5
    <3> QED BY <3>4, <3>5
  <2>5. \A k, l \in Slots :
          job'[d][k].at = "ok" /\ job'[d][l].at = "ok" /\ job'[d][k].msg = job'[d][l].msg => k = l
    <3> SUFFICES ASSUME NEW k \in Slots, NEW l \in Slots, job'[d][k].at = "ok", job'[d][l].at = "ok",
                        job'[d][k].msg = job'[d][l].msg
                 PROVE  k = l
      OBVIOUS
    <3>1. job'[d][k] = job[d][k] /\ job'[d][l] = job[d][l]
      BY <2>3
    <3> QED BY <1>15, <3>1 DEF RowsOk
  <2> QED BY <1>4, <1>15, <2>2, <2>4, <2>5 DEF RowsOk
<1>16. KeptOk(d)'
  BY <1>1, <1>4, <1>15 DEF KeptOk, SentOk
<1> QED BY <1>11, <1>12, <1>13, <1>14, <1>16 DEF SessionInv

LEMMA SessionStep == ASSUME SessionInv, [SessionNext]_sessionVars PROVE SessionInv'
<1>1. ASSUME NEW d \in Ends, Reload(d) \/ \E i \in Slots :
               \/ StartSend(d, i) \/ SendThrows(d, i) \/ EncryptForDevice(d, i)
               \/ EnqueueSealed(d, i) \/ StartInbound(d, i) \/ SaveInbound(d, i)
               \/ InsertRow(d, i)
      PROVE  SessionInv'
  BY <1>1, StartInv, ReloadInv, SealInv, EnqueueInv, OpenInv, RowInv
<1>2. CASE UNCHANGED sessionVars
  BY <1>2 DEF sessionVars, SessionInv, SessionTypes, DeviceOk, NamesOk, KeptOk, RowsOk, SentOk
<1> QED BY <1>1, <1>2 DEF SessionNext

\* The two ends begin with the root of the key agreement; Alice has mixed a
\* second secret in and has a sending chain, Bob has not.
LEMMA FirstRoot ==
  ASSUME NEW a \in Secrets
  PROVE  <<a>> \in Roots /\ Len(<<a>>) = 1
  BY DEF Roots

LEMMA FirstSecrets ==
  ASSUME NEW S, NEW x \in S, NEW y \in S, NEW z \in S, NEW more, more = <<>> \/ \E w \in S : more = <<w>>
  PROVE  <<x, y, z>> \o more \in Seq(S)
<1>1. <<x, y, z>> \in Seq(S)
  OBVIOUS
<1>2. more \in Seq(S)
  <2>1. CASE more = <<>>
    BY <2>1
  <2>2. ASSUME NEW w \in S, more = <<w>> PROVE more \in Seq(S)
    BY <2>2
  <2> QED BY <2>1, <2>2
<1> QED BY <1>1, <1>2, ConcatProperties

LEMMA SenderStarts ==
  ASSUME NEW root \in Roots, Len(root) = 1, NEW spk \in Pubs, NEW fresh \in Pubs
  PROVE  /\ StateOk(InitSenderRatchet(root, spk, fresh))
         /\ Len(InitSenderRatchet(root, spk, fresh).rootKey) = 2
<1> DEFINE mixed == Append(root, Dh(fresh, spk))
           s == InitSenderRatchet(root, spk, fresh)
<1>1. mixed \in Roots /\ Len(mixed) = 2
  <2>1. mixed \in Roots /\ Len(mixed) = Len(root) + 1
    BY RootGrows
  <2> QED BY <2>1
<1> HIDE DEF mixed
<1>2. s = [rootKey |-> mixed, sendingDh |-> fresh, receivingDh |-> spk,
           sendingKey |-> FirstKey(mixed), receivingKey |-> NoKey,
           ns |-> 0, nr |-> 0, pn |-> 0, skipped |-> <<>>]
  BY DEF InitSenderRatchet, mixed
<1>3. FirstKey(mixed) \in Keys /\ FirstKey(mixed).chain = mixed
  BY <1>1 DEF FirstKey, Keys
<1>4. <<>> \in Seq(Entries) /\ KeysDiffer(<<>>) /\ KeysIn(<<>>) = {}
  BY DEF KeysDiffer, KeysIn
<1> HIDE DEF s
<1>5. /\ s \in States /\ s.rootKey = mixed /\ s.sendingKey.chain = mixed
      /\ s.receivingKey = NoKey /\ s.skipped = <<>>
  BY <1>1, <1>2, <1>3, <1>4 DEF States
<1> QED BY <1>1, <1>4, <1>5 DEF StateOk, s

LEMMA ReceiverStarts ==
  ASSUME NEW root \in Roots, Len(root) = 1, NEW spk \in Pubs
  PROVE  /\ StateOk(InitReceiverRatchet(root, spk))
         /\ Len(InitReceiverRatchet(root, spk).rootKey) = 1
<1> DEFINE s == InitReceiverRatchet(root, spk)
<1>1. <<>> \in Seq(Entries) /\ KeysDiffer(<<>>) /\ KeysIn(<<>>) = {}
  BY DEF KeysDiffer, KeysIn
<1>2. /\ s \in States /\ s.rootKey = root /\ s.sendingKey = NoKey
      /\ s.receivingKey = NoKey /\ s.skipped = <<>>
  BY <1>1 DEF States, InitReceiverRatchet
<1> QED BY <1>1, <1>2 DEF StateOk

LEMMA SessionInitInv == ASSUME SessionInit PROVE SessionInv
<1>1. PICK opk \in {NoKey, <<"opk">>} : session = InitialRatchets(opk)
  BY DEF SessionInit
<1> DEFINE bundle == [ik |-> <<"ikB">>, spk |-> <<"spk">>, opk |-> opk]
           init == [ik |-> <<"ikA">>, ek |-> <<"ek">>, opk |-> opk]
           ra == EstablishSession(init.ik, init.ek, bundle)
           rb == AcceptSession(bundle.ik, bundle.spk, opk, init)
<1>2. /\ <<"ikA">> \in Pubs /\ <<"ikB">> \in Pubs /\ <<"spk">> \in Pubs
      /\ <<"ek">> \in Pubs /\ <<"opk">> \in Pubs /\ <<Alice>> \in Pubs
  BY DEF Pubs, Alice
<1>3. ra \in Roots /\ Len(ra) = 1
  <2>1. PICK a : a = <<Dh(<<"ikA">>, <<"spk">>), Dh(<<"ek">>, <<"ikB">>), Dh(<<"ek">>, <<"spk">>)>>
                  \o (IF opk = NoKey THEN <<>> ELSE <<Dh(<<"ek">>, opk)>>)
    OBVIOUS
  <2>2. a \in Seq(SUBSET Pubs)
    BY <1>1, <1>2, <2>1, FirstSecrets DEF Dh, NoKey
  <2>3. ra = <<a>>
    BY <2>1 DEF EstablishSession
  <2> QED BY <2>2, <2>3, FirstRoot DEF Secrets
<1>4. rb \in Roots /\ Len(rb) = 1
  <2>1. PICK a : a = <<Dh(<<"spk">>, <<"ikA">>), Dh(<<"ikB">>, <<"ek">>), Dh(<<"spk">>, <<"ek">>)>>
                  \o (IF opk = NoKey THEN <<>> ELSE <<Dh(opk, <<"ek">>)>>)
    OBVIOUS
  <2>2. a \in Seq(SUBSET Pubs)
    BY <1>1, <1>2, <2>1, FirstSecrets DEF Dh, NoKey
  <2>3. rb = <<a>>
    BY <2>1 DEF AcceptSession
  <2> QED BY <2>2, <2>3, FirstRoot DEF Secrets
<1>5. session = [d \in Ends |-> IF d = Alice THEN InitSenderRatchet(ra, <<"spk">>, <<Alice>>)
                                ELSE InitReceiverRatchet(rb, <<"spk">>)]
  BY <1>1 DEF InitialRatchets
<1> HIDE DEF ra, rb
<1>6. /\ StateOk(session[Alice]) /\ Len(session[Alice].rootKey) = 2
      /\ StateOk(session[Bob]) /\ Len(session[Bob].rootKey) = 1
  <2>1. Alice \in Ends /\ Bob \in Ends /\ Alice # Bob
    BY DEF Ends, Alice, Bob
  <2>2. /\ session[Alice] = InitSenderRatchet(ra, <<"spk">>, <<Alice>>)
        /\ session[Bob] = InitReceiverRatchet(rb, <<"spk">>)
    BY <1>5, <2>1
  <2> QED BY <1>2, <1>3, <1>4, <2>2, SenderStarts, ReceiverStarts
<1>7. ASSUME NEW d \in Ends PROVE StateOk(session[d]) /\ Turn(d, Len(session[d].rootKey))
  <2>1. Alice # Bob /\ d \in {Alice, Bob}
    BY DEF Ends, Alice, Bob
  <2>2. (\E k \in Nat : 2 = 2 * k) /\ (\E k \in Nat : 1 = 2 * k + 1)
    <3>1. 2 = 2 * 1 /\ 1 = 2 * 0 + 1 /\ 1 \in Nat /\ 0 \in Nat
      OBVIOUS
    <3> QED BY <3>1
  <2> QED BY <1>6, <2>1, <2>2 DEF Turn
<1>8. /\ job = [d \in Ends |-> [i \in Slots |-> NoCall]]
      /\ wire = [d \in Ends |-> {}] /\ opened = [d \in Ends |-> {}]
      /\ messageRows = [d \in Ends |-> [id \in MessageIds |-> {}]]
      /\ sealed = [d \in Ends |-> {}] /\ overwritten = [d \in Ends |-> 0]
  BY DEF SessionInit
<1>9. SessionTypes
  <2>1. session \in [Ends -> States]
    BY <1>5, <1>7 DEF StateOk
  <2>2. \A d \in Ends : IsFiniteSet(sealed[d]) /\ Cardinality(sealed[d]) <= MaxSends[d]
    BY <1>8, FS_EmptySet, SessionAssumptions
  <2> QED BY <1>8, <2>1, <2>2 DEF SessionTypes, Jobs
<1>10. ASSUME NEW d \in Ends
       PROVE  /\ \A i \in Slots : job[d][i].at = "idle"
              /\ sealed[d] = {} /\ opened[d] = {} /\ wire[d] = {}
  BY <1>8 DEF NoCall
<1>11. ASSUME NEW d \in Ends PROVE DeviceOk(d) /\ NamesOk(d) /\ KeptOk(d)
  <2>1. DeviceOk(d)
    BY <1>7, <1>10 DEF DeviceOk, Sound, JobOk
  <2>2. NamesOk(d)
    BY <1>10 DEF NamesOk
  <2>3. RowsOk(d)
    BY <1>8, <1>10 DEF RowsOk
  <2>4. SentOk(d)
    BY <1>10 DEF SentOk
  <2> QED BY <2>1, <2>2, <2>3, <2>4 DEF KeptOk
<1> QED BY <1>9, <1>11 DEF SessionInv

\* The inductive invariant always holds.
LEMMA SessionAlways == SessionSpec => []SessionInv
<1>1. SessionInit => SessionInv
  BY SessionInitInv
<1>2. SessionInv /\ [SessionNext]_sessionVars => SessionInv'
  BY SessionStep
<1> QED BY <1>1, <1>2, PTL DEF SessionSpec

\* No message key of a device seals two envelopes while none of its calls has
\* overwritten what another saved: within a device the keys past never come back,
\* and the two devices seal under chains of roots of different parity.
THEOREM KeysSealOnce == SessionSpec => []KeyUsedOnce
<1>1. ASSUME SessionInv PROVE KeyUsedOnce
  <2> SUFFICES ASSUME NEW d \in Intact, NEW m1 \in wire[d], NEW m2 \in Sent, m1.key = m2.key
               PROVE  m1 = m2
    BY DEF KeyUsedOnce
  <2> d \in Ends /\ overwritten[d] = 0
    BY DEF Intact
  <2>1. PICK e \in Ends : m2 \in wire[e]
    BY DEF Sent
  <2>2. SentOk(d) /\ NamesOk(d) /\ NamesOk(e) /\ m1 \in sealed[d] /\ m2 \in sealed[e]
    BY <1>1, <2>1 DEF SessionInv, DeviceOk, KeptOk
  <2>3. CASE d = e
    BY <2>2, <2>3 DEF SentOk
  <2>4. CASE d # e
    <3>1. Turn(d, Len(m1.key.chain)) /\ Turn(e, Len(m1.key.chain))
      BY <2>2 DEF NamesOk
    <3>2. (\E k \in Nat : Len(m1.key.chain) = 2 * k) /\ (\E k \in Nat : Len(m1.key.chain) = 2 * k + 1)
      BY <2>4, <3>1 DEF Turn, Ends
    <3> QED BY <3>2
  <2> QED BY <2>3, <2>4
<1> QED BY <1>1, SessionAlways, PTL

\* An envelope is shown once, in whatever order and however often it arrives and
\* however the calls overlap, while none overwrites what another saved: its key
\* is retired with the save that precedes its row.
THEOREM MessagesShowOnce == SessionSpec => []ShownOnce
<1>1. ASSUME SessionInv PROVE ShownOnce
  <2>1. ASSUME NEW d \in Intact PROVE RowsOk(d)
    BY <1>1 DEF Intact, SessionInv, KeptOk
  <2> QED BY <2>1 DEF RowsOk, ShownOnce
<1> QED BY <1>1, SessionAlways, PTL

-----------------------------------------------------------------------------
(* Roots that begin alike.                                                 *)

Prefix(c, r) == Len(c) <= Len(r) /\ \A i \in 1..Len(c) : c[i] = r[i]

LEMMA PrefixSame ==
  ASSUME NEW c \in Roots, NEW e \in Roots, NEW r \in Roots,
         Prefix(c, r), Prefix(e, r), Len(c) = Len(e)
  PROVE  c = e
<1>1. c \in Seq(Secrets) /\ e \in Seq(Secrets) /\ \A i \in 1..Len(c) : c[i] = e[i]
  BY DEF Prefix, Roots
<1> QED BY <1>1, SeqEqual

LEMMA PrefixSelf ==
  ASSUME NEW r \in Roots PROVE Prefix(r, r) /\ Len(r) \in Nat
<1>1. Len(r) \in Nat
  BY LenProperties DEF Roots
<1> QED BY <1>1 DEF Prefix

LEMMA PrefixOf ==
  ASSUME NEW c \in Roots, NEW e \in Roots, NEW r \in Roots, Prefix(c, e), Prefix(e, r)
  PROVE  Prefix(c, r)
<1>1. Len(c) \in Nat /\ Len(e) \in Nat /\ Len(r) \in Nat
  BY PrefixSelf
<1> QED BY <1>1 DEF Prefix

LEMMA PrefixGrows ==
  ASSUME NEW r \in Roots, NEW x \in Pubs, NEW y \in Pubs
  PROVE  Prefix(r, Append(r, Dh(x, y)))
<1>1. Dh(x, y) \in Secrets
  BY DEF Dh, Secrets
<1>2. PICK z \in Secrets : z = Dh(x, y)
  BY <1>1
<1>3. r \in Seq(Secrets) /\ Len(r) \in Nat
  BY LenProperties DEF Roots
<1>4. Len(Append(r, z)) = Len(r) + 1 /\ \A i \in 1..Len(r) : Append(r, z)[i] = r[i]
  BY <1>3
<1> QED BY <1>2, <1>3, <1>4 DEF Prefix

LEMMA FrontOf ==
  ASSUME NEW r \in Roots, NEW x \in Pubs, NEW y \in Pubs
  PROVE  Front(Append(r, Dh(x, y))) = r
<1>1. Dh(x, y) \in Secrets
  BY DEF Dh, Secrets
<1>2. PICK z \in Secrets : z = Dh(x, y)
  BY <1>1
<1>3. r \in Seq(Secrets) /\ Len(r) \in Nat
  BY LenProperties DEF Roots
<1>9. Append(r, z) \in Seq(Secrets)
  BY <1>3
<1>4. PICK g \in Seq(Secrets) : g = Append(r, z)
  BY <1>9
<1>5. Len(g) = Len(r) + 1 /\ \A i \in 1..Len(r) : g[i] = r[i] /\ g[i] \in Secrets
  BY <1>3, <1>4, ElementOfSeq
<1>6. Front(g) = SubSeq(g, 1, Len(r))
  BY <1>3, <1>5 DEF Front
<1>7. /\ SubSeq(g, 1, Len(r)) \in Seq(Secrets) /\ Len(SubSeq(g, 1, Len(r))) = Len(r)
      /\ \A i \in 1..Len(r) : SubSeq(g, 1, Len(r))[i] = r[i]
  <2>1. /\ SubSeq(g, 1, Len(r)) \in Seq(Secrets)
        /\ Len(SubSeq(g, 1, Len(r))) = (IF 1 <= Len(r) THEN Len(r) - 1 + 1 ELSE 0)
        /\ \A i \in 1..(Len(r) - 1 + 1) : SubSeq(g, 1, Len(r))[i] = g[1 + i - 1]
    BY <1>3, <1>5, SubSeqProperties
  <2> QED BY <1>3, <1>5, <2>1
<1>8. SubSeq(g, 1, Len(r)) = r
  BY <1>3, <1>7, SeqEqual
<1> QED BY <1>2, <1>4, <1>6, <1>8

-----------------------------------------------------------------------------
(* A store that has room.                                                  *)

LEMMA KeysOfEntries ==
  ASSUME NEW stored PROVE KeysIn(stored) = {e.key : e \in EntriesIn(stored)}
  BY DEF KeysIn, EntriesIn

\* Entries with different keys are no more than the keys there are.
LEMMA NoMoreThanKeys ==
  ASSUME NEW stored \in Seq(Entries), KeysDiffer(stored),
         NEW F, IsFiniteSet(F), KeysIn(stored) \subseteq F
  PROVE  Len(stored) <= Cardinality(F)
<1>1. Len(stored) \in Nat /\ DOMAIN stored = 1..Len(stored)
  BY LenProperties
<1> DEFINE f == [i \in 1..Len(stored) |-> stored[i].key]
<1>2. f \in Injection(1..Len(stored), F)
  <2>1. f \in [1..Len(stored) -> F]
    BY <1>1 DEF KeysIn
  <2>2. \A i, j \in 1..Len(stored) : f[i] = f[j] => i = j
    BY <1>1 DEF KeysDiffer
  <2> QED BY <2>1, <2>2 DEF Injection, IsInjective
<1> HIDE DEF f
<1>3. Cardinality(1..Len(stored)) <= Cardinality(F)
  BY <1>2, FS_Injection
<1>4. Cardinality(1..Len(stored)) = Len(stored)
  <2>1. Cardinality(1..Len(stored)) = IF 1 > Len(stored) THEN 0 ELSE Len(stored) - 1 + 1
    BY <1>1, FS_Interval
  <2> QED BY <1>1, <2>1
<1> QED BY <1>3, <1>4

LEMMA NothingEvicted ==
  ASSUME NEW stored \in Seq(Entries), NEW entries \in Seq(Entries),
         KeysDiffer(stored), KeysDiffer(entries), KeysIn(stored) \cap KeysIn(entries) = {},
         NEW F, IsFiniteSet(F), Cardinality(F) <= MaxSkipped,
         KeysIn(stored) \subseteq F, KeysIn(entries) \subseteq F
  PROVE  EntriesIn(AppendSkipped(stored, entries)) = EntriesIn(stored) \cup EntriesIn(entries)
<1> DEFINE all == stored \o entries
<1>1. /\ all \in Seq(Entries) /\ Len(all) = Len(stored) + Len(entries)
      /\ Len(stored) \in Nat /\ Len(entries) \in Nat
      /\ \A i \in 1..Len(all) : all[i] = IF i <= Len(stored) THEN stored[i] ELSE entries[i - Len(stored)]
      /\ DOMAIN stored = 1..Len(stored) /\ DOMAIN entries = 1..Len(entries) /\ DOMAIN all = 1..Len(all)
  BY ConcatProperties, LenProperties
<1>2. AppendSkipped(stored, entries) =
        IF Len(all) <= MaxSkipped THEN all ELSE SubSeq(all, Len(all) - MaxSkipped + 1, Len(all))
  BY DEF AppendSkipped
<1> HIDE DEF all
<1>3. ASSUME NEW i \in 1..Len(all)
      PROVE  \/ i \in DOMAIN stored /\ all[i] = stored[i]
             \/ i - Len(stored) \in DOMAIN entries /\ all[i] = entries[i - Len(stored)]
                /\ ~(i <= Len(stored))
  BY <1>1
<1>4. EntriesIn(all) = EntriesIn(stored) \cup EntriesIn(entries)
  <2>1. EntriesIn(all) \subseteq EntriesIn(stored) \cup EntriesIn(entries)
    BY <1>1, <1>3 DEF EntriesIn
  <2>2. ASSUME NEW i \in DOMAIN stored PROVE stored[i] \in EntriesIn(all)
    <3>1. i \in DOMAIN all /\ all[i] = stored[i]
      BY <1>1
    <3> QED BY <3>1 DEF EntriesIn
  <2>3. ASSUME NEW i \in DOMAIN entries PROVE entries[i] \in EntriesIn(all)
    <3>1. i + Len(stored) \in DOMAIN all /\ all[i + Len(stored)] = entries[i]
      <4>1. i + Len(stored) \in 1..Len(all) /\ ~(i + Len(stored) <= Len(stored))
            /\ i + Len(stored) - Len(stored) = i
        BY <1>1
      <4> QED BY <1>1, <4>1
    <3> QED BY <3>1 DEF EntriesIn
  <2> QED BY <2>1, <2>2, <2>3 DEF EntriesIn
<1>5. KeysDiffer(all)
  <2>1. ASSUME NEW i \in 1..Len(all), NEW j \in 1..Len(all), all[i].key = all[j].key PROVE i = j
    <3>1. CASE i \in DOMAIN stored /\ all[i] = stored[i] /\ j \in DOMAIN stored /\ all[j] = stored[j]
      BY <2>1, <3>1 DEF KeysDiffer
    <3>2. CASE /\ i - Len(stored) \in DOMAIN entries /\ all[i] = entries[i - Len(stored)]
               /\ j - Len(stored) \in DOMAIN entries /\ all[j] = entries[j - Len(stored)]
      <4>1. i - Len(stored) = j - Len(stored)
        BY <2>1, <3>2 DEF KeysDiffer
      <4> QED BY <1>1, <4>1
    <3>3. ASSUME NEW a \in DOMAIN stored, NEW b \in DOMAIN entries, stored[a].key = entries[b].key PROVE FALSE
      <4>1. stored[a].key \in KeysIn(stored) /\ entries[b].key \in KeysIn(entries)
        BY DEF KeysIn
      <4> QED BY <3>3, <4>1
    <3> QED BY <1>3, <2>1, <3>1, <3>2, <3>3
  <2> QED BY <1>1, <2>1 DEF KeysDiffer
<1>6. KeysIn(all) \subseteq F
  BY <1>4, KeysOfEntries
<1>7. Len(all) <= MaxSkipped
  <2>1. Len(all) <= Cardinality(F)
    BY <1>1, <1>5, <1>6, NoMoreThanKeys
  <2> QED BY <1>1, <2>1, FS_CardinalityType, SessionAssumptions
<1> QED BY <1>2, <1>4, <1>7

LEMMA SkippedEntries ==
  ASSUME NEW dh \in Pubs \cup {NoKey}, NEW key \in Keys, NEW n \in Nat, NEW k \in Nat, key.n = n
  PROVE  /\ \A e \in EntriesIn(SkippedKeys(dh, key, n, k)) :
              /\ e.n \in Nat /\ n <= e.n /\ e.n < n + k
              /\ e = [dh |-> dh, n |-> e.n, key |-> [chain |-> key.chain, n |-> e.n]]
         /\ \A j \in Nat : n <= j /\ j < n + k =>
              [dh |-> dh, n |-> j, key |-> [chain |-> key.chain, n |-> j]]
                \in EntriesIn(SkippedKeys(dh, key, n, k))
<1> DEFINE E == SkippedKeys(dh, key, n, k)
<1>1. ASSUME NEW i \in 1..k
      PROVE  E[i] = [dh |-> dh, n |-> n + i - 1, key |-> [chain |-> key.chain, n |-> n + i - 1]]
  <2>1. key = [chain |-> key.chain, n |-> n]
    BY DEF Keys
  <2>2. n + (i - 1) = n + i - 1
    OBVIOUS
  <2>3. ChainStep(key, i - 1) = [chain |-> key.chain, n |-> n + i - 1]
    BY <2>1, <2>2 DEF ChainStep
  <2> QED BY <2>3 DEF SkippedKeys
<1>2. DOMAIN E = 1..k
  BY DEF SkippedKeys
<1> HIDE DEF E
<1>3. ASSUME NEW e \in EntriesIn(E)
      PROVE  /\ e.n \in Nat /\ n <= e.n /\ e.n < n + k
             /\ e = [dh |-> dh, n |-> e.n, key |-> [chain |-> key.chain, n |-> e.n]]
  <2>1. PICK i \in 1..k : e = E[i]
    BY <1>2 DEF EntriesIn
  <2>2. PICK j : j = n + i - 1
    OBVIOUS
  <2>3. e = [dh |-> dh, n |-> j, key |-> [chain |-> key.chain, n |-> j]]
    BY <1>1, <2>1, <2>2
  <2>4. j \in Nat /\ n <= j /\ j < n + k
    BY <2>2
  <2> QED BY <2>3, <2>4
<1>4. ASSUME NEW j \in Nat, n <= j, j < n + k
      PROVE  [dh |-> dh, n |-> j, key |-> [chain |-> key.chain, n |-> j]] \in EntriesIn(E)
  <2>1. PICK i : i = j - n + 1
    OBVIOUS
  <2>2. i \in 1..k /\ n + i - 1 = j
    BY <1>4, <2>1
  <2> QED BY <1>1, <1>2, <2>2 DEF EntriesIn
<1> QED BY <1>3, <1>4 DEF E

-----------------------------------------------------------------------------
(* What an envelope changes in a state.                                    *)

Same(s, t) ==
  /\ t.rootKey = s.rootKey /\ t.sendingDh = s.sendingDh /\ t.receivingDh = s.receivingDh
  /\ t.sendingKey = s.sendingKey /\ t.ns = s.ns /\ t.pn = s.pn
  /\ t.receivingKey # NoKey => s.receivingKey # NoKey /\ t.receivingKey.chain = s.receivingKey.chain

Received(s, m) == Append(s.rootKey, Dh(s.sendingDh, m.dh))

Turned(s, t, m, fresh) ==
  /\ t.rootKey = Append(Received(s, m), Dh(fresh, m.dh))
  /\ t.sendingDh = fresh /\ t.receivingDh = m.dh
  /\ t.sendingKey = FirstKey(t.rootKey) /\ t.ns = 0 /\ t.pn = s.ns
  /\ t.receivingKey # NoKey => t.receivingKey.chain = Received(s, m)

Comes(s, m, fresh, r) ==
  /\ \/ Same(s, r.state)
     \/ /\ Turned(s, r.state, m, fresh)
        /\ r.kind = "lost" \/ (r.kind = "ok" /\ m.key.chain = Received(s, m))
  /\ r.kind = "ok" \/ r.kind = "lost" \/ r.state = s

LEMMA AfterTurn ==
  ASSUME NEW s, StateOk(s), NEW m \in Messages, NEW fresh \in Pubs,
         NEW t, t = Ratcheted(s, m, fresh)
  PROVE  /\ t \in States /\ Turned(s, t, m, fresh)
         /\ t.receivingKey = FirstKey(Received(s, m)) /\ t.nr = 0
         /\ t.receivingKey # NoKey
         /\ t.skipped = AppendSkipped(s.skipped,
              IF s.receivingKey = NoKey \/ m.pn <= s.nr THEN <<>>
              ELSE SkippedKeys(s.receivingDh, s.receivingKey, s.nr, m.pn - s.nr))
<1>1. t \in States /\ t.receivingKey # NoKey
  BY RatchetTurns DEF Moves, StateOk
<1> QED BY <1>1 DEF Ratcheted, Turned, Received, FirstKey

Storing(b, x) == [b EXCEPT !.skipped = x]
GivenUp(b, n) == [b EXCEPT !.receivingKey = NoKey, !.nr = n]

\* Trial decryption: the candidate with its chain advanced, or the state as it was.
Opens(s, b, m, x, gap, r) ==
  \/ r.state = s /\ r.kind = "invalid" /\ m.key # ChainStep(b.receivingKey, gap)
  \/ /\ r.kind = "ok" /\ m.key = ChainStep(b.receivingKey, gap)
     /\ m.key.chain = b.receivingKey.chain
     /\ r.state.receivingKey = ChainStep(m.key, 1) /\ r.state.nr = m.n + 1
     /\ r.state.receivingKey.chain = b.receivingKey.chain
     /\ r.state.receivingKey # NoKey
     /\ r.state.rootKey = b.rootKey /\ r.state.sendingDh = b.sendingDh
     /\ r.state.receivingDh = b.receivingDh /\ r.state.sendingKey = b.sendingKey
     /\ r.state.ns = b.ns /\ r.state.pn = b.pn /\ r.state.skipped = x

LEMMA Tried ==
  ASSUME NEW s, NEW b, StateOk(b), b.receivingKey # NoKey, NEW m, NEW x, NEW gap \in Nat,
         NEW c, c = Storing(b, x), NEW key, key = ChainStep(b.receivingKey, gap),
         NEW r, r = TryKey(s, c, key, m)
  PROVE  Opens(s, b, m, x, gap, r)
<1>1. key = ChainStep(b.receivingKey, gap)
  OBVIOUS
<1>2. b \in States /\ b.receivingKey \in Keys
  BY StateTyped DEF StateOk
<1>3. key \in Keys /\ key.chain = b.receivingKey.chain
  BY <1>1, <1>2, Stepped
<1>4. ChainStep(key, 1).chain = key.chain /\ ChainStep(key, 1) # NoKey
  BY <1>3, Stepped
<1>11. PICK k, n : k = ChainStep(key, 1) /\ n = m.n + 1
  OBVIOUS
<1>5. PICK t : t = [[b EXCEPT !.skipped = x] EXCEPT !.receivingKey = k, !.nr = n]
  OBVIOUS
<1>6. r = IF m.key = key THEN Result(t, "ok") ELSE Result(s, "invalid")
  BY <1>1, <1>5, <1>11 DEF TryKey, Storing
<1>7. CASE m.key = key
  <2>1. r.state = t /\ r.kind = "ok"
    BY <1>6, <1>7 DEF Result
  <2>2. /\ t.rootKey = b.rootKey /\ t.sendingDh = b.sendingDh /\ t.receivingDh = b.receivingDh
        /\ t.sendingKey = b.sendingKey /\ t.ns = b.ns /\ t.pn = b.pn
        /\ t.receivingKey = k /\ t.nr = n /\ t.skipped = x
    BY <1>2, <1>5 DEF States
  <2> QED BY <1>1, <1>3, <1>4, <1>7, <1>11, <2>1, <2>2 DEF Opens
<1>8. CASE m.key # key
  BY <1>1, <1>6, <1>8 DEF Result, Opens
<1> QED BY <1>7, <1>8

LEMMA StoredComes ==
  ASSUME NEW s, StateOk(s), NEW m, NEW i \in DOMAIN s.skipped,
         NEW r, r = TrySkippedKey(s, i, m)
  PROVE  \/ r.state = s /\ r.kind = "invalid" /\ s.skipped[i].key # m.key
         \/ /\ r.kind = "ok" /\ s.skipped[i].key = m.key
            /\ r.state.skipped = RemoveAt(s.skipped, i) /\ Same(s, r.state)
            /\ r.state.receivingKey = s.receivingKey /\ r.state.nr = s.nr
<1>1. s \in States
  BY DEF StateOk
<1>2. PICK x : x = RemoveAt(s.skipped, i)
  OBVIOUS
<1>3. r = IF s.skipped[i].key = m.key THEN Result([s EXCEPT !.skipped = x], "ok") ELSE Result(s, "invalid")
  BY <1>2 DEF TrySkippedKey
<1>4. PICK t : t = [s EXCEPT !.skipped = x]
  OBVIOUS
<1>5. /\ t.rootKey = s.rootKey /\ t.sendingDh = s.sendingDh /\ t.receivingDh = s.receivingDh
      /\ t.sendingKey = s.sendingKey /\ t.ns = s.ns /\ t.pn = s.pn
      /\ t.receivingKey = s.receivingKey /\ t.nr = s.nr /\ t.skipped = x
  BY <1>1, <1>4 DEF States
<1>6. CASE s.skipped[i].key = m.key
  <2>1. r.state = t /\ r.kind = "ok"
    BY <1>3, <1>4, <1>6 DEF Result
  <2> QED BY <1>2, <1>5, <1>6, <2>1 DEF Same
<1>7. CASE s.skipped[i].key # m.key
  BY <1>3, <1>7 DEF Result
<1> QED BY <1>6, <1>7

LEMMA EnvelopeComes ==
  ASSUME NEW s, StateOk(s), NEW m \in Messages, NEW fresh \in Pubs,
         NEW r, r = DecryptFromDevice(s, m, fresh)
  PROVE  Comes(s, m, fresh, r)
<1>1. s \in States
  BY DEF StateOk
<1>2. ASSUME NEW i \in DOMAIN s.skipped, r = TrySkippedKey(s, i, m) PROVE Comes(s, m, fresh, r)
  BY <1>2, StoredComes DEF Comes, Same
<1>3. ASSUME r = DecryptSameChain(s, m) PROVE Comes(s, m, fresh, r)
  <2>1. CASE r = Result(s, "duplicate")
    BY <2>1 DEF Result, Comes, Same
  <2>2. CASE r = Result([s EXCEPT !.receivingKey = NoKey, !.nr = m.n + 1], "lost")
    <3>3. PICK n : n = m.n + 1
      OBVIOUS
    <3>1. PICK t : t = GivenUp(s, n)
      OBVIOUS
    <3>4. /\ t.rootKey = s.rootKey /\ t.sendingDh = s.sendingDh /\ t.receivingDh = s.receivingDh
          /\ t.sendingKey = s.sendingKey /\ t.ns = s.ns /\ t.pn = s.pn /\ t.receivingKey = NoKey
      BY <1>1, <3>1 DEF States, GivenUp
    <3>2. Same(s, t)
      BY <3>4 DEF Same
    <3>5. r.state = t /\ r.kind = "lost"
      BY <2>2, <3>1, <3>3 DEF Result, GivenUp
    <3> QED BY <3>2, <3>5 DEF Comes
  <2>3. ASSUME NEW gap \in Nat, s.receivingKey # NoKey,
               r = TryKey(s, [s EXCEPT !.skipped = AppendSkipped(@, SkippedKeys(m.dh, s.receivingKey, s.nr, gap))],
                          ChainStep(s.receivingKey, gap), m)
        PROVE  Comes(s, m, fresh, r)
    <3>1. PICK x : x = AppendSkipped(s.skipped, SkippedKeys(m.dh, s.receivingKey, s.nr, gap))
      OBVIOUS
    <3>2. r = TryKey(s, [s EXCEPT !.skipped = x], ChainStep(s.receivingKey, gap), m)
      BY <2>3, <3>1
    <3>7. PICK c, key : c = Storing(s, x) /\ key = ChainStep(s.receivingKey, gap)
      OBVIOUS
    <3>6. r = TryKey(s, c, key, m)
      BY <3>2, <3>7 DEF Storing
    <3>4. \/ r.state = s /\ r.kind = "invalid"
          \/ /\ r.kind = "ok"
             /\ r.state.receivingKey.chain = s.receivingKey.chain /\ r.state.receivingKey # NoKey
             /\ r.state.rootKey = s.rootKey /\ r.state.sendingDh = s.sendingDh
             /\ r.state.receivingDh = s.receivingDh /\ r.state.sendingKey = s.sendingKey
             /\ r.state.ns = s.ns /\ r.state.pn = s.pn
      <4>1. Opens(s, s, m, x, gap, r)
        BY <2>3, <3>6, <3>7, Tried
      <4> QED BY <4>1 DEF Opens
    <3>3. \/ r.state = s /\ r.kind = "invalid"
          \/ r.kind = "ok" /\ Same(s, r.state)
      BY <2>3, <3>4 DEF Same
    <3> QED BY <3>3 DEF Comes, Same
  <2> QED BY <1>3, <2>1, <2>2, <2>3, SameChainWays
<1>4. ASSUME r = DecryptNewChain(s, m, fresh) PROVE Comes(s, m, fresh, r)
  <2>1. PICK next : next = Ratcheted(s, m, fresh)
    OBVIOUS
  <2>2. next \in States /\ Turned(s, next, m, fresh) /\ next.receivingKey # NoKey
    BY <2>1, AfterTurn
  <2>3. StateOk(next)
    BY <2>1, RatchetTurns DEF Moves
  <2>4. CASE r = Result([s EXCEPT !.receivingKey = NoKey, !.nr = m.n + 1], "lost")
    <3>3. PICK n : n = m.n + 1
      OBVIOUS
    <3>1. PICK t : t = GivenUp(s, n)
      OBVIOUS
    <3>4. /\ t.rootKey = s.rootKey /\ t.sendingDh = s.sendingDh /\ t.receivingDh = s.receivingDh
          /\ t.sendingKey = s.sendingKey /\ t.ns = s.ns /\ t.pn = s.pn /\ t.receivingKey = NoKey
      BY <1>1, <3>1 DEF States, GivenUp
    <3>2. Same(s, t)
      BY <3>4 DEF Same
    <3>5. r.state = t /\ r.kind = "lost"
      BY <2>4, <3>1, <3>3 DEF Result, GivenUp
    <3> QED BY <3>2, <3>5 DEF Comes
  <2>5. CASE r = Result([next EXCEPT !.receivingKey = NoKey, !.nr = m.n + 1], "lost")
    <3>3. PICK n : n = m.n + 1
      OBVIOUS
    <3>1. PICK t : t = GivenUp(next, n)
      OBVIOUS
    <3>4. /\ t.rootKey = next.rootKey /\ t.sendingDh = next.sendingDh /\ t.receivingDh = next.receivingDh
          /\ t.sendingKey = next.sendingKey /\ t.ns = next.ns /\ t.pn = next.pn /\ t.receivingKey = NoKey
      BY <2>2, <3>1 DEF States, GivenUp
    <3>2. Turned(s, t, m, fresh)
      BY <2>2, <3>4 DEF Turned
    <3>5. r.state = t /\ r.kind = "lost"
      BY <2>5, <3>1, <3>3 DEF Result, GivenUp
    <3> QED BY <3>2, <3>5 DEF Comes
  <2>6. CASE r = TryKey(s, [next EXCEPT !.skipped = AppendSkipped(@, SkippedKeys(m.dh, next.receivingKey, next.nr, m.n))],
                        ChainStep(next.receivingKey, m.n), m)
    <3>1. PICK x : x = AppendSkipped(next.skipped, SkippedKeys(m.dh, next.receivingKey, next.nr, m.n))
      OBVIOUS
    <3>2. r = TryKey(s, [next EXCEPT !.skipped = x], ChainStep(next.receivingKey, m.n), m) /\ m.n \in Nat
      BY <2>6, <3>1 DEF Messages
    <3>5. PICK gap \in Nat : gap = m.n
      BY <3>2
    <3>7. PICK c, key : c = Storing(next, x) /\ key = ChainStep(next.receivingKey, gap)
      OBVIOUS
    <3>6. r = TryKey(s, c, key, m)
      BY <3>2, <3>5, <3>7 DEF Storing
    <3>4. \/ r.state = s /\ r.kind = "invalid"
          \/ /\ r.kind = "ok" /\ m.key.chain = next.receivingKey.chain
             /\ r.state.receivingKey.chain = next.receivingKey.chain
             /\ r.state.rootKey = next.rootKey /\ r.state.sendingDh = next.sendingDh
             /\ r.state.receivingDh = next.receivingDh /\ r.state.sendingKey = next.sendingKey
             /\ r.state.ns = next.ns /\ r.state.pn = next.pn
      <4>1. Opens(s, next, m, x, gap, r)
        BY <2>2, <2>3, <3>6, <3>7, Tried
      <4> QED BY <4>1 DEF Opens
    <3>3. \/ r.state = s /\ r.kind = "invalid"
          \/ r.kind = "ok" /\ m.key.chain = Received(s, m) /\ Turned(s, r.state, m, fresh)
      BY <2>2, <3>4 DEF Turned
    <3> QED BY <3>3 DEF Comes, Same
  <2> QED BY <1>4, <2>1, <2>4, <2>5, <2>6, NewChainWays
<1> QED BY <1>2, <1>3, <1>4, Ways

-----------------------------------------------------------------------------
(* Two states in step.                                                     *)

\* The public key that device d sends under while its root has length n.
DhOf(d, n) ==
  CASE d = Alice /\ n = 2 -> <<Alice>>
    [] d = Bob /\ n = 1 -> <<"spk">>
    [] OTHER -> <<d, n - 2, 0>>

LEMMA DhApart ==
  ASSUME NEW d \in Ends, NEW n \in Nat, NEW k \in Nat, DhOf(d, n) = DhOf(d, k) PROVE n = k
<1>1. \A a, b : <<a>> # <<d, b, 0>>
  OBVIOUS
<1>2. <<d, n - 2, 0>> = <<d, k - 2, 0>> => n - 2 = k - 2
  OBVIOUS
<1>3. Alice # Bob
  BY DEF Alice, Bob
<1>4. CASE (d = Alice /\ n = 2) \/ (d = Bob /\ n = 1)
  <2>1. (d = Alice /\ k = 2) \/ (d = Bob /\ k = 1)
    BY <1>1, <1>3, <1>4 DEF DhOf
  <2> QED BY <1>3, <1>4, <2>1
<1>5. CASE ~((d = Alice /\ n = 2) \/ (d = Bob /\ n = 1))
  <2>1. ~((d = Alice /\ k = 2) \/ (d = Bob /\ k = 1))
    BY <1>1, <1>3, <1>5 DEF DhOf
  <2> QED BY <1>2, <1>5, <2>1 DEF DhOf
<1> QED BY <1>4, <1>5

LEMMA DhIsKey == ASSUME NEW d, NEW n PROVE DhOf(d, n) # NoKey
<1>1. /\ <<Alice>> # <<>> /\ <<"spk">> # <<>> /\ <<d, n - 2, 0>> # <<>>
  OBVIOUS
<1> QED BY <1>1 DEF DhOf, NoKey

LEMMA FreshIsNext ==
  ASSUME NEW d \in Ends, NEW n \in Nat, n >= 1 PROVE <<d, n, 0>> = DhOf(d, n + 2)
  BY DEF DhOf

\* The keys of state s of device d follow from the length of its root.
Keyed(d, s) ==
  /\ Len(s.rootKey) >= 1
  /\ s.sendingDh = DhOf(d, Len(s.rootKey))
  /\ s.receivingDh = IF Len(s.rootKey) = 1 THEN NoKey ELSE DhOf(Peer(d), Len(s.rootKey) - 1)
  /\ s.sendingKey = NoKey <=> Len(s.rootKey) = 1
  /\ s.sendingKey # NoKey => s.sendingKey.n = s.ns
  /\ s.receivingKey # NoKey =>
       /\ Prefix(s.receivingKey.chain, s.rootKey)
       /\ Len(s.receivingKey.chain) = Len(s.rootKey) - 1

\* State s is one secret ahead of state p.
Leads(s, p) == s.rootKey = Append(p.rootKey, Dh(s.sendingDh, p.sendingDh))

\* The envelopes B that device d has sealed, its state being s: each is of the
\* root or of one the root has grown from, and no number is missing.
Genuine(d, s, B) ==
  /\ \A m \in B :
       /\ m.key.n = m.n
       /\ m.dh = DhOf(d, Len(m.key.chain)) /\ Len(m.key.chain) >= 1
       /\ Prefix(m.key.chain, s.rootKey)
       /\ m.key.chain = s.rootKey => m.pn = s.pn
       /\ Len(m.key.chain) = Len(s.rootKey) - 2 => m.n < s.pn
       /\ \A n \in Nat : n < m.n => \E w \in B : w.key.chain = m.key.chain /\ w.n = n
  /\ \A n \in Nat : n < s.ns => \E w \in B : w.key.chain = s.rootKey /\ w.n = n
  /\ \A n \in Nat : n < s.pn => \E w \in B : Len(w.key.chain) = Len(s.rootKey) - 2 /\ w.n = n

\* State s of a device, state p of its peer e, which has sealed the envelopes
\* B; of those, O were opened.
Facing(e, s, p, B, O) ==
  /\ StateOk(s) /\ StateOk(p) /\ Keyed(Peer(e), s) /\ Keyed(e, p)
  /\ Leads(s, p) \/ Leads(p, s)
  /\ Genuine(e, p, B) /\ B \subseteq Messages
  /\ \A m \in B : Past(m.key, p)
  /\ \A m1, m2 \in B : m1.key = m2.key => m1 = m2
  /\ \A m \in O : Retired(m.key, s)

EntryOf(m) == [dh |-> m.dh, n |-> m.n, key |-> m.key]
EntriesOf(W) == {EntryOf(m) : m \in W}

\* The receiving chain of s comes to the key of m.
Ahead(m, s) == s.receivingKey # NoKey /\ m.key.chain = s.receivingKey.chain /\ m.n >= s.nr

\* State s can open every envelope of W, those sealed and not opened yet.
Prepared(s, p, W) ==
  /\ IsFiniteSet(W) /\ Cardinality(W) <= MaxSkipped + 1
  /\ EntriesIn(s.skipped) \subseteq EntriesOf(W)
  /\ \A m \in W : \/ EntryOf(m) \in EntriesIn(s.skipped)
                  \/ Ahead(m, s)
                  \/ Len(m.key.chain) > Len(s.rootKey)
  /\ s.receivingKey = NoKey => Len(s.rootKey) <= 2
  /\ Len(s.rootKey) > Len(p.rootKey) /\ s.receivingKey # NoKey => s.nr <= p.ns

LEMMA EnvelopeTyped ==
  ASSUME NEW m \in Messages
  PROVE  /\ m.dh \in Pubs /\ m.pn \in Nat /\ m.n \in Nat /\ m.key \in Keys /\ m.id \in Nat
         /\ m.key.chain \in Roots /\ Len(m.key.chain) \in Nat /\ m.key.n \in Nat
         /\ m.key = [chain |-> m.key.chain, n |-> m.key.n]
<1>1. m.dh \in Pubs /\ m.pn \in Nat /\ m.n \in Nat /\ m.key \in Keys /\ m.id \in Nat
  BY DEF Messages
<1>2. m.key.chain \in Roots /\ m.key.n \in Nat /\ m.key = [chain |-> m.key.chain, n |-> m.key.n]
  BY <1>1 DEF Keys
<1> QED BY <1>1, <1>2, PrefixSelf

\* Where one leads its root is the longer by one.
LEMMA LeadLength ==
  ASSUME NEW s \in States, NEW p \in States, Leads(s, p)
  PROVE  /\ Len(s.rootKey) = Len(p.rootKey) + 1 /\ Len(p.rootKey) \in Nat /\ Len(s.rootKey) \in Nat
         /\ Prefix(p.rootKey, s.rootKey)
<1>1. /\ p.rootKey \in Roots /\ s.rootKey \in Roots /\ s.sendingDh \in Pubs /\ p.sendingDh \in Pubs
  BY StateTyped
<1>2. PICK x \in Pubs : x = s.sendingDh
  BY <1>1
<1>3. PICK y \in Pubs : y = p.sendingDh
  BY <1>1
<1>4. PICK c \in Roots : c = p.rootKey
  BY <1>1
<1>5. s.rootKey = Append(c, Dh(x, y))
  BY <1>2, <1>3, <1>4 DEF Leads
<1> QED BY <1>4, <1>5, RootGrows, PrefixGrows

\* Envelopes of one length of chain are of one chain.
LEMMA ChainOfLength ==
  ASSUME NEW e, NEW p, StateOk(p), NEW B \in SUBSET Messages, Genuine(e, p, B),
         NEW m \in B, NEW w \in B, Len(m.key.chain) = Len(w.key.chain)
  PROVE  m.key.chain = w.key.chain
<1>1. p.rootKey \in Roots /\ m.key.chain \in Roots /\ w.key.chain \in Roots
  BY StateTyped, EnvelopeTyped DEF StateOk
<1>2. Prefix(m.key.chain, p.rootKey) /\ Prefix(w.key.chain, p.rootKey)
  BY DEF Genuine
<1>3. PICK c \in Roots : c = m.key.chain
  BY <1>1
<1>4. PICK f \in Roots : f = w.key.chain
  BY <1>1
<1>5. PICK r \in Roots : r = p.rootKey
  BY <1>1
<1> QED BY <1>2, <1>3, <1>4, <1>5, PrefixSame

\* The header of an envelope names its key.
LEMMA HeaderNames ==
  ASSUME NEW e \in Ends, NEW s, NEW p, NEW B, NEW O, Facing(e, s, p, B, O),
         NEW m \in B, NEW w \in B, m.dh = w.dh, m.n = w.n
  PROVE  m = w
<1>1. /\ StateOk(p) /\ Genuine(e, p, B) /\ B \in SUBSET Messages
      /\ \A m1, m2 \in B : m1.key = m2.key => m1 = m2
  BY DEF Facing
<1>2. Len(m.key.chain) = Len(w.key.chain)
  <2>1. DhOf(e, Len(m.key.chain)) = DhOf(e, Len(w.key.chain))
    BY <1>1 DEF Genuine
  <2>2. PICK a \in Nat : a = Len(m.key.chain)
    BY <1>1, EnvelopeTyped
  <2>3. PICK b \in Nat : b = Len(w.key.chain)
    BY <1>1, EnvelopeTyped
  <2> QED BY <2>1, <2>2, <2>3, DhApart
<1>3. m.key.chain = w.key.chain
  BY <1>1, <1>2, ChainOfLength
<1>4. m.key.n = w.key.n
  BY <1>1 DEF Genuine
<1>5. m.key = w.key
  BY <1>1, <1>3, <1>4, EnvelopeTyped
<1> QED BY <1>1, <1>5

\* An envelope of a chain that s has not come to is of the newest, and s
\* computes that chain.
LEMMA Newest ==
  ASSUME NEW e \in Ends, NEW s, NEW p, StateOk(s), StateOk(p), Keyed(e, p),
         Leads(s, p) \/ Leads(p, s),
         NEW B \in SUBSET Messages, Genuine(e, p, B), \A w \in B : Past(w.key, p),
         NEW m \in B, Len(m.key.chain) > Len(s.rootKey)
  PROVE  /\ Leads(p, s) /\ m.key.chain = p.rootKey /\ m.dh = p.sendingDh
         /\ m.pn = p.pn /\ m.n < p.ns /\ Len(m.key.chain) = Len(s.rootKey) + 1
<1>1. s \in States /\ p \in States
  BY DEF StateOk
<1>2. p.rootKey \in Roots /\ m.key.chain \in Roots /\ Len(m.key.chain) \in Nat
  BY <1>1, StateTyped, EnvelopeTyped
<1>3. Prefix(m.key.chain, p.rootKey) /\ m.dh = DhOf(e, Len(m.key.chain))
  BY DEF Genuine
<1>4. Len(m.key.chain) <= Len(p.rootKey)
  BY <1>3 DEF Prefix
<1>5. ~Leads(s, p)
  <2> SUFFICES ASSUME Leads(s, p) PROVE FALSE
    OBVIOUS
  <2>1. Len(s.rootKey) = Len(p.rootKey) + 1 /\ Len(p.rootKey) \in Nat
    BY <1>1, LeadLength
  <2> QED BY <1>2, <1>4, <2>1
<1>6. Leads(p, s)
  BY <1>5
<1>7. Len(p.rootKey) = Len(s.rootKey) + 1 /\ Len(s.rootKey) \in Nat
  BY <1>1, <1>6, LeadLength
<1>8. Len(m.key.chain) = Len(p.rootKey)
  BY <1>2, <1>4, <1>7
<1>9. m.key.chain = p.rootKey
  <2>1. PICK c \in Roots : c = m.key.chain
    BY <1>2
  <2>2. PICK r \in Roots : r = p.rootKey
    BY <1>2
  <2>3. Prefix(r, r)
    BY PrefixSelf
  <2> QED BY <1>3, <1>8, <2>1, <2>2, <2>3, PrefixSame
<1>10. m.dh = p.sendingDh
  BY <1>3, <1>8 DEF Keyed
<1>11. m.pn = p.pn /\ m.key.n = m.n
  BY <1>9 DEF Genuine
<1>12. m.n < p.ns
  <2>1. Past(m.key, p)
    OBVIOUS
  <2>2. p.sendingKey # NoKey /\ m.key.n < p.sendingKey.n
    BY <1>2, <1>8, <2>1 DEF Past
  <2> QED BY <1>11, <2>2 DEF Keyed
<1> QED BY <1>6, <1>7, <1>8, <1>9, <1>10, <1>11, <1>12

LEMMA NewestReceived ==
  ASSUME NEW s \in States, NEW p \in States, Leads(p, s), NEW m, m.dh = p.sendingDh
  PROVE  Received(s, m) = p.rootKey
  BY DEF Received, Leads, Dh

\* A gap whose keys are among few enough is short, and its keys are kept.
LEMMA StoreTakes ==
  ASSUME NEW stored \in Seq(Entries), KeysDiffer(stored),
         NEW dh \in Pubs \cup {NoKey}, NEW key \in Keys, NEW n \in Nat, NEW k \in Nat, key.n = n,
         \A l \in KeysIn(stored) : l.chain = key.chain => l.n < key.n,
         NEW F, IsFiniteSet(F), Cardinality(F) <= MaxSkipped, KeysIn(stored) \subseteq F,
         \A j \in Nat : n <= j /\ j < n + k => [chain |-> key.chain, n |-> j] \in F
  PROVE  /\ k <= MaxSkipped
         /\ EntriesIn(AppendSkipped(stored, SkippedKeys(dh, key, n, k)))
              = EntriesIn(stored) \cup EntriesIn(SkippedKeys(dh, key, n, k))
<1>1. PICK E : E = SkippedKeys(dh, key, n, k)
  OBVIOUS
<1>2. /\ E \in Seq(Entries) /\ KeysDiffer(E)
      /\ \A l \in KeysIn(E) : l \in Keys /\ l.chain = key.chain /\ l.n >= key.n /\ l.n < key.n + k
  BY <1>1, KeysSkipped
<1>3. Len(E) = k
  BY <1>1 DEF SkippedKeys
<1>4. KeysIn(E) \subseteq F
  <2>1. ASSUME NEW l \in KeysIn(E) PROVE l \in F
    <3>1. l \in Keys /\ l.chain = key.chain /\ n <= l.n /\ l.n < n + k
      BY <1>2
    <3>2. PICK j : j = l.n
      OBVIOUS
    <3>3. j \in Nat /\ l = [chain |-> key.chain, n |-> j]
      BY <3>1, <3>2 DEF Keys
    <3> QED BY <3>1, <3>2, <3>3
  <2> QED BY <2>1
<1>5. k <= Cardinality(F)
  BY <1>2, <1>3, <1>4, NoMoreThanKeys
<1>6. k <= MaxSkipped
  BY <1>5, FS_CardinalityType, SessionAssumptions
<1>7. ASSUME NEW l \in KeysIn(stored), l \in KeysIn(E) PROVE FALSE
  <2>1. l.chain = key.chain /\ l.n >= key.n /\ l.n \in Nat /\ key.n \in Nat
    BY <1>2, <1>7 DEF Keys
  <2>2. l.n < key.n
    BY <2>1
  <2> QED BY <2>1, <2>2
<1>8. KeysIn(stored) \cap KeysIn(E) = {}
  BY <1>7
<1> QED BY <1>1, <1>2, <1>4, <1>6, <1>8, NothingEvicted

\* The keys of the other envelopes that wait.
KeysBut(W, m) == {w.key : w \in W \ {m}}

LEMMA FewKeys ==
  ASSUME NEW W, IsFiniteSet(W), Cardinality(W) <= MaxSkipped + 1, NEW m \in W
  PROVE  IsFiniteSet(KeysBut(W, m)) /\ Cardinality(KeysBut(W, m)) <= MaxSkipped
         /\ IsFiniteSet(W \ {m}) /\ Cardinality(W \ {m}) <= MaxSkipped
<1>1. /\ IsFiniteSet(W \ {m}) /\ Cardinality(W \ {m}) = Cardinality(W) - 1
      /\ Cardinality(W) \in Nat /\ MaxSkipped \in Nat
  BY FS_RemoveElement, FS_CardinalityType, SessionAssumptions
<1> DEFINE f == [w \in W \ {m} |-> w.key]
<1>2. f \in Surjection(W \ {m}, KeysBut(W, m))
  BY DEF Surjection, KeysBut
<1> HIDE DEF f
<1>3. IsFiniteSet(KeysBut(W, m)) /\ Cardinality(KeysBut(W, m)) <= Cardinality(W \ {m})
  BY <1>1, <1>2, FS_Surjection
<1>4. Cardinality(KeysBut(W, m)) \in Nat
  BY <1>3, FS_CardinalityType
<1> QED BY <1>1, <1>3, <1>4

\* What the store holds for others than m are the keys of others.
LEMMA StoredKeys ==
  ASSUME NEW stored \in Seq(Entries), NEW W, NEW m,
         EntriesIn(stored) \subseteq EntriesOf(W \ {m})
  PROVE  KeysIn(stored) \subseteq KeysBut(W, m)
<1>1. ASSUME NEW k \in KeysIn(stored) PROVE k \in KeysBut(W, m)
  <2>1. PICK i \in DOMAIN stored : k = stored[i].key
    BY DEF KeysIn
  <2>2. stored[i] \in EntriesIn(stored)
    BY DEF EntriesIn
  <2>3. PICK w \in W \ {m} : stored[i] = EntryOf(w)
    BY <2>2 DEF EntriesOf
  <2>4. k = w.key
    BY <2>1, <2>3 DEF EntryOf
  <2> QED BY <2>4 DEF KeysBut
<1> QED BY <1>1

\* Each key of a gap, of k keys from number n on, is one that an envelope of
\* W waits for.
Gap(W, dh, key, n, k) ==
  \A j \in Nat : n <= j /\ j < n + k =>
    \E w \in W : w.key = [chain |-> key.chain, n |-> j] /\ w.n = j /\ w.dh = dh

\* Store x has the entries of stored and those of the gap, and they are of W.
Collected(W, stored, x, dh, key, n, k) ==
  /\ k <= MaxSkipped
  /\ EntriesIn(stored) \subseteq EntriesIn(x)
  /\ EntriesIn(x) \subseteq EntriesOf(W)
  /\ \A v : v.n \in Nat /\ n <= v.n /\ v.n < n + k /\ v.dh = dh
            /\ v.key = [chain |-> key.chain, n |-> v.n] => EntryOf(v) \in EntriesIn(x)

\* The keys of a gap are put by for the envelopes that wait for them.
LEMMA Collects ==
  ASSUME NEW stored \in Seq(Entries), KeysDiffer(stored),
         NEW dh \in Pubs \cup {NoKey}, NEW key \in Keys, NEW n \in Nat, NEW k \in Nat, key.n = n,
         \A l \in KeysIn(stored) : l.chain = key.chain => l.n < key.n,
         NEW W, NEW m, IsFiniteSet(KeysBut(W, m)), Cardinality(KeysBut(W, m)) <= MaxSkipped,
         EntriesIn(stored) \subseteq EntriesOf(W \ {m}), Gap(W \ {m}, dh, key, n, k),
         NEW x, x = AppendSkipped(stored, SkippedKeys(dh, key, n, k))
  PROVE  Collected(W \ {m}, stored, x, dh, key, n, k)
<1>1. PICK E : E = SkippedKeys(dh, key, n, k)
  OBVIOUS
<1>2. PICK F : F = KeysBut(W, m)
  OBVIOUS
<1>3. \A j \in Nat : n <= j /\ j < n + k => [chain |-> key.chain, n |-> j] \in F
  BY <1>2 DEF KeysBut, Gap
<1>4. KeysIn(stored) \subseteq F
  BY <1>2, StoredKeys
<1>5. k <= MaxSkipped /\ EntriesIn(x) = EntriesIn(stored) \cup EntriesIn(E)
  BY <1>1, <1>2, <1>3, <1>4, StoreTakes
<1>6. /\ \A f \in EntriesIn(E) :
            /\ f.n \in Nat /\ n <= f.n /\ f.n < n + k
            /\ f = [dh |-> dh, n |-> f.n, key |-> [chain |-> key.chain, n |-> f.n]]
      /\ \A j \in Nat : n <= j /\ j < n + k =>
           [dh |-> dh, n |-> j, key |-> [chain |-> key.chain, n |-> j]] \in EntriesIn(E)
  BY <1>1, SkippedEntries
<1>7. ASSUME NEW f \in EntriesIn(E) PROVE f \in EntriesOf(W \ {m})
  <2>1. f.n \in Nat /\ n <= f.n /\ f.n < n + k
        /\ f = [dh |-> dh, n |-> f.n, key |-> [chain |-> key.chain, n |-> f.n]]
    BY <1>6
  <2>2. PICK w \in W \ {m} : w.key = [chain |-> key.chain, n |-> f.n] /\ w.n = f.n /\ w.dh = dh
    BY <2>1 DEF Gap
  <2>3. f = EntryOf(w)
    BY <2>1, <2>2 DEF EntryOf
  <2> QED BY <2>2, <2>3 DEF EntriesOf
<1>8. ASSUME NEW v, v.n \in Nat, n <= v.n, v.n < n + k, v.dh = dh, v.key = [chain |-> key.chain, n |-> v.n]
      PROVE  EntryOf(v) \in EntriesIn(x)
  <2>1. PICK j \in Nat : j = v.n
    BY <1>8
  <2>2. EntryOf(v) = [dh |-> dh, n |-> j, key |-> [chain |-> key.chain, n |-> j]]
    BY <1>8, <2>1 DEF EntryOf
  <2>3. [dh |-> dh, n |-> j, key |-> [chain |-> key.chain, n |-> j]] \in EntriesIn(E)
    BY <1>6, <1>8, <2>1
  <2> QED BY <1>5, <2>2, <2>3
<1> QED BY <1>5, <1>7, <1>8 DEF Collected

\* The sealed envelopes by the keys they are of: the one of number j of a chain.
LEMMA SealedAt ==
  ASSUME NEW e \in Ends, NEW s, NEW p, NEW B, NEW O, Facing(e, s, p, B, O),
         NEW w \in B
  PROVE  /\ w \in Messages /\ w.key = [chain |-> w.key.chain, n |-> w.n] /\ w.n \in Nat
         /\ w.dh = DhOf(e, Len(w.key.chain)) /\ w.dh # NoKey
         /\ Len(w.key.chain) \in Nat /\ Len(w.key.chain) >= 1 /\ w.key.chain \in Roots
<1>1. w \in Messages /\ Genuine(e, p, B)
  BY DEF Facing
<1>2. /\ w.n \in Nat /\ w.key = [chain |-> w.key.chain, n |-> w.key.n]
      /\ Len(w.key.chain) \in Nat /\ w.key.chain \in Roots
  BY <1>1, EnvelopeTyped
<1>3. w.key.n = w.n /\ w.dh = DhOf(e, Len(w.key.chain)) /\ Len(w.key.chain) >= 1
  BY <1>1 DEF Genuine
<1>4. w.key = [chain |-> w.key.chain, n |-> w.n]
  BY <1>2, <1>3
<1>5. w.dh # NoKey
  BY <1>3, DhIsKey
<1> QED BY <1>1, <1>2, <1>3, <1>4, <1>5

\* An envelope that s would still have to come to was not opened.
LEMMA NotOpened ==
  ASSUME NEW e \in Ends, NEW s, NEW p, NEW B, NEW O, Facing(e, s, p, B, O), NEW w \in B,
         Len(w.key.chain) > Len(s.rootKey) \/ Ahead(w, s)
  PROVE  w \in B \ O
<1>1. StateOk(s) /\ s \in States /\ (\A m \in O : Retired(m.key, s))
  BY DEF Facing, StateOk
<1>2. Len(s.rootKey) \in Nat /\ s.nr \in Nat
  BY <1>1, StateTyped, PrefixSelf
<1>3. Len(w.key.chain) \in Nat /\ w.key = [chain |-> w.key.chain, n |-> w.n] /\ w.n \in Nat
  BY SealedAt
<1>4. ASSUME Retired(w.key, s) PROVE FALSE
  <2>1. Behind(w.key, s)
    BY <1>4 DEF Retired
  <2>2. CASE Len(w.key.chain) > Len(s.rootKey)
    BY <1>2, <1>3, <2>1, <2>2 DEF Behind
  <2>3. CASE Ahead(w, s)
    <3>1. s.receivingKey # NoKey /\ w.key.chain = s.receivingKey.chain /\ w.n >= s.nr
          /\ s.receivingKey.n = s.nr
      BY <1>1, <2>3 DEF Ahead, StateOk
    <3>2. w.key.n < s.nr
      BY <2>1, <3>1 DEF Behind
    <3>3. w.key.n = w.n
      BY <1>3
    <3> QED BY <1>2, <1>3, <3>1, <3>2, <3>3
  <2> QED BY <2>2, <2>3
<1> QED BY <1>1, <1>4

\* The envelopes sealed before m on its chain.
LEMMA OneBefore ==
  ASSUME NEW e \in Ends, NEW s, NEW p, NEW B, NEW O, Facing(e, s, p, B, O),
         NEW m \in B, NEW j \in Nat, j < m.n
  PROVE  \E w \in B \ {m} : /\ w.key = [chain |-> m.key.chain, n |-> j] /\ w.n = j
                            /\ w.key.chain = m.key.chain /\ w.dh = m.dh
<1>1. Genuine(e, p, B)
  BY DEF Facing
<1>2. PICK w \in B : w.key.chain = m.key.chain /\ w.n = j
  BY <1>1 DEF Genuine
<1>3. w.key = [chain |-> w.key.chain, n |-> w.n] /\ w.dh = DhOf(e, Len(w.key.chain))
  BY SealedAt
<1>4. m.dh = DhOf(e, Len(m.key.chain))
  BY <1>1 DEF Genuine
<1>5. w # m
  BY <1>2, <1>4
<1> QED BY <1>2, <1>3, <1>4, <1>5

-----------------------------------------------------------------------------
(* A state that is ready opens what waits, and stays ready for the rest.   *)

\* State s has yet to open the envelopes W, m among them, and is ready for them.
Waits(e, s, p, B, O, W, m) ==
  e \in Ends /\ Facing(e, s, p, B, O) /\ W = B \ O /\ Prepared(s, p, W) /\ m \in W

\* The answer opens the envelope, and its state is ready for those of V.
Opened(r, p, V) == r.kind = "ok" /\ Prepared(r.state, p, V)

\* The key is in the store.
LEMMA StoredReady ==
  ASSUME NEW e, NEW s, NEW p, NEW B, NEW O, NEW W, NEW m, Waits(e, s, p, B, O, W, m),
         NEW i \in DOMAIN s.skipped, s.skipped[i].dh = m.dh, s.skipped[i].n = m.n,
         NEW r, r = TrySkippedKey(s, i, m)
  PROVE  Opened(r, p, W \ {m})
<1> e \in Ends /\ Facing(e, s, p, B, O) /\ W = B \ O /\ Prepared(s, p, W) /\ m \in W
  BY DEF Waits
<1>1. StateOk(s) /\ s.skipped \in Seq(Entries) /\ KeysDiffer(s.skipped)
  BY StateTyped DEF Facing, StateOk
<1>2. s.skipped[i] \in EntriesIn(s.skipped)
  BY DEF EntriesIn
<1>3. PICK w \in W : s.skipped[i] = EntryOf(w)
  BY <1>2 DEF Prepared, EntriesOf
<1>4. w.dh = m.dh /\ w.n = m.n
  BY <1>3 DEF EntryOf
<1>5. w = m
  BY <1>4, HeaderNames
<1>6. s.skipped[i] = EntryOf(m) /\ s.skipped[i].key = m.key
  BY <1>3, <1>5 DEF EntryOf
<1>7. /\ r.kind = "ok" /\ r.state.skipped = RemoveAt(s.skipped, i) /\ Same(s, r.state)
      /\ r.state.receivingKey = s.receivingKey /\ r.state.nr = s.nr
  BY <1>1, <1>6, StoredComes
<1>8. PICK t : t = r.state
  OBVIOUS
<1>9. t.rootKey = s.rootKey /\ t.receivingKey = s.receivingKey /\ t.nr = s.nr
  BY <1>7, <1>8 DEF Same
<1>10. EntriesIn(t.skipped) = EntriesIn(s.skipped) \ {EntryOf(m)}
  <2>1. EntriesIn(RemoveAt(s.skipped, i)) = EntriesIn(s.skipped) \ {s.skipped[i]}
    BY <1>1, Removed
  <2> QED BY <1>6, <1>7, <1>8, <2>1
<1>11. IsFiniteSet(W \ {m}) /\ Cardinality(W \ {m}) <= MaxSkipped + 1
  <2>1. IsFiniteSet(W \ {m}) /\ Cardinality(W \ {m}) <= MaxSkipped
    BY FewKeys DEF Prepared
  <2> QED BY <2>1, FS_CardinalityType, SessionAssumptions
<1>12. EntriesIn(t.skipped) \subseteq EntriesOf(W \ {m})
  <2>1. EntriesIn(s.skipped) \subseteq EntriesOf(W)
    BY DEF Prepared
  <2> QED BY <1>10, <2>1 DEF EntriesOf
<1>13. ASSUME NEW v \in W \ {m}
       PROVE  \/ EntryOf(v) \in EntriesIn(t.skipped)
              \/ Ahead(v, t)
              \/ Len(v.key.chain) > Len(t.rootKey)
  <2>1. EntryOf(v) # EntryOf(m)
    <3>1. ASSUME EntryOf(v) = EntryOf(m) PROVE FALSE
      <4>1. v.dh = m.dh /\ v.n = m.n
        BY <3>1 DEF EntryOf
      <4>2. v = m
        BY <4>1, HeaderNames
      <4> QED BY <4>2
    <3> QED BY <3>1
  <2>2. \/ EntryOf(v) \in EntriesIn(s.skipped) \/ Ahead(v, s) \/ Len(v.key.chain) > Len(s.rootKey)
    BY DEF Prepared
  <2>3. Ahead(v, t) <=> Ahead(v, s)
    BY <1>9 DEF Ahead
  <2> QED BY <1>9, <1>10, <2>1, <2>2, <2>3
<1>14. Prepared(t, p, W \ {m})
  BY <1>9, <1>11, <1>12, <1>13 DEF Prepared
<1> QED BY <1>7, <1>8, <1>14 DEF Opened

\* The key is one the receiving chain comes to.
LEMMA AheadReady ==
  ASSUME NEW e, NEW s, NEW p, NEW B, NEW O, NEW W, NEW m, Waits(e, s, p, B, O, W, m),
         EntryOf(m) \notin EntriesIn(s.skipped), s.receivingDh = m.dh,
         NEW r, r = DecryptSameChain(s, m)
  PROVE  Opened(r, p, W \ {m})
<1> e \in Ends /\ Facing(e, s, p, B, O) /\ W = B \ O /\ Prepared(s, p, W) /\ m \in W
  BY DEF Waits
<1>1. /\ StateOk(s) /\ s \in States /\ s.skipped \in Seq(Entries) /\ KeysDiffer(s.skipped)
      /\ StateOk(p) /\ p \in States /\ Keyed(Peer(e), s) /\ Keyed(e, p)
      /\ Leads(s, p) \/ Leads(p, s)
      /\ B \in SUBSET Messages /\ s.nr \in Nat /\ Len(s.rootKey) \in Nat
      /\ \A k \in KeysIn(s.skipped) : Behind(k, s)
      /\ \A w \in B : Past(w.key, p)
  BY StateTyped, PrefixSelf DEF Facing, StateOk
<1>2. m \in B /\ W \subseteq B
  OBVIOUS
<1>3. /\ m \in Messages /\ m.key = [chain |-> m.key.chain, n |-> m.n] /\ m.n \in Nat
      /\ m.dh = DhOf(e, Len(m.key.chain)) /\ m.dh # NoKey
      /\ Len(m.key.chain) \in Nat /\ Len(m.key.chain) >= 1
  BY <1>2, SealedAt
<1>4. Peer(Peer(e)) = e
  BY PeerOf
<1>5. Len(m.key.chain) = Len(s.rootKey) - 1 /\ Len(s.rootKey) # 1
  <2>1. Len(s.rootKey) # 1 /\ s.receivingDh = DhOf(e, Len(s.rootKey) - 1) /\ Len(s.rootKey) >= 1
    <3>1. /\ s.receivingDh = IF Len(s.rootKey) = 1 THEN NoKey ELSE DhOf(Peer(Peer(e)), Len(s.rootKey) - 1)
          /\ Len(s.rootKey) >= 1
      BY <1>1 DEF Keyed
    <3>2. m.dh # NoKey /\ s.receivingDh = m.dh
      BY <1>3
    <3>3. CASE Len(s.rootKey) = 1
      BY <3>1, <3>2, <3>3
    <3>4. CASE Len(s.rootKey) # 1
      BY <1>4, <3>1, <3>4
    <3> QED BY <3>3, <3>4
  <2>5. PICK l \in Nat : l = Len(s.rootKey)
    BY <1>1
  <2>6. l >= 1
    BY <2>1, <2>5
  <2>2. PICK a \in Nat : a = Len(s.rootKey) - 1
    BY <2>5, <2>6
  <2>3. PICK b \in Nat : b = Len(m.key.chain)
    BY <1>3
  <2>4. DhOf(e, a) = DhOf(e, b)
    BY <1>3, <2>1, <2>2, <2>3
  <2> QED BY <2>1, <2>2, <2>3, <2>4, DhApart
<1>6. Ahead(m, s)
  <2>1. ~(Len(m.key.chain) > Len(s.rootKey))
    BY <1>1, <1>5
  <2> QED BY <2>1 DEF Prepared
<1>7. PICK rk : rk = s.receivingKey
  OBVIOUS
<1>8. /\ rk # NoKey /\ rk \in Keys /\ rk.n = s.nr /\ m.key.chain = rk.chain /\ m.n >= s.nr
  BY <1>1, <1>6, <1>7, StateTyped DEF Ahead, StateOk
<1>9. PICK gap \in Nat : gap = m.n - s.nr /\ m.n = s.nr + gap
  BY <1>1, <1>3, <1>8
<1>11. /\ IsFiniteSet(KeysBut(W, m)) /\ Cardinality(KeysBut(W, m)) <= MaxSkipped
       /\ IsFiniteSet(W \ {m}) /\ Cardinality(W \ {m}) <= MaxSkipped
  BY FewKeys DEF Prepared
<1>12. EntriesIn(s.skipped) \subseteq EntriesOf(W \ {m})
  BY DEF Prepared, EntriesOf
<1>13. ASSUME NEW j \in Nat, s.nr <= j, j < s.nr + gap
       PROVE  \E w \in W \ {m} : w.key = [chain |-> rk.chain, n |-> j] /\ w.n = j /\ w.dh = m.dh
  <2>1. PICK w \in B \ {m} : /\ w.key = [chain |-> m.key.chain, n |-> j] /\ w.n = j
                             /\ w.key.chain = m.key.chain /\ w.dh = m.dh
    <3>1. j < m.n
      BY <1>9, <1>13
    <3> QED BY <1>2, <3>1, OneBefore
  <2>2. Ahead(w, s)
    BY <1>7, <1>8, <1>13, <2>1 DEF Ahead
  <2>3. w \in B \ O
    BY <2>2, NotOpened
  <2> QED BY <1>8, <2>1, <2>3
<1>15. \A l \in KeysIn(s.skipped) : l.chain = rk.chain => l.n < rk.n
  BY <1>1, <1>7, <1>8 DEF Behind
<1>17. PICK x : x = AppendSkipped(s.skipped, SkippedKeys(m.dh, rk, s.nr, gap))
  OBVIOUS
<1>19. Collected(W \ {m}, s.skipped, x, m.dh, rk, s.nr, gap)
  <2>1. PICK a \in Nat : a = s.nr
    BY <1>1
  <2>3. PICK dh \in Pubs \cup {NoKey} : dh = m.dh
    BY <1>3, EnvelopeTyped
  <2>2. Gap(W \ {m}, dh, rk, a, gap)
    BY <1>13, <2>1, <2>3 DEF Gap
  <2>4. PICK stored \in Seq(Entries) : stored = s.skipped
    BY <1>1
  <2>5. /\ KeysDiffer(stored) /\ rk.n = a /\ rk \in Keys
        /\ \A l \in KeysIn(stored) : l.chain = rk.chain => l.n < rk.n
        /\ EntriesIn(stored) \subseteq EntriesOf(W \ {m})
        /\ x = AppendSkipped(stored, SkippedKeys(dh, rk, a, gap))
    BY <1>1, <1>8, <1>12, <1>15, <1>17, <2>1, <2>3, <2>4
  <2>6. Collected(W \ {m}, stored, x, dh, rk, a, gap)
    BY <1>11, <2>2, <2>3, <2>5, Collects
  <2> QED BY <2>1, <2>3, <2>4, <2>6
<1>21. PICK c, key : c = Storing(s, x) /\ key = ChainStep(rk, gap)
  OBVIOUS
<1>22. r = TryKey(s, c, key, m)
  <2>1. ~(s.receivingKey = NoKey \/ m.n < s.nr) /\ ~(m.n - s.nr > MaxSkipped)
    BY <1>1, <1>3, <1>7, <1>8, <1>9, <1>19, SessionAssumptions DEF Collected
  <2>2. r = DecryptAdvanceChain(s, m)
    BY <2>1 DEF DecryptSameChain
  <2> QED BY <1>7, <1>9, <1>17, <1>21, <2>2 DEF DecryptAdvanceChain, Storing
<1>23. Opens(s, s, m, x, gap, r)
  BY <1>1, <1>7, <1>8, <1>21, <1>22, Tried
<1>24. m.key = ChainStep(s.receivingKey, gap)
  BY <1>3, <1>7, <1>8, <1>9 DEF ChainStep, Keys
<1>25. PICK t : t = r.state
  OBVIOUS
<1>26. /\ r.kind = "ok" /\ t.skipped = x /\ t.rootKey = s.rootKey
       /\ t.receivingKey # NoKey /\ t.receivingKey.chain = rk.chain /\ t.nr = m.n + 1
  BY <1>7, <1>23, <1>24, <1>25 DEF Opens
<1>28. ASSUME NEW v \in W \ {m}
       PROVE  \/ EntryOf(v) \in EntriesIn(t.skipped)
              \/ Ahead(v, t)
              \/ Len(v.key.chain) > Len(t.rootKey)
  <2>1. \/ EntryOf(v) \in EntriesIn(s.skipped) \/ Ahead(v, s) \/ Len(v.key.chain) > Len(s.rootKey)
    BY DEF Prepared
  <2>2. CASE EntryOf(v) \in EntriesIn(s.skipped)
    BY <1>19, <1>26, <2>2 DEF Collected
  <2>3. CASE Len(v.key.chain) > Len(s.rootKey)
    BY <1>26, <2>3
  <2>4. CASE Ahead(v, s)
    <3>1. v.key.chain = rk.chain /\ v.n >= s.nr
      BY <1>7, <2>4 DEF Ahead
    <3>2. v.n \in Nat /\ v.dh = DhOf(e, Len(v.key.chain)) /\ v.key = [chain |-> v.key.chain, n |-> v.n]
      <4>1. v \in B
        BY <1>2
      <4> QED BY <4>1, SealedAt
    <3>3. v.dh = m.dh
      BY <1>3, <1>8, <3>1, <3>2
    <3>4. v.n # m.n
      BY <1>2, <3>3, HeaderNames
    <3>5. CASE v.n < m.n
      <4>1. v.n < s.nr + gap
        BY <1>9, <3>5
      <4>2. EntryOf(v) \in EntriesIn(x)
        BY <1>19, <3>1, <3>2, <3>3, <4>1 DEF Collected
      <4> QED BY <1>26, <4>2
    <3>6. CASE v.n > m.n
      <4>1. v.n >= t.nr
        BY <1>3, <1>26, <3>2, <3>6
      <4> QED BY <1>26, <3>1, <4>1 DEF Ahead
    <3> QED BY <1>3, <3>2, <3>4, <3>5, <3>6
  <2> QED BY <2>1, <2>2, <2>3, <2>4
<1>29. ASSUME Len(t.rootKey) > Len(p.rootKey) PROVE t.nr <= p.ns
  <2>1. Len(p.rootKey) \in Nat
    BY <1>1, StateTyped, PrefixSelf
  <2>2. Leads(s, p)
    <3>1. ASSUME Leads(p, s) PROVE FALSE
      <4>1. Len(p.rootKey) = Len(s.rootKey) + 1
        BY <1>1, <3>1, LeadLength
      <4> QED BY <1>1, <1>26, <1>29, <2>1, <4>1
    <3> QED BY <1>1, <3>1
  <2>3. Len(s.rootKey) = Len(p.rootKey) + 1
    BY <1>1, <2>2, LeadLength
  <2>4. Past(m.key, p) /\ Len(m.key.chain) = Len(p.rootKey)
    BY <1>1, <1>2, <1>5, <2>1, <2>3
  <2>5. p.sendingKey # NoKey /\ m.key.n < p.sendingKey.n
    BY <2>1, <2>4 DEF Past
  <2>6. m.key.n = m.n /\ p.ns \in Nat
    BY <1>1, <1>3, StateTyped
  <2>7. m.n < p.ns
    BY <1>1, <2>5, <2>6 DEF Keyed
  <2> QED BY <1>3, <1>26, <2>6, <2>7
<1>30. IsFiniteSet(W \ {m}) /\ Cardinality(W \ {m}) <= MaxSkipped + 1
  BY <1>11, FS_CardinalityType, SessionAssumptions
<1>31. Prepared(t, p, W \ {m})
  BY <1>19, <1>26, <1>28, <1>29, <1>30 DEF Prepared, Collected
<1> QED BY <1>25, <1>26, <1>31 DEF Opened

\* What is kept of the old chain when m starts a new one.
LEMMA OldChainReady ==
  ASSUME NEW e \in Ends, NEW s, NEW p, NEW B, NEW O, Facing(e, s, p, B, O),
         NEW W, W = B \ O, Prepared(s, p, W), NEW m \in W,
         EntryOf(m) \notin EntriesIn(s.skipped), Len(m.key.chain) > Len(s.rootKey),
         NEW x, x = AppendSkipped(s.skipped,
                      IF s.receivingKey = NoKey \/ m.pn <= s.nr THEN <<>>
                      ELSE SkippedKeys(s.receivingDh, s.receivingKey, s.nr, m.pn - s.nr))
  PROVE  /\ EntriesIn(s.skipped) \subseteq EntriesIn(x)
         /\ EntriesIn(x) \subseteq EntriesOf(W \ {m})
         /\ ~(s.receivingKey # NoKey /\ m.pn - s.nr > MaxSkipped)
         /\ \A v \in W \ {m} : Ahead(v, s) => EntryOf(v) \in EntriesIn(x)
<1>1. /\ StateOk(s) /\ s \in States /\ s.skipped \in Seq(Entries) /\ KeysDiffer(s.skipped)
      /\ StateOk(p) /\ p \in States /\ Keyed(Peer(e), s) /\ Keyed(e, p)
      /\ Leads(s, p) \/ Leads(p, s)
      /\ B \in SUBSET Messages /\ s.nr \in Nat /\ Len(s.rootKey) \in Nat /\ s.rootKey \in Roots
      /\ s.receivingKey \in Keys \cup {NoKey} /\ s.receivingDh \in Pubs \cup {NoKey}
      /\ Genuine(e, p, B) /\ p.rootKey \in Roots /\ p.pn \in Nat
      /\ \A w \in B : Past(w.key, p)
  BY StateTyped, PrefixSelf DEF Facing, StateOk
<1>2. m \in B /\ W \subseteq B
  OBVIOUS
<1>3. /\ Leads(p, s) /\ m.key.chain = p.rootKey /\ m.pn = p.pn
      /\ Len(m.key.chain) = Len(s.rootKey) + 1
  <2>1. /\ StateOk(s) /\ StateOk(p) /\ Keyed(e, p) /\ (Leads(s, p) \/ Leads(p, s))
        /\ B \in SUBSET Messages /\ Genuine(e, p, B) /\ \A w \in B : Past(w.key, p)
    BY <1>1
  <2> QED BY <1>2, <2>1, Newest
<1>4. /\ Len(p.rootKey) = Len(s.rootKey) + 1 /\ Prefix(s.rootKey, p.rootKey)
  BY <1>1, <1>3, LeadLength
<1>5. /\ IsFiniteSet(KeysBut(W, m)) /\ Cardinality(KeysBut(W, m)) <= MaxSkipped
      /\ EntriesIn(s.skipped) \subseteq EntriesOf(W \ {m})
  BY FewKeys DEF Prepared, EntriesOf
<1>6. MaxSkipped \in Nat /\ m.pn \in Nat
  BY <1>1, <1>3, SessionAssumptions
<1>7. ASSUME s.receivingKey = NoKey \/ m.pn <= s.nr PROVE EntriesIn(x) = EntriesIn(s.skipped)
  <2>1. x = AppendSkipped(s.skipped, <<>>)
    BY <1>7
  <2>2. <<>> \in Seq(Entries) /\ KeysDiffer(<<>>) /\ KeysIn(<<>>) = {} /\ EntriesIn(<<>>) = {}
    BY DEF KeysDiffer, KeysIn, EntriesIn
  <2>3. KeysIn(s.skipped) \subseteq KeysBut(W, m)
    BY <1>1, <1>5, StoredKeys
  <2>4. PICK none \in Seq(Entries) : none = <<>>
    BY <2>2
  <2>5. EntriesIn(AppendSkipped(s.skipped, none)) = EntriesIn(s.skipped) \cup EntriesIn(none)
    BY <1>1, <1>5, <2>2, <2>3, <2>4, NothingEvicted
  <2> QED BY <2>1, <2>2, <2>4, <2>5
<1>8. CASE s.receivingKey = NoKey
  BY <1>5, <1>7, <1>8 DEF Ahead
<1>9. CASE s.receivingKey # NoKey
  <2>1. PICK rk \in Keys : rk = s.receivingKey
    BY <1>1, <1>9
  <2>2. /\ rk.n = s.nr /\ rk.chain \in Roots /\ Prefix(rk.chain, s.rootKey)
        /\ Len(rk.chain) = Len(s.rootKey) - 1
    BY <1>1, <1>9, <2>1 DEF StateOk, Keyed, Keys
  <2>3. Prefix(rk.chain, p.rootKey)
    BY <1>1, <1>4, <2>2, PrefixOf
  \* The envelopes of the chain of rk.
  <2>4. ASSUME NEW w \in B, Len(w.key.chain) = Len(p.rootKey) - 2
        PROVE  /\ w.key.chain = rk.chain /\ w.dh = s.receivingDh
               /\ w.key = [chain |-> rk.chain, n |-> w.n] /\ w.n \in Nat
    <3>1. /\ w.key = [chain |-> w.key.chain, n |-> w.n] /\ w.n \in Nat
          /\ w.dh = DhOf(e, Len(w.key.chain)) /\ Len(w.key.chain) >= 1
          /\ w.key.chain \in Roots
      BY SealedAt
    <3>2. Prefix(w.key.chain, p.rootKey)
      BY <1>1 DEF Genuine
    <3>3. Len(w.key.chain) = Len(rk.chain) /\ Len(w.key.chain) = Len(s.rootKey) - 1
      BY <1>1, <1>4, <2>2, <2>4
    <3>4. w.key.chain = rk.chain
      BY <1>1, <2>2, <2>3, <3>1, <3>2, <3>3, PrefixSame
    <3>5. s.receivingDh = DhOf(e, Len(s.rootKey) - 1)
      <4>1. Len(s.rootKey) # 1
        <5>1. PICK l \in Nat : l = Len(s.rootKey)
          BY <1>1
        <5>2. l - 1 >= 1
          BY <3>1, <3>3, <5>1
        <5>3. l # 1
          BY <5>2
        <5> QED BY <5>1, <5>3
      <4>2. Peer(Peer(e)) = e
        BY PeerOf
      <4> QED BY <1>1, <4>1, <4>2 DEF Keyed
    <3> QED BY <3>1, <3>3, <3>4, <3>5
  <2>5. ASSUME NEW v \in W \ {m}, Ahead(v, s)
        PROVE  /\ v.n < m.pn /\ v.n >= s.nr /\ v.n \in Nat /\ v.dh = s.receivingDh
               /\ v.key = [chain |-> rk.chain, n |-> v.n]
    <3>1. v \in B
      BY <1>2
    <3>2. v.key.chain = rk.chain /\ v.n >= s.nr
      BY <2>1, <2>5 DEF Ahead
    <3>3. Len(v.key.chain) = Len(p.rootKey) - 2
      BY <1>1, <1>4, <2>2, <3>2
    <3>4. v.n < p.pn
      BY <1>1, <3>1, <3>3 DEF Genuine
    <3> QED BY <1>3, <2>4, <3>1, <3>2, <3>3, <3>4
  <2>6. CASE m.pn <= s.nr
    <3>1. ~(m.pn - s.nr > MaxSkipped)
      BY <1>1, <1>6, <2>6
    <3>2. ASSUME NEW v \in W \ {m}, Ahead(v, s) PROVE FALSE
      <4>1. v.n < m.pn /\ v.n >= s.nr /\ v.n \in Nat
        BY <2>5, <3>2
      <4> QED BY <1>1, <1>6, <2>6, <4>1
    <3> QED BY <1>5, <1>7, <2>6, <3>1, <3>2
  <2>7. CASE ~(m.pn <= s.nr)
    <3>1. PICK k \in Nat : k = m.pn - s.nr /\ m.pn = s.nr + k
      BY <1>1, <1>6, <2>7
    <3>2. PICK a \in Nat : a = s.nr
      BY <1>1
    <3>3. PICK dh \in Pubs \cup {NoKey} : dh = s.receivingDh
      BY <1>1
    <3>4. ASSUME NEW j \in Nat, a <= j, j < a + k
          PROVE  \E w \in W \ {m} : w.key = [chain |-> rk.chain, n |-> j] /\ w.n = j /\ w.dh = dh
      <4>1. j < p.pn
        BY <1>3, <3>1, <3>2, <3>4
      <4>2. PICK w \in B : Len(w.key.chain) = Len(p.rootKey) - 2 /\ w.n = j
        BY <1>1, <4>1 DEF Genuine
      <4>3. w.key.chain = rk.chain /\ w.dh = dh /\ w.key = [chain |-> rk.chain, n |-> j]
        BY <2>4, <3>3, <4>2
      <4>4. Ahead(w, s)
        BY <1>9, <2>1, <3>2, <3>4, <4>2, <4>3 DEF Ahead
      <4>5. w \in B \ O
        BY <4>4, NotOpened
      <4>6. w # m
        BY <1>1, <1>3, <1>4, <4>2
      <4> QED BY <4>2, <4>3, <4>5, <4>6
    <3>5. Gap(W \ {m}, dh, rk, a, k)
      BY <3>4 DEF Gap
    <3>6. PICK stored \in Seq(Entries) : stored = s.skipped
      BY <1>1
    <3>7. /\ KeysDiffer(stored) /\ rk.n = a
          /\ EntriesIn(stored) \subseteq EntriesOf(W \ {m})
          /\ x = AppendSkipped(stored, SkippedKeys(dh, rk, a, k))
      BY <1>1, <1>5, <1>9, <2>1, <2>2, <2>7, <3>1, <3>2, <3>3, <3>6
    <3>8. \A l \in KeysIn(stored) : l.chain = rk.chain => l.n < rk.n
      BY <1>1, <1>9, <2>1, <3>6 DEF StateOk, Behind
    <3>9. Collected(W \ {m}, stored, x, dh, rk, a, k)
      BY <1>5, <3>5, <3>7, <3>8, Collects
    <3>10. ~(m.pn - s.nr > MaxSkipped)
      BY <1>6, <3>1, <3>9 DEF Collected
    <3>11. ASSUME NEW v \in W \ {m}, Ahead(v, s) PROVE EntryOf(v) \in EntriesIn(x)
      <4>1. /\ v.n < m.pn /\ v.n >= s.nr /\ v.n \in Nat /\ v.dh = s.receivingDh
            /\ v.key = [chain |-> rk.chain, n |-> v.n]
        BY <2>5, <3>11
      <4>2. a <= v.n /\ v.n < a + k /\ v.dh = dh
        BY <3>1, <3>2, <3>3, <4>1
      <4> QED BY <3>9, <4>1, <4>2 DEF Collected
    <3> QED BY <3>6, <3>9, <3>10, <3>11 DEF Collected
  <2> QED BY <2>6, <2>7
<1> QED BY <1>8, <1>9

\* The key is of a new chain.
LEMMA NewReady ==
  ASSUME NEW e, NEW s, NEW p, NEW B, NEW O, NEW W, NEW m, Waits(e, s, p, B, O, W, m),
         EntryOf(m) \notin EntriesIn(s.skipped), s.receivingDh # m.dh,
         NEW fresh \in Pubs, NEW r, r = DecryptNewChain(s, m, fresh)
  PROVE  Opened(r, p, W \ {m})
<1> e \in Ends /\ Facing(e, s, p, B, O) /\ W = B \ O /\ Prepared(s, p, W) /\ m \in W
  BY DEF Waits
<1>1. /\ StateOk(s) /\ s \in States /\ s.skipped \in Seq(Entries) /\ KeysDiffer(s.skipped)
      /\ StateOk(p) /\ p \in States /\ Keyed(Peer(e), s) /\ Keyed(e, p)
      /\ (Leads(s, p) \/ Leads(p, s))
      /\ B \in SUBSET Messages /\ Len(s.rootKey) \in Nat
      /\ Genuine(e, p, B) /\ p.rootKey \in Roots /\ p.ns \in Nat
      /\ \A w \in B : Past(w.key, p)
  BY StateTyped, PrefixSelf DEF Facing, StateOk
<1>2. m \in B /\ W \subseteq B
  OBVIOUS
<1>3. /\ m \in Messages /\ m.key = [chain |-> m.key.chain, n |-> m.n] /\ m.n \in Nat
      /\ m.dh = DhOf(e, Len(m.key.chain))
      /\ Len(m.key.chain) \in Nat /\ Len(m.key.chain) >= 1
  BY <1>2, SealedAt
<1>4. m.dh \in Pubs /\ m.dh \in Pubs \cup {NoKey}
  BY <1>3, EnvelopeTyped
<1>5. Len(m.key.chain) > Len(s.rootKey)
  <2>1. ASSUME Ahead(m, s) PROVE FALSE
    <3>1. Len(m.key.chain) = Len(s.rootKey) - 1
      BY <1>1, <2>1 DEF Ahead, Keyed
    <3>2. Len(s.rootKey) # 1
      <4>1. PICK l \in Nat : l = Len(s.rootKey)
        BY <1>1
      <4>2. l - 1 >= 1
        BY <1>3, <3>1, <4>1
      <4>3. l # 1
        BY <4>2
      <4> QED BY <4>1, <4>3
    <3>3. Peer(Peer(e)) = e
      BY PeerOf
    <3>4. s.receivingDh = DhOf(e, Len(s.rootKey) - 1)
      BY <1>1, <3>2, <3>3 DEF Keyed
    <3> QED BY <1>3, <3>1, <3>4
  <2> QED BY <2>1 DEF Prepared
<1>6. /\ Leads(p, s) /\ m.key.chain = p.rootKey /\ m.dh = p.sendingDh /\ m.n < p.ns
      /\ Len(m.key.chain) = Len(s.rootKey) + 1
  BY <1>1, <1>2, <1>5, Newest
<1>7. Received(s, m) = m.key.chain
  BY <1>1, <1>6, NewestReceived
<1>8. PICK next : next = Ratcheted(s, m, fresh)
  OBVIOUS
<1>9. /\ StateOk(next) /\ next.skipped \in Seq(Entries) /\ KeysDiffer(next.skipped)
      /\ next.receivingKey \in Keys /\ next.receivingKey # NoKey
      /\ next.receivingKey.n = 0 /\ next.nr = 0
      /\ Len(next.rootKey) = Len(s.rootKey) + 2
  <2>1. Moves(s, next) /\ next.receivingKey \in Keys /\ next.receivingKey.n = 0 /\ next.nr = 0
    BY <1>1, <1>3, <1>8, RatchetTurns
  <2>2. StateOk(next)
    BY <2>1 DEF Moves
  <2>3. next.skipped \in Seq(Entries) /\ KeysDiffer(next.skipped)
    BY <2>2, StateTyped DEF StateOk
  <2>4. Turned(s, next, m, fresh) /\ next.receivingKey # NoKey
    BY <1>1, <1>3, <1>8, AfterTurn
  <2>5. Len(next.rootKey) = Len(s.rootKey) + 2
    <3>1. next.rootKey = Append(m.key.chain, Dh(fresh, m.dh))
      BY <1>7, <2>4 DEF Turned
    <3>2. PICK c \in Roots : c = m.key.chain
      BY <1>1, <1>6
    <3>3. PICK y \in Pubs : y = m.dh
      BY <1>4
    <3>4. Len(Append(c, Dh(fresh, y))) = Len(c) + 1
      BY RootGrows
    <3> QED BY <1>1, <1>6, <3>1, <3>2, <3>3, <3>4
  <2> QED BY <2>1, <2>2, <2>3, <2>4, <2>5
<1>10. PICK nk \in Keys : nk = next.receivingKey
  BY <1>9
<1>11. nk # NoKey /\ nk.n = 0 /\ nk.chain = m.key.chain
  <2>1. nk # NoKey /\ nk.n = 0
    BY <1>9, <1>10
  <2>2. next.receivingKey = FirstKey(Received(s, m))
    BY <1>1, <1>3, <1>8, AfterTurn
  <2>3. nk = FirstKey(m.key.chain)
    BY <1>7, <1>10, <2>2
  <2>4. nk.chain = m.key.chain
    BY <2>3 DEF FirstKey
  <2> QED BY <2>1, <2>4
<1>12. /\ EntriesIn(s.skipped) \subseteq EntriesIn(next.skipped)
       /\ EntriesIn(next.skipped) \subseteq EntriesOf(W \ {m})
       /\ ~(s.receivingKey # NoKey /\ m.pn - s.nr > MaxSkipped)
       /\ \A v \in W \ {m} : Ahead(v, s) => EntryOf(v) \in EntriesIn(next.skipped)
  <2>1. PICK y : y = AppendSkipped(s.skipped,
                      IF s.receivingKey = NoKey \/ m.pn <= s.nr THEN <<>>
                      ELSE SkippedKeys(s.receivingDh, s.receivingKey, s.nr, m.pn - s.nr))
    OBVIOUS
  <2>2. next.skipped = y
    BY <1>8, <2>1 DEF Ratcheted
  <2> QED BY <1>5, <2>1, <2>2, OldChainReady
<1>13. /\ IsFiniteSet(KeysBut(W, m)) /\ Cardinality(KeysBut(W, m)) <= MaxSkipped
       /\ IsFiniteSet(W \ {m}) /\ Cardinality(W \ {m}) <= MaxSkipped + 1
  <2>1. /\ IsFiniteSet(KeysBut(W, m)) /\ Cardinality(KeysBut(W, m)) <= MaxSkipped
        /\ IsFiniteSet(W \ {m}) /\ Cardinality(W \ {m}) <= MaxSkipped
    BY FewKeys DEF Prepared
  <2> QED BY <2>1, FS_CardinalityType, SessionAssumptions
<1>14. PICK gap \in Nat : gap = m.n
  BY <1>3
<1>15. PICK dh \in Pubs \cup {NoKey} : dh = m.dh
  BY <1>4
<1>16. Gap(W \ {m}, dh, nk, 0, gap)
  <2>1. ASSUME NEW j \in Nat, j < gap
        PROVE  \E w \in W \ {m} : w.key = [chain |-> nk.chain, n |-> j] /\ w.n = j /\ w.dh = dh
    <3>1. PICK w \in B \ {m} : /\ w.key = [chain |-> m.key.chain, n |-> j] /\ w.n = j
                               /\ w.key.chain = m.key.chain /\ w.dh = m.dh
      BY <1>2, <1>14, <2>1, OneBefore
    <3>2. w \in B \ O
      BY <1>5, <3>1, NotOpened
    <3> QED BY <1>11, <1>15, <3>1, <3>2
  <2> QED BY <2>1 DEF Gap
<1>17. PICK stored \in Seq(Entries) : stored = next.skipped
  BY <1>9
<1>18. PICK x : x = AppendSkipped(stored, SkippedKeys(dh, nk, 0, gap))
  OBVIOUS
<1>19. Collected(W \ {m}, stored, x, dh, nk, 0, gap)
  <2>1. \A l \in KeysIn(stored) : l.chain = nk.chain => l.n < nk.n
    BY <1>9, <1>10, <1>17 DEF StateOk, Behind
  <2>2. KeysDiffer(stored) /\ EntriesIn(stored) \subseteq EntriesOf(W \ {m}) /\ 0 \in Nat
    BY <1>9, <1>12, <1>17
  <2>3. PICK zero \in Nat : zero = 0
    OBVIOUS
  <2>4. /\ nk.n = zero /\ Gap(W \ {m}, dh, nk, zero, gap)
        /\ x = AppendSkipped(stored, SkippedKeys(dh, nk, zero, gap))
    BY <1>11, <1>16, <1>18, <2>3
  <2>5. Collected(W \ {m}, stored, x, dh, nk, zero, gap)
    BY <1>13, <2>1, <2>2, <2>4, Collects
  <2> QED BY <2>3, <2>5
<1>20. PICK c, key : c = Storing(next, x) /\ key = ChainStep(nk, gap)
  OBVIOUS
<1>21. r = TryKey(s, c, key, m)
  <2>1. ~(m.n > MaxSkipped)
    BY <1>14, <1>19, SessionAssumptions DEF Collected
  <2>2. r = TryKey(s, [next EXCEPT !.skipped = AppendSkipped(@, SkippedKeys(m.dh, next.receivingKey, next.nr, m.n))],
                   ChainStep(next.receivingKey, m.n), m)
    BY <1>1, <1>3, <1>8, <1>12, <2>1, NewChainWays
  <2> QED BY <1>9, <1>10, <1>14, <1>15, <1>17, <1>18, <1>20, <2>2 DEF Storing
<1>22. Opens(s, next, m, x, gap, r)
  BY <1>9, <1>10, <1>20, <1>21, Tried
<1>23. m.key = ChainStep(next.receivingKey, gap)
  BY <1>3, <1>10, <1>11, <1>14 DEF ChainStep, Keys
<1>24. PICK t : t = r.state
  OBVIOUS
<1>25. /\ r.kind = "ok" /\ t.skipped = x /\ t.rootKey = next.rootKey
       /\ t.receivingKey # NoKey /\ t.receivingKey.chain = m.key.chain /\ t.nr = m.n + 1
  BY <1>10, <1>11, <1>22, <1>23, <1>24 DEF Opens
<1>26. ASSUME NEW v \in W \ {m}
       PROVE  \/ EntryOf(v) \in EntriesIn(t.skipped)
              \/ Ahead(v, t)
              \/ Len(v.key.chain) > Len(t.rootKey)
  <2>1. \/ EntryOf(v) \in EntriesIn(s.skipped) \/ Ahead(v, s) \/ Len(v.key.chain) > Len(s.rootKey)
    BY DEF Prepared
  <2>2. CASE EntryOf(v) \in EntriesIn(s.skipped) \/ Ahead(v, s)
    BY <1>12, <1>17, <1>19, <1>25, <2>2 DEF Collected
  <2>3. CASE Len(v.key.chain) > Len(s.rootKey)
    <3>0. v \in B
      BY <1>2
    <3>1. v.key.chain = p.rootKey
      BY <1>1, <2>3, <3>0, Newest
    <3>2. v.n \in Nat /\ v.dh = DhOf(e, Len(v.key.chain)) /\ v.key = [chain |-> v.key.chain, n |-> v.n]
      BY <3>0, SealedAt
    <3>3. v.dh = m.dh /\ v.key.chain = m.key.chain
      BY <1>3, <1>6, <3>1, <3>2
    <3>4. v.n # m.n
      BY <1>2, <3>3, HeaderNames
    <3>5. CASE v.n < m.n
      <4>1. 0 <= v.n /\ v.n < 0 + gap /\ v.dh = dh /\ v.key = [chain |-> nk.chain, n |-> v.n]
        BY <1>11, <1>14, <1>15, <3>2, <3>3, <3>5
      <4>2. EntryOf(v) \in EntriesIn(x)
        BY <1>19, <3>2, <4>1 DEF Collected
      <4> QED BY <1>25, <4>2
    <3>6. CASE v.n > m.n
      <4>1. v.n >= t.nr
        BY <1>3, <1>25, <3>2, <3>6
      <4> QED BY <1>25, <3>3, <4>1 DEF Ahead
    <3> QED BY <1>3, <3>2, <3>4, <3>5, <3>6
  <2> QED BY <2>1, <2>2, <2>3
<1>27. t.nr <= p.ns
  BY <1>1, <1>3, <1>6, <1>25
<1>28. Prepared(t, p, W \ {m})
  BY <1>13, <1>19, <1>25, <1>26, <1>27 DEF Prepared, Collected
<1> QED BY <1>24, <1>25, <1>28 DEF Opened

\* A state that is ready opens an envelope it waits for.
LEMMA WaitingOpens ==
  ASSUME NEW e, NEW s, NEW p, NEW B, NEW O, NEW W, NEW m, Waits(e, s, p, B, O, W, m),
         NEW fresh \in Pubs, NEW r, r = DecryptFromDevice(s, m, fresh)
  PROVE  Opened(r, p, W \ {m})
<1> e \in Ends /\ Facing(e, s, p, B, O) /\ W = B \ O /\ Prepared(s, p, W) /\ m \in W
  BY DEF Waits
<1>1. StateOk(s)
  BY DEF Facing
<1>2. ASSUME NEW i \in DOMAIN s.skipped, s.skipped[i].dh = m.dh, s.skipped[i].n = m.n,
             r = TrySkippedKey(s, i, m)
      PROVE  Opened(r, p, W \ {m})
  BY <1>2, StoredReady
<1>3. ASSUME \A i \in DOMAIN s.skipped : ~(s.skipped[i].dh = m.dh /\ s.skipped[i].n = m.n)
      PROVE  EntryOf(m) \notin EntriesIn(s.skipped)
  <2>1. EntryOf(m).dh = m.dh /\ EntryOf(m).n = m.n
    BY DEF EntryOf
  <2> QED BY <1>3, <2>1 DEF EntriesIn
<1>4. ASSUME EntryOf(m) \notin EntriesIn(s.skipped), s.receivingDh = m.dh, r = DecryptSameChain(s, m)
      PROVE  Opened(r, p, W \ {m})
  BY <1>4, AheadReady
<1>5. ASSUME EntryOf(m) \notin EntriesIn(s.skipped), s.receivingDh # m.dh, r = DecryptNewChain(s, m, fresh)
      PROVE  Opened(r, p, W \ {m})
  BY <1>5, NewReady
<1> QED BY <1>1, <1>2, <1>3, <1>4, <1>5, Ways

-----------------------------------------------------------------------------
(* Sealing.                                                                *)

LEMMA SealedFields ==
  ASSUME NEW s, StateOk(s), s.sendingKey # NoKey, NEW id \in Nat,
         NEW t, t = Sealed(s), NEW m, m = Seal(s, id)
  PROVE  /\ t.rootKey = s.rootKey /\ t.sendingDh = s.sendingDh /\ t.receivingDh = s.receivingDh
         /\ t.receivingKey = s.receivingKey /\ t.nr = s.nr /\ t.pn = s.pn /\ t.skipped = s.skipped
         /\ t.ns = s.ns + 1 /\ s.ns \in Nat
         /\ t.sendingKey # NoKey /\ t.sendingKey.n = s.sendingKey.n + 1
         /\ m \in Messages /\ m.dh = s.sendingDh /\ m.pn = s.pn /\ m.n = s.ns
         /\ m.key = s.sendingKey /\ m.key.chain = s.rootKey
<1>1. s \in States /\ s.sendingKey \in Keys /\ s.ns \in Nat /\ s.sendingKey.chain = s.rootKey
  BY StateTyped DEF StateOk
<1>2. PICK key \in Keys : key = ChainStep(s.sendingKey, 1)
  BY <1>1, Stepped
<1>3. t = [s EXCEPT !.sendingKey = key, !.ns = s.ns + 1]
  BY <1>2 DEF Sealed
<1>4. /\ t.rootKey = s.rootKey /\ t.sendingDh = s.sendingDh /\ t.receivingDh = s.receivingDh
      /\ t.receivingKey = s.receivingKey /\ t.nr = s.nr /\ t.pn = s.pn /\ t.skipped = s.skipped
      /\ t.ns = s.ns + 1
  BY <1>1, <1>3 DEF States
<1>5. t.sendingKey # NoKey /\ t.sendingKey.n = s.sendingKey.n + 1
  BY SealsOn
<1>6. m = [dh |-> s.sendingDh, pn |-> s.pn, n |-> s.ns, key |-> s.sendingKey, id |-> id]
  BY DEF Seal, Encrypted, Header
<1>7. m \in Messages
  BY <1>1, SealTyped
<1> QED BY <1>1, <1>4, <1>5, <1>6, <1>7

LEMMA SealGenuine ==
  ASSUME NEW d \in Ends, NEW s, StateOk(s), Keyed(d, s), s.sendingKey # NoKey,
         NEW B \in SUBSET Messages, Genuine(d, s, B), NEW id \in Nat,
         NEW t, t = Sealed(s), NEW m, m = Seal(s, id)
  PROVE  Keyed(d, t) /\ Genuine(d, t, B \cup {m})
<1>1. /\ t.rootKey = s.rootKey /\ t.sendingDh = s.sendingDh /\ t.receivingDh = s.receivingDh
      /\ t.receivingKey = s.receivingKey /\ t.nr = s.nr /\ t.pn = s.pn /\ t.skipped = s.skipped
      /\ t.ns = s.ns + 1 /\ s.ns \in Nat
      /\ t.sendingKey # NoKey /\ t.sendingKey.n = s.sendingKey.n + 1
      /\ m \in Messages /\ m.dh = s.sendingDh /\ m.pn = s.pn /\ m.n = s.ns
      /\ m.key = s.sendingKey /\ m.key.chain = s.rootKey
  BY SealedFields
<1>2. s.sendingKey.n = s.ns /\ Len(s.rootKey) # 1 /\ Len(s.rootKey) >= 1 /\ s.sendingDh = DhOf(d, Len(s.rootKey))
  BY DEF Keyed
<1>3. Keyed(d, t)
  BY <1>1, <1>2 DEF Keyed
<1>4. s.rootKey \in Roots /\ Len(s.rootKey) \in Nat /\ Prefix(s.rootKey, s.rootKey)
  <2>1. s.rootKey \in Roots
    BY StateTyped DEF StateOk
  <2>2. PICK root \in Roots : root = s.rootKey
    BY <2>1
  <2> QED BY <2>1, <2>2, PrefixSelf
<1>5. ASSUME NEW w \in B \cup {m}
      PROVE  /\ w.key.n = w.n
             /\ w.dh = DhOf(d, Len(w.key.chain)) /\ Len(w.key.chain) >= 1
             /\ Prefix(w.key.chain, t.rootKey)
             /\ w.key.chain = t.rootKey => w.pn = t.pn
             /\ Len(w.key.chain) = Len(t.rootKey) - 2 => w.n < t.pn
             /\ \A n \in Nat : n < w.n => \E v \in B \cup {m} : v.key.chain = w.key.chain /\ v.n = n
  <2>1. CASE w \in B
    BY <1>1, <2>1 DEF Genuine
  <2>2. CASE w = m
    <3>1. \A n \in Nat : n < s.ns => \E v \in B : v.key.chain = s.rootKey /\ v.n = n
      BY DEF Genuine
    <3>2. ~(Len(s.rootKey) = Len(s.rootKey) - 2)
      BY <1>4
    <3> QED BY <1>1, <1>2, <1>4, <2>2, <3>1, <3>2
  <2> QED BY <2>1, <2>2
<1>6. ASSUME NEW n \in Nat, n < t.ns PROVE \E w \in B \cup {m} : w.key.chain = t.rootKey /\ w.n = n
  <2>1. CASE n = s.ns
    BY <1>1, <2>1
  <2>2. CASE n # s.ns
    <3>1. n < s.ns
      BY <1>1, <1>6, <2>2
    <3> QED BY <1>1, <3>1 DEF Genuine
  <2> QED BY <2>1, <2>2
<1>7. \A n \in Nat : n < t.pn => \E w \in B \cup {m} : Len(w.key.chain) = Len(t.rootKey) - 2 /\ w.n = n
  BY <1>1 DEF Genuine
<1>8. Genuine(d, t, B \cup {m})
  BY <1>5, <1>6, <1>7 DEF Genuine
<1> QED BY <1>3, <1>8

\* A device is still ready when its peer has sealed one more, ...
LEMMA PeerSeals ==
  ASSUME NEW e \in Ends, NEW s, NEW p, NEW B, NEW O, Facing(e, s, p, B, O), Prepared(s, p, B \ O),
         p.sendingKey # NoKey, NEW id \in Nat, NEW q, q = Sealed(p), NEW m, m = Seal(p, id),
         NEW V, V = (B \cup {m}) \ O, IsFiniteSet(V), Cardinality(V) <= MaxSkipped + 1
  PROVE  Prepared(s, q, V)
<1>1. /\ StateOk(p) /\ p \in States /\ StateOk(s) /\ s \in States /\ Keyed(e, p) /\ Keyed(Peer(e), s)
      /\ Leads(s, p) \/ Leads(p, s)
      /\ s.rootKey \in Roots /\ p.rootKey \in Roots /\ s.nr \in Nat
      /\ s.receivingKey \in Keys \cup {NoKey}
  BY StateTyped DEF Facing, StateOk
<1>2. /\ q.rootKey = p.rootKey /\ q.ns = p.ns + 1 /\ p.ns \in Nat
      /\ m.n = p.ns /\ m.key.chain = p.rootKey
  BY <1>1, SealedFields
<1>3. EntriesIn(s.skipped) \subseteq EntriesOf(V)
  <2>1. EntriesOf(B \ O) \subseteq EntriesOf(V)
    BY DEF EntriesOf
  <2> QED BY <2>1 DEF Prepared
<1>4. Len(s.rootKey) > Len(p.rootKey) /\ s.receivingKey # NoKey => s.nr <= p.ns
  BY DEF Prepared
<1>5. Ahead(m, s) \/ Len(m.key.chain) > Len(s.rootKey)
  <2>1. CASE Leads(p, s)
    <3>1. Len(p.rootKey) = Len(s.rootKey) + 1 /\ Len(s.rootKey) \in Nat
      BY <1>1, <2>1, LeadLength
    <3>2. Len(p.rootKey) > Len(s.rootKey)
      BY <3>1
    <3> QED BY <1>2, <3>2
  <2>2. CASE Leads(s, p)
    <3>1. /\ Len(s.rootKey) = Len(p.rootKey) + 1 /\ Len(p.rootKey) \in Nat
          /\ Prefix(p.rootKey, s.rootKey)
      BY <1>1, <2>2, LeadLength
    <3>2. PICK l \in Nat : l = Len(p.rootKey)
      BY <3>1
    <3>3. l >= 1 /\ l # 1
      BY <1>1, <3>2 DEF Keyed
    <3>4. Len(s.rootKey) = l + 1 /\ ~(Len(s.rootKey) <= 2) /\ Len(s.rootKey) > Len(p.rootKey)
      <4>1. Len(s.rootKey) = l + 1
        BY <3>1, <3>2
      <4>2. l + 1 > l /\ ~(l + 1 <= 2)
        BY <3>3
      <4> QED BY <3>2, <4>1, <4>2
    <3>5. s.receivingKey # NoKey
      BY <3>4 DEF Prepared
    <3>6. PICK c \in Roots : c = s.receivingKey.chain
      BY <1>1, <3>5 DEF Keys
    <3>7. Prefix(c, s.rootKey) /\ Len(c) = Len(s.rootKey) - 1
      BY <1>1, <3>5, <3>6 DEF Keyed
    <3>8. Len(c) = Len(p.rootKey)
      BY <3>1, <3>7
    <3>9. c = p.rootKey
      BY <1>1, <3>1, <3>7, <3>8, PrefixSame
    <3>10. m.n >= s.nr
      BY <1>1, <1>2, <1>4, <3>4, <3>5
    <3> QED BY <1>2, <3>5, <3>6, <3>9, <3>10 DEF Ahead
  <2> QED BY <1>1, <2>1, <2>2
<1>6. ASSUME NEW v \in V
      PROVE  \/ EntryOf(v) \in EntriesIn(s.skipped)
             \/ Ahead(v, s)
             \/ Len(v.key.chain) > Len(s.rootKey)
  <2>1. CASE v \in B \ O
    BY <2>1 DEF Prepared
  <2>2. CASE v = m
    BY <1>5, <2>2
  <2> QED BY <2>1, <2>2
<1>7. Len(s.rootKey) > Len(q.rootKey) /\ s.receivingKey # NoKey => s.nr <= q.ns
  BY <1>1, <1>2, <1>4
<1>8. s.receivingKey = NoKey => Len(s.rootKey) <= 2
  BY DEF Prepared
<1> QED BY <1>3, <1>6, <1>7, <1>8 DEF Prepared

\* ... or it has sealed one itself.
LEMMA ReadySealed ==
  ASSUME NEW s, StateOk(s), s.sendingKey # NoKey, NEW t, t = Sealed(s),
         NEW p, NEW W, Prepared(s, p, W)
  PROVE  Prepared(t, p, W)
<1>1. PICK m : m = Seal(s, 0)
  OBVIOUS
<1>2. /\ t.rootKey = s.rootKey /\ t.receivingKey = s.receivingKey /\ t.nr = s.nr /\ t.skipped = s.skipped
  BY <1>1, SealedFields
<1> QED BY <1>2 DEF Prepared, Ahead

-----------------------------------------------------------------------------
(* Opening.                                                                *)

\* The envelope leaves the root as it is ...
LEMMA SameKeyed ==
  ASSUME NEW d, NEW s, NEW t, Same(s, t), Keyed(d, s), NEW C, Genuine(d, s, C), NEW p
  PROVE  /\ Keyed(d, t) /\ Genuine(d, t, C)
         /\ Leads(s, p) => Leads(t, p)
         /\ Leads(p, s) => Leads(p, t)
<1>1. Keyed(d, t)
  BY DEF Same, Keyed
<1>2. Genuine(d, t, C)
  BY DEF Same, Genuine
<1> QED BY <1>1, <1>2 DEF Same, Leads

\* ... or starts a new chain, and the device leads.
LEMMA TurnKeyed ==
  ASSUME NEW e \in Ends, NEW s, NEW p, NEW B, NEW O, Facing(e, s, p, B, O), NEW m \in B,
         NEW fresh \in Pubs, fresh = <<Peer(e), Len(s.rootKey), 0>>,
         NEW t, StateOk(t), Turned(s, t, m, fresh), m.key.chain = Received(s, m),
         NEW C \in SUBSET Messages, Genuine(Peer(e), s, C), \A w \in C : Past(w.key, s)
  PROVE  /\ Leads(t, p) /\ Len(t.rootKey) > Len(p.rootKey)
         /\ Keyed(Peer(e), t) /\ Genuine(Peer(e), t, C)
<1>1. /\ StateOk(p) /\ p \in States /\ StateOk(s) /\ s \in States /\ Keyed(e, p) /\ Keyed(Peer(e), s)
      /\ Leads(s, p) \/ Leads(p, s)
      /\ B \in SUBSET Messages /\ Genuine(e, p, B) /\ (\A w \in B : Past(w.key, p))
      /\ Peer(e) \in Ends /\ Peer(Peer(e)) = e
  BY PeerOf DEF Facing, StateOk
<1>2. /\ s.rootKey \in Roots /\ p.rootKey \in Roots /\ p.sendingDh \in Pubs /\ s.sendingDh \in Pubs
      /\ m.dh \in Pubs /\ t.rootKey \in Roots /\ s.ns \in Nat
  BY <1>1, StateTyped, EnvelopeTyped DEF StateOk
<1>3. PICK root \in Roots : root = s.rootKey
  BY <1>2
<1>4. PICK x \in Pubs : x = s.sendingDh
  BY <1>2
<1>5. PICK y \in Pubs : y = m.dh
  BY <1>2
<1>6. PICK c \in Roots : c = Append(root, Dh(x, y))
  BY RootGrows
<1>7. c = Received(s, m) /\ c = m.key.chain /\ Len(c) = Len(root) + 1 /\ Len(root) \in Nat /\ Prefix(root, c)
  BY <1>3, <1>4, <1>5, <1>6, RootGrows, PrefixGrows DEF Received
<1>8. Len(m.key.chain) > Len(s.rootKey)
  BY <1>3, <1>7
<1>9. c = p.rootKey /\ m.dh = p.sendingDh
  BY <1>1, <1>7, <1>8, Newest
<1>10. /\ t.rootKey = Append(c, Dh(fresh, y)) /\ t.sendingDh = fresh /\ t.receivingDh = y
       /\ t.sendingKey = FirstKey(t.rootKey) /\ t.ns = 0 /\ t.pn = s.ns
       /\ t.receivingKey # NoKey => t.receivingKey.chain = c
  BY <1>5, <1>7 DEF Turned
<1>11. Leads(t, p)
  BY <1>5, <1>9, <1>10 DEF Leads
<1>12. Len(t.rootKey) = Len(c) + 1 /\ Prefix(c, t.rootKey)
  BY <1>10, RootGrows, PrefixGrows
<1>13. PICK l \in Nat : l = Len(root)
  BY <1>7
<1>14. Len(c) = l + 1 /\ Len(t.rootKey) = l + 2 /\ l >= 1 /\ Len(s.rootKey) = l
  BY <1>1, <1>3, <1>7, <1>12, <1>13 DEF Keyed
<1>15. Keyed(Peer(e), t)
  <2>1. t.sendingDh = DhOf(Peer(e), Len(t.rootKey))
    <3>1. fresh = <<Peer(e), l, 0>>
      BY <1>14
    <3>2. <<Peer(e), l, 0>> = DhOf(Peer(e), l + 2)
      BY <1>1, <1>14, FreshIsNext
    <3> QED BY <1>10, <1>14, <3>1, <3>2
  <2>2. t.receivingDh = IF Len(t.rootKey) = 1 THEN NoKey ELSE DhOf(Peer(Peer(e)), Len(t.rootKey) - 1)
    <3>1. y = DhOf(e, Len(c))
      BY <1>1, <1>5, <1>9 DEF Keyed
    <3>2. Len(t.rootKey) # 1 /\ Len(t.rootKey) - 1 = Len(c)
      BY <1>14
    <3> QED BY <1>1, <1>10, <3>1, <3>2
  <2>3. t.sendingKey # NoKey /\ t.sendingKey.n = t.ns
    <3>1. FirstKey(t.rootKey).n = 0
      BY DEF FirstKey
    <3>2. FirstKey(t.rootKey) \in Keys
      BY <1>2 DEF FirstKey, Keys
    <3>3. FirstKey(t.rootKey) # NoKey
      BY <3>2, Stepped
    <3> QED BY <1>10, <3>1, <3>2, <3>3
  <2>4. Len(t.rootKey) >= 1 /\ Len(t.rootKey) # 1 /\ Len(c) = Len(t.rootKey) - 1
    BY <1>14
  <2> QED BY <1>10, <1>12, <2>1, <2>2, <2>3, <2>4 DEF Keyed
<1>16. Prefix(root, t.rootKey)
  BY <1>2, <1>7, <1>12, PrefixOf
<1>17. ASSUME NEW w \in C
       PROVE  /\ w.key.n = w.n
              /\ w.dh = DhOf(Peer(e), Len(w.key.chain)) /\ Len(w.key.chain) >= 1
              /\ Prefix(w.key.chain, t.rootKey)
              /\ w.key.chain = t.rootKey => w.pn = t.pn
              /\ Len(w.key.chain) = Len(t.rootKey) - 2 => w.n < t.pn
              /\ \A n \in Nat : n < w.n => \E v \in C : v.key.chain = w.key.chain /\ v.n = n
  <2>1. /\ w.key.n = w.n
        /\ w.dh = DhOf(Peer(e), Len(w.key.chain)) /\ Len(w.key.chain) >= 1
        /\ Prefix(w.key.chain, s.rootKey)
        /\ \A n \in Nat : n < w.n => \E v \in C : v.key.chain = w.key.chain /\ v.n = n
    BY DEF Genuine
  <2>2. PICK f \in Roots : f = w.key.chain
    BY EnvelopeTyped
  <2>3. Prefix(f, root) /\ Len(f) \in Nat
    BY <1>3, <2>1, <2>2, PrefixSelf
  <2>4. Prefix(f, t.rootKey)
    BY <1>2, <1>16, <2>3, PrefixOf
  <2>5. Len(f) <= l
    BY <1>13, <2>3 DEF Prefix
  <2>6. f # t.rootKey
    BY <1>14, <2>3, <2>5
  <2>7. ASSUME Len(f) = Len(t.rootKey) - 2 PROVE w.n < t.pn
    <3>1. Len(f) = Len(root)
      BY <1>13, <1>14, <2>7
    <3>2. Prefix(root, root)
      BY PrefixSelf
    <3>3. f = root
      BY <2>3, <3>1, <3>2, PrefixSame
    <3>4. Past(w.key, s)
      OBVIOUS
    <3>5. ~(Len(w.key.chain) < Len(s.rootKey))
      BY <1>3, <1>7, <2>2, <3>3
    <3>6. s.sendingKey # NoKey /\ w.key.n < s.sendingKey.n
      BY <3>4, <3>5 DEF Past
    <3> QED BY <1>1, <1>10, <2>1, <3>6 DEF Keyed
  <2> QED BY <2>1, <2>2, <2>4, <2>6, <2>7
<1>18. \A n \in Nat : n < t.ns => \E w \in C : w.key.chain = t.rootKey /\ w.n = n
  BY <1>10
<1>19. ASSUME NEW n \in Nat, n < t.pn
       PROVE  \E w \in C : Len(w.key.chain) = Len(t.rootKey) - 2 /\ w.n = n
  <2>1. PICK w \in C : w.key.chain = s.rootKey /\ w.n = n
    BY <1>10, <1>19 DEF Genuine
  <2>2. Len(w.key.chain) = Len(t.rootKey) - 2
    BY <1>14, <2>1
  <2> QED BY <2>1, <2>2
<1>20. Genuine(Peer(e), t, C)
  BY <1>17, <1>18, <1>19 DEF Genuine
<1>21. Len(t.rootKey) > Len(p.rootKey)
  BY <1>9, <1>14
<1> QED BY <1>11, <1>15, <1>20, <1>21

\* What the envelope changes for the peer of the device.
LEMMA PeerStays ==
  ASSUME NEW p, NEW s, NEW W, Prepared(p, s, W),
         NEW t, Same(s, t) \/ (Len(t.rootKey) > Len(p.rootKey) /\ t.rootKey \in Roots /\ p.rootKey \in Roots)
  PROVE  Prepared(p, t, W)
<1>1. ASSUME Same(s, t) PROVE Prepared(p, t, W)
  BY <1>1 DEF Same, Prepared
<1>2. ASSUME Len(t.rootKey) > Len(p.rootKey), t.rootKey \in Roots, p.rootKey \in Roots PROVE Prepared(p, t, W)
  <2>1. Len(t.rootKey) \in Nat /\ Len(p.rootKey) \in Nat
    BY <1>2, PrefixSelf
  <2>2. ~(Len(p.rootKey) > Len(t.rootKey))
    BY <1>2, <2>1
  <2> QED BY <2>2 DEF Prepared
<1> QED BY <1>1, <1>2

-----------------------------------------------------------------------------
(* Refusals.                                                               *)

\* Each root is the other's with one more secret, and what each device sent
\* is of a root its own has grown from.
Paired ==
  /\ Leads(session[Alice], session[Bob]) \/ Leads(session[Bob], session[Alice])
  /\ \A d \in Ends : Keyed(d, session[d]) /\ Genuine(d, session[d], sealed[d])

\* The device can open whatever waits for it, in any order.
OpenTo(d) ==
  /\ Prepared(session[d], session[Peer(d)], sealed[Peer(d)] \ opened[d])
  /\ refused[d] = {}

RefusalInv ==
  /\ SessionInv
  /\ refused \in [Ends -> SUBSET Messages] /\ excused \in SUBSET Ends
  /\ Intact = Ends => /\ excused # Ends => Paired
                   /\ \A d \in Ends \ excused : OpenTo(d)

\* While no session was overwritten, the invariant says it all of either device.
LEMMA BothIntact ==
  ASSUME SessionInv, Intact = Ends, NEW d \in Ends
  PROVE  overwritten[d] = 0 /\ DeviceOk(d) /\ NamesOk(d) /\ RowsOk(d) /\ SentOk(d)
  BY DEF Intact, SessionInv, KeptOk

LEMMA EndsFace ==
  ASSUME SessionInv, Intact = Ends, Paired, NEW d \in Ends
  PROVE  Facing(Peer(d), session[d], session[Peer(d)], sealed[Peer(d)], opened[d])
<1>1. Peer(d) \in Ends /\ Peer(Peer(d)) = d /\ (d = Alice \/ d = Bob)
  BY PeerOf DEF Ends
<1>2. StateOk(session[d]) /\ StateOk(session[Peer(d)])
  BY <1>1 DEF SessionInv, DeviceOk, Sound
<1>3. /\ Keyed(d, session[d]) /\ Keyed(Peer(d), session[Peer(d)])
      /\ Genuine(Peer(d), session[Peer(d)], sealed[Peer(d)])
  BY <1>1 DEF Paired
<1>4. Leads(session[d], session[Peer(d)]) \/ Leads(session[Peer(d)], session[d])
  <2>1. Peer(Alice) = Bob /\ Peer(Bob) = Alice
    BY DEF Peer, Alice, Bob
  <2> QED BY <1>1, <2>1 DEF Paired
<1>5. sealed[Peer(d)] \subseteq Messages
  BY <1>1 DEF SessionInv, SessionTypes
<1>6. \A m \in sealed[Peer(d)] : Past(m.key, session[Peer(d)])
  BY <1>1, BothIntact DEF SentOk
<1>7. \A m1, m2 \in sealed[Peer(d)] : m1.key = m2.key => m1 = m2
  BY <1>1, BothIntact DEF SentOk
<1>8. \A m \in opened[d] : Retired(m.key, session[d])
  BY BothIntact DEF RowsOk
<1> QED BY <1>1, <1>2, <1>3, <1>4, <1>5, <1>6, <1>7, <1>8 DEF Facing

\* A save after which no session is overwritten was made over what was loaded.
LEMMA StillIntact ==
  ASSUME SessionTypes, NEW d \in Ends, NEW i \in Slots, NEW t, SaveSession(d, i, t), Intact' = Ends
  PROVE  Intact = Ends /\ job[d][i].state = session[d] /\ Overwrites(d, i) = 0
<1>1. PICK n : n = Overwrites(d, i)
  OBVIOUS
<1>2. overwritten' = [overwritten EXCEPT ![d] = n] /\ overwritten \in [Ends -> Nat]
  BY <1>1 DEF SaveSession, SessionTypes
<1>3. \A e \in Ends : overwritten'[e] = 0
  BY DEF Intact
<1>4. n = 0 /\ \A e \in Ends \ {d} : overwritten[e] = 0
  BY <1>2, <1>3
<1>5. overwritten[d] \in Nat /\ overwritten[d] + 1 # 0
  BY <1>2
<1>6. session[d] = job[d][i].state /\ overwritten[d] = 0
  BY <1>1, <1>4, <1>5 DEF Overwrites
<1> QED BY <1>1, <1>4, <1>6 DEF Intact

\* The device seals an envelope.
LEMMA SealKept ==
  ASSUME RefusalInv, NEW d \in Ends, NEW i \in Slots, EncryptForDevice(d, i), Intact' = Ends
  PROVE  RefusalInv'
<1>20. Intact = Ends /\ job[d][i].state = session[d]
  <2>1. SessionTypes /\ SaveSession(d, i, Sealed(job[d][i].state))
    BY DEF RefusalInv, SessionInv, EncryptForDevice
  <2> QED BY <2>1, StillIntact
<1>1. /\ SessionTypes /\ DeviceOk(d) /\ SessionInv
      /\ Peer(d) \in Ends /\ Peer(d) # d /\ Peer(Peer(d)) = d /\ (\A e \in Ends : e = d \/ e = Peer(d))
      /\ session[d] \in States /\ IsFiniteSet(sealed[d]) /\ StateOk(session[d])
  BY PeerOf DEF RefusalInv, SessionInv, SessionTypes, DeviceOk, Sound
<1>2. PICK s : s = session[d]
  OBVIOUS
<1>3. PICK id \in Nat : id = Cardinality(sealed[d]) + 1
  BY <1>1, FS_CardinalityType
<1>4. PICK m : m = Seal(s, id)
  OBVIOUS
<1>5. PICK t : t = Sealed(s)
  OBVIOUS
<1>6. job[d][i].state = s
  BY <1>2, <1>20
<1>7. /\ s.sendingKey # NoKey
      /\ session' = [session EXCEPT ![d] = t]
      /\ sealed' = [sealed EXCEPT ![d] = @ \cup {m}]
      /\ excused' = IF Cardinality((sealed[d] \cup {m}) \ opened[Peer(d)]) > MaxSkipped + 1
                    THEN excused \cup {Peer(d)} ELSE excused
      /\ UNCHANGED <<opened, refused>>
  BY <1>3, <1>4, <1>5, <1>6 DEF EncryptForDevice, SaveSession
<1>8. /\ session'[d] = t /\ sealed'[d] = sealed[d] \cup {m}
      /\ session'[Peer(d)] = session[Peer(d)] /\ sealed'[Peer(d)] = sealed[Peer(d)]
  BY <1>1, <1>7 DEF SessionTypes
<1>9. excused' \in SUBSET Ends /\ excused \subseteq excused' /\ excused \in SUBSET Ends
  BY <1>1, <1>7 DEF RefusalInv
<1>10. /\ t.rootKey = s.rootKey /\ t.sendingDh = s.sendingDh /\ StateOk(s) /\ m \in Messages
  BY <1>1, <1>2, <1>3, <1>4, <1>5, <1>7, SealedFields
<1>11. ASSUME excused' # Ends PROVE Paired /\ Paired'
  <2>1. Paired
    BY <1>9, <1>11, <1>20 DEF RefusalInv
  <2>2. Leads(session'[Alice], session'[Bob]) \/ Leads(session'[Bob], session'[Alice])
    <3>1. \A e \in Ends : session'[e].rootKey = session[e].rootKey /\ session'[e].sendingDh = session[e].sendingDh
      BY <1>1, <1>2, <1>8, <1>10
    <3>2. Alice \in Ends /\ Bob \in Ends
      BY DEF Ends
    <3> QED BY <2>1, <3>1, <3>2 DEF Paired, Leads
  <2>3. Keyed(d, t) /\ Genuine(d, t, sealed[d] \cup {m})
    <3>1. sealed[d] \in SUBSET Messages
      BY <1>1 DEF SessionTypes
    <3>2. Keyed(d, s) /\ Genuine(d, s, sealed[d])
      BY <1>2, <2>1 DEF Paired
    <3> QED BY <1>3, <1>4, <1>5, <1>7, <1>10, <3>1, <3>2, SealGenuine
  <2>4. Keyed(Peer(d), session[Peer(d)]) /\ Genuine(Peer(d), session[Peer(d)], sealed[Peer(d)])
    BY <1>1, <2>1 DEF Paired
  <2>5. \A e \in Ends : Keyed(e, session'[e]) /\ Genuine(e, session'[e], sealed'[e])
    BY <1>1, <1>8, <2>3, <2>4
  <2> QED BY <2>1, <2>2, <2>5 DEF Paired
<1>12. ASSUME d \notin excused' PROVE OpenTo(d)'
  <2>1. OpenTo(d)
    BY <1>9, <1>12, <1>20 DEF RefusalInv
  <2>2. Prepared(s, session[Peer(d)], sealed[Peer(d)] \ opened[d])
    BY <1>2, <2>1 DEF OpenTo
  <2>3. Prepared(t, session[Peer(d)], sealed[Peer(d)] \ opened[d])
    BY <1>5, <1>7, <1>10, <2>2, ReadySealed
  <2> QED BY <1>7, <1>8, <2>1, <2>3 DEF OpenTo
<1>13. ASSUME Peer(d) \notin excused' PROVE OpenTo(Peer(d))'
  <2>1. OpenTo(Peer(d)) /\ Paired
    BY <1>1, <1>9, <1>11, <1>13, <1>20 DEF RefusalInv
  <2>2. Facing(d, session[Peer(d)], s, sealed[d], opened[Peer(d)])
    BY <1>1, <1>2, <1>20, <2>1, EndsFace
  <2>3. Prepared(session[Peer(d)], s, sealed[d] \ opened[Peer(d)])
    BY <1>1, <1>2, <2>1 DEF OpenTo
  <2>4. PICK V : V = (sealed[d] \cup {m}) \ opened[Peer(d)]
    OBVIOUS
  <2>5. IsFiniteSet(V)
    <3>1. IsFiniteSet(sealed[d] \cup {m})
      BY <1>1, FS_AddElement
    <3> QED BY <2>4, <3>1, FS_Subset
  <2>6. Cardinality(V) <= MaxSkipped + 1
    <3>1. ~(Cardinality(V) > MaxSkipped + 1)
      BY <1>7, <1>13, <2>4
    <3> QED BY <2>5, <3>1, FS_CardinalityType, SessionAssumptions
  <2>7. Prepared(session[Peer(d)], t, V)
    BY <1>3, <1>4, <1>5, <1>7, <2>2, <2>3, <2>4, <2>5, <2>6, PeerSeals
  <2>8. refused'[Peer(d)] = {} /\ session'[Peer(Peer(d))] = t
        /\ sealed'[Peer(Peer(d))] \ opened'[Peer(d)] = V
    BY <1>1, <1>7, <1>8, <2>1, <2>4 DEF OpenTo
  <2> QED BY <1>8, <2>7, <2>8 DEF OpenTo
<1>14. SessionInv' /\ refused' \in [Ends -> SUBSET Messages]
  BY <1>1, <1>7, SealInv DEF RefusalInv
<1>15. \A e \in Ends \ excused' : OpenTo(e)'
  BY <1>1, <1>12, <1>13
<1> QED BY <1>9, <1>11, <1>14, <1>15 DEF RefusalInv

LEMMA SealRefusals ==
  ASSUME RefusalInv, NEW d \in Ends, NEW i \in Slots, EncryptForDevice(d, i)
  PROVE  RefusalInv'
<1>1. CASE Intact' = Ends
  BY <1>1, SealKept
<1>2. CASE Intact' # Ends
  <2>1. SessionInv' /\ Peer(d) \in Ends
    BY SealInv, PeerOf DEF RefusalInv
  <2>2. refused' \in [Ends -> SUBSET Messages] /\ excused' \in SUBSET Ends
    BY <2>1 DEF RefusalInv, EncryptForDevice
  <2> QED BY <1>2, <2>1, <2>2 DEF RefusalInv
<1> QED BY <1>1, <1>2

\* The device is given an envelope.
LEMMA OpenKept ==
  ASSUME RefusalInv, NEW d \in Ends, NEW i \in Slots, SaveInbound(d, i), Intact' = Ends
  PROVE  RefusalInv'
<1>20. Intact = Ends /\ job[d][i].state = session[d] /\ Overwrites(d, i) = 0
  <2>1. PICK t : SaveSession(d, i, t)
    BY DEF SaveInbound
  <2>2. SessionTypes
    BY DEF RefusalInv, SessionInv
  <2> QED BY <2>1, <2>2, StillIntact
<1>1. /\ SessionTypes /\ DeviceOk(d) /\ RowsOk(d) /\ SentOk(d) /\ DeviceOk(Peer(d)) /\ SessionInv
      /\ Peer(d) \in Ends /\ Peer(d) # d /\ Peer(Peer(d)) = d /\ (\A e \in Ends : e = d \/ e = Peer(d))
      /\ session[d] \in States /\ StateOk(session[d]) /\ StateOk(session[Peer(d)])
  BY <1>20, PeerOf, BothIntact DEF RefusalInv, SessionInv, SessionTypes, DeviceOk, Sound
<1>2. PICK s : s = session[d]
  OBVIOUS
<1>3. PICK m : m = job[d][i].msg
  OBVIOUS
<1>4. /\ job[d][i].state = s
      /\ m \in sealed[Peer(d)] /\ m \in Messages /\ StateOk(s)
  <2>1. m \in wire[Peer(d)]
    BY <1>1, <1>3 DEF SaveInbound, JobOk, DeviceOk
  <2> QED BY <1>1, <1>2, <1>20, <2>1 DEF DeviceOk, SessionTypes
<1>5. PICK fresh : fresh = <<d, Len(s.rootKey), 0>>
  OBVIOUS
<1>6. fresh \in Pubs
  <2>1. Len(s.rootKey) \in Nat
    BY <1>1, <1>2, LenProperties, StateTyped DEF Roots
  <2> QED BY <1>5, <2>1 DEF Pubs
<1>7. PICK r : r = DecryptFromDevice(s, m, fresh)
  OBVIOUS
<1>8. PICK t : t = r.state
  OBVIOUS
<1>9. /\ session' = [session EXCEPT ![d] = t]
      /\ r.kind = "ok" => opened' = [opened EXCEPT ![d] = @ \cup {m}] /\ UNCHANGED <<refused, excused>>
      /\ r.kind # "ok" => /\ refused' = [refused EXCEPT ![d] = @ \cup ({m} \ opened[d])]
                          /\ excused' = excused \cup Misled(d, s, m, r)
                          /\ opened' = opened
      /\ sealed' = sealed
  <2>1. FreshKey(d, i) = fresh
    BY <1>4, <1>5, <1>20 DEF FreshKey
  <2> QED BY <1>3, <1>4, <1>7, <1>8, <2>1 DEF SaveInbound, SaveSession
<1>10. Comes(s, m, fresh, r)
  BY <1>4, <1>6, <1>7, EnvelopeComes
<1>11. StateOk(t) /\ (r.kind = "ok" => ~Retired(m.key, s))
  <2>1. Safely(s, m, r)
    BY <1>4, <1>6, <1>7, DecryptsSafely
  <2> QED BY <1>8, <2>1 DEF Safely, Moves
<1>12. session'[d] = t /\ session'[Peer(d)] = session[Peer(d)]
  BY <1>1, <1>9 DEF SessionTypes
<1>13. excused' \in SUBSET Ends /\ excused \subseteq excused' /\ excused \in SUBSET Ends
  <2>1. Misled(d, s, m, r) \in SUBSET Ends
    BY DEF Misled
  <2>2. excused \in SUBSET Ends
    BY DEF RefusalInv
  <2> QED BY <1>9, <2>1, <2>2
<1>14. refused' \in [Ends -> SUBSET Messages]
  <2>1. refused \in [Ends -> SUBSET Messages]
    BY DEF RefusalInv
  <2> QED BY <1>4, <1>9, <2>1
<1>15. ASSUME excused' # Ends
       PROVE  /\ Paired /\ Paired'
              /\ Same(s, t) \/ Len(t.rootKey) > Len(session[Peer(d)].rootKey)
  <2>1. Paired
    BY <1>13, <1>15, <1>20 DEF RefusalInv
  <2>2. Facing(Peer(d), s, session[Peer(d)], sealed[Peer(d)], opened[d])
    BY <1>1, <1>2, <1>20, <2>1, EndsFace
  <2>3. Keyed(d, s) /\ Genuine(d, s, sealed[d])
    BY <1>2, <2>1 DEF Paired
  <2>4. Keyed(Peer(d), session[Peer(d)]) /\ Genuine(Peer(d), session[Peer(d)], sealed[Peer(d)])
    BY <1>1, <2>1 DEF Paired
  <2>5. Leads(s, session[Peer(d)]) \/ Leads(session[Peer(d)], s)
    BY <2>2 DEF Facing
  <2>6. ASSUME Same(s, t)
        PROVE  /\ Leads(t, session[Peer(d)]) \/ Leads(session[Peer(d)], t)
               /\ Keyed(d, t) /\ Genuine(d, t, sealed[d])
    BY <2>3, <2>5, <2>6, SameKeyed
  <2>7. ASSUME Turned(s, t, m, fresh), ~Same(s, t) PROVE m.key.chain = Received(s, m)
    <3>1. r.kind = "lost" \/ (r.kind = "ok" /\ m.key.chain = Received(s, m))
      BY <1>8, <1>10, <2>7 DEF Comes
    <3>2. CASE r.kind = "lost"
      <4>1. /\ s.rootKey \in Roots /\ s.sendingDh \in Pubs /\ m.dh \in Pubs
        BY <1>1, <1>2, <1>4, StateTyped, EnvelopeTyped
      <4>2. PICK root \in Roots : root = s.rootKey
        BY <4>1
      <4>3. PICK x \in Pubs : x = s.sendingDh
        BY <4>1
      <4>4. PICK y \in Pubs : y = m.dh
        BY <4>1
      <4>5. PICK c \in Roots : c = Append(root, Dh(x, y))
        BY RootGrows
      <4>6. c = Received(s, m) /\ Len(c) = Len(root) + 1 /\ Len(root) \in Nat
        BY <4>2, <4>3, <4>4, <4>5, RootGrows DEF Received
      <4>7. t.rootKey = Append(c, Dh(fresh, y))
        BY <2>7, <4>4, <4>6 DEF Turned
      <4>8. Front(t.rootKey) = c /\ Len(t.rootKey) = Len(c) + 1
        BY <1>6, <4>7, FrontOf, RootGrows
      <4>9. t.rootKey # s.rootKey
        BY <4>2, <4>6, <4>8
      <4>10. Misled(d, s, m, r) # Ends
        BY <1>9, <1>13, <1>15, <3>2
      <4>11. m.key.chain = Front(t.rootKey)
        BY <1>8, <3>2, <4>9, <4>10 DEF Misled
      <4> QED BY <4>6, <4>8, <4>11
    <3> QED BY <3>1, <3>2
  <2>8. ASSUME Turned(s, t, m, fresh), ~Same(s, t)
        PROVE  /\ Leads(t, session[Peer(d)]) /\ Len(t.rootKey) > Len(session[Peer(d)].rootKey)
               /\ Keyed(d, t) /\ Genuine(d, t, sealed[d])
    <3>1. fresh = <<Peer(Peer(d)), Len(s.rootKey), 0>>
      BY <1>1, <1>5
    <3>2. sealed[d] \in SUBSET Messages
      BY <1>1 DEF SessionTypes
    <3>3. \A w \in sealed[d] : Past(w.key, s)
      BY <1>1, <1>2 DEF SentOk
    <3>4. Genuine(Peer(Peer(d)), s, sealed[d])
      BY <1>1, <2>3
    <3>5. PICK C \in SUBSET Messages : C = sealed[d]
      BY <3>2
    <3>6. PICK e \in Ends : e = Peer(d)
      BY <1>1
    <3>7. PICK p : p = session[e]
      OBVIOUS
    <3>8. /\ Leads(t, p) /\ Len(t.rootKey) > Len(p.rootKey)
          /\ Keyed(Peer(e), t) /\ Genuine(Peer(e), t, C)
      <4>1. Facing(e, s, p, sealed[e], opened[d]) /\ m \in sealed[e] /\ fresh = <<Peer(e), Len(s.rootKey), 0>>
            /\ Genuine(Peer(e), s, C) /\ \A w \in C : Past(w.key, s)
        BY <1>4, <2>2, <3>1, <3>3, <3>4, <3>5, <3>6, <3>7
      <4>2. m.key.chain = Received(s, m)
        BY <2>7, <2>8
      <4> QED BY <1>6, <1>11, <2>8, <4>1, <4>2, TurnKeyed
    <3> QED BY <1>1, <3>5, <3>6, <3>7, <3>8
  <2>9. Same(s, t) \/ Turned(s, t, m, fresh)
    BY <1>8, <1>10 DEF Comes
  <2>10. /\ Leads(t, session[Peer(d)]) \/ Leads(session[Peer(d)], t)
         /\ Keyed(d, t) /\ Genuine(d, t, sealed[d])
         /\ Same(s, t) \/ Len(t.rootKey) > Len(session[Peer(d)].rootKey)
    BY <2>6, <2>8, <2>9
  <2>11. Leads(session'[Alice], session'[Bob]) \/ Leads(session'[Bob], session'[Alice])
    <3>1. \/ d = Alice /\ Peer(d) = Bob
          \/ d = Bob /\ Peer(d) = Alice
      BY DEF Ends, Peer, Alice, Bob
    <3> QED BY <1>12, <2>10, <3>1
  <2>12. \A e \in Ends : Keyed(e, session'[e]) /\ Genuine(e, session'[e], sealed'[e])
    BY <1>1, <1>9, <1>12, <2>4, <2>10
  <2> QED BY <2>1, <2>10, <2>11, <2>12 DEF Paired
<1>16. ASSUME Peer(d) \notin excused' PROVE OpenTo(Peer(d))'
  <2>1. excused' # Ends /\ OpenTo(Peer(d))
    BY <1>1, <1>13, <1>16, <1>20 DEF RefusalInv
  <2>2. Prepared(session[Peer(d)], s, sealed[d] \ opened[Peer(d)])
    BY <1>1, <1>2, <2>1 DEF OpenTo
  <2>3. t.rootKey \in Roots /\ session[Peer(d)].rootKey \in Roots
    BY <1>1, <1>11, StateTyped DEF StateOk
  <2>4. Same(s, t) \/ Len(t.rootKey) > Len(session[Peer(d)].rootKey)
    BY <1>15, <2>1
  <2>5. Prepared(session[Peer(d)], t, sealed[d] \ opened[Peer(d)])
    BY <2>2, <2>3, <2>4, PeerStays
  <2>6. opened'[Peer(d)] = opened[Peer(d)] /\ refused'[Peer(d)] = refused[Peer(d)]
    <3>1. opened \in [Ends -> SUBSET Messages] /\ refused \in [Ends -> SUBSET Messages]
      BY <1>1 DEF RefusalInv, SessionTypes
    <3> QED BY <1>1, <1>9, <3>1
  <2> QED BY <1>1, <1>9, <1>12, <2>1, <2>5, <2>6 DEF OpenTo
<1>17. ASSUME d \notin excused' PROVE OpenTo(d)'
  <2>1. excused' # Ends /\ OpenTo(d)
    BY <1>13, <1>17, <1>20 DEF RefusalInv
  <2>2. Paired
    BY <1>15, <2>1
  <2>3. Facing(Peer(d), s, session[Peer(d)], sealed[Peer(d)], opened[d])
    BY <1>1, <1>2, <1>20, <2>2, EndsFace
  <2>4. PICK W : W = sealed[Peer(d)] \ opened[d]
    OBVIOUS
  <2>5. Prepared(s, session[Peer(d)], W) /\ refused[d] = {}
    BY <1>2, <2>1, <2>4 DEF OpenTo
  <2>6. opened \in [Ends -> SUBSET Messages] /\ refused \in [Ends -> SUBSET Messages]
    BY <1>1 DEF RefusalInv, SessionTypes
  <2>7. CASE m \in W
    <3>1. r.kind = "ok" /\ Prepared(t, session[Peer(d)], W \ {m})
      <4>1. Waits(Peer(d), s, session[Peer(d)], sealed[Peer(d)], opened[d], W, m)
        BY <1>1, <2>3, <2>4, <2>5, <2>7 DEF Waits
      <4>2. Opened(r, session[Peer(d)], W \ {m})
        BY <1>6, <1>7, <4>1, WaitingOpens
      <4> QED BY <1>8, <4>2 DEF Opened
    <3>2. opened'[d] = opened[d] \cup {m} /\ refused'[d] = {}
      BY <1>9, <2>5, <2>6, <3>1
    <3>3. sealed'[Peer(d)] \ opened'[d] = W \ {m}
      BY <1>9, <2>4, <3>2
    <3> QED BY <1>12, <3>1, <3>2, <3>3 DEF OpenTo
  <2>8. CASE m \notin W
    <3>1. m \in opened[d]
      BY <1>4, <2>4, <2>8
    <3>2. r.kind # "ok"
      BY <1>1, <1>2, <1>11, <3>1 DEF RowsOk
    <3>3. r.kind # "lost"
      <4>1. d \notin Misled(d, s, m, r)
        BY <1>9, <1>17, <3>2
      <4> QED BY <3>1, <4>1 DEF Misled
    <3>4. t = s
      BY <1>8, <1>10, <3>2, <3>3 DEF Comes
    <3>5. opened'[d] = opened[d] /\ refused'[d] = {}
      <4>1. {m} \ opened[d] = {}
        BY <3>1
      <4> QED BY <1>9, <2>5, <2>6, <3>2, <4>1
    <3> QED BY <1>9, <1>12, <2>4, <2>5, <3>4, <3>5 DEF OpenTo
  <2> QED BY <2>7, <2>8
<1>18. SessionInv'
  BY <1>1, OpenInv
<1>19. \A e \in Ends \ excused' : OpenTo(e)'
  BY <1>1, <1>16, <1>17
<1> QED BY <1>13, <1>14, <1>15, <1>18, <1>19 DEF RefusalInv

LEMMA OpenRefusals ==
  ASSUME RefusalInv, NEW d \in Ends, NEW i \in Slots, SaveInbound(d, i)
  PROVE  RefusalInv'
<1>1. CASE Intact' = Ends
  BY <1>1, OpenKept
<1>2. CASE Intact' # Ends
  <2>1. SessionInv' /\ SessionInv
    BY OpenInv DEF RefusalInv
  <2>2. job[d][i].msg \in Messages
    <3>1. Peer(d) \in Ends
      BY PeerOf
    <3> QED BY <2>1, <3>1 DEF SaveInbound, SessionInv, DeviceOk, JobOk, SessionTypes
  <2>3. PICK m \in Messages : m = job[d][i].msg
    BY <2>2
  <2>4. PICK s, r : Misled(d, s, m, r) \in SUBSET Ends /\
          \/ UNCHANGED <<refused, excused>>
          \/ /\ refused' = [refused EXCEPT ![d] = @ \cup ({m} \ opened[d])]
             /\ excused' = excused \cup Misled(d, s, m, r)
    <3>1. \A s, n, r : Misled(d, s, n, r) \in SUBSET Ends
      BY DEF Misled
    <3> QED BY <2>3, <3>1 DEF SaveInbound
  <2>5. refused \in [Ends -> SUBSET Messages] /\ excused \in SUBSET Ends
    BY DEF RefusalInv
  <2>6. refused' \in [Ends -> SUBSET Messages] /\ excused' \in SUBSET Ends
    BY <2>4, <2>5
  <2> QED BY <1>2, <2>1, <2>6 DEF RefusalInv
<1> QED BY <1>1, <1>2

LEMMA RefusalStep == ASSUME RefusalInv, [SessionNext]_sessionVars PROVE RefusalInv'
<1>1. ASSUME SessionInv', UNCHANGED <<session, opened, sealed, refused, excused, overwritten>> PROVE RefusalInv'
  BY <1>1 DEF RefusalInv, Paired, OpenTo, Intact
<1>2. SessionInv'
  BY SessionStep DEF RefusalInv
<1>3. ASSUME NEW d \in Ends, Reload(d) \/ \E i \in Slots :
               \/ StartSend(d, i) \/ SendThrows(d, i) \/ EncryptForDevice(d, i)
               \/ EnqueueSealed(d, i) \/ StartInbound(d, i) \/ SaveInbound(d, i)
               \/ InsertRow(d, i)
      PROVE  RefusalInv'
  <2>1. CASE Reload(d)
    BY <1>1, <1>2, <2>1 DEF Reload, sessionHistory
  <2>2. ASSUME NEW i \in Slots, EncryptForDevice(d, i) PROVE RefusalInv'
    BY <2>2, SealRefusals
  <2>3. ASSUME NEW i \in Slots, SaveInbound(d, i) PROVE RefusalInv'
    BY <2>3, OpenRefusals
  <2>4. ASSUME NEW i \in Slots, StartSend(d, i) \/ SendThrows(d, i) \/ EnqueueSealed(d, i)
                                \/ StartInbound(d, i) \/ InsertRow(d, i)
        PROVE  RefusalInv'
    BY <1>1, <1>2, <2>4 DEF StartSend, SendThrows, EnqueueSealed, StartInbound, InsertRow, sessionHistory
  <2> QED BY <1>3, <2>1, <2>2, <2>3, <2>4
<1>4. CASE UNCHANGED sessionVars
  BY <1>1, <1>2, <1>4 DEF sessionVars
<1> QED BY <1>3, <1>4 DEF SessionNext

\* The two ends agree on the first root, and Alice has mixed in the next secret.
LEMMA SameSecret ==
  ASSUME NEW opk, NEW bundle, bundle = [ik |-> <<"ikB">>, spk |-> <<"spk">>, opk |-> opk],
         NEW init, init = [ik |-> <<"ikA">>, ek |-> <<"ek">>, opk |-> opk]
  PROVE  EstablishSession(init.ik, init.ek, bundle) = AcceptSession(bundle.ik, bundle.spk, opk, init)
<1>1. \A x, y : Dh(x, y) = Dh(y, x)
  BY DEF Dh
<1>2. /\ init.ik = <<"ikA">> /\ init.ek = <<"ek">> /\ init.opk = opk
      /\ bundle.ik = <<"ikB">> /\ bundle.spk = <<"spk">> /\ bundle.opk = opk
  OBVIOUS
<1>3. EstablishSession(init.ik, init.ek, bundle) =
        << <<Dh(<<"ikA">>, <<"spk">>), Dh(<<"ek">>, <<"ikB">>), Dh(<<"ek">>, <<"spk">>)>>
           \o (IF opk = NoKey THEN <<>> ELSE <<Dh(<<"ek">>, opk)>>) >>
  BY <1>2 DEF EstablishSession
<1>4. AcceptSession(bundle.ik, bundle.spk, opk, init) =
        << <<Dh(<<"spk">>, <<"ikA">>), Dh(<<"ikB">>, <<"ek">>), Dh(<<"spk">>, <<"ek">>)>>
           \o (IF opk = NoKey THEN <<>> ELSE <<Dh(opk, <<"ek">>)>>) >>
  BY <1>2 DEF AcceptSession
<1>5. /\ Dh(<<"ikA">>, <<"spk">>) = Dh(<<"spk">>, <<"ikA">>)
      /\ Dh(<<"ek">>, <<"ikB">>) = Dh(<<"ikB">>, <<"ek">>)
      /\ Dh(<<"ek">>, <<"spk">>) = Dh(<<"spk">>, <<"ek">>)
      /\ Dh(<<"ek">>, opk) = Dh(opk, <<"ek">>)
  BY <1>1
<1> QED BY <1>3, <1>4, <1>5

LEMMA RefusalInit == ASSUME SessionInit PROVE RefusalInv
<1>1. PICK opk \in {NoKey, <<"opk">>} : session = InitialRatchets(opk)
  BY DEF SessionInit
<1>2. SessionInv
  BY SessionInitInv
<1>3. PICK bundle, init : /\ bundle = [ik |-> <<"ikB">>, spk |-> <<"spk">>, opk |-> opk]
                          /\ init = [ik |-> <<"ikA">>, ek |-> <<"ek">>, opk |-> opk]
  OBVIOUS
<1>4. PICK root : root = AcceptSession(bundle.ik, bundle.spk, opk, init)
  OBVIOUS
<1>5. EstablishSession(init.ik, init.ek, bundle) = root
  BY <1>3, <1>4, SameSecret
<1>6. /\ bundle.spk = <<"spk">> /\ Alice \in Ends /\ Bob \in Ends /\ Alice # Bob
      /\ Peer(Alice) = Bob /\ Peer(Bob) = Alice
  BY <1>3 DEF Ends, Alice, Bob, Peer
<1>7. PICK mixed : mixed = Append(root, Dh(<<Alice>>, <<"spk">>))
  OBVIOUS
<1>8. session = [d \in Ends |-> IF d = Alice THEN InitSenderRatchet(root, <<"spk">>, <<Alice>>)
                                ELSE InitReceiverRatchet(root, <<"spk">>)]
  BY <1>1, <1>3, <1>4, <1>5, <1>6 DEF InitialRatchets
<1>9. PICK a : a = session[Alice]
  OBVIOUS
<1>10. PICK b : b = session[Bob]
  OBVIOUS
<1>11. a = [rootKey |-> mixed, sendingDh |-> <<Alice>>, receivingDh |-> <<"spk">>,
            sendingKey |-> FirstKey(mixed), receivingKey |-> NoKey,
            ns |-> 0, nr |-> 0, pn |-> 0, skipped |-> <<>>]
  BY <1>6, <1>7, <1>8, <1>9 DEF InitSenderRatchet
<1>12. b = [rootKey |-> root, sendingDh |-> <<"spk">>, receivingDh |-> NoKey,
            sendingKey |-> NoKey, receivingKey |-> NoKey,
            ns |-> 0, nr |-> 0, pn |-> 0, skipped |-> <<>>]
  BY <1>6, <1>8, <1>10 DEF InitReceiverRatchet
<1>13. /\ a.rootKey = mixed /\ a.sendingDh = <<Alice>> /\ a.receivingDh = <<"spk">>
       /\ a.sendingKey = FirstKey(mixed) /\ a.receivingKey = NoKey
       /\ a.ns = 0 /\ a.nr = 0 /\ a.pn = 0 /\ a.skipped = <<>>
  BY <1>11
<1>14. /\ b.rootKey = root /\ b.sendingDh = <<"spk">> /\ b.receivingDh = NoKey
       /\ b.sendingKey = NoKey /\ b.receivingKey = NoKey
       /\ b.ns = 0 /\ b.nr = 0 /\ b.pn = 0 /\ b.skipped = <<>>
  BY <1>12
<1>15. /\ a \in States /\ b \in States /\ root \in Roots /\ mixed \in Roots
       /\ <<Alice>> \in Pubs /\ <<"spk">> \in Pubs
  <2>1. a \in States /\ b \in States
    BY <1>2, <1>6, <1>9, <1>10 DEF SessionInv, SessionTypes
  <2>2. a.sendingDh \in Pubs /\ b.sendingDh \in Pubs /\ a.rootKey \in Roots /\ b.rootKey \in Roots
    BY <2>1, StateTyped
  <2> QED BY <1>13, <1>14, <2>1, <2>2
<1>16. Leads(a, b)
  BY <1>7, <1>13, <1>14 DEF Leads
<1>17. Len(root) = 1 /\ Len(mixed) = 2
  <2>1. PICK x : x = <<Dh(<<"spk">>, <<"ikA">>), Dh(<<"ikB">>, <<"ek">>), Dh(<<"spk">>, <<"ek">>)>>
                     \o (IF opk = NoKey THEN <<>> ELSE <<Dh(opk, <<"ek">>)>>)
    OBVIOUS
  <2>2. root = <<x>>
    BY <1>3, <1>4, <2>1 DEF AcceptSession
  <2>3. Len(root) = 1
    BY <2>2
  <2>4. Len(mixed) = Len(root) + 1
    BY <1>7, <1>15, RootGrows
  <2> QED BY <2>3, <2>4
<1>18. FirstKey(mixed) # NoKey /\ FirstKey(mixed).n = 0
  BY <1>15 DEF FirstKey, NoKey
<1>19. Keyed(Alice, a)
  <2>1. DhOf(Alice, 2) = <<Alice>> /\ DhOf(Bob, 1) = <<"spk">>
    BY <1>6 DEF DhOf
  <2> QED BY <1>6, <1>13, <1>17, <1>18, <2>1 DEF Keyed
<1>20. Keyed(Bob, b)
  <2>1. DhOf(Bob, 1) = <<"spk">>
    BY <1>6 DEF DhOf
  <2> QED BY <1>14, <1>17, <2>1 DEF Keyed
<1>21. /\ sealed = [d \in Ends |-> {}] /\ opened = [d \in Ends |-> {}]
       /\ refused = [d \in Ends |-> {}] /\ excused = {}
  BY DEF SessionInit
<1>22. Genuine(Alice, a, {}) /\ Genuine(Bob, b, {})
  BY <1>13, <1>14 DEF Genuine
<1>23. Paired
  <2>1. \A d \in Ends : sealed[d] = {} /\ (d = Alice \/ d = Bob)
    BY <1>21 DEF Ends
  <2> QED BY <1>9, <1>10, <1>16, <1>19, <1>20, <1>22, <2>1 DEF Paired
<1>24. ASSUME NEW s, NEW p, s = a \/ s = b PROVE Prepared(s, p, {})
  <2>1. s.receivingKey = NoKey /\ s.skipped = <<>> /\ Len(s.rootKey) <= 2
    <3>1. s.receivingKey = NoKey /\ s.skipped = <<>> /\ (s.rootKey = mixed \/ s.rootKey = root)
      BY <1>13, <1>14, <1>24, Zenon
    <3>2. Len(s.rootKey) = 1 \/ Len(s.rootKey) = 2
      BY <1>17, <3>1
    <3>3. PICK l \in Nat : l = Len(s.rootKey) /\ l <= 2
      <4>1. 1 \in Nat /\ 1 <= 2 /\ 2 \in Nat /\ 2 <= 2
        OBVIOUS
      <4> QED BY <3>2, <4>1
    <3> QED BY <3>1, <3>3
  <2>2. EntriesIn(<<>>) = {}
    BY DEF EntriesIn
  <2>3. IsFiniteSet({}) /\ Cardinality({}) <= MaxSkipped + 1
    BY FS_EmptySet, SessionAssumptions
  <2> QED BY <2>1, <2>2, <2>3 DEF Prepared
<1>25. ASSUME NEW d \in Ends PROVE OpenTo(d)
  <2>1. Peer(d) \in Ends /\ (d = Alice \/ d = Bob)
    BY PeerOf DEF Ends
  <2>2. sealed[Peer(d)] \ opened[d] = {} /\ refused[d] = {}
    BY <1>21, <2>1
  <2>3. session[d] = a \/ session[d] = b
    BY <1>9, <1>10, <2>1
  <2> QED BY <1>24, <2>2, <2>3 DEF OpenTo
<1>26. refused \in [Ends -> SUBSET Messages] /\ excused \in SUBSET Ends
  BY <1>21
<1> QED BY <1>2, <1>23, <1>25, <1>26 DEF RefusalInv

\* A device that was neither overrun nor misled opens whatever its peer sealed,
\* in any order of delivery and however often: the keys it has passed by are all
\* in the store, none of them evicted, and those to come are ahead of its chains.
THEOREM RefusalsAreExcused == SessionSpec => []OnlyOverrunRefuses
<1>1. SessionInit => RefusalInv
  BY RefusalInit
<1>2. RefusalInv /\ [SessionNext]_sessionVars => RefusalInv'
  BY RefusalStep
<1>3. RefusalInv => OnlyOverrunRefuses
  BY DEF RefusalInv, OpenTo, OnlyOverrunRefuses
<1> QED BY <1>1, <1>2, <1>3, PTL DEF SessionSpec
=============================================================================
