------------------------------ MODULE Ratchet ------------------------------
(***************************************************************************)
(* The double ratchet (packages/crypto/src/ratchet.ts) and the key         *)
(* agreement that seeds it (session.ts), as functions on states.           *)
(*                                                                         *)
(* Keys are symbolic.  A key pair is its public key; the shared secret of  *)
(* two pairs is the set of both, so both ends compute the same one.  A     *)
(* root key is the sequence of secrets mixed into it.  The keys of a chain *)
(* are [chain, n]: the root key the chain was split from and the number of *)
(* HMAC steps.  A chain key and the message key derived from it have the   *)
(* same name.  A ciphertext opens under the key that sealed it and under   *)
(* no other (AES-GCM with the header as associated data).                  *)
(***************************************************************************)
EXTENDS Integers, Sequences, SequencesExt

CONSTANT MaxSkipped         \* MAX_SKIPPED_KEYS

NoKey == <<>>               \* null

Dh(priv, pub) == {priv, pub}

(* Key agreement: what the initiator computes from the bundle with its     *)
(* ephemeral key ek, and the responder from its own private keys.          *)
EstablishSession(ik, ek, bundle) ==
  << <<Dh(ik, bundle.spk), Dh(ek, bundle.ik), Dh(ek, bundle.spk)>>
     \o (IF bundle.opk = NoKey THEN <<>> ELSE <<Dh(ek, bundle.opk)>>) >>

AcceptSession(ik, spk, opk, init) ==
  << <<Dh(spk, init.ik), Dh(ik, init.ek), Dh(spk, init.ek)>>
     \o (IF init.opk = NoKey THEN <<>> ELSE <<Dh(opk, init.ek)>>) >>

FirstKey(root) == [chain |-> root, n |-> 0]
ChainStep(key, steps) == [key EXCEPT !.n = @ + steps]

InitSenderRatchet(root, spk, fresh) ==
  LET mixed == Append(root, Dh(fresh, spk))
  IN [rootKey |-> mixed, sendingDh |-> fresh, receivingDh |-> spk,
      sendingKey |-> FirstKey(mixed), receivingKey |-> NoKey,
      ns |-> 0, nr |-> 0, pn |-> 0, skipped |-> <<>>]

InitReceiverRatchet(root, spk) ==
  [rootKey |-> root, sendingDh |-> spk, receivingDh |-> NoKey,
   sendingKey |-> NoKey, receivingKey |-> NoKey,
   ns |-> 0, nr |-> 0, pn |-> 0, skipped |-> <<>>]

----------------------------------------------------------------------------
(* encryptToDevice, for a state with a sending chain: the envelope that    *)
(* carries plaintext id, and the state after it.                           *)

Header(s) == [dh |-> s.sendingDh, pn |-> s.pn, n |-> s.ns]

(* The tag covers the header, so that the two go together.                 *)
Encrypted(header, key, id) ==
  [dh |-> header.dh, pn |-> header.pn, n |-> header.n, key |-> key, id |-> id]

Seal(s, id) == Encrypted(Header(s), s.sendingKey, id)
Sealed(s) == [s EXCEPT !.sendingKey = ChainStep(@, 1), !.ns = @ + 1]

----------------------------------------------------------------------------
(* decryptFromDevice.  The result has the new state and the answer.        *)

Result(s, kind) == [state |-> s, kind |-> kind]

(* k keys of the chain of key, the first of them number n.                 *)
SkippedKeys(dh, key, n, k) ==
  [i \in 1..k |-> [dh |-> dh, n |-> n + i - 1, key |-> ChainStep(key, i - 1)]]

(* The FIFO store after appending: the last MaxSkipped entries.            *)
AppendSkipped(store, entries) ==
  LET all == store \o entries
  IN IF Len(all) <= MaxSkipped THEN all
     ELSE SubSeq(all, Len(all) - MaxSkipped + 1, Len(all))

AdvancePastLossThreshold(s, m) ==
  Result([s EXCEPT !.receivingKey = NoKey, !.nr = m.n + 1], "lost")

(* Trial decryption with key: the candidate survives only if m opens.      *)
TryKey(s, candidate, key, m) ==
  IF m.key = key
  THEN Result([candidate EXCEPT !.receivingKey = ChainStep(key, 1),
                                !.nr = m.n + 1], "ok")
  ELSE Result(s, "invalid")

DecryptAdvanceChain(s, m) ==
  LET gap == m.n - s.nr
  IN TryKey(s, [s EXCEPT !.skipped = AppendSkipped(@,
                   SkippedKeys(m.dh, s.receivingKey, s.nr, gap))],
            ChainStep(s.receivingKey, gap), m)

DecryptSameChain(s, m) ==
  CASE s.receivingKey = NoKey \/ m.n < s.nr -> Result(s, "duplicate")
    [] s.receivingKey # NoKey /\ m.n - s.nr > MaxSkipped ->
         AdvancePastLossThreshold(s, m)
    [] OTHER -> DecryptAdvanceChain(s, m)

\* Mutant of Ratcheted: the rest of the old chain is not stored.
RatchetedAtOnce(s, m, fresh) ==
  LET received == Append(s.rootKey, Dh(s.sendingDh, m.dh))
      mixed == Append(received, Dh(fresh, m.dh))
  IN [rootKey |-> mixed, sendingDh |-> fresh, receivingDh |-> m.dh,
      sendingKey |-> FirstKey(mixed), receivingKey |-> FirstKey(received),
      ns |-> 0, nr |-> 0, pn |-> s.ns, skipped |-> s.skipped]

(* The state after both DH steps, the rest of the old chain being stored.  *)
Ratcheted(s, m, fresh) ==
  LET received == Append(s.rootKey, Dh(s.sendingDh, m.dh))
      mixed == Append(received, Dh(fresh, m.dh))
      rest == IF s.receivingKey = NoKey \/ m.pn <= s.nr THEN <<>>
              ELSE SkippedKeys(s.receivingDh, s.receivingKey, s.nr, m.pn - s.nr)
  IN [rootKey |-> mixed, sendingDh |-> fresh, receivingDh |-> m.dh,
      sendingKey |-> FirstKey(mixed), receivingKey |-> FirstKey(received),
      ns |-> 0, nr |-> 0, pn |-> s.ns, skipped |-> AppendSkipped(s.skipped, rest)]

DecryptNewChain(s, m, fresh) ==
  LET next == Ratcheted(s, m, fresh)
  IN CASE s.receivingKey # NoKey /\ m.pn - s.nr > MaxSkipped ->
            AdvancePastLossThreshold(s, m)
       [] (s.receivingKey = NoKey \/ m.pn - s.nr <= MaxSkipped)
            /\ m.n > MaxSkipped ->
            Result([next EXCEPT !.receivingKey = NoKey, !.nr = m.n + 1], "lost")
       [] OTHER ->
            TryKey(s, [next EXCEPT !.skipped = AppendSkipped(@,
                         SkippedKeys(m.dh, next.receivingKey, 0, m.n))],
                   ChainStep(next.receivingKey, m.n), m)

\* Mutant of TrySkippedKey: the entry stays.
TryStoredKey(s, i, m) ==
  IF s.skipped[i].key = m.key THEN Result(s, "ok") ELSE Result(s, "invalid")

TrySkippedKey(s, i, m) ==
  IF s.skipped[i].key = m.key
  THEN Result([s EXCEPT !.skipped = RemoveAt(@, i)], "ok")
  ELSE Result(s, "invalid")

DecryptFromDevice(s, m, fresh) ==
  LET held == {i \in DOMAIN s.skipped :
                 s.skipped[i].dh = m.dh /\ s.skipped[i].n = m.n}
  IN CASE held # {} ->
            TrySkippedKey(s, CHOOSE i \in held : \A j \in held : i <= j, m)
       [] held = {} /\ s.receivingDh = m.dh -> DecryptSameChain(s, m)
       [] OTHER -> DecryptNewChain(s, m, fresh)
=============================================================================
