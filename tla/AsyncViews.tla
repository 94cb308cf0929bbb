------------------------------ MODULE AsyncViews ------------------------------
(* The views of the client that compute what they show in an effect: an    *)
(* attachment with and without its cache, a voice note, and the two safety *)
(* number screens. React commits new props first and runs the effect after *)
(* the paint: the cleanup of the older effect, then a new run of async     *)
(* work. A run that was cancelled goes on until it looks at its flag.      *)
EXTENDS Naturals, Sequences

CONSTANTS
  Shown,      \* what can be shown: a sequence of peers (or of attachments)
  Local,      \* the identity of the local user, [user, key]
  MaxRuns     \* bound on the runs of the effect in a behaviour

(* User ids are compared: each is its place in their order. The screen of  *)
(* a conversation with oneself compares the own key with itself.           *)
ASSUME ViewsAssumptions ==
  /\ Local.user \in Nat /\ 0 \notin DOMAIN Shown
  /\ \A i \in DOMAIN Shown : Shown[i].user \in Nat
  /\ \A i \in DOMAIN Shown : Shown[i].user = Local.user => Shown[i].key = Local.key

VARIABLES
  kind,       \* the component this behaviour is about
  input,      \* index in Shown of the props, 0 while not mounted
  instance,   \* number of the component instance, counts mounts
  effectDue,  \* props were committed and the effect has not run yet
  current,    \* the run whose flag is not set, 0 for none
  runs,       \* the runs: [of, instance, at]
  screen,     \* the state of the component: [is, by, shows]
  urls,       \* runs whose object URL is alive
  overtaken   \* a cleanup found a run waiting for the cache write

viewVars == <<kind, input, instance, effectDue, current, runs, screen, urls, overtaken>>

Kinds == {"cachedAttachment", "attachment", "voiceNote", "safetyScreen", "inCall"}
Numbers == kind \in {"safetyScreen", "inCall"}

(* The two fingerprints in the order of the user ids. The digits are an    *)
(* injective image of it.                                                  *)
Fingerprint(party) == <<party.user, party.key>>
SafetyNumber(local, remote) ==
  IF local.user < remote.user THEN <<Fingerprint(local), Fingerprint(remote)>>
                              ELSE <<Fingerprint(remote), Fingerprint(local)>>

Screen(is, r, shows) == [is |-> is, by |-> r, shows |-> shows]
Blank == Screen("loading", 0, <<>>)

ViewsInit ==
  /\ kind \in Kinds /\ input = 0 /\ instance = 0 /\ effectDue = FALSE
  /\ current = 0 /\ runs = <<>> /\ screen = Blank /\ urls = {} /\ overtaken = FALSE

(* Props. React runs a pending effect before it renders again.            *)
Commit(i) ==
  /\ ~effectDue
  /\ input' = i
  /\ effectDue' = TRUE
  /\ UNCHANGED <<kind, current, runs, urls, overtaken>>

MountView(i) ==
  /\ input = 0 /\ Len(runs) < MaxRuns
  /\ Commit(i)
  /\ instance' = instance + 1
  /\ screen' = Blank

Rerender(i) ==
  /\ input # 0 /\ Len(runs) < MaxRuns
  /\ Commit(i)
  /\ UNCHANGED <<instance, screen>>

Unmount ==
  /\ input # 0
  /\ Commit(0)
  /\ UNCHANGED <<instance, screen>>

FirstStep ==
  CASE kind = "cachedAttachment" -> "cache"
    [] kind \in {"attachment", "voiceNote"} -> "download"
    [] OTHER -> "compute"

Cleanup ==
  /\ urls' = urls \ {current}
  /\ overtaken' = (overtaken \/ (current # 0 /\ runs[current].at = "put"))

Effect ==
  /\ effectDue
  /\ effectDue' = FALSE
  /\ Cleanup
  /\ IF input = 0
     THEN /\ current' = 0
          /\ UNCHANGED <<runs, screen>>
     ELSE /\ current' = Len(runs) + 1
          /\ runs' = Append(runs, [of |-> input, instance |-> instance, at |-> FirstStep])
          /\ screen' = IF Numbers THEN Blank ELSE screen
  /\ UNCHANGED <<kind, input, instance>>

(* React drops a setState of an instance that is gone.                    *)
SetScreen(r, is, shows) ==
  screen' = IF input # 0 /\ runs[r].instance = instance THEN Screen(is, r, shows) ELSE screen

Goto(r, step) == runs' = [runs EXCEPT ![r].at = step]
Finish(r, is, shows) == Goto(r, "end") /\ SetScreen(r, is, shows)
GiveUp(r) == r # current /\ Goto(r, "end") /\ UNCHANGED screen
Answered(r, is, shows) == (r = current /\ Finish(r, is, shows)) \/ GiveUp(r)

Rest == <<kind, input, instance, effectDue, current, overtaken>>

(* The cached plaintext of a row, or nothing, or an IndexedDB error: only  *)
(* the error path does not look at the flag.                               *)
ReadCache(r) ==
  /\ runs[r].at = "cache"
  /\ \/ /\ r = current
        /\ Finish(r, "ok", runs[r].of)
        /\ urls' = urls \cup {r}
     \/ /\ GiveUp(r)
        /\ UNCHANGED urls
     \/ /\ Goto(r, "download")
        /\ UNCHANGED <<screen, urls>>
  /\ UNCHANGED Rest

(* downloadAttachment throws, finds nothing, cannot decrypt what it got,   *)
(* or returns the plaintext, for which an object URL is made.              *)
DownloadFails(r) ==
  /\ runs[r].at = "download"
  /\ \E is \in {"error", "notFound"} : Answered(r, is, <<>>)
  /\ UNCHANGED <<Rest, urls>>

DecryptFails(r) ==
  /\ runs[r].at = "download"
  /\ Answered(r, "tagFailed", <<>>)
  /\ UNCHANGED <<Rest, urls>>

Downloaded(r) ==
  /\ runs[r].at = "download"
  /\ r = current
  /\ urls' = urls \cup {r}
  /\ CASE kind = "cachedAttachment" -> Goto(r, "put") /\ UNCHANGED screen
       [] kind = "voiceNote" -> Goto(r, "decode") /\ UNCHANGED screen
       [] OTHER -> Finish(r, "ok", runs[r].of)
  /\ UNCHANGED Rest

(* The write to the cache returns, or throws: the flag is not looked at.   *)
PutPlaintext(r) ==
  /\ runs[r].at = "put"
  /\ Finish(r, "ok", runs[r].of)
  /\ UNCHANGED <<Rest, urls>>

\* Mutant of Decoded: the flag is not looked at after the decoding
DecodedAnyway(r) ==
  /\ runs[r].at = "decode"
  /\ Finish(r, "ok", runs[r].of)
  /\ UNCHANGED <<Rest, urls>>

Decoded(r) ==
  /\ runs[r].at = "decode"
  /\ Answered(r, "ok", runs[r].of)
  /\ urls' = IF r = current THEN urls ELSE urls \ {r}
  /\ UNCHANGED Rest

(* The number, and on the call screen its QR code; either may throw.       *)
ComputeSafetyNumber(r) ==
  /\ runs[r].at = "compute"
  /\ \/ kind = "inCall" /\ Goto(r, "qr") /\ UNCHANGED screen
     \/ kind = "safetyScreen" /\ Answered(r, "ok", SafetyNumber(Local, Shown[runs[r].of]))
     \/ Answered(r, "error", <<>>)
  /\ UNCHANGED <<Rest, urls>>

QrDrawn(r) ==
  /\ runs[r].at = "qr"
  /\ \/ Answered(r, "ok", SafetyNumber(Local, Shown[runs[r].of]))
     \/ Answered(r, "error", <<>>)
  /\ UNCHANGED <<Rest, urls>>

ViewsNext ==
  \/ \E i \in DOMAIN Shown : MountView(i) \/ Rerender(i)
  \/ Unmount
  \/ Effect
  \/ \E r \in DOMAIN runs :
       \/ ReadCache(r) \/ DownloadFails(r) \/ DecryptFails(r) \/ Downloaded(r) \/ PutPlaintext(r)
       \/ Decoded(r) \/ ComputeSafetyNumber(r) \/ QrDrawn(r)

ViewsSpec == ViewsInit /\ [][ViewsNext]_viewVars

(* What the other side sees when it compares, or the attachment itself.    *)
Expected(i) == IF Numbers THEN SafetyNumber(Shown[i], Local) ELSE i

(* Once the effect of the newest props has done its work, the view shows   *)
(* its answer and no older one, however the runs were overtaken: for an    *)
(* attachment an object URL that still opens, for a safety number the one  *)
(* the peer's own screen computes. Until then no number of another peer    *)
(* stands there, and every URL alive belongs to the run that is not        *)
(* cancelled: no decrypted blob outlives the view that made it. The cached *)
(* attachment keeps this as long as no cleanup comes while its cache write *)
(* is under way.                                                           *)
ShowsCurrent ==
  /\ urls \subseteq {current}
  /\ Numbers /\ input # 0 /\ ~effectDue /\ screen.is = "ok" => screen.by = current
  /\ ~overtaken /\ ~effectDue /\ current # 0 /\ runs[current].at = "end" =>
       /\ screen.by = current
       /\ screen.is = "ok" => /\ screen.shows = Expected(input)
                              /\ Numbers \/ current \in urls
=============================================================================
