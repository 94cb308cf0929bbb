------------------------------ MODULE VoiceNote ------------------------------
(***************************************************************************)
(* A voice note of the composer: VoiceNoteButton.tsx and its recorder,     *)
(* apps/web/src/features/dm/voice-note.ts.  A press starts it, a release,  *)
(* a lost focus or a cancelled pointer stops it, and the watchdog stops    *)
(* the recorder after MAX_RECORDING_MS.  The recorder has one state; the   *)
(* calls of start() that wait for the microphone and those of stop() that  *)
(* wait for the last chunk or for the upload run beside it.                *)
(*                                                                         *)
(* getUserMedia and MediaRecorder are external: the one settles at any     *)
(* time or never, the other answers stop() with onstop.                    *)
(***************************************************************************)
EXTENDS Naturals, Sequences

CONSTANTS
  MaxClips,                 \* bound on the recordings
  MaxOpening,               \* bound on the prompts that wait for the user
  MaxStops,                 \* bound on the calls of stop() for one recording
  MaxAttempts               \* UPLOAD_MAX_RETRIES + 1

VARIABLES
  mounted,                  \* whether the button is on the page
  opening,                  \* calls of start() that await getUserMedia
  current,                  \* the recording #state is about, 0 when idle
  clips,                    \* the recordings, oldest first
  uploads,                  \* attempts of the uploads of each recording
  notes,                    \* how often onSent was called for each
  overlapped                \* a recording began before another was finalised

voiceVars == <<mounted, opening, current, clips, uploads, notes, overlapped>>

Clips == DOMAIN clips

VoiceInit ==
  /\ mounted = TRUE
  /\ opening = 0
  /\ current = 0
  /\ clips = <<>>
  /\ uploads = <<>>
  /\ notes = <<>>
  /\ overlapped = FALSE

(* Another recording is current, or a stop() of it will reset #state.      *)
Busy == current # 0 \/ \E c \in Clips : clips[c].stops > 0

(* recorder.stop(), unless it is inactive.                                 *)
Stopping(c) == [clips EXCEPT ![c].recorder = IF @ = "on" THEN "stopping" ELSE @]

----------------------------------------------------------------------------
(* beginRecording and start().                                             *)

Press ==
  /\ mounted
  /\ current = 0
  /\ opening < MaxOpening
  /\ opening' = opening + 1
  /\ UNCHANGED <<mounted, current, clips, uploads, notes, overlapped>>

(* Permission denied, no device, or a recorder that cannot be made.        *)
NotStarted ==
  /\ opening > 0
  /\ opening' = opening - 1
  /\ UNCHANGED <<mounted, current, clips, uploads, notes, overlapped>>

\* Mutant of Started: the watchdog is left to the release to arm.
StartedUnwatched ==
  /\ opening > 0
  /\ Len(clips) < MaxClips
  /\ opening' = opening - 1
  /\ clips' = Append(clips, [mic |-> TRUE, recorder |-> "on", watched |-> FALSE, stops |-> 0])
  /\ uploads' = Append(uploads, <<>>)
  /\ notes' = Append(notes, 0)
  /\ current' = Len(clips')
  /\ overlapped' = (overlapped \/ Busy)
  /\ UNCHANGED mounted

(* Neither the release nor an unmount that came first is looked at.        *)
Started ==
  /\ opening > 0
  /\ Len(clips) < MaxClips
  /\ opening' = opening - 1
  /\ clips' = Append(clips, [mic |-> TRUE, recorder |-> "on", watched |-> TRUE, stops |-> 0])
  /\ uploads' = Append(uploads, <<>>)
  /\ notes' = Append(notes, 0)
  /\ current' = Len(clips')
  /\ overlapped' = (overlapped \/ Busy)
  /\ UNCHANGED mounted

----------------------------------------------------------------------------
(* The recorder.                                                           *)

(* The timer of any recording stops the one that is current.               *)
AutoStop(c) ==
  /\ clips[c].watched
  /\ clips' = [IF current = 0 THEN clips ELSE Stopping(current)
                 EXCEPT ![c].watched = FALSE]
  /\ UNCHANGED <<mounted, opening, current, uploads, notes, overlapped>>

RecorderFails(c) ==
  /\ clips[c].recorder = "on"
  /\ clips' = [clips EXCEPT ![c].recorder = "failed", ![c].mic = FALSE]
  /\ UNCHANGED <<mounted, opening, current, uploads, notes, overlapped>>

OnStop(c) ==
  /\ clips[c].recorder = "stopping"
  /\ clips' = [clips EXCEPT ![c].recorder = "done", ![c].mic = FALSE]
  /\ UNCHANGED <<mounted, opening, current, uploads, notes, overlapped>>

----------------------------------------------------------------------------
(* stop(): from the release, the blur or the cancelled pointer.            *)

Release ==
  /\ mounted
  /\ current # 0
  /\ clips[current].stops < MaxStops
  /\ clips' = [Stopping(current) EXCEPT ![current].watched = FALSE,
                                        ![current].stops = @ + 1]
  /\ UNCHANGED <<mounted, opening, current, uploads, notes, overlapped>>

(* stopPromise settles and every stop() that awaits it goes on: a short    *)
(* hold, a failed recorder, an empty clip or a failed encryption end it,   *)
(* each of the others uploads the clip.                                    *)
Finalized(c) ==
  /\ clips[c].stops > 0
  /\ clips[c].recorder \in {"done", "failed"}
  /\ current' = 0
  /\ clips' = [clips EXCEPT ![c].stops = 0]
  /\ \E n \in 0..(IF clips[c].recorder = "done" THEN clips[c].stops ELSE 0) :
       uploads' = [uploads EXCEPT ![c] = @ \o [i \in 1..n |-> 1]]
  /\ UNCHANGED <<mounted, opening, notes, overlapped>>

Upload(c, i) == i \in DOMAIN uploads[c]

Without(s, i) == SubSeq(s, 1, i - 1) \o SubSeq(s, i + 1, Len(s))

UploadOk(c, i) ==
  /\ Upload(c, i)
  /\ uploads' = [uploads EXCEPT ![c] = Without(@, i)]
  /\ notes' = [notes EXCEPT ![c] = @ + 1]
  /\ UNCHANGED <<mounted, opening, current, clips, overlapped>>

UploadFails(c, i) ==
  /\ Upload(c, i)
  /\ uploads' = [uploads EXCEPT ![c] =
       IF @[i] < MaxAttempts THEN [@ EXCEPT ![i] = @ + 1] ELSE Without(@, i)]
  /\ UNCHANGED <<mounted, opening, current, clips, notes, overlapped>>

(* cancel(), when the button unmounts.  What stop() has begun goes on.     *)
Unmount ==
  /\ mounted
  /\ mounted' = FALSE
  /\ current' = 0
  /\ clips' = IF current = 0 THEN clips
              ELSE [Stopping(current) EXCEPT ![current].watched = FALSE,
                                             ![current].mic = FALSE]
  /\ UNCHANGED <<opening, uploads, notes, overlapped>>

VoiceNext ==
  \/ Press \/ NotStarted \/ Started \/ Release \/ Unmount
  \/ \E c \in Clips :
       \/ AutoStop(c) \/ RecorderFails(c) \/ OnStop(c) \/ Finalized(c)
       \/ \E i \in DOMAIN uploads[c] : UploadOk(c, i) \/ UploadFails(c, i)

(* A timer that is armed fires and a recorder that was stopped says so.    *)
VoiceFairness ==
  \A c \in 1..MaxClips :
    /\ WF_voiceVars(c \in Clips /\ AutoStop(c))
    /\ WF_voiceVars(c \in Clips /\ OnStop(c))

----------------------------------------------------------------------------
(* Properties.                                                             *)

(* A microphone that is on goes off, though the release may have come too  *)
(* early, the button may be gone or the recorder may fail; unless it began *)
(* before another was finalised: one of the two is then never stopped.     *)
MicOn(c) == c \in Clips /\ clips[c].mic
MicGoesOff == \A c \in 1..MaxClips : MicOn(c) ~> overlapped \/ ~MicOn(c)

=============================================================================
