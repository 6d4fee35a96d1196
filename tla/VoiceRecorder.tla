---------------------------- MODULE VoiceRecorder -----------------------------
(* A browser records voice messages: the microphone, the MediaRecorder, its    *)
(* data and its stop event, and the presses of Record, Send and Cancel.        *)
(* apps/web/src/features/voice: voiceRecorder.ts, useVoiceRecording.ts,        *)
(* VoiceRecorderBar.tsx.                                                       *)
(*                                                                             *)
(* A recording is numbered by the stream it is made from.  Of its data it is   *)
(* kept whether it holds the beginning and whether it holds the end.  Levels   *)
(* and the elapsed time are left out: a recording may be too short, or at the  *)
(* limit, at any time.                                                         *)
EXTENDS Integers

CONSTANT MaxRecordings

VARIABLES
  open,     \* the chat is open
  phase, stream, recorder,  \* the VoiceRecorder's; 0 when null
  chunks,   \* what it has collected
  asked,    \* requests for the microphone under way
  opened,   \* streams so far
  live,     \* streams whose track is not stopped
  running,  \* MediaRecorders that record
  stopping, \* MediaRecorders whose last data and stop event are to come
  awaited,  \* those whose onstop resolves a finish()
  sent,     \* recordings handed to the composer, with their data
  stray     \* Record was pressed, or Cancel, while an earlier press was at work

vars == <<open, phase, stream, recorder, chunks, asked, opened, live, running, stopping,
          awaited, sent, stray>>
media == <<asked, opened, live>>

Recordings == 1..MaxRecordings
Parts == Recordings \X {"begin", "end"}

TypeOK ==
  /\ open \in BOOLEAN /\ phase \in {"idle", "starting", "recording"}
  /\ {stream, recorder} \subseteq 0..MaxRecordings /\ chunks \subseteq Parts
  /\ asked \in Nat /\ opened \in 0..MaxRecordings
  /\ live \cup running \cup stopping \cup awaited \subseteq Recordings
  /\ sent \subseteq [of : Recordings, data : SUBSET Parts] /\ stray \in BOOLEAN

Init ==
  /\ open = TRUE /\ phase = "idle" /\ stream = 0 /\ recorder = 0 /\ chunks = {}
  /\ asked = 0 /\ opened = 0 /\ live = {} /\ running = {} /\ stopping = {} /\ awaited = {}
  /\ sent = {} /\ stray = FALSE

\* release(): the meter, the tracks of the stream, and all that is known.
Release(on) ==
  /\ live' = live \ {on} /\ stream' = 0 /\ recorder' = 0 /\ chunks' = {} /\ phase' = "idle"

Start ==
  /\ open /\ phase = "idle" /\ asked + opened < MaxRecordings
  /\ phase' = "starting" /\ asked' = asked + 1
  /\ stray' = (stray \/ asked > 0 \/ stopping # {})
  /\ UNCHANGED <<open, stream, recorder, chunks, opened, live, running, stopping, awaited, sent>>

\* Without the check whether the prompt was cancelled.
GrantedUnchecked ==
  /\ asked > 0 /\ asked' = asked - 1 /\ opened' = opened + 1 /\ phase' = "recording"
  /\ live' = live \cup {opened'} /\ stream' = opened' /\ recorder' = opened'
  /\ chunks' = {} /\ running' = running \cup {opened'}
  /\ UNCHANGED <<open, stopping, awaited, sent, stray>>
\* getUserMedia answers: the prompt may have been cancelled meanwhile.  The
\* browser may refuse to make a recorder: the bar stays, with the microphone.
Granted ==
  /\ asked > 0 /\ asked' = asked - 1 /\ opened' = opened + 1
  /\ UNCHANGED <<open, stopping, awaited, sent, stray>>
  /\ \/ /\ phase = "starting" /\ phase' = "recording"
        /\ live' = live \cup {opened'} /\ stream' = opened' /\ recorder' = opened'
        /\ chunks' = {} /\ running' = running \cup {opened'}
     \/ /\ phase = "starting" /\ live' = live \cup {opened'} /\ stream' = opened'
        /\ UNCHANGED <<phase, recorder, chunks, running>>
     \/ phase # "starting" /\ Release(opened') /\ UNCHANGED running
Denied ==
  /\ asked > 0 /\ asked' = asked - 1 /\ phase' = "idle"
  /\ UNCHANGED <<open, stream, recorder, chunks, opened, live, running, stopping, awaited, sent,
                 stray>>

\* ondataavailable, every 250 ms.
Data(r) ==
  /\ r \in running /\ chunks' = chunks \cup {<<r, "begin">>}
  /\ UNCHANGED <<open, phase, stream, recorder, media, running, stopping, awaited, sent, stray>>

\* cancel(): nothing waits for the stop event any more.
Cancelled ==
  /\ running' = running \ {recorder}
  /\ stopping' = stopping \cup ({recorder} \cap running)
  /\ awaited' = awaited \ ({recorder} \cap running)
  /\ Release(stream) /\ stray' = (stray \/ awaited # {})
Cancel ==
  /\ open /\ phase # "idle" /\ Cancelled /\ UNCHANGED <<open, asked, opened, sent>>
LeaveChat ==
  /\ open /\ open' = FALSE /\ Cancelled /\ UNCHANGED <<asked, opened, sent>>

\* finish(), of Send and of the five-minute limit, up to the stop event.  It
\* goes on, also when the chat is left.
Finish ==
  /\ open /\ phase = "recording" /\ recorder # 0
  /\ running' = running \ {recorder} /\ awaited' = awaited \cup {recorder}
  /\ stopping' = stopping \cup ({recorder} \cap running)
  /\ UNCHANGED <<open, phase, stream, recorder, chunks, media, sent, stray>>
\* The last data, then the stop event.  What was collected is sent unless it
\* is too short.
Stopped(r) ==
  /\ r \in stopping /\ stopping' = stopping \ {r} /\ awaited' = awaited \ {r}
  /\ LET data == chunks \cup {<<r, "begin">>, <<r, "end">>} IN
     \/ /\ r \notin awaited /\ chunks' = data
        /\ UNCHANGED <<phase, stream, recorder, live, sent>>
     \/ /\ r \in awaited /\ Release(stream)
        /\ sent' \in {sent, sent \cup {[of |-> r, data |-> data]}}
  /\ UNCHANGED <<open, asked, opened, running, stray>>

\* The microphone is unplugged: its track ends, and the recorder with it.
Unplug(r) ==
  /\ r \in live /\ live' = live \ {r} /\ running' = running \ {r}
  /\ stopping' = stopping \cup ({r} \cap running)
  /\ UNCHANGED <<open, phase, stream, recorder, chunks, asked, opened, awaited, sent, stray>>

Next ==
  \/ Start \/ Granted \/ Denied \/ Cancel \/ LeaveChat \/ Finish
  \/ \E r \in Recordings : Data(r) \/ Stopped(r) \/ Unplug(r)
Spec == Init /\ [][Next]_vars

(****************************** Properties ********************************)

\* The microphone is on only while the bar shows it in an open chat, also when the
\* prompt was cancelled or the chat left while it was up (voiceRecorder.ts:83).
MicrophoneShown ==
  (phase = "idle" \/ ~open) /\ ~stray => live = {} /\ running = {}

\* What is sent is the whole recording and nothing of another one.
WholeIfSent ==
  ~stray => \A s \in sent : s.data = {<<s.of, "begin">>, <<s.of, "end">>}

\* What `stray` sets aside: Record, Cancel, Record while the prompt is up open
\* two microphones and forget one, and a Cancel after Send lets the last data
\* through.
=============================================================================
