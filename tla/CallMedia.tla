------------------------------ MODULE CallMedia ------------------------------
(* The devices of one browser's CallEngine: the microphone, camera, blurred  *)
(* picture and screen it opens, sends and must release, while every request  *)
(* for a device is answered later, perhaps after the call it was made for.   *)
(* apps/web/src/features/calls/CallEngine.ts; IncomingCallDialog.tsx.        *)
(*                                                                           *)
(* A track is a number.  The negotiation is module CallNegotiation.          *)
EXTENDS Naturals

CONSTANTS
  MaxCalls,  \* bound on the calls this browser takes part in
  MaxTracks  \* bound on the tracks opened

ASSUME MediaAssumption == MaxCalls \in Nat /\ MaxTracks \in Nat

VARIABLES
  call, phase,       \* the snapshot: which call, and its phase
  mic, cam, screen,  \* the tracks of localStream and screenStream, 0 when none
  spare,             \* a second camera in localStream, or 0
  wantBlur, blurOf,  \* backgroundBlur, and the camera the running blur reads
  resync,            \* blurChain has a sync to do
  pc, slot,          \* a peer connection, and its sender for video
  voice, picture,    \* what its senders carry
  live,              \* the tracks that were opened and not stopped
  opened,            \* how many tracks were opened
  asked,             \* the requests under way
  stray              \* a device came for another call, or none

vars == <<call, phase, mic, cam, screen, spare, wantBlur, blurOf, resync, pc, slot, voice,
          picture, live, opened, asked, stray>>

Tracks == 1..MaxTracks
Request == [what : {"answer", "ice", "camera", "mic", "switch", "screen", "blur"},
            call : 1..MaxCalls, cam : {0} \cup Tracks]
\* What a sender carries: nothing (0), a track, or the blurred picture of one.
Blurred(t) == MaxTracks + t

TypeOK ==
  /\ call \in 0..MaxCalls
  /\ phase \in {"none", "incoming", "outgoing", "connecting", "active", "ended"}
  /\ {mic, cam, screen, spare, blurOf, voice} \subseteq {0} \cup Tracks
  /\ picture \in 0..(2 * MaxTracks)
  /\ wantBlur \in BOOLEAN /\ resync \in BOOLEAN /\ stray \in BOOLEAN
  /\ pc \in BOOLEAN /\ slot \in BOOLEAN
  /\ live \subseteq Tracks /\ opened \in 0..MaxTracks /\ asked \subseteq Request

Init ==
  /\ call = 0 /\ phase = "none" /\ mic = 0 /\ cam = 0 /\ screen = 0 /\ spare = 0
  /\ wantBlur = FALSE /\ blurOf = 0 /\ resync = FALSE /\ pc = FALSE /\ slot = FALSE
  /\ voice = 0 /\ picture = 0 /\ live = {} /\ opened = 0 /\ asked = {} /\ stray = FALSE

streams == <<mic, cam, screen, spare>>
blurs == <<wantBlur, blurOf, resync>>
sends == <<pc, slot, voice, picture>>
tracks == <<live, opened>>

Busy == phase \notin {"none", "ended"}
Over == ~Busy
InCall == phase \in {"connecting", "active"}
Waiting(what) == \E r \in asked : r.what = what

Ask(what) == asked' = asked \cup {[what |-> what, call |-> call, cam |-> 0]}
\* n tracks are opened, opened + 1 and on, next to those of `kept`.
Open(n, kept) ==
  /\ opened + n <= MaxTracks /\ opened' = opened + n
  /\ live' = kept \cup (opened + 1)..(opened + n)
\* getUserMedia is refused, or its answer stopped on arrival.
Discard(r) == asked' = asked \ {r} /\ UNCHANGED <<call, phase, streams, blurs, sends, tracks, stray>>

(******************************** The call ********************************)

\* reset(): what is left of the call before.
Reset == pc' = FALSE /\ slot' = FALSE /\ voice' = 0 /\ picture' = 0 /\ call' = call + 1

\* startOutgoing with the pre-join check's stream, perhaps already blurred.
StartOutgoing(video, blur) ==
  /\ Over /\ call < MaxCalls /\ Reset /\ phase' = "outgoing"
  /\ Open(IF video THEN 2 ELSE 1, live)
  /\ mic' = opened + 1 /\ cam' = (IF video THEN opened + 2 ELSE 0)
  /\ screen' = 0 /\ spare' = 0
  /\ wantBlur' = (blur /\ video) /\ blurOf' \in {0, IF wantBlur' THEN cam' ELSE 0}
  /\ resync' = TRUE /\ UNCHANGED <<asked, stray>>

OnIncoming ==
  /\ Over /\ call < MaxCalls /\ Reset /\ phase' = "incoming"
  /\ mic' = 0 /\ cam' = 0 /\ screen' = 0 /\ spare' = 0 /\ wantBlur' = FALSE /\ blurOf' = 0
  /\ UNCHANGED <<resync, tracks, asked, stray>>

\* The dialog's Answer: acquireMedia, then accept() of whatever rings by then.
AskAnswer ==
  /\ phase = "incoming" /\ ~Waiting("answer") /\ Ask("answer")
  /\ UNCHANGED <<call, phase, streams, blurs, sends, tracks, stray>>
Accept(r, video, blur) ==
  /\ r \in asked /\ r.what = "answer" /\ phase = "incoming" /\ phase' = "connecting"
  /\ Open(IF video THEN 2 ELSE 1, live)
  /\ mic' = opened + 1 /\ cam' = IF video THEN opened + 2 ELSE 0
  /\ wantBlur' = (blur /\ video) /\ resync' = TRUE /\ stray' = (stray \/ r.call # call)
  /\ asked' = (asked \ {r}) \cup {[what |-> "ice", call |-> call, cam |-> 0]}
  /\ UNCHANGED <<call, screen, spare, blurOf, sends>>

OnAccepted ==
  /\ phase = "outgoing" /\ phase' = "connecting" /\ Ask("ice")
  /\ UNCHANGED <<call, streams, blurs, sends, tracks, stray>>

\* startPeer once it has the ICE servers: for the call there is by then.
StartPeer(r) ==
  /\ r \in asked /\ r.what = "ice" /\ asked' = asked \ {r}
  /\ IF Over \/ pc THEN UNCHANGED <<sends, stray>>
     ELSE /\ pc' = TRUE /\ voice' = mic /\ slot' = (cam # 0)
          /\ picture' = (IF cam = 0 THEN 0
                         ELSE IF blurOf # 0 THEN Blurred(blurOf)
                         ELSE IF wantBlur THEN 0 ELSE cam)
          /\ stray' = (stray \/ r.call # call)
  /\ UNCHANGED <<call, phase, streams, blurs, tracks>>

OnConnected ==
  /\ phase = "connecting" /\ pc /\ phase' = "active"
  /\ UNCHANGED <<call, streams, blurs, sends, tracks, asked, stray>>

\* The bug of a share that outlives its call.
FinishKeepsScreen ==
  /\ Busy /\ phase' = "ended" /\ pc' = FALSE /\ slot' = FALSE /\ voice' = 0 /\ picture' = 0
  /\ blurOf' = 0 /\ live' = live \ {mic, cam, spare}
  /\ UNCHANGED <<call, streams, wantBlur, resync, opened, asked, stray>>
\* finish(): hung up, declined, ended by the other side, timed out.
Finish ==
  /\ Busy /\ phase' = "ended" /\ pc' = FALSE /\ slot' = FALSE /\ voice' = 0 /\ picture' = 0
  /\ blurOf' = 0 /\ live' = live \ {mic, cam, spare, screen}
  /\ UNCHANGED <<call, streams, wantBlur, resync, opened, asked, stray>>

\* The call UI goes: the snapshot is dropped.
Dismiss ==
  /\ phase = "ended" /\ phase' = "none" /\ mic' = 0 /\ cam' = 0 /\ screen' = 0 /\ spare' = 0
  /\ UNCHANGED <<call, blurs, sends, tracks, asked, stray>>

(***************************** Camera and blur ****************************)

AskCamera ==
  /\ Busy /\ mic # 0 /\ cam = 0 /\ ~Waiting("camera") /\ Ask("camera")
  /\ UNCHANGED <<call, phase, streams, blurs, sends, tracks, stray>>

\* toggleVideo: the camera joins the stream of the call it was asked for, and
\* the connection of the call there is.
ToggleVideo(r) ==
  /\ r \in asked /\ r.what = "camera" /\ Busy /\ asked' = asked \ {r} /\ Open(1, live)
  /\ cam' = (IF r.call = call /\ cam = 0 THEN opened + 1 ELSE cam)
  /\ spare' = (IF r.call = call /\ cam # 0 THEN opened + 1 ELSE spare)
  /\ stray' = (stray \/ r.call # call)
  /\ slot' = (slot \/ (pc /\ screen = 0))
  /\ picture' = (IF ~pc \/ screen # 0 THEN picture ELSE IF wantBlur THEN 0 ELSE opened + 1)
  /\ resync' = TRUE
  /\ UNCHANGED <<call, phase, mic, screen, wantBlur, blurOf, pc, voice>>

SetBackgroundBlur(on) ==
  /\ Busy /\ wantBlur' = on /\ on # wantBlur /\ resync' = TRUE
  /\ UNCHANGED <<call, phase, streams, blurOf, sends, tracks, asked, stray>>

\* putCamera: not while a screen has the slot.
PutCamera(what) == picture' = IF slot /\ screen = 0 THEN what ELSE picture

\* syncBlur: one change at a time.
SyncBlur ==
  /\ resync /\ ~Waiting("blur") /\ resync' = FALSE
  /\ LET want == wantBlur /\ cam \in live IN
     \/ Over /\ UNCHANGED <<blurOf, sends, asked>>
     \/ /\ Busy /\ want /\ blurOf # cam
        /\ asked' = asked \cup {[what |-> "blur", call |-> call, cam |-> cam]}
        /\ UNCHANGED <<blurOf, sends>>
     \/ /\ Busy /\ ~(want /\ blurOf # cam)
        /\ blurOf' = (IF want THEN blurOf ELSE 0)
        /\ PutCamera(IF want THEN Blurred(cam) ELSE cam)
        /\ UNCHANGED <<pc, slot, voice, asked>>
  /\ UNCHANGED <<call, phase, streams, wantBlur, tracks, stray>>

\* createBackgroundBlur is done, too late for what is wanted now, or fails.
BlurReady(r) ==
  /\ r \in asked /\ r.what = "blur" /\ asked' = asked \ {r}
  /\ IF Busy /\ r.call = call /\ wantBlur /\ cam = r.cam
     THEN blurOf' = cam /\ PutCamera(Blurred(cam)) /\ UNCHANGED <<pc, slot, voice>>
     ELSE UNCHANGED <<blurOf, sends>>
  /\ UNCHANGED <<call, phase, streams, wantBlur, resync, tracks, stray>>
BlurFails(r) ==
  /\ r \in asked /\ r.what = "blur" /\ asked' = asked \ {r}
  /\ wantBlur' = FALSE /\ PutCamera(r.cam)
  /\ UNCHANGED <<call, phase, streams, blurOf, resync, pc, slot, voice, tracks, stray>>

(******************************** Devices *********************************)

AskDevice(what) ==
  /\ InCall /\ ~Waiting(what) /\ Ask(what)
  /\ UNCHANGED <<call, phase, streams, blurs, sends, tracks, stray>>

\* swapTrack of the call there is; a snapshot without a stream drops the track.
SwapMic ==
  /\ Open(1, live \ {mic}) /\ mic' = opened + 1
  /\ voice' = (IF pc THEN opened + 1 ELSE voice)
  /\ UNCHANGED <<cam, screen, spare, resync, slot, picture>>
SwapCam ==
  /\ Open(1, live \ {cam}) /\ resync' = TRUE
  /\ cam' = (IF spare = 0 THEN opened + 1 ELSE spare)
  /\ spare' = (IF spare = 0 THEN 0 ELSE opened + 1)
  /\ slot' = (slot \/ (pc /\ screen = 0 /\ ~wantBlur))
  /\ picture' = (IF pc /\ screen = 0 /\ ~wantBlur THEN opened + 1 ELSE picture)
  /\ UNCHANGED <<mic, screen, voice>>

\* setNoiseSuppression looks whether its call is still there.
SetNoiseSuppression(r) ==
  /\ r \in asked /\ r.what = "mic" /\ asked' = asked \ {r}
  /\ Busy /\ r.call = call /\ SwapMic
  /\ UNCHANGED <<call, phase, wantBlur, blurOf, pc, stray>>

\* switchDevice does not.
SwitchDevice(r) ==
  /\ r \in asked /\ r.what = "switch" /\ asked' = asked \ {r}
  /\ stray' = (stray \/ Over \/ r.call # call)
  /\ \/ mic # 0 /\ (SwapMic \/ SwapCam)
     \/ mic = 0 /\ Open(1, live) /\ UNCHANGED <<streams, resync, slot, voice, picture>>
  /\ UNCHANGED <<call, phase, wantBlur, blurOf, pc>>

AskScreen ==
  /\ phase = "active" /\ mic # 0 /\ screen = 0 /\ ~Waiting("screen") /\ Ask("screen")
  /\ UNCHANGED <<call, phase, streams, blurs, sends, tracks, stray>>

StartScreenShare(r) ==
  /\ r \in asked /\ r.what = "screen" /\ asked' = asked \ {r}
  /\ Busy /\ r.call = call /\ Open(1, live)
  /\ screen' = opened + 1 /\ picture' = opened + 1 /\ slot' = TRUE
  /\ UNCHANGED <<call, phase, mic, cam, spare, blurs, pc, voice, stray>>

\* Back to the camera, blurred if the blur is running.
StopScreenShare ==
  /\ screen # 0 /\ Busy /\ screen' = 0 /\ live' = live \ {screen}
  /\ picture' = (IF blurOf # 0 THEN Blurred(blurOf) ELSE cam)
  /\ UNCHANGED <<call, phase, mic, cam, spare, blurs, pc, slot, voice, opened, asked, stray>>

\* A device is refused, or comes when the code stops it.
TooLate(r) ==
  /\ r \in asked
  /\ r.what \in {"camera", "mic", "switch", "screen", "answer"} /\ Discard(r)

Next ==
  \/ \E video, blur \in BOOLEAN : StartOutgoing(video, blur) \/ (\E r \in asked : Accept(r, video, blur))
  \/ OnIncoming \/ AskAnswer \/ OnAccepted \/ OnConnected \/ Finish \/ Dismiss
  \/ AskCamera \/ SyncBlur \/ AskScreen \/ StopScreenShare
  \/ AskDevice("mic") \/ AskDevice("switch")
  \/ \E on \in BOOLEAN : SetBackgroundBlur(on)
  \/ \E r \in asked : StartPeer(r) \/ ToggleVideo(r) \/ BlurReady(r) \/ BlurFails(r)
                      \/ SetNoiseSuppression(r) \/ SwitchDevice(r) \/ StartScreenShare(r)
                      \/ TooLate(r)

Spec == Init /\ [][Next]_vars

(****************************** Properties ********************************)

\* Without a call, nothing this browser opened is still on, however many
\* devices were changed, shared or blurred, unless one came for another call
\* than it was asked for (finish, stopStream, the checks after getUserMedia).
ReleasedAtEnd == Over /\ ~stray => live = {}

\* "hanging up ends it, closes the connection and releases the camera/mic"
\* (CallEngine.test.ts:550): whatever was under way.
Released == Over => live = {}

\* "(never the unblurred background)" (CallEngine.ts:729): no step puts the
\* camera itself on the connection while blur is wanted.
NeverUnblurred == [][picture' # picture /\ picture' \in Tracks /\ picture' = cam' => ~wantBlur']_vars

\* An answered call carries this side's microphone.
Heard == phase = "active" /\ ~stray => voice = mic
=============================================================================
