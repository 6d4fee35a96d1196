------------------------------- MODULE VideoBlur -------------------------------
(* Background blur on a phone: the switch of the calls (calls/blur.ts,          *)
(* nativeBlur.ts, callPrefs.ts, shared/src/blur.ts) and the processor it puts   *)
(* the frames of every camera through (modules/video-blur: BlurProcessor.kt,    *)
(* VBBlurProcessor.m).                                                          *)
(*                                                                              *)
(* A picture is how it was made: black, blurred all over, or blurred but for    *)
(* the person a mask cuts out.  Buffers have a rotation and a size; one aspect. *)
EXTENDS Naturals, FiniteSets

CONSTANTS
  MaxCameras,   \* cameras opened
  SLOW_SECONDS,
  Shapes,       \* <<rotation, size>> of the buffers
  None

Cameras == 1..MaxCameras

VARIABLES
  platform, preference,
  one, room,      \* the 1:1 call; the group call's screen
  live, opened,   \* the cameras that run and the call that opened each
  on, turnedOffSlow, idle, tracks, slowSeconds, \* the BlurController, its detector
  effects,        \* the cameras whose frames go through the processor
  mask, request,  \* the newest mask; the shape of the frame that is segmented
  shape, sent,    \* of the last frame: its buffer, the picture sent for it
  choice,         \* this call's choice, None before its first camera
  mixed           \* two calls were there at a time

vars == <<platform, preference, one, room, live, opened, on, turnedOffSlow, idle, tracks,
          slowSeconds, effects, mask, request, shape, sent, choice, mixed>>
control == <<on, turnedOffSlow, idle, tracks, slowSeconds, effects>>
frames == <<mask, request, shape, sent>>

TypeOK ==
  /\ platform \in {"android", "ios"} /\ one \in {"none", "ringing", "live"}
  /\ {preference, room, on, turnedOffSlow, idle, mixed} \subseteq BOOLEAN
  /\ live \subseteq Cameras \X {"one", "group"} /\ opened \in 0..MaxCameras
  /\ tracks \subseteq Cameras /\ effects \subseteq Cameras /\ slowSeconds \in 0..SLOW_SECONDS
  /\ mask \in {None} \cup Shapes \X Shapes /\ request \in {None} \cup Shapes
  /\ shape \in Shapes /\ sent \in {None, "black", "blurred", "fits", "misfits"}
  /\ choice \in {None} \cup BOOLEAN

Init ==
  /\ platform \in {"android", "ios"} /\ preference \in BOOLEAN
  /\ one = "none" /\ room = FALSE /\ live = {} /\ opened = 0
  /\ on = preference /\ turnedOffSlow = FALSE /\ idle = TRUE /\ tracks = {}
  /\ slowSeconds = 0 /\ effects = {} /\ mask = None /\ request = None /\ shape \in Shapes
  /\ sent = None /\ choice = None /\ mixed = FALSE

Running(cameras) == {l[1] : l \in cameras}

-----------------------------------------------------------------------------
(* BlurController *)

\* attach(): a camera was opened.  The first of a new call goes back to the Settings.
Attach(t) ==
  LET held == tracks \cap Running(live)
      fresh == idle /\ held = {} IN
  /\ on' = IF fresh THEN preference ELSE on
  /\ turnedOffSlow' = (turnedOffSlow /\ ~fresh)
  /\ slowSeconds' = IF fresh THEN 0 ELSE slowSeconds
  /\ idle' = FALSE /\ tracks' = held \cup {t}
  /\ effects' = IF on' THEN effects \cup {t} ELSE effects

\* setOn().
Set(is) ==
  /\ on' = is /\ slowSeconds' = (IF is THEN 0 ELSE slowSeconds)
  /\ tracks' = tracks \cap Running(live)
  /\ effects' = (IF is THEN effects \cup tracks' ELSE effects \ tracks')
  /\ choice' = (IF choice = None THEN None ELSE is) /\ UNCHANGED idle

\* The switch of the call.
SetOn ==
  /\ live # {} /\ Set(~on) /\ turnedOffSlow' = (turnedOffSlow /\ on)
  /\ UNCHANGED <<platform, preference, one, room, live, opened, mixed, frames>>

\* SlowBlurDetector: the seconds in a row whose frames took too long.
Report(tooSlow) ==
  /\ opened > 0 /\ on /\ slowSeconds < SLOW_SECONDS
  /\ IF tooSlow /\ slowSeconds + 1 = SLOW_SECONDS
     THEN Set(FALSE) /\ turnedOffSlow' = TRUE
     ELSE /\ slowSeconds' = (IF tooSlow THEN slowSeconds + 1 ELSE 0)
          /\ UNCHANGED <<on, turnedOffSlow, idle, tracks, effects, choice>>
  /\ UNCHANGED <<platform, preference, one, room, live, opened, mixed, frames>>

\* callEnded(), with these cameras still running.
CallEnded(cameras) ==
  /\ idle' = TRUE /\ tracks' = tracks \cap Running(cameras)
  /\ IF tracks' = {} THEN on' = preference /\ turnedOffSlow' = FALSE
     ELSE UNCHANGED <<on, turnedOffSlow>>
  /\ UNCHANGED <<slowSeconds, effects>>

SetBackgroundBlur ==
  /\ preference' = ~preference
  /\ UNCHANGED <<platform, one, room, live, opened, choice, mixed, control, frames>>

-----------------------------------------------------------------------------
(* The calls *)

\* A 1:1 call comes in, also during a group call; it is answered or made.
Rings ==
  /\ one = "none" /\ one' = "ringing" /\ mixed' = (mixed \/ room)
  /\ UNCHANGED <<platform, preference, room, live, opened, choice, control, frames>>
Answers ==
  /\ one = "ringing" \/ (one = "none" /\ ~room)
  /\ one' = "live"
  /\ UNCHANGED <<platform, preference, room, live, opened, choice, mixed, control, frames>>
\* Its camera stops with it; CallProvider's effect.
OneEnds ==
  /\ one # "none" /\ one' = "none"
  /\ live' = {l \in live : l[2] # "one"} /\ CallEnded(live')
  /\ choice' = (IF room THEN choice ELSE None)
  /\ UNCHANGED <<platform, preference, room, opened, mixed, frames>>

Joins ==
  /\ one = "none" /\ ~room /\ room' = TRUE
  /\ UNCHANGED <<platform, preference, one, live, opened, choice, mixed, control, frames>>
\* The room's screen goes, also when a 1:1 call is answered; its camera stops
\* before or after useCameraBlur's cleanup.
Leaves ==
  /\ room /\ room' = FALSE
  /\ live' \in {live, {l \in live : l[2] # "group"}} /\ CallEnded(live')
  /\ choice' = None /\ UNCHANGED <<platform, preference, one, opened, mixed, frames>>

\* A 1:1 call's camera, or the group's (also one that LiveKit restarted).
CameraOn(c) ==
  /\ opened < MaxCameras /\ opened' = opened + 1
  /\ IF c = "one" THEN one # "none" ELSE room
  /\ \A l \in live : l[2] # c
  /\ Attach(opened') /\ live' = live \cup {<<opened', c>>}
  /\ choice' = (IF choice = None THEN preference ELSE choice) /\ mixed' = (mixed \/ live # {})
  /\ UNCHANGED <<platform, preference, one, room, frames>>
\* Turned off in the group's room, or stopping after the room's screen went.
CameraOff ==
  /\ \E l \in live : l[2] = "group" /\ live' = live \ {l}
  /\ UNCHANGED <<platform, preference, one, room, opened, choice, mixed, control, frames>>

-----------------------------------------------------------------------------
(* The processor: a mask is <<the shape it is kept under, the shape it was made for>> *)

\* The mask a frame of this shape is mixed by, if any.
UsableOnAndroid(s) == mask # None /\ mask[1][1] = s[1]
UsableOnIos(s) == mask # None /\ mask[1] = s
PictureOf(s) ==
  IF ~(IF platform = "ios" THEN UsableOnIos(s) ELSE UsableOnAndroid(s)) THEN "blurred"
  ELSE IF mask[2][1] = s[1] THEN "fits" ELSE "misfits"

\* process(): a frame, the phone held in some way.  It may be the next that is
\* segmented; one that cannot be read or blurred is sent black.
Process(s) ==
  /\ effects \cap Running(live) # {} /\ shape' = s
  /\ sent' \in {"black", PictureOf(s)}
  /\ request' \in {request, IF request = None THEN s ELSE request}
  /\ UNCHANGED <<platform, preference, one, room, live, opened, choice, mixed, mask,
                 control>>

\* The answer is kept under the shape the camera has by then.
SegmentedLate ==
  /\ request # None /\ request' = None
  /\ mask' \in {mask, <<shape, request>>}
  /\ UNCHANGED <<platform, preference, one, room, live, opened, choice, mixed, shape,
                 sent, control>>
\* The segmenter's answer, on its own thread, with the frame's own rotation.
Segmented ==
  /\ request # None /\ request' = None
  /\ mask' \in {mask, <<request, request>>}
  /\ UNCHANGED <<platform, preference, one, room, live, opened, choice, mixed, shape,
                 sent, control>>

Next ==
  \/ SetOn \/ SetBackgroundBlur \/ \E tooSlow \in BOOLEAN : Report(tooSlow)
  \/ Rings \/ Answers \/ OneEnds \/ Joins \/ Leaves \/ CameraOff
  \/ \E c \in {"one", "group"} : CameraOn(c)
  \/ \E s \in Shapes : Process(s)
  \/ Segmented
Spec == Init /\ [][Next]_vars

-----------------------------------------------------------------------------
(* toBufferOrientation: a picture is [w, h, at], at a pixel of it *)

Pixels(w, h) == (0..(w - 1)) \X (0..(h - 1))
ToBufferOrientation(up, bw, bh, rotation) ==
  [p \in Pixels(bw, bh) |->
     up.at[CASE rotation = 90 -> <<bh - 1 - p[2], p[1]>>
             [] rotation = 180 -> <<bw - 1 - p[1], bh - 1 - p[2]>>
             [] rotation = 270 -> <<p[2], bw - 1 - p[1]>>
             [] OTHER -> p]]

\* A quarter turn clockwise: Android's Matrix.postRotate(90).
Quarter(i) ==
  [w |-> i.h, h |-> i.w, at |-> [q \in Pixels(i.h, i.w) |-> i.at[<<q[2], i.h - 1 - q[1]>>]]]
Upright(i, rotation) ==
  CASE rotation = 90 -> Quarter(i)
    [] rotation = 180 -> Quarter(Quarter(i))
    [] rotation = 270 -> Quarter(Quarter(Quarter(i)))
    [] OTHER -> i

(****************************** Properties ********************************)

\* The picture of a camera is blurred as the call was last told: the Settings'
\* choice, the switch, or off since the phone was too slow (blur.ts:34).  Not
\* so when a 1:1 call rings in a group call: its end puts the group's choice
\* back to the Settings' at the next camera.
BlurredAsChosen ==
  ~mixed /\ live # {} /\ choice # None =>
    /\ on = choice /\ (turnedOffSlow => ~on)
    /\ (effects \cap Running(live) # {}) <=> on

\* Once blur is on the raw picture is never sent, and a mask cuts out the person
\* as the frame lies, also when the phone turns while a frame is segmented
\* (BlurProcessor.kt:28).
MasksFit == sent # "misfits"

\* A mask that comes back upright is turned back as the buffer lies, for every
\* rotation (BlurProcessor.kt:252).
TurnedBack ==
  \A w, h \in 1..3, rotation \in {0, 90, 180, 270} :
    LET i == [w |-> w, h |-> h, at |-> [p \in Pixels(w, h) |-> p]] IN
    ToBufferOrientation(Upright(i, rotation), w, h, rotation) = i.at
=============================================================================
