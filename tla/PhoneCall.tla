------------------------------ MODULE PhoneCall ------------------------------
(* The phone's own side of its calls: what the CallEngine opens, sends and   *)
(* says while requests are answered late, the socket comes and goes, the     *)
(* media path breaks and the app leaves the screen.                          *)
(* apps/mobile/src/calls: CallEngine.ts, CallProvider.tsx, media.ts.         *)
(* The system's call screen is module MobileCalls; a track is a number.      *)
EXTENDS Naturals, FiniteSets

CONSTANTS
  MaxCalls,  \* bound on the calls
  MaxTracks, \* bound on the tracks opened
  MaxAsked,  \* bound on what is awaited at a time
  MaxDrops   \* bound on how often the socket goes down

VARIABLES
  call, phase, outgoing,  \* the snapshot: which call, its phase and direction
  acceptSent,
  mic, cam,       \* the first tracks of localStream, 0 when none
  shows,          \* the camera's track is enabled
  wants, paused,  \* videoEnabled, videoPaused
  pc,             \* the peer connection: the tracks it sends, or NoConnection
  timer,          \* reconnectTimer runs
  live, opened,   \* the tracks opened and not stopped, and how many were opened
  asked,          \* what is awaited, and the call it was asked for
  app, hiding,    \* where the app is, and whether its timer to pause runs
  up, drops,      \* the socket
  told,           \* the other side was last told that video flows
  said,           \* what was said of each call
  lost, stray     \* a state was not told; a camera came to a stream not its own

vars == <<call, phase, outgoing, acceptSent, mic, cam, shows, wants, paused, pc, timer,
          live, opened, asked, app, hiding, up, drops, told, said, lost, stray>>

Tracks == 1..MaxTracks
CallIds == 1..MaxCalls
NoConnection == {0}
Words == {"accept", "decline", "cancel", "end"}

TypeOK ==
  /\ call \in 0..MaxCalls /\ {outgoing, acceptSent, shows, wants, paused, timer} \subseteq BOOLEAN
  /\ phase \in {"none", "incoming", "outgoing", "connecting", "active", "reconnecting", "ended"}
  /\ {mic, cam} \subseteq 0..MaxTracks /\ (pc = NoConnection \/ pc \subseteq Tracks)
  /\ live \subseteq Tracks /\ opened \in 0..MaxTracks
  /\ asked \subseteq [what : {"call", "answer", "wait", "ice", "camera", "decline"}, call : 0..MaxCalls]
  /\ app \in {"active", "pip", "background"} /\ {hiding, up, told, lost, stray} \subseteq BOOLEAN
  /\ drops \in 0..MaxDrops /\ said \in [CallIds -> SUBSET Words]

Init ==
  /\ call = 0 /\ phase = "none" /\ outgoing = FALSE /\ acceptSent = FALSE
  /\ mic = 0 /\ cam = 0 /\ shows = FALSE /\ wants = FALSE /\ paused = FALSE
  /\ pc = NoConnection /\ timer = FALSE /\ live = {} /\ opened = 0 /\ asked = {}
  /\ app = "active" /\ hiding = FALSE /\ up = TRUE /\ drops = 0 /\ told = FALSE
  /\ said = [c \in CallIds |-> {}] /\ lost = FALSE /\ stray = FALSE

camera == <<mic, cam, shows, wants, paused>>
tracks == <<live, opened>>
screen == <<app, hiding>>
net == <<up, drops>>
talk == <<told, lost>>

Busy == phase \notin {"none", "ended"}
InCall == phase \in {"connecting", "active", "reconnecting"}
Current(c) == Busy /\ call = c

\* The small window shows the other person alone, and a call that rings, or is not
\* connected yet, no more than how to answer or end it.
ShownScreen ==
  IF app = "pip" /\ phase # "incoming" THEN "picture"
  ELSE IF phase \in {"active", "reconnecting"} THEN "controls" ELSE phase
AtControls == app # "background" /\ ShownScreen = "controls"

Ask(what, c) == asked' = asked \cup {[what |-> what, call |-> c]}
Room == Cardinality(asked) < MaxAsked
Say(word, c) == said' = IF up THEN [said EXCEPT ![c] = @ \cup {word}] ELSE said

\* n tracks are opened next to those that stay.
Open(n, kept) ==
  /\ opened + n <= MaxTracks /\ opened' = opened + n
  /\ live' = kept \cup (opened + 1)..(opened + n)

\* sendMediaState, with a connection; what is sent while the socket is down
\* is not sent again.
TellMedia(on) ==
  IF pc = NoConnection THEN UNCHANGED talk
  ELSE told' = (IF up THEN on ELSE told) /\ lost' = (lost \/ ~up)

(******************************** The call ********************************)

\* reset() and a new snapshot.
Fresh(p) ==
  /\ call' = call + 1 /\ phase' = p /\ outgoing' = (p = "outgoing")
  /\ pc' = NoConnection /\ timer' = FALSE /\ paused' = FALSE /\ told' = FALSE /\ lost' = FALSE

\* acquireMedia: the microphone, and the camera of a video call if it may be
\* used.
Acquire(video) ==
  /\ Open(IF video THEN 2 ELSE 1, live) /\ mic' = opened + 1
  /\ cam' = (IF video THEN opened + 2 ELSE 0) /\ shows' = video /\ wants' = video

AskCall ==
  /\ ~Busy /\ up /\ app = "active" /\ call < MaxCalls /\ Room /\ Ask("call", 0)
  /\ UNCHANGED <<call, phase, outgoing, acceptSent, camera, pc, timer, tracks, screen, net, talk,
                 said, stray>>

\* startCall, once it has the devices; CallBusyError when a call came meanwhile.
StartOutgoing(r, video) ==
  /\ r \in asked /\ r.what = "call" /\ ~Busy /\ call < MaxCalls /\ asked' = asked \ {r}
  /\ Fresh("outgoing") /\ Acquire(video)
  /\ UNCHANGED <<acceptSent, screen, net, said, stray>>

OnIncoming ==
  /\ ~Busy /\ call < MaxCalls /\ up /\ Fresh("incoming")
  /\ mic' = 0 /\ cam' = 0 /\ shows' = FALSE /\ wants' = FALSE
  /\ UNCHANGED <<acceptSent, tracks, asked, screen, net, said, stray>>

\* answerNow, from the app or the lock screen; accept() takes whatever rings
\* once the devices are there, and waits for the socket.
AskAnswer ==
  /\ phase = "incoming" /\ Room /\ Ask("answer", call)
  /\ UNCHANGED <<call, phase, outgoing, acceptSent, camera, pc, timer, tracks, screen, net, talk,
                 said, stray>>
Accept(r, video) ==
  /\ r \in asked /\ r.what = "answer" /\ phase = "incoming" /\ phase' = "connecting"
  /\ Acquire(video) /\ acceptSent' = FALSE
  /\ asked' = (asked \ {r}) \cup {[what |-> "wait", call |-> call]}
  /\ UNCHANGED <<call, outgoing, paused, pc, timer, screen, net, talk, said, stray>>

\* What was opened is stopped at once, or was refused.
Discard(r) ==
  /\ r \in asked
  /\ \/ r.what = "call" \/ r.what = "answer" \/ r.what = "camera"
     \/ r.what = "decline" /\ ~up
  /\ asked' = asked \ {r}
  /\ UNCHANGED <<call, phase, outgoing, acceptSent, camera, pc, timer, tracks, screen, net, talk,
                 said, stray>>

FinishAs(p) ==
  /\ phase' = p /\ pc' = NoConnection /\ timer' = FALSE /\ live' = live \ {mic, cam}
  /\ UNCHANGED <<call, outgoing, camera, opened, screen, net, talk, stray>>
Finish == FinishAs("ended")

\* The rest of accept: the socket is up, or does not come up in time.
AcceptUnchecked(r) ==
  /\ r \in asked /\ r.what = "wait" /\ up
  /\ Say("accept", r.call) /\ acceptSent' = TRUE
  /\ asked' = (asked \ {r}) \cup {[what |-> "ice", call |-> r.call]}
  /\ UNCHANGED <<call, phase, outgoing, camera, pc, timer, tracks, screen, net, talk, stray>>
SendAccept(r) ==
  /\ r \in asked /\ r.what = "wait"
  /\ \/ /\ ~Current(r.call) /\ asked' = asked \ {r}
        /\ UNCHANGED <<call, phase, outgoing, acceptSent, camera, pc, timer, tracks, screen, net, talk,
                       said, stray>>
     \/ Current(r.call) /\ ~up /\ asked' = asked \ {r} /\ Finish /\ UNCHANGED <<acceptSent, said>>
     \/ Current(r.call) /\ AcceptUnchecked(r)

OnAccepted ==
  /\ phase = "outgoing" /\ up /\ phase' = "connecting" /\ Ask("ice", call)
  /\ UNCHANGED <<call, outgoing, acceptSent, camera, pc, timer, tracks, screen, net, talk, said, stray>>

\* startPeer, once it has the ICE servers: for the call there is by then.
StartPeer(r) ==
  /\ r \in asked /\ r.what = "ice" /\ asked' = asked \ {r}
  /\ IF ~Busy \/ pc # NoConnection THEN UNCHANGED <<pc, stray>>
     ELSE pc' = {mic, cam} \ {0} /\ stray' = (stray \/ r.call # call)
  /\ UNCHANGED <<call, phase, outgoing, acceptSent, camera, timer, tracks, screen, net, talk, said>>

\* hangUp and decline, by what has been said of the call: also by signing out.
Word == IF phase = "incoming" \/ (~outgoing /\ phase = "connecting" /\ ~acceptSent) THEN "decline"
        ELSE IF phase = "outgoing" THEN "cancel" ELSE "end"
HangUp ==
  /\ Busy /\ Say(Word, call) /\ Finish /\ UNCHANGED acceptSent
  /\ IF Word = "decline" /\ ~up THEN Ask("decline", call) ELSE UNCHANGED asked

\* A decline is tried again once the socket is up.
SendDecline(r) ==
  /\ r \in asked /\ r.what = "decline" /\ up /\ asked' = asked \ {r} /\ Say("decline", r.call)
  /\ UNCHANGED <<call, phase, outgoing, acceptSent, camera, pc, timer, tracks, screen, net, talk, stray>>

\* call.ended, answered elsewhere, the system's screen timed out.
OnEnded == Busy /\ Finish /\ UNCHANGED <<acceptSent, asked, said>>

Dismiss ==
  /\ phase = "ended" /\ phase' = "none" /\ mic' = 0 /\ cam' = 0
  /\ UNCHANGED <<call, outgoing, acceptSent, shows, wants, paused, pc, timer, tracks, asked, screen,
                 net, talk, said, stray>>

(************************** The media path breaks *************************)

Connected ==
  /\ InCall /\ phase # "active" /\ pc # NoConnection /\ phase' = "active" /\ timer' = FALSE
  /\ TellMedia(wants /\ ~paused)
  /\ UNCHANGED <<call, outgoing, acceptSent, camera, pc, tracks, asked, screen, net, said, stray>>

\* enterReconnecting.
Disconnected ==
  /\ phase \in {"connecting", "active"} /\ pc # NoConnection /\ phase' = "reconnecting" /\ timer' = TRUE
  /\ UNCHANGED <<call, outgoing, acceptSent, camera, pc, tracks, asked, screen, net, talk, said, stray>>

GiveUp ==
  /\ timer /\ phase = "reconnecting" /\ Say("end", call) /\ Finish /\ UNCHANGED <<acceptSent, asked>>

(******************************* The camera *******************************)

\* toggleVideo with a camera, which keeps to the pause.
ToggleVideo ==
  /\ AtControls /\ mic # 0 /\ cam # 0
  /\ wants' = ~wants /\ shows' = (wants' /\ ~paused) /\ TellMedia(wants' /\ ~paused)
  /\ UNCHANGED <<call, phase, outgoing, acceptSent, mic, cam, paused, pc, timer, tracks, asked, screen,
                 net, said, stray>>

\* toggleVideo without: the camera joins the stream it was asked for and the
\* connection there is.
AskCamera ==
  /\ AtControls /\ mic # 0 /\ cam = 0 /\ Room /\ Ask("camera", call)
  /\ UNCHANGED <<call, phase, outgoing, acceptSent, camera, pc, timer, tracks, screen, net, talk, said,
                 stray>>
CameraComes(r) ==
  /\ r \in asked /\ r.what = "camera" /\ Busy /\ asked' = asked \ {r} /\ Open(1, live)
  /\ IF r.call = call /\ cam = 0 THEN cam' = opened + 1 /\ shows' = TRUE /\ UNCHANGED stray
     ELSE stray' = TRUE /\ UNCHANGED <<cam, shows>>
  /\ pc' = (IF pc = NoConnection THEN pc ELSE pc \cup {opened + 1})
  /\ wants' = TRUE /\ TellMedia(~paused)
  /\ UNCHANGED <<call, phase, outgoing, acceptSent, mic, paused, timer, screen, net, said>>

\* setVideoPaused: nothing without a camera.
Pause(p) ==
  IF ~Busy \/ mic = 0 \/ cam = 0 \/ paused = p THEN UNCHANGED <<camera, talk>>
  ELSE /\ paused' = p /\ shows' = (wants /\ ~p) /\ TellMedia(wants /\ ~p)
       /\ UNCHANGED <<mic, cam, wants>>

\* The app leaves the screen, for the small window when a video call is on,
\* and comes back.
Leave ==
  /\ app = "active" /\ app' \in {"background"} \cup (IF InCall /\ wants THEN {"pip"} ELSE {})
  /\ hiding' = TRUE
  /\ UNCHANGED <<call, phase, outgoing, acceptSent, camera, pc, timer, tracks, asked, net, talk, said,
                 stray>>
ClosePip ==
  /\ app = "pip" /\ app' = "background"
  /\ UNCHANGED <<call, phase, outgoing, acceptSent, camera, pc, timer, tracks, asked, hiding, net, talk,
                 said, stray>>
Hidden ==
  /\ hiding /\ hiding' = FALSE
  /\ IF app = "pip" THEN UNCHANGED <<camera, talk>> ELSE Pause(TRUE)
  /\ UNCHANGED <<call, phase, outgoing, acceptSent, pc, timer, tracks, asked, app, net, said, stray>>
Return ==
  /\ app # "active" /\ app' = "active" /\ hiding' = FALSE /\ Pause(FALSE)
  /\ UNCHANGED <<call, phase, outgoing, acceptSent, pc, timer, tracks, asked, net, said, stray>>

SocketChanges ==
  /\ IF up THEN drops < MaxDrops /\ drops' = drops + 1 ELSE UNCHANGED drops
  /\ up' = ~up
  /\ UNCHANGED <<call, phase, outgoing, acceptSent, camera, pc, timer, tracks, asked, screen, talk, said,
                 stray>>

Next ==
  \/ AskCall \/ OnIncoming \/ AskAnswer \/ OnAccepted \/ HangUp \/ OnEnded \/ Dismiss
  \/ \E r \in asked : \/ \E video \in BOOLEAN : StartOutgoing(r, video) \/ Accept(r, video)
                      \/ SendAccept(r) \/ StartPeer(r) \/ SendDecline(r) \/ CameraComes(r) \/ Discard(r)
  \/ Connected \/ Disconnected \/ GiveUp \/ ToggleVideo \/ AskCamera
  \/ Leave \/ ClosePip \/ Hidden \/ Return \/ SocketChanges

Spec == Init /\ [][Next]_vars

(****************************** Properties ********************************)

\* A phone that has said it answers a call never declines it, nor the reverse,
\* whatever was waiting for the socket (CallEngine.ts:226, :271).
OneVerdict == \A c \in CallIds : ~({"accept", "decline"} \subseteq said[c])

\* Between calls no microphone or camera stays on (CallEngine.ts:671), unless
\* one came for a call that was over.
ReleasedAtEnd == ~Busy /\ ~stray => live = {}

\* "The other side sees "camera off" meanwhile" (CallEngine.ts:370): on a
\* connected call what the other side was told of the picture is so, the app
\* hidden or not.
PictureAsTold == phase = "active" /\ ~lost /\ ~stray => told = (cam \in pc /\ shows)

\* "The camera comes back when the app does" (CallEngine.ts:68).
ComesBack == Busy /\ app = "active" /\ cam # 0 /\ ~stray => shows = wants
=============================================================================
