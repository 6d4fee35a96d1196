----------------------------- MODULE ClientsProofs ----------------------------
(* What holds of each of the clients' components for every value of its constants *)
(* (CallMedia, MobileCalls, PhoneCall, AudioRoute, the four of voice messages,      *)
(* GroupCallScreens and VideoBlur), by the inductive invariants ending in Inv; then *)
(* of the clients together, with the chats of ChatsProofs.                         *)
EXTENDS MCClients, Sequences, TLAPS


\* What is under way: nothing of a call to come, and one camera and one screen
\* at a time.
Asking ==
  /\ call = 0 => phase = "none"
  /\ \A r \in asked : r.call <= call
  /\ \A q, r \in asked : q.what = r.what /\ q.what \in {"camera", "screen"} => q = r

Pending(what) == \E r \in asked : r.what = what /\ r.call = call

\* As long as every device came for the call it was asked for: what is on is in
\* the streams, a call that rings has none, one that was made or answered has
\* a microphone, and no second camera or screen is on its way to a place that
\* is taken.
Held ==
  /\ Over => live = {}
  /\ live \subseteq {mic, cam, screen, spare}
  /\ phase = "incoming" =>
       /\ mic = 0 /\ cam = 0 /\ screen = 0 /\ spare = 0
       /\ ~Pending("camera") /\ ~Pending("mic") /\ ~Pending("switch") /\ ~Pending("screen")
  /\ phase \in {"outgoing", "connecting", "active"} => mic # 0
  /\ spare # 0 => cam # 0 /\ ~Pending("camera")
  /\ screen # 0 => ~Pending("screen")

IInv == TypeOK /\ Asking /\ (~stray => Held)

-----------------------------------------------------------------------------
(* One or two tracks more.                                                   *)
LEMMA OpenOne ==
  ASSUME TypeOK, NEW kept \in SUBSET Tracks, Open(1, kept)
  PROVE  /\ opened + 1 \in Tracks /\ opened' = opened + 1
         /\ live' = kept \cup {opened + 1} /\ live' \subseteq Tracks
<1>1. opened + 1 \in Tracks /\ opened' = opened + 1
  BY MediaAssumption DEF TypeOK, Open, Tracks
<1>2. (opened + 1)..(opened + 1) = {opened + 1} BY <1>1 DEF Tracks
<1> QED BY <1>1, <1>2 DEF Open

(* One lemma for each action.                                                *)

LEMMA StartOutgoingKeeps ==
  ASSUME IInv, NEW video \in BOOLEAN, NEW blur \in BOOLEAN, StartOutgoing(video, blur)
  PROVE  IInv'
<1>1. TypeOK'
  <2>1. \A n \in 1..2 : opened + n \in Nat /\ (opened + n <= MaxTracks => opened + n \in Tracks)
    BY MediaAssumption DEF IInv, TypeOK, Tracks
  <2>2. {mic, cam, screen, spare, blurOf, voice}' \subseteq {0} \cup Tracks
    BY MediaAssumption DEF IInv, TypeOK, StartOutgoing, Reset, Open, Tracks
  <2>3. picture' \in 0..(2 * MaxTracks)
    BY MediaAssumption DEF StartOutgoing, Reset
  <2>4. live' \subseteq Tracks /\ opened' \in 0..MaxTracks
    BY MediaAssumption DEF IInv, TypeOK, StartOutgoing, Open, Tracks
  <2>5. call' \in 0..MaxCalls /\ asked' \subseteq Request
    BY MediaAssumption DEF IInv, TypeOK, StartOutgoing, Reset
  <2>6. wantBlur' \in BOOLEAN /\ pc' \in BOOLEAN /\ slot' \in BOOLEAN
    BY DEF StartOutgoing, Reset
  <2> QED
    BY <2>2, <2>3, <2>4, <2>5, <2>6 DEF IInv, TypeOK, StartOutgoing
<1>2. Asking'
  BY MediaAssumption DEF IInv, TypeOK, Asking, StartOutgoing, Reset, Open, Tracks, Request,
     Busy, Over
<1>3. ~stray' => Held'
  BY MediaAssumption DEF IInv, TypeOK, Asking, Held, Pending, StartOutgoing, Reset, Open,
     Tracks, Request, Busy, Over
<1> QED BY <1>1, <1>2, <1>3 DEF IInv

LEMMA OnIncomingKeeps ==
  ASSUME IInv, OnIncoming
  PROVE  IInv'
<1>1. TypeOK'
  <2>1. {mic, cam, screen, spare, blurOf, voice}' \subseteq {0} \cup Tracks
    BY DEF OnIncoming, Reset
  <2>2. picture' \in 0..(2 * MaxTracks) /\ call' \in 0..MaxCalls
    BY MediaAssumption DEF IInv, TypeOK, OnIncoming, Reset
  <2>3. live' = live /\ opened' = opened /\ asked' = asked /\ resync' = resync /\ stray' = stray
    BY DEF OnIncoming, tracks
  <2> QED
    BY <2>1, <2>2, <2>3 DEF IInv, TypeOK, OnIncoming, Reset
<1>2. Asking'
  BY MediaAssumption DEF IInv, TypeOK, Asking, OnIncoming, Reset, tracks, Tracks, Request,
     Busy, Over
<1>3. ~stray' => Held'
  BY MediaAssumption DEF IInv, TypeOK, Asking, Held, Pending, OnIncoming, Reset, tracks,
     Tracks, Request, Busy, Over
<1> QED BY <1>1, <1>2, <1>3 DEF IInv

LEMMA AskAnswerKeeps ==
  ASSUME IInv, AskAnswer
  PROVE  IInv'
<1>1. TypeOK'
  BY MediaAssumption DEF IInv, TypeOK, Asking, Busy, Over, AskAnswer, Ask, Waiting, streams,
     blurs, sends, tracks, Blurred, Tracks, Request
<1>2. Asking'
  BY MediaAssumption DEF IInv, TypeOK, Asking, AskAnswer, Ask, Waiting, streams, blurs, sends,
     tracks, Tracks, Request, Busy, Over
<1>3. ~stray' => Held'
  BY MediaAssumption DEF IInv, TypeOK, Asking, Held, Pending, AskAnswer, Ask, Waiting, streams,
     blurs, sends, tracks, Tracks, Request, Busy, Over
<1> QED BY <1>1, <1>2, <1>3 DEF IInv

LEMMA AcceptKeeps ==
  ASSUME IInv, NEW r \in asked, NEW video \in BOOLEAN, NEW blur \in BOOLEAN,
         Accept(r, video, blur)
  PROVE  IInv'
<1>1. TypeOK'
  BY MediaAssumption DEF IInv, TypeOK, Asking, Busy, Over, Accept, Open, sends, Blurred,
     Tracks, Request
<1>2. Asking'
  BY MediaAssumption DEF IInv, TypeOK, Asking, Accept, Open, sends, Tracks, Request, Busy, Over
<1>3. ASSUME ~stray' PROVE Held'
  <2>1. Held /\ live = {} /\ screen = 0 /\ spare = 0 /\ ~Pending("camera") /\ ~Pending("screen")
    <3>1. Held /\ phase = "incoming"
      BY <1>3 DEF Accept, IInv
    <3>2. live \subseteq {0} /\ 0 \notin Tracks
      BY <3>1 DEF Held, Tracks
    <3> QED BY <3>1, <3>2 DEF Held, IInv, TypeOK
  <2>2. live' = (opened + 1)..(opened + (IF video THEN 2 ELSE 1)) /\ opened \in Nat
    BY <2>1, MediaAssumption DEF Accept, Open, IInv, TypeOK
  <2>3. live' \subseteq {opened + 1, IF video THEN opened + 2 ELSE opened + 1}
    BY <2>2
  <2>4. mic' = opened + 1 /\ mic' # 0 /\ cam' = IF video THEN opened + 2 ELSE 0
    BY <2>2 DEF Accept
  <2>5. phase' = "connecting" /\ UNCHANGED <<call, screen, spare>>
        /\ asked' = (asked \ {r}) \cup {[what |-> "ice", call |-> call, cam |-> 0]}
    BY DEF Accept
  <2>6. ~Pending("screen")'
    BY <2>1, <2>5 DEF Pending
  <2>7. live' \subseteq {mic', cam', screen', spare'}
    <3>1. CASE video BY <3>1, <2>3, <2>4
    <3>2. CASE ~video BY <3>2, <2>3, <2>4
    <3> QED BY <3>1, <3>2
  <2>8. screen' = 0 /\ spare' = 0 /\ mic' # 0
    BY <2>1, <2>4, <2>5
  <2>9. phase' = "connecting"
    BY <2>5
  <2> QED BY <2>8, <2>7, <2>9, <2>6 DEF Held, Over, Busy, Pending
<1> QED BY <1>1, <1>2, <1>3 DEF IInv

LEMMA OnAcceptedKeeps ==
  ASSUME IInv, OnAccepted
  PROVE  IInv'
<1>1. TypeOK'
  BY MediaAssumption DEF IInv, TypeOK, Asking, Busy, Over, OnAccepted, Ask, streams, blurs,
     sends, tracks, Blurred, Tracks, Request
<1>2. Asking'
  BY MediaAssumption DEF IInv, TypeOK, Asking, OnAccepted, Ask, streams, blurs, sends, tracks,
     Tracks, Request, Busy, Over
<1>3. ~stray' => Held'
  BY MediaAssumption DEF IInv, TypeOK, Asking, Held, Pending, OnAccepted, Ask, streams, blurs,
     sends, tracks, Tracks, Request, Busy, Over
<1> QED BY <1>1, <1>2, <1>3 DEF IInv

LEMMA StartPeerKeeps ==
  ASSUME IInv, NEW r \in asked, StartPeer(r)
  PROVE  IInv'
<1>1. TypeOK'
  <2>1. {mic, cam, screen, spare, blurOf, voice}' \subseteq {0} \cup Tracks
    BY MediaAssumption DEF IInv, TypeOK, StartPeer, streams, blurs, sends, tracks, Blurred,
       Tracks, Request, Asking
  <2>2. picture' \in 0..(2 * MaxTracks)
    BY MediaAssumption DEF IInv, TypeOK, StartPeer, streams, blurs, sends, tracks, Blurred,
       Tracks, Request, Asking
  <2> QED
    BY MediaAssumption, <2>1, <2>2 DEF IInv, TypeOK, StartPeer, streams, blurs, sends, tracks,
       Blurred, Tracks, Request, Asking
<1>2. Asking'
  BY MediaAssumption DEF IInv, TypeOK, Asking, StartPeer, streams, blurs, sends, tracks,
     Tracks, Request, Busy, Over
<1>3. ~stray' => Held'
  BY MediaAssumption DEF IInv, TypeOK, Asking, Held, Pending, StartPeer, streams, blurs, sends,
     tracks, Tracks, Request, Busy, Over
<1> QED BY <1>1, <1>2, <1>3 DEF IInv

LEMMA OnConnectedKeeps ==
  ASSUME IInv, OnConnected
  PROVE  IInv'
<1>1. TypeOK'
  BY MediaAssumption DEF IInv, TypeOK, Asking, Busy, Over, OnConnected, streams, blurs, sends,
     tracks, Blurred, Tracks, Request
<1>2. Asking'
  BY MediaAssumption DEF IInv, TypeOK, Asking, OnConnected, streams, blurs, sends, tracks,
     Tracks, Request, Busy, Over
<1>3. ~stray' => Held'
  BY MediaAssumption DEF IInv, TypeOK, Asking, Held, Pending, OnConnected, streams, blurs,
     sends, tracks, Tracks, Request, Busy, Over
<1> QED BY <1>1, <1>2, <1>3 DEF IInv

LEMMA FinishKeeps ==
  ASSUME IInv, Finish
  PROVE  IInv'
<1>1. TypeOK'
  <2>1. {mic, cam, screen, spare, blurOf, voice}' \subseteq {0} \cup Tracks
    BY MediaAssumption DEF IInv, TypeOK, Finish, streams, Blurred, Tracks, Request
  <2>2. picture' \in 0..(2 * MaxTracks)
    BY MediaAssumption DEF IInv, TypeOK, Finish, streams, Blurred, Tracks, Request
  <2> QED
    BY MediaAssumption, <2>1, <2>2 DEF IInv, TypeOK, Finish, streams, Blurred, Tracks, Request,
       Asking
<1>2. Asking'
  BY MediaAssumption DEF IInv, TypeOK, Asking, Finish, streams, Tracks, Request, Busy, Over
<1>3. ~stray' => Held'
  BY MediaAssumption DEF IInv, TypeOK, Asking, Held, Pending, Finish, streams, Tracks, Request,
     Busy, Over
<1> QED BY <1>1, <1>2, <1>3 DEF IInv

LEMMA DismissKeeps ==
  ASSUME IInv, Dismiss
  PROVE  IInv'
<1>1. TypeOK'
  BY MediaAssumption DEF IInv, TypeOK, Asking, Busy, Over, Dismiss, blurs, sends, tracks,
     Blurred, Tracks, Request
<1>2. Asking'
  BY MediaAssumption DEF IInv, TypeOK, Asking, Dismiss, blurs, sends, tracks, Tracks, Request,
     Busy, Over
<1>3. ~stray' => Held'
  BY MediaAssumption DEF IInv, TypeOK, Asking, Held, Pending, Dismiss, blurs, sends, tracks,
     Tracks, Request, Busy, Over
<1> QED BY <1>1, <1>2, <1>3 DEF IInv

LEMMA AskCameraKeeps ==
  ASSUME IInv, AskCamera
  PROVE  IInv'
<1>1. TypeOK'
  BY MediaAssumption DEF IInv, TypeOK, Asking, Busy, Over, AskCamera, Ask, Waiting, streams,
     blurs, sends, tracks, Blurred, Tracks, Request
<1>2. Asking'
  BY MediaAssumption DEF IInv, TypeOK, Asking, AskCamera, Ask, Waiting, streams, blurs, sends,
     tracks, Tracks, Request, Busy, Over
<1>3. ~stray' => Held'
  BY MediaAssumption DEF IInv, TypeOK, Asking, Held, Pending, AskCamera, Ask, Waiting, streams,
     blurs, sends, tracks, Tracks, Request, Busy, Over
<1> QED BY <1>1, <1>2, <1>3 DEF IInv

LEMMA ToggleVideoKeeps ==
  ASSUME IInv, NEW r \in asked, ToggleVideo(r)
  PROVE  IInv'
<1>1. TypeOK'
  BY MediaAssumption DEF IInv, TypeOK, Asking, Busy, Over, ToggleVideo, Open, Blurred, Tracks,
     Request
<1>2. Asking'
  BY MediaAssumption DEF IInv, TypeOK, Asking, ToggleVideo, Open, Tracks, Request, Busy, Over
<1>3. ~stray' => Held'
  <2> SUFFICES ASSUME ~stray' PROVE Held'
    OBVIOUS
  <2>1. ~stray /\ r.call = call /\ Held /\ Busy /\ phase' = phase /\ call' = call
    BY DEF IInv, ToggleVideo
  <2>2. /\ opened + 1 \in Tracks /\ opened + 1 # 0
        /\ live' = live \cup {opened + 1}
    BY MediaAssumption, OpenOne DEF IInv, TypeOK, ToggleVideo, Tracks
  <2>3. Pending("camera") /\ phase # "incoming" /\ spare = 0
    BY <2>1 DEF Held, Pending, ToggleVideo
  <2>4. ~(\E q \in asked' : q.what = "camera" /\ q.call = call)
    BY DEF IInv, Asking, ToggleVideo
  <2>5. /\ cam' = (IF cam = 0 THEN opened + 1 ELSE cam)
        /\ spare' = (IF cam # 0 THEN opened + 1 ELSE spare)
        /\ mic' = mic /\ screen' = screen /\ asked' \subseteq asked
    BY <2>1 DEF ToggleVideo
  <2>6. live' \subseteq {mic, cam, screen, spare}'
    <3>1. live \subseteq {mic, cam, screen} \cup {0} /\ opened + 1 \in {cam', spare'}
      BY <2>1, <2>3, <2>5 DEF Held
    <3>2. 0 \notin live
      BY DEF IInv, TypeOK, Tracks
    <3> QED BY <2>2, <2>5, <3>1, <3>2
  <2>7. spare' # 0 => cam' # 0 /\ ~Pending("camera")'
    BY <2>1, <2>2, <2>3, <2>4, <2>5 DEF Pending
  <2>8. screen' # 0 => ~Pending("screen")'
    BY <2>1, <2>5 DEF Held, Pending
  <2> QED BY <2>1, <2>3, <2>5, <2>6, <2>7, <2>8 DEF Held, Busy, Over
<1> QED BY <1>1, <1>2, <1>3 DEF IInv

LEMMA SetBackgroundBlurKeeps ==
  ASSUME IInv, NEW on \in BOOLEAN, SetBackgroundBlur(on)
  PROVE  IInv'
<1>1. TypeOK'
  BY MediaAssumption DEF IInv, TypeOK, Asking, Busy, Over, SetBackgroundBlur, streams, sends,
     tracks, Blurred, Tracks, Request
<1>2. Asking'
  BY MediaAssumption DEF IInv, TypeOK, Asking, SetBackgroundBlur, streams, sends, tracks,
     Tracks, Request, Busy, Over
<1>3. ~stray' => Held'
  BY MediaAssumption DEF IInv, TypeOK, Asking, Held, Pending, SetBackgroundBlur, streams,
     sends, tracks, Tracks, Request, Busy, Over
<1> QED BY <1>1, <1>2, <1>3 DEF IInv

LEMMA SyncBlurKeeps ==
  ASSUME IInv, SyncBlur
  PROVE  IInv'
<1>1. TypeOK'
  <2>1. {mic, cam, screen, spare, blurOf, voice}' \subseteq {0} \cup Tracks
    BY DEF IInv, TypeOK, SyncBlur, streams, sends
  <2>2. picture' \in 0..(2 * MaxTracks)
    BY MediaAssumption DEF IInv, TypeOK, SyncBlur, PutCamera, sends, Blurred, Tracks
  <2>3. asked' \subseteq Request
    <3>1. Busy => call \in 1..MaxCalls
      BY MediaAssumption DEF IInv, TypeOK, Asking, Busy
    <3>2. Busy => [what |-> "blur", call |-> call, cam |-> cam] \in Request
      BY <3>1 DEF IInv, TypeOK, Request
    <3> QED BY <3>2 DEF IInv, TypeOK, SyncBlur
  <2>4. pc' = pc /\ slot' = slot
    BY DEF SyncBlur, sends
  <2> QED
    BY <2>1, <2>2, <2>3, <2>4 DEF IInv, TypeOK, SyncBlur, streams, tracks
<1>2. Asking'
  BY MediaAssumption DEF IInv, TypeOK, Asking, SyncBlur, PutCamera, Waiting, streams, sends,
     tracks, Tracks, Request, Busy, Over
<1>3. ~stray' => Held'
  BY MediaAssumption DEF IInv, TypeOK, Asking, Held, Pending, SyncBlur, PutCamera, Waiting,
     streams, sends, tracks, Tracks, Request, Busy, Over
<1> QED BY <1>1, <1>2, <1>3 DEF IInv

LEMMA BlurReadyKeeps ==
  ASSUME IInv, NEW r \in asked, BlurReady(r)
  PROVE  IInv'
<1>1. TypeOK'
  BY MediaAssumption DEF IInv, TypeOK, Asking, Busy, Over, BlurReady, PutCamera, streams,
     sends, tracks, Blurred, Tracks, Request
<1>2. Asking'
  BY MediaAssumption DEF IInv, TypeOK, Asking, BlurReady, PutCamera, streams, sends, tracks,
     Tracks, Request, Busy, Over
<1>3. ~stray' => Held'
  BY MediaAssumption DEF IInv, TypeOK, Asking, Held, Pending, BlurReady, PutCamera, streams,
     sends, tracks, Tracks, Request, Busy, Over
<1> QED BY <1>1, <1>2, <1>3 DEF IInv

LEMMA BlurFailsKeeps ==
  ASSUME IInv, NEW r \in asked, BlurFails(r)
  PROVE  IInv'
<1>1. TypeOK'
  <2>1. {mic, cam, screen, spare, blurOf, voice}' \subseteq {0} \cup Tracks
    BY MediaAssumption DEF IInv, TypeOK, BlurFails, PutCamera, streams, tracks, Blurred,
       Tracks, Request
  <2>2. picture' \in 0..(2 * MaxTracks)
    BY MediaAssumption DEF IInv, TypeOK, BlurFails, PutCamera, streams, tracks, Blurred,
       Tracks, Request
  <2> QED
    BY MediaAssumption, <2>1, <2>2 DEF IInv, TypeOK, BlurFails, PutCamera, streams, tracks,
       Blurred, Tracks, Request
<1>2. Asking'
  BY MediaAssumption DEF IInv, TypeOK, Asking, BlurFails, PutCamera, streams, tracks, Tracks,
     Request, Busy, Over
<1>3. ~stray' => Held'
  BY MediaAssumption DEF IInv, TypeOK, Asking, Held, Pending, BlurFails, PutCamera, streams,
     tracks, Tracks, Request, Busy, Over
<1> QED BY <1>1, <1>2, <1>3 DEF IInv

LEMMA AskDeviceKeeps ==
  ASSUME IInv, NEW what \in {"mic", "switch"}, AskDevice(what)
  PROVE  IInv'
<1>1. TypeOK'
  BY MediaAssumption DEF IInv, TypeOK, Asking, Busy, Over, AskDevice, Ask, Waiting, InCall,
     streams, blurs, sends, tracks, Blurred, Tracks, Request
<1>2. Asking'
  BY MediaAssumption DEF IInv, TypeOK, Asking, AskDevice, Ask, Waiting, InCall, streams, blurs,
     sends, tracks, Tracks, Request, Busy, Over
<1>3. ~stray' => Held'
  BY MediaAssumption DEF IInv, TypeOK, Asking, Held, Pending, AskDevice, Ask, Waiting, InCall,
     streams, blurs, sends, tracks, Tracks, Request, Busy, Over
<1> QED BY <1>1, <1>2, <1>3 DEF IInv

LEMMA SetNoiseSuppressionKeeps ==
  ASSUME IInv, NEW r \in asked, SetNoiseSuppression(r)
  PROVE  IInv'
<1>1. TypeOK'
  <2>1. {mic, cam, screen, spare, blurOf, voice}' \subseteq {0} \cup Tracks
    BY MediaAssumption, OpenOne DEF IInv, TypeOK, SetNoiseSuppression, SwapMic, Tracks
  <2>2. picture' = picture /\ asked' \subseteq asked
    BY DEF SetNoiseSuppression, SwapMic
  <2>3. live' \subseteq Tracks /\ opened' \in 0..MaxTracks
    BY MediaAssumption, OpenOne DEF IInv, TypeOK, SetNoiseSuppression, SwapMic, Open, Tracks
  <2> QED BY <2>1, <2>2, <2>3 DEF IInv, TypeOK, SetNoiseSuppression, SwapMic
<1>2. Asking'
  BY MediaAssumption DEF IInv, TypeOK, Asking, SetNoiseSuppression, SwapMic, Tracks, Request,
     Busy, Over
<1>3. ~stray' => Held'
  <2> SUFFICES ASSUME ~stray' PROVE Held'
    OBVIOUS
  <2>1. ~stray /\ r.call = call /\ Held /\ Busy /\ phase' = phase /\ call' = call
    BY DEF IInv, SetNoiseSuppression
  <2>2. /\ opened + 1 # 0 /\ mic' = opened + 1
        /\ live' = (live \ {mic}) \cup {opened + 1} /\ live' \subseteq Tracks
    BY MediaAssumption, OpenOne DEF IInv, TypeOK, SetNoiseSuppression, SwapMic, Tracks
  <2>3. phase # "incoming"
    BY <2>1 DEF Held, Pending, SetNoiseSuppression
  <2>4. cam' = cam /\ screen' = screen /\ spare' = spare /\ asked' \subseteq asked
    BY DEF SetNoiseSuppression, SwapMic
  <2> QED BY <2>1, <2>2, <2>3, <2>4 DEF Held, Pending, Busy, Over
<1> QED BY <1>1, <1>2, <1>3 DEF IInv

LEMMA SwitchDeviceKeeps ==
  ASSUME IInv, NEW r \in asked, SwitchDevice(r)
  PROVE  IInv'
<1>1. /\ opened + 1 \in Tracks /\ opened + 1 # 0 /\ opened' = opened + 1
      /\ asked' = asked \ {r} /\ phase' = phase /\ call' = call
      /\ \/ SwapMic /\ mic # 0 /\ live' = (live \ {mic}) \cup {opened + 1}
         \/ SwapCam /\ mic # 0 /\ live' = (live \ {cam}) \cup {opened + 1}
         \/ /\ mic = 0 /\ UNCHANGED <<streams, resync, slot, voice, picture>>
            /\ live' = live \cup {opened + 1}
  <2>1. live \in SUBSET Tracks /\ live \ {mic} \in SUBSET Tracks
          /\ live \ {cam} \in SUBSET Tracks
    BY DEF IInv, TypeOK
  <2>2. opened + 1 \in Tracks => opened + 1 # 0
    BY DEF Tracks
  <2> QED BY <2>1, <2>2, OpenOne DEF IInv, SwitchDevice, SwapMic, SwapCam
<1>2. TypeOK'
  <2>1. {mic, cam, screen, spare, blurOf, voice}' \subseteq {0} \cup Tracks
    BY <1>1 DEF IInv, TypeOK, SwitchDevice, SwapMic, SwapCam, streams
  <2>2. picture' \in 0..(2 * MaxTracks)
    BY <1>1, MediaAssumption DEF IInv, TypeOK, SwapMic, SwapCam, Tracks
  <2>3. live' \subseteq Tracks
    BY <1>1 DEF IInv, TypeOK
  <2>5. opened' \in 0..MaxTracks /\ asked' \subseteq Request
    BY <1>1, MediaAssumption DEF IInv, TypeOK, Tracks
  <2>4. resync' \in BOOLEAN /\ slot' \in BOOLEAN
    BY <1>1 DEF IInv, TypeOK, SwapMic, SwapCam
  <2> QED BY <2>1, <2>2, <2>3, <2>4, <2>5 DEF IInv, TypeOK, SwitchDevice
<1>3. Asking'
  BY <1>1 DEF IInv, Asking
<1>4. ~stray' => Held'
  <2> SUFFICES ASSUME ~stray' PROVE Held'
    OBVIOUS
  <2>1. ~stray /\ r.call = call /\ Held /\ Busy
    BY DEF IInv, SwitchDevice, Over
  <2>2. phase # "incoming" /\ mic # 0
    BY <2>1 DEF IInv, TypeOK, Held, Pending, SwitchDevice, Busy
  <2>3. CASE SwapMic /\ live' = (live \ {mic}) \cup {opened + 1}
    BY <1>1, <2>1, <2>2, <2>3 DEF Held, Pending, SwapMic, Busy, Over
  <2>4. CASE SwapCam /\ live' = (live \ {cam}) \cup {opened + 1}
    BY <1>1, <2>1, <2>2, <2>4 DEF Held, Pending, SwapCam, Busy, Over
  <2> QED BY <1>1, <2>2, <2>3, <2>4
<1> QED BY <1>2, <1>3, <1>4 DEF IInv

LEMMA AskScreenKeeps ==
  ASSUME IInv, AskScreen
  PROVE  IInv'
<1>1. TypeOK'
  BY MediaAssumption DEF IInv, TypeOK, Asking, Busy, Over, AskScreen, Ask, Waiting, streams,
     blurs, sends, tracks, Blurred, Tracks, Request
<1>2. Asking'
  BY MediaAssumption DEF IInv, TypeOK, Asking, AskScreen, Ask, Waiting, streams, blurs, sends,
     tracks, Tracks, Request, Busy, Over
<1>3. ~stray' => Held'
  BY MediaAssumption DEF IInv, TypeOK, Asking, Held, Pending, AskScreen, Ask, Waiting, streams,
     blurs, sends, tracks, Tracks, Request, Busy, Over
<1> QED BY <1>1, <1>2, <1>3 DEF IInv

LEMMA StartScreenShareKeeps ==
  ASSUME IInv, NEW r \in asked, StartScreenShare(r)
  PROVE  IInv'
<1>1. TypeOK'
  BY MediaAssumption DEF IInv, TypeOK, Asking, Busy, Over, StartScreenShare, Open, blurs,
     Blurred, Tracks, Request
<1>2. Asking'
  BY MediaAssumption DEF IInv, TypeOK, Asking, StartScreenShare, Open, blurs, Tracks, Request,
     Busy, Over
<1>3. ~stray' => Held'
  BY MediaAssumption DEF IInv, TypeOK, Asking, Held, Pending, StartScreenShare, Open, blurs,
     Tracks, Request, Busy, Over
<1> QED BY <1>1, <1>2, <1>3 DEF IInv

LEMMA StopScreenShareKeeps ==
  ASSUME IInv, StopScreenShare
  PROVE  IInv'
<1>1. TypeOK'
  <2>1. {mic, cam, screen, spare, blurOf, voice}' \subseteq {0} \cup Tracks
    BY MediaAssumption DEF IInv, TypeOK, StopScreenShare, blurs, Blurred, Tracks, Request
  <2>2. picture' \in 0..(2 * MaxTracks)
    BY MediaAssumption DEF IInv, TypeOK, StopScreenShare, blurs, Blurred, Tracks, Request
  <2> QED
    BY MediaAssumption, <2>1, <2>2 DEF IInv, TypeOK, StopScreenShare, blurs, Blurred, Tracks,
       Request
<1>2. Asking'
  BY MediaAssumption DEF IInv, TypeOK, Asking, StopScreenShare, blurs, Tracks, Request, Busy,
     Over
<1>3. ~stray' => Held'
  BY MediaAssumption DEF IInv, TypeOK, Asking, Held, Pending, StopScreenShare, blurs, Tracks,
     Request, Busy, Over
<1> QED BY <1>1, <1>2, <1>3 DEF IInv

LEMMA TooLateKeeps ==
  ASSUME IInv, NEW r \in asked, TooLate(r)
  PROVE  IInv'
<1>1. TypeOK'
  BY MediaAssumption DEF IInv, TypeOK, Asking, Busy, Over, TooLate, Discard, streams, blurs,
     sends, tracks, Blurred, Tracks, Request
<1>2. Asking'
  BY MediaAssumption DEF IInv, TypeOK, Asking, TooLate, Discard, streams, blurs, sends, tracks,
     Tracks, Request, Busy, Over
<1>3. ~stray' => Held'
  BY MediaAssumption DEF IInv, TypeOK, Asking, Held, Pending, TooLate, Discard, streams, blurs,
     sends, tracks, Tracks, Request, Busy, Over
<1> QED BY <1>1, <1>2, <1>3 DEF IInv

LEMMA StutterKeeps ==
  ASSUME IInv, UNCHANGED vars
  PROVE  IInv'
BY DEF IInv, TypeOK, Asking, Held, Pending, Busy, Over, vars

-----------------------------------------------------------------------------
\* The inductive invariant: what the browser opened is in the streams of the
\* call there is, so stopping those streams stops everything.
THEOREM Invariant == Spec => []IInv
<1>1. Init => IInv
  <2>1. Init => TypeOK
    <3>1. 0 \in 0..MaxCalls /\ 0 \in 0..MaxTracks /\ 0 \in 0..(2 * MaxTracks)
      BY MediaAssumption
    <3> SUFFICES ASSUME Init PROVE TypeOK
      OBVIOUS
    <3>2. {mic, cam, screen, spare, blurOf, voice} \subseteq {0} \cup Tracks
      BY DEF Init
    <3>3. live \subseteq Tracks /\ asked \subseteq Request
      BY DEF Init
    <3> QED BY <3>1, <3>2, <3>3 DEF Init, TypeOK
  <2>2. Init => Asking BY DEF Init, Asking
  <2>3. Init => Held BY DEF Init, Held, Pending, Busy, Over
  <2> QED BY <2>1, <2>2, <2>3 DEF IInv
<1>2. IInv /\ [Next]_vars => IInv'
  <2> SUFFICES ASSUME IInv, [Next]_vars PROVE IInv'
    OBVIOUS
  <2>1. CASE \E video, blur \in BOOLEAN : StartOutgoing(video, blur)
    BY <2>1, StartOutgoingKeeps
  <2>2. CASE \E video, blur \in BOOLEAN, r \in asked : Accept(r, video, blur)
    BY <2>2, AcceptKeeps
  <2>3. CASE \/ OnIncoming \/ AskAnswer \/ OnAccepted \/ OnConnected \/ Finish \/ Dismiss
             \/ AskCamera \/ SyncBlur \/ AskScreen \/ StopScreenShare
    BY <2>3, OnIncomingKeeps, AskAnswerKeeps, OnAcceptedKeeps, OnConnectedKeeps, FinishKeeps,
       DismissKeeps, AskCameraKeeps, SyncBlurKeeps, AskScreenKeeps, StopScreenShareKeeps
  <2>4. CASE AskDevice("mic") \/ AskDevice("switch")
    BY <2>4, AskDeviceKeeps
  <2>5. CASE \E on \in BOOLEAN : SetBackgroundBlur(on)
    BY <2>5, SetBackgroundBlurKeeps
  <2>6. CASE \E r \in asked : \/ StartPeer(r) \/ ToggleVideo(r) \/ BlurReady(r) \/ BlurFails(r)
                            \/ SetNoiseSuppression(r) \/ SwitchDevice(r)
                            \/ StartScreenShare(r) \/ TooLate(r)
    BY <2>6, StartPeerKeeps, ToggleVideoKeeps, BlurReadyKeeps, BlurFailsKeeps,
       SetNoiseSuppressionKeeps, SwitchDeviceKeeps, StartScreenShareKeeps, TooLateKeeps
  <2>7. CASE UNCHANGED vars
    BY <2>7, StutterKeeps
  <2> QED BY <2>1, <2>2, <2>3, <2>4, <2>5, <2>6, <2>7 DEF Next
<1> QED BY <1>1, <1>2, PTL DEF Spec

\* Every track is a number of a track that was opened, and every request names
\* a call that was.
THEOREM TypesHold == Spec => []TypeOK
BY Invariant, PTL DEF IInv

\* Without a call no device is on: finish() and stopStream() find everything,
\* unless a device came for another call than it was asked for.
THEOREM DevicesReleased == Spec => []ReleasedAtEnd
<1>1. IInv => ReleasedAtEnd
  BY DEF IInv, Held, ReleasedAtEnd
<1> QED BY <1>1, Invariant, PTL

(**************** The call screens of a phone: MobileCalls ****************)

Dead == pOs \in {"off", "ended"}
Under(what) == Phone!Await(what) \in pJobs
Goes == pPhase \in {"incoming", "connecting", "active"}

\* Once the system has a call, or is to get one, the bridge knows of it or has
\* somebody under way to find out; when the call has ended, somebody who ends
\* the system's.
Followed ==
  /\ ("id" \in pKnown \/ Under("adopt") \/ Under("finish") \/ pNotices # <<>>) => pOs # "none"
  /\ ~Dead =>
       /\ Goes => pUnseen \/ "registered" \in pKnown
       /\ pPhase = "ended" => "registered" \in pKnown
       /\ "registered" \in pKnown => Under("report") \/ Under("adopt") \/ "id" \in pKnown
       /\ "handled" \in pKnown => Under("finish")
       /\ pPhase = "ended" /\ ~pUnseen => Under("finish") \/ Under("report") \/ Under("adopt")
       /\ ~Under("tell")
       /\ \A i \in 1..Len(pNotices) : pNotices[i] # "ended"

\* An answer is asked for before it is given.
Wished ==
  pAccepted \/ Under("media") \/ (\E j \in pJobs : j.what = "accept")
      \/ (\E i \in 1..Len(pNotices) : pNotices[i] = "answered")
    => pWish # "none"
PhoneInv == Phone!TypeOK /\ Followed /\ Wished


LEMMA PhoneInitHolds == ASSUME Phone!Init PROVE PhoneInv
<1>1. {pApp, pReady, pAccepted, pUnseen} \subseteq BOOLEAN /\ ~pAccepted /\ ~pUnseen
  <2>1. pApp \in BOOLEAN /\ pReady \in BOOLEAN /\ pAccepted \in BOOLEAN /\ pUnseen \in BOOLEAN
          /\ ~pAccepted /\ ~pUnseen
    BY Zenon DEF Phone!Init
  <2> QED BY <2>1
<1>2. Phone!TypeOK
  BY <1>1, PhoneAssumption DEF Phone!Init, Phone!TypeOK
<1>3. Len(pNotices) = 0 /\ pNotices = <<>>
  BY DEF Phone!Init
<1>4. Followed /\ Wished
  BY <1>1, <1>3 DEF Phone!Init, Followed, Wished, Goes, Dead, Under
<1> QED BY <1>2, <1>4 DEF PhoneInv

LEMMA PhoneUntouched ==
  /\ UNCHANGED Phone!net <=> pWire' = pWire /\ pReady' = pReady /\ pDrops' = pDrops
  /\ UNCHANGED Phone!system <=> pOs' = pOs /\ pNotices' = pNotices
  /\ UNCHANGED Phone!engine <=> pPhase' = pPhase /\ pAccepted' = pAccepted /\ pUnseen' = pUnseen
  BY DEF Phone!net, Phone!system, Phone!engine

\* What is awaited for different reasons is different.
LEMMA Apart ==
  ASSUME NEW a, NEW b, NEW k, NEW l, a # b
  PROVE  Phone!J(a, k) # Phone!J(b, l)
  BY DEF Phone!J

\* A queue and what comes to it or goes.
LEMMA Queue ==
  ASSUME NEW S, NEW q \in Seq(S)
  PROVE  /\ \A x \in S : /\ Append(q, x) \in Seq(S) /\ Append(q, x) # <<>>
                         /\ \A i \in 1..Len(Append(q, x)) : Append(q, x)[i] = x
                              \/ (i \in 1..Len(q) /\ Append(q, x)[i] = q[i])
         /\ q # <<>> => /\ Tail(q) \in Seq(S) /\ Head(q) \in S /\ Head(q) = q[1]
                             /\ 1 \in 1..Len(q)
                        /\ \A i \in 1..Len(Tail(q)) : i + 1 \in 1..Len(q)
                             /\ Tail(q)[i] = q[i + 1]
<1>1. ASSUME NEW x \in S
      PROVE /\ Append(q, x) \in Seq(S) /\ Append(q, x) # <<>>
            /\ \A i \in 1..Len(Append(q, x)) : Append(q, x)[i] = x
                 \/ (i \in 1..Len(q) /\ Append(q, x)[i] = q[i])
  OBVIOUS
<1>2. ASSUME q # <<>>
      PROVE  /\ Tail(q) \in Seq(S) /\ Head(q) \in S /\ Head(q) = q[1] /\ 1 \in 1..Len(q)
             /\ \A i \in 1..Len(Tail(q)) : i + 1 \in 1..Len(q) /\ Tail(q)[i] = q[i + 1]
  <2>1. Len(q) \in Nat \ {0} /\ Tail(q) \in Seq(S) /\ Len(Tail(q)) = Len(q) - 1
          /\ Head(q) = q[1]
    BY <1>2
  <2>2. \A i \in 1..(Len(q) - 1) : Tail(q)[i] = q[i + 1]
    BY <1>2
  <2> QED BY <1>2, <2>1, <2>2
<1> QED BY <1>1, <1>2

LEMMA PhoneTypeNext == ASSUME Phone!TypeOK, [Phone!Next]_(Phone!vars) PROVE Phone!TypeOK'
<1> USE PhoneUntouched
<1> DEFINE Events == {"incoming", "accepted", "elsewhere", "ended"}
           News == {"added", "answered", "ended"}
           Facts == {"id", "request", "registered", "connected", "handled", "local"}
           Typed ==
             /\ pServer \in {"ringing", "active", "declined", "ended"} /\ pWire \in Seq(Events)
             /\ pApp \in BOOLEAN /\ pReady \in BOOLEAN /\ pAccepted \in BOOLEAN
                  /\ pUnseen \in BOOLEAN
             /\ pDrops \in 0..PhoneDrops
                  /\ pOs \in {"off", "none", "ringing", "answered", "connected", "ended"}
             /\ pNotices \in Seq(News)
             /\ pPhase \in {"none", "incoming", "connecting", "active", "ended"}
             /\ pKnown \subseteq Facts /\ pJobs \subseteq Phone!Job
                  /\ pWish \in {"none", "answer", "decline"}
<1>t. Phone!TypeOK <=> Typed
  BY DEF Phone!TypeOK
<1>u. Typed' => Phone!TypeOK'
  BY DEF Phone!TypeOK
<1>k. Typed BY <1>t
<1> HIDE DEF Events, News
<1>w. ASSUME NEW what \in Events, Phone!Tell(what) \/ UNCHANGED pWire
      PROVE  pWire' \in Seq(Events)
  BY <1>w, <1>k DEF Phone!Tell
<1>n. ASSUME NEW what \in News, Phone!Notify(what) \/ UNCHANGED pNotices
      PROVE  pNotices' \in Seq(News)
  BY <1>n, <1>k DEF Phone!Notify
<1>m. {"incoming", "accepted", "elsewhere", "ended"} = Events
        /\ {"added", "answered", "ended"} = News
  BY DEF Events, News
<1>j. \A what : what \in {"report", "adopt", "start", "media", "accept", "decline", "finish",
                          "tell"} =>
        Phone!Await(what) \in Phone!Job /\ Phone!J(what, PhoneAttempts) \in Phone!Job
  BY PhoneAssumption DEF Phone!Await, Phone!J, Phone!Job
<1>e. ASSUME NEW r \in {"declined", "ended"}, Phone!Ends(r) \/ UNCHANGED pServer
      PROVE  pServer' \in {"ringing", "active", "declined", "ended"}
  BY <1>e, <1>k DEF Phone!Ends
<1>d. ASSUME Phone!SendDecline(PhoneAttempts)
      PROVE  pJobs' \subseteq Phone!Job
        /\ pServer' \in {"ringing", "active", "declined", "ended"}
  BY <1>d, <1>e, <1>j, <1>k DEF Phone!SendDecline
<1>h. ASSUME Phone!HangUp
      PROVE  pJobs' \subseteq Phone!Job
        /\ pServer' \in {"ringing", "active", "declined", "ended"}
  BY <1>h, <1>d, <1>e, <1>k DEF Phone!HangUp
<1>1. ASSUME Phone!CallEnds \/ Phone!AnsweredElsewhere \/ Phone!Ring \/ Phone!Drop PROVE Typed'
  <2>1. pWire' \in Seq(Events)
    <3>1. CASE Phone!Drop BY <3>1 DEF Phone!Drop
    <3> QED BY <1>1, <3>1, <1>w, <1>m DEF Phone!CallEnds, Phone!AnsweredElsewhere, Phone!Ring
  <2>2. pDrops' \in 0..PhoneDrops /\ pServer' \in {"ringing", "active", "declined", "ended"}
    BY <1>1, <1>k, PhoneAssumption DEF Phone!CallEnds, Phone!AnsweredElsewhere, Phone!Ring,
       Phone!Drop
  <2>3. pReady' \in BOOLEAN
    <3>1. CASE Phone!Drop BY <3>1, Zenon DEF Phone!Drop
    <3> QED BY <1>1, <3>1, <1>k DEF Phone!CallEnds, Phone!AnsweredElsewhere, Phone!Ring
  <2>4. UNCHANGED <<pApp, Phone!system, Phone!engine, pKnown, pJobs, pWish>>
    BY <1>1 DEF Phone!CallEnds, Phone!AnsweredElsewhere, Phone!Ring, Phone!Drop
  <2> QED BY <2>1, <2>2, <2>3, <2>4, <1>k
<1>2. ASSUME Phone!Push PROVE Typed'
  <2>1. pNotices' \in Seq(News)
    BY <1>2, <1>n, <1>m DEF Phone!Push
  <2> QED BY <1>2, <2>1, <1>k DEF Phone!Push
<1>3. ASSUME Phone!StartApp \/ Phone!Ready PROVE Typed'
  <2>1. pApp' \in BOOLEAN /\ pReady' \in BOOLEAN
    <3>1. CASE Phone!StartApp BY <3>1, <1>k, Zenon DEF Phone!StartApp
    <3>2. CASE Phone!Ready BY <3>2, <1>k, Zenon DEF Phone!Ready
    <3> QED BY <1>3, <3>1, <3>2
  <2>2. pJobs' \subseteq Phone!Job BY <1>3, <1>j, <1>k DEF Phone!StartApp, Phone!Ready
  <2>3. pWire' \in Seq(Events) BY <1>3, <1>k, <1>m DEF Phone!StartApp, Phone!Ready
  <2>4. UNCHANGED <<pServer, pDrops, Phone!system, Phone!engine, pKnown, pWish>>
    BY <1>3 DEF Phone!StartApp, Phone!Ready
  <2> QED BY <2>1, <2>2, <2>3, <2>4, <1>k
<1>o. ASSUME NEW p \in {"none", "incoming", "connecting", "active", "ended"}, Phone!To(p)
        \/ UNCHANGED <<pPhase, pUnseen>>
      PROVE  pPhase' \in {"none", "incoming", "connecting", "active", "ended"}
        /\ pUnseen' \in BOOLEAN
  <2>1. CASE Phone!To(p) BY <2>1, Zenon DEF Phone!To
  <2>2. CASE UNCHANGED <<pPhase, pUnseen>> BY <2>2, <1>k
  <2> QED BY <1>o, <2>1, <2>2
<1>4. ASSUME Phone!HandleEvent PROVE Typed'
  <2>1. pWire' \in Seq(Events) BY <1>4, <1>k, Queue DEF Phone!HandleEvent
  <2>2. Phone!To("incoming") \/ Phone!To("ended") \/ UNCHANGED <<pPhase, pUnseen>>
    BY <1>4, Zenon DEF Phone!HandleEvent
  <2>3. pPhase' \in {"none", "incoming", "connecting", "active", "ended"}
          /\ pUnseen' \in BOOLEAN
    BY <2>2, <1>o
  <2>4. UNCHANGED <<pServer, pApp, pReady, pDrops, Phone!system, pAccepted, pKnown, pJobs,
                    pWish>>
    BY <1>4 DEF Phone!HandleEvent
  <2> QED BY <2>1, <2>3, <2>4, <1>k
<1>5. ASSUME NEW j \in pJobs, Phone!DeclineAgain(j) PROVE Typed'
  <2>1. pJobs' \subseteq Phone!Job /\ pServer' \in {"ringing", "active", "declined", "ended"}
    <3>1. CASE Phone!Ends("declined") /\ pJobs' = pJobs \ {j}
      BY <3>1, <1>e, <1>k
    <3>2. CASE UNCHANGED pServer
            /\ pJobs' = (pJobs \ {j}) \cup (IF j.left > 1 THEN {Phone!J("decline",
                                                                        j.left - 1)} ELSE {})
      <4>1. j \in Phone!Job BY <1>k
      <4>2. j.left > 1 => Phone!J("decline", j.left - 1) \in Phone!Job
        BY <4>1, PhoneAssumption DEF Phone!J, Phone!Job
      <4> QED BY <3>2, <4>2, <1>k
    <3> QED BY <1>5, <3>1, <3>2 DEF Phone!DeclineAgain
  <2> QED BY <1>5, <2>1, <1>k DEF Phone!DeclineAgain
<1>6. ASSUME NEW got \in BOOLEAN, Phone!Media(got) PROVE Typed'
  <2>1. /\ Phone!To("connecting") \/ Phone!To("ended") \/ UNCHANGED <<pPhase, pUnseen>>
        /\ UNCHANGED <<Phone!net, pApp, pNotices, pKnown, pWish>>
        /\ pOs' \in {pOs, "ended"}
    BY <1>6, Zenon DEF Phone!Media, Phone!engine
  <2>2. pPhase' \in {"none", "incoming", "connecting", "active", "ended"}
          /\ pUnseen' \in BOOLEAN
    BY <2>1, <1>o
  <2>3. pAccepted' \in BOOLEAN
    <3>1. pAccepted' = FALSE \/ pAccepted' = pAccepted
      BY <1>6, Zenon DEF Phone!Media, Phone!engine
    <3> QED BY <3>1, <1>k, Zenon
  <2>4. pServer' \in {"ringing", "active", "declined", "ended"}
    BY <1>6, <1>e DEF Phone!Media
  <2>5. pJobs' \subseteq Phone!Job
    BY <1>6, <1>k, <1>j DEF Phone!Media
  <2> QED BY <2>1, <2>2, <2>3, <2>4, <2>5, <1>k
<1>7. ASSUME NEW j \in pJobs, Phone!SendAccept(j) PROVE Typed'
  <2>1. Phone!To("ended") \/ UNCHANGED <<pPhase, pUnseen>>
    BY <1>7 DEF Phone!SendAccept
  <2>2. pPhase' \in {"none", "incoming", "connecting", "active", "ended"}
          /\ pUnseen' \in BOOLEAN
    BY <2>1, <1>o
  <2>3. pAccepted' \in BOOLEAN
    <3>1. pAccepted' = TRUE \/ pAccepted' = pAccepted
      BY <1>7, Zenon DEF Phone!SendAccept
    <3> QED BY <3>1, <1>k, Zenon
  <2>4. pServer' \in {"ringing", "active", "declined", "ended"}
    BY <1>7, <1>k DEF Phone!SendAccept
  <2>5. pWire' \in Seq(Events)
    <3>1. pWire' = pWire \/ \E w \in Events : pWire' = Append(pWire, w)
      BY <1>7, <1>m DEF Phone!SendAccept
    <3> QED BY <3>1, <1>k, Queue
  <2>6. pJobs' \subseteq Phone!Job /\ UNCHANGED <<pApp, pReady, pDrops, Phone!system, pKnown,
                                                  pWish>>
    BY <1>7, <1>k DEF Phone!SendAccept
  <2> QED BY <2>2, <2>3, <2>4, <2>5, <2>6, <1>k
<1>8. ASSUME Phone!Connected \/ Phone!Dismiss PROVE Typed'
  <2>1. Phone!To("active") \/ Phone!To("none")
    BY <1>8 DEF Phone!Connected, Phone!Dismiss
  <2>2. pPhase' \in {"none", "incoming", "connecting", "active", "ended"}
          /\ pUnseen' \in BOOLEAN
    BY <2>1, <1>o
  <2>3. UNCHANGED <<pServer, Phone!net, pApp, Phone!system, pAccepted, pKnown, pJobs, pWish>>
    BY <1>8 DEF Phone!Connected, Phone!Dismiss
  <2> QED BY <2>2, <2>3, <1>k
<1>9. ASSUME Phone!OnSnapshot PROVE Typed'
  <2>1. pUnseen' \in BOOLEAN /\ UNCHANGED <<pServer, Phone!net, pApp, pNotices, pPhase,
                                            pAccepted, pWish>>
    BY <1>9, Zenon DEF Phone!OnSnapshot
  <2>2. pKnown' \subseteq Facts /\ pJobs' \subseteq Phone!Job /\ pOs' \in {pOs, "connected"}
    BY <1>9, <1>k, <1>j DEF Phone!OnSnapshot
  <2> QED BY <2>1, <2>2, <1>k
<1>10. ASSUME Phone!Report PROVE Typed'
  <2>1. pNotices' \in Seq(News) /\ pOs' \in {pOs, "ringing"}
    BY <1>10, <1>n, <1>m DEF Phone!Report
  <2>2. pJobs' \subseteq Phone!Job /\ UNCHANGED <<pServer, Phone!net, pApp, Phone!engine, pKnown,
                                                  pWish>> BY <1>10, <1>j, <1>k DEF Phone!Report
  <2> QED BY <2>1, <2>2, <1>k
<1>11. ASSUME Phone!Adopt \/ Phone!StartAdopt PROVE Typed'
  <2>1. pJobs' \subseteq Phone!Job /\ pKnown' \subseteq Facts
          /\ UNCHANGED <<pServer, Phone!net, pApp, Phone!system, pAccepted, pWish>>
    BY <1>11, <1>k DEF Phone!Adopt, Phone!StartAdopt
  <2>2. pPhase' \in {"none", "incoming", "connecting", "active", "ended"}
          /\ pUnseen' \in BOOLEAN
    <3>1. CASE Phone!To("incoming") \/ UNCHANGED <<pPhase, pUnseen>>
      BY <3>1, <1>o
    <3>2. CASE UNCHANGED pPhase /\ pUnseen' = (pUnseen \/ (pPhase # "none" /\ "id" \in pKnown'))
      <4>1. (pUnseen \/ (pPhase # "none" /\ "id" \in pKnown')) \in BOOLEAN OBVIOUS
      <4> QED BY <3>2, <4>1, <1>k
    <3> QED BY <1>11, <3>1, <3>2 DEF Phone!Adopt, Phone!StartAdopt, Phone!Present
  <2> QED BY <2>1, <2>2, <1>k
<1>12. ASSUME Phone!FinishNative PROVE Typed'
  BY <1>12, <1>k DEF Phone!FinishNative
<1>13. ASSUME Phone!Answer \/ Phone!EndOnScreen PROVE Typed'
  <2>1. pNotices' \in Seq(News) /\ pOs' \in {pOs, "answered", "ended"}
          /\ pWish' \in {"none", "answer", "decline"}
    BY <1>13, <1>n, <1>m DEF Phone!Answer, Phone!EndOnScreen
  <2>2. pJobs' \subseteq Phone!Job /\ UNCHANGED <<pServer, Phone!net, pApp, Phone!engine,
                                                  pKnown>>
    BY <1>13, <1>j, <1>k DEF Phone!Answer, Phone!EndOnScreen
  <2> QED BY <2>1, <2>2, <1>k
<1>14. ASSUME Phone!EndInApp PROVE Typed'
  <2>1. Phone!HangUp /\ Phone!To("ended") /\ pWish' = "decline"
          /\ pKnown' = pKnown \cup {"local"}
               /\ UNCHANGED <<Phone!net, pApp, Phone!system, pAccepted>>
    BY <1>14 DEF Phone!EndInApp
  <2>2. pPhase' \in {"none", "incoming", "connecting", "active", "ended"}
          /\ pUnseen' \in BOOLEAN
    BY <2>1, <1>o
  <2> QED BY <2>1, <2>2, <1>h, <1>k
<1>15. ASSUME Phone!Notice PROVE Typed'
  <2>1. pNotices' \in Seq(News) /\ UNCHANGED <<Phone!net, pApp, pAccepted, pWish>>
    BY <1>15, <1>k, Queue DEF Phone!Notice
  <2>2. /\ pPhase' \in {"none", "incoming", "connecting", "active", "ended"}
             /\ pUnseen' \in BOOLEAN
    <3>1. CASE Phone!To("ended") \/ UNCHANGED <<pPhase, pUnseen>>
      BY <3>1, <1>o
    <3>2. CASE pPhase' = "incoming" /\ pUnseen' = (pUnseen \/ pPhase = "none")
      <4>1. (pUnseen \/ pPhase = "none") \in BOOLEAN OBVIOUS
      <4> QED BY <3>2, <4>1
    <3> QED BY <1>15, <3>1, <3>2, Zenon DEF Phone!Notice
  <2>3. pJobs' \subseteq Phone!Job /\ pServer' \in {"ringing", "active", "declined", "ended"}
          /\ pKnown' \subseteq Facts /\ pOs' = pOs
    BY <1>15, <1>h, <1>j, <1>k DEF Phone!Notice
  <2> QED BY <2>1, <2>2, <2>3, <1>k
<1>16. ASSUME Phone!TellDecline PROVE Typed'
  <2>1. Phone!To("ended") \/ UNCHANGED <<pPhase, pUnseen>>
    BY <1>16 DEF Phone!TellDecline
  <2>2. pPhase' \in {"none", "incoming", "connecting", "active", "ended"}
          /\ pUnseen' \in BOOLEAN
    BY <2>1, <1>o
  <2>3. pServer' \in {"ringing", "active", "declined", "ended"}
    BY <1>16, <1>e DEF Phone!TellDecline
  <2>4. pJobs' \subseteq Phone!Job /\ UNCHANGED <<Phone!net, pApp, Phone!system, pAccepted,
                                                  pKnown, pWish>>
    BY <1>16, <1>k DEF Phone!TellDecline
  <2> QED BY <2>2, <2>3, <2>4, <1>k
<1>17. ASSUME UNCHANGED Phone!vars PROVE Typed'
  BY <1>17, <1>k DEF Phone!vars
<1> QED
  BY <1>u, <1>1, <1>2, <1>3, <1>4, <1>5, <1>6, <1>7, <1>8, <1>9, <1>10, <1>11, <1>12, <1>13,
     <1>14, <1>15, <1>16,
     <1>17, Zenon DEF Phone!Next, Phone!Phone

LEMMA FollowedNext == ASSUME Phone!TypeOK, Followed, [Phone!Next]_(Phone!vars) PROVE Followed'
<1> USE PhoneUntouched DEF Dead, Goes
<1>k. /\ pNotices \in Seq({"added", "answered", "ended"}) /\ pJobs \subseteq Phone!Job
           /\ pUnseen \in BOOLEAN
      /\ pPhase \in {"none", "incoming", "connecting", "active", "ended"}
      /\ pOs \in {"off", "none", "ringing", "answered", "connected", "ended"}
  BY DEF Phone!TypeOK
<1>j. ASSUME NEW w \in {"report", "adopt", "finish", "tell"}
      PROVE  /\ \A v \in {"report", "adopt", "finish", "tell", "start", "media"} : v # w
                  => Phone!Await(v) # Phone!Await(w)
             /\ \A j : j.what \in {"accept", "decline"} => j # Phone!Await(w)
             /\ \A n : Phone!J("accept", n) # Phone!Await(w)
                  /\ Phone!J("decline", n) # Phone!Await(w)
  BY <1>j DEF Phone!Await, Phone!J
\* What is queued and what is awaited beside it says nothing of the system's call.
<1>s. ASSUME \A w \in {"report", "adopt", "finish", "tell"} : Under(w)' <=> Under(w),
             UNCHANGED <<pNotices, pOs>>, pKnown' = pKnown \/ pKnown' = pKnown \cup {"local"},
               ~pUnseen,
             \/ UNCHANGED <<pPhase, pUnseen>>
             \/ pUnseen' /\ (pPhase' = "ended" /\ ~Dead => Goes)
      PROVE  Followed'
  BY <1>s DEF Followed
\* Once the system has done with the call, or takes none, nothing is asked.
<1>x. ASSUME Dead' PROVE Followed'
  BY <1>x DEF Followed
<1>1. ASSUME Phone!CallEnds \/ Phone!AnsweredElsewhere \/ Phone!Ring \/ Phone!Drop
        \/ Phone!Ready, ~pUnseen PROVE Followed'
  <2>1. UNCHANGED <<pJobs, pNotices, pOs, pKnown, pPhase, pUnseen>>
    BY <1>1 DEF Phone!CallEnds, Phone!AnsweredElsewhere, Phone!Ring, Phone!Drop, Phone!Ready
  <2> QED BY <2>1, <1>s, <1>1 DEF Under
<1>2. ASSUME Phone!StartApp, ~pUnseen PROVE Followed'
  <2>1. \A w \in {"report", "adopt", "finish", "tell"} : Under(w)' <=> Under(w)
    BY <1>2, <1>j DEF Phone!StartApp, Under
  <2> QED BY <2>1, <1>s, <1>2 DEF Phone!StartApp
<1>3. ASSUME Phone!HandleEvent \/ Phone!Connected \/ Phone!Dismiss, ~pUnseen PROVE Followed'
  <2>1. UNCHANGED <<pJobs, pNotices, pOs, pKnown>>
    BY <1>3 DEF Phone!HandleEvent, Phone!Connected, Phone!Dismiss
  <2>2. \/ UNCHANGED <<pPhase, pUnseen>>
        \/ pUnseen' /\ (pPhase' = "ended" => Goes)
    BY <1>3, Zenon DEF Phone!HandleEvent, Phone!Connected, Phone!Dismiss, Phone!To, Phone!InCall
  <2> QED BY <2>1, <2>2, <1>s, <1>3 DEF Under
<1>4. ASSUME NEW j \in pJobs, Phone!DeclineAgain(j), ~pUnseen PROVE Followed'
  <2>1. j.what = "decline" /\ \/ pJobs' = (pJobs \ {j})
                              \/ pJobs' = (pJobs \ {j}) \cup {Phone!J("decline", j.left - 1)}
    BY <1>4 DEF Phone!DeclineAgain
  <2>2. \A w \in {"report", "adopt", "finish", "tell"} : Under(w)' <=> Under(w)
    BY <2>1, <1>j DEF Under
  <2> QED BY <2>2, <1>s, <1>4 DEF Phone!DeclineAgain
<1>5. ASSUME NEW j \in pJobs, Phone!SendAccept(j), ~pUnseen PROVE Followed'
  <2>1. pJobs' = pJobs \ {j} /\ j.what = "accept"
    BY <1>5 DEF Phone!SendAccept
  <2>2. \A w \in {"report", "adopt", "finish", "tell"} : Under(w)' <=> Under(w)
    BY <2>1, <1>j DEF Under
  <2>3. \/ UNCHANGED <<pPhase, pUnseen>>
        \/ pUnseen' /\ Goes
    BY <1>5, Zenon DEF Phone!SendAccept, Phone!To
  <2> QED BY <2>2, <2>3, <1>s, <1>5 DEF Phone!SendAccept
<1>6. ASSUME NEW got \in BOOLEAN, Phone!Media(got), ~pUnseen PROVE Followed'
  <2>1. \/ pJobs' = pJobs \ {Phone!Await("media")}
        \/ pJobs' = (pJobs \ {Phone!Await("media")}) \cup {Phone!J("accept", PhoneAttempts)}
        \/ pJobs' = (pJobs \ {Phone!Await("media")}) \cup {Phone!J("decline", PhoneAttempts)}
    BY <1>6 DEF Phone!Media
  <2>2. \A w \in {"report", "adopt", "finish", "tell"} : Under(w)' <=> Under(w)
    BY <2>1, <1>j DEF Under
  <2>3. \/ UNCHANGED <<pPhase, pUnseen>>
        \/ pUnseen' /\ Goes
    BY <1>6, Zenon DEF Phone!Media, Phone!To, Phone!engine
  <2>4. pOs' = pOs \/ pOs' = "ended"
    BY <1>6 DEF Phone!Media
  <2> QED BY <2>2, <2>3, <2>4, <1>s, <1>x, <1>6 DEF Phone!Media
<1>h. ASSUME Phone!HangUp \/ UNCHANGED pJobs
      PROVE  \A w \in {"report", "adopt", "finish", "tell"} : Under(w)' <=> Under(w)
  <2>1. pJobs' = pJobs \/ pJobs' = pJobs \cup {Phone!J("decline", PhoneAttempts)}
    BY <1>h DEF Phone!HangUp, Phone!SendDecline
  <2> QED BY <2>1, <1>j DEF Under
<1>7. ASSUME Phone!EndInApp, ~pUnseen PROVE Followed'
  <2>1. pUnseen' /\ Goes /\ Phone!HangUp /\ UNCHANGED Phone!system
          /\ pKnown' = pKnown \cup {"local"}
    BY <1>7, Zenon DEF Phone!EndInApp, Phone!To, Phone!InCall
  <2> QED BY <2>1, <1>h, <1>s, <1>7
<1>8. ASSUME Phone!Push, ~pUnseen PROVE Followed'
  <2>1. pOs = "none" /\ pOs' = "ringing" /\ UNCHANGED <<pJobs, pKnown, pPhase, pUnseen>>
    BY <1>8 DEF Phone!Push
  <2>2. pNotices' = pNotices \/ pNotices' = Append(pNotices, "added")
    BY <1>8 DEF Phone!Push, Phone!Notify
  <2>3. \A i \in 1..Len(pNotices') : pNotices'[i] = "added"
          \/ (i \in 1..Len(pNotices) /\ pNotices'[i] = pNotices[i])
    BY <2>2, <1>k, Queue
  <2> QED BY <2>1, <2>3 DEF Followed, Under
<1>9. ASSUME Phone!OnSnapshot PROVE Followed'
  <2>1. ~pUnseen' /\ UNCHANGED <<pNotices, pPhase>>
    BY <1>9, Zenon DEF Phone!OnSnapshot
  <2>2. CASE pPhase = "ended" /\ Phone!Handle(pKnown) /\ pKnown' = pKnown \cup {"handled"}
          /\ pJobs' = pJobs \cup {Phone!Await("finish")} /\ UNCHANGED pOs
    BY <2>1, <2>2, <1>j DEF Followed, Under, Phone!Handle
  <2>3. CASE /\ Goes /\ "registered" \notin pKnown
             /\ pKnown' = pKnown \cup {"registered"}
                  /\ pJobs' = pJobs \cup {Phone!Await("report")} /\ UNCHANGED pOs
    BY <2>1, <2>3, <1>j DEF Followed, Under
  <2>4. CASE /\ pPhase = "active" /\ {"registered", "id", "request"} \subseteq pKnown
             /\ pKnown' = pKnown \cup {"connected"}
             /\ pOs' = (IF pOs = "answered" THEN "connected" ELSE pOs) /\ UNCHANGED pJobs
    BY <2>1, <2>4 DEF Followed, Under
  <2>5. CASE /\ ~(pPhase = "ended" /\ Phone!Handle(pKnown))
                  /\ ~(Goes /\ "registered" \notin pKnown)
             /\ UNCHANGED <<pKnown, pJobs, pOs>>
    BY <2>1, <2>5 DEF Followed, Under, Phone!Handle
  <2> QED BY <1>9, <2>2, <2>3, <2>4, <2>5 DEF Phone!OnSnapshot
<1>10. ASSUME Phone!Report, ~pUnseen PROVE Followed'
  <2>1. pJobs' = (pJobs \ {Phone!Await("report")}) \cup {Phone!Await("adopt")}
          /\ UNCHANGED <<pKnown, pPhase, pUnseen>>
    BY <1>10 DEF Phone!Report
  <2>2. Under("adopt")' /\ (Under("finish")' <=> Under("finish"))
          /\ (Under("tell")' <=> Under("tell"))
    BY <2>1, <1>j DEF Under
  <2>3. \/ pOs # "none" /\ UNCHANGED Phone!system
        \/ pOs = "none" /\ pOs' = "ringing"
             /\ (pNotices' = pNotices \/ pNotices' = Append(pNotices, "added"))
    BY <1>10 DEF Phone!Report, Phone!Notify
  <2>4. \A i \in 1..Len(pNotices') : pNotices'[i] = "added"
          \/ (i \in 1..Len(pNotices) /\ pNotices'[i] = pNotices[i])
    BY <2>3, <1>k, Queue
  <2> QED BY <2>1, <2>2, <2>3, <2>4 DEF Followed
<1>11. ASSUME Phone!Adopt, ~pUnseen PROVE Followed'
  <2>1. Under("adopt") /\ pJobs' = pJobs \ {Phone!Await("adopt")} /\ UNCHANGED <<pOs, pNotices>>
    BY <1>11 DEF Phone!Adopt, Under
  <2>2. \A w \in {"report", "finish", "tell"} : Under(w)' <=> Under(w)
    BY <2>1, <1>j DEF Under
  <2>3. CASE Dead BY <2>1, <2>3, <1>x
  <2>4. CASE ~Dead
    <3>1. Phone!Screen BY <2>1, <2>4, <1>k DEF Followed, Phone!Screen
    <3>2. pKnown' = pKnown \cup {"id"} BY <1>11, <3>1 DEF Phone!Adopt
    <3>3. \/ pPhase = "none" /\ pPhase' = "incoming" /\ pUnseen'
          \/ pPhase # "none" /\ pPhase' = pPhase /\ pUnseen'
      BY <1>11, <3>1, <3>2, Zenon DEF Phone!Adopt, Phone!Present, Phone!To
    <3> QED BY <2>1, <2>2, <3>2, <3>3, <1>11 DEF Followed
  <2> QED BY <2>3, <2>4
<1>12. ASSUME Phone!StartAdopt, ~pUnseen PROVE Followed'
  <2>1. pJobs' = pJobs \ {Phone!Await("start")} /\ UNCHANGED <<pOs, pNotices>>
    BY <1>12 DEF Phone!StartAdopt
  <2>2. \A w \in {"report", "adopt", "finish", "tell"} : Under(w)' <=> Under(w)
    BY <2>1, <1>j DEF Under
  <2>3. pKnown' = pKnown \/ (Phone!Screen /\ pKnown' = pKnown \cup {"id"})
    BY <1>12 DEF Phone!StartAdopt
  <2>4. (pPhase = "none" /\ pPhase' = "incoming" /\ pUnseen') \/ UNCHANGED <<pPhase, pUnseen>>
    BY <1>12, Zenon DEF Phone!StartAdopt, Phone!Present, Phone!To
  <2> QED BY <2>1, <2>2, <2>3, <2>4, <1>12 DEF Followed, Phone!Screen
<1>13. ASSUME Phone!FinishNative PROVE Followed'
  <2>1. pOs # "none" BY <1>13 DEF Phone!FinishNative, Followed, Under
  <2>2. Dead' BY <1>13, <2>1, <1>k DEF Phone!FinishNative, Phone!Screen
  <2> QED BY <2>2, <1>x
<1>14. ASSUME Phone!Answer, ~pUnseen PROVE Followed'
  <2>1. UNCHANGED <<pKnown, pPhase, pUnseen>> BY <1>14 DEF Phone!Answer
  <2>2. CASE pOs = "ringing" /\ pOs' = "answered" /\ UNCHANGED pJobs
    <3>1. pNotices' = pNotices \/ pNotices' = Append(pNotices, "answered")
      BY <1>14, <2>2 DEF Phone!Answer, Phone!Notify
    <3>2. \A i \in 1..Len(pNotices') : pNotices'[i] = "answered"
            \/ (i \in 1..Len(pNotices) /\ pNotices'[i] = pNotices[i])
      BY <3>1, <1>k, Queue
    <3> QED BY <2>1, <2>2, <3>2 DEF Followed, Under
  <2>3. CASE pJobs' = pJobs \cup {Phone!Await("media")} /\ UNCHANGED Phone!system
    <3>1. \A w \in {"report", "adopt", "finish", "tell"} : Under(w)' <=> Under(w)
      BY <2>3, <1>j DEF Under
    <3> QED BY <2>1, <2>3, <3>1, <1>s, <1>14
  <2> QED BY <1>14, <2>2, <2>3 DEF Phone!Answer
<1>15. ASSUME Phone!EndOnScreen PROVE Followed'
  BY <1>15, <1>x DEF Phone!EndOnScreen
<1>16. ASSUME Phone!Notice, ~pUnseen PROVE Followed'
  <2>0. pNotices # <<>> /\ pNotices' = Tail(pNotices)
    BY <1>16 DEF Phone!Notice
  <2>1. pOs' = pOs /\ pOs # "none"
    BY <1>16, <2>0 DEF Phone!Notice, Followed
  <2>2. /\ Head(pNotices) = pNotices[1] /\ 1 \in 1..Len(pNotices)
        /\ \A i \in 1..Len(pNotices') : i + 1 \in 1..Len(pNotices)
             /\ pNotices'[i] = pNotices[i + 1]
    BY <2>0, <1>k, Queue
  <2>3. CASE Dead BY <2>1, <2>3, <1>x
  <2>4. CASE ~Dead
    <3>1. Head(pNotices) # "ended" /\ \A i \in 1..Len(pNotices') : pNotices'[i] # "ended"
      BY <2>2, <2>4 DEF Followed
    <3>2. CASE pKnown' = pKnown \cup {"id"} /\ UNCHANGED <<pPhase, pUnseen, pJobs>>
      BY <2>1, <2>2, <3>1, <3>2, <1>16 DEF Followed, Under
    <3>3. CASE /\ pPhase \in {"none", "incoming"} /\ pKnown' = pKnown \cup {"request", "id"}
               /\ pJobs' = pJobs \cup {Phone!Await("media")}
               /\ pPhase' = "incoming" /\ pUnseen' = (pUnseen \/ pPhase = "none")
      <4>1. \A w \in {"report", "adopt", "finish", "tell"} : Under(w)' <=> Under(w)
        BY <3>3, <1>j DEF Under
      <4> QED BY <2>1, <2>2, <3>1, <3>3, <4>1, <1>16 DEF Followed
    <3>4. CASE pKnown' = pKnown \cup {"request"} /\ UNCHANGED <<pPhase, pUnseen, pJobs>>
      BY <2>1, <2>2, <3>1, <3>4, <1>16 DEF Followed, Under
    <3> QED BY <1>16, <3>1, <3>2, <3>3, <3>4 DEF Phone!Notice
  <2> QED BY <2>3, <2>4
<1>17. ASSUME Phone!TellDecline PROVE Followed'
  <2>1. Dead /\ pOs' = pOs
    BY <1>17 DEF Phone!TellDecline, Followed, Under
  <2> QED BY <2>1, <1>x
<1>18. ASSUME UNCHANGED Phone!vars PROVE Followed'
  BY <1>18 DEF Phone!vars, Followed, Under
<1> QED
  BY <1>1, <1>2, <1>3, <1>4, <1>5, <1>6, <1>7, <1>8, <1>9, <1>10, <1>11, <1>12, <1>13, <1>14,
     <1>15, <1>16,
     <1>17, <1>18, Zenon DEF Phone!Next, Phone!Phone

LEMMA WishedNext == ASSUME Phone!TypeOK, Wished, [Phone!Next]_(Phone!vars) PROVE Wished'
<1> USE PhoneUntouched
<1>1. CASE pWish' # "none"
  BY <1>1 DEF Wished
<1>2. ASSUME pWish' = "none" PROVE Wished'
  <2>1. pWish = "none" /\ ~Phone!Answer /\ ~Phone!EndOnScreen /\ ~Phone!EndInApp
    BY <1>2 DEF Phone!Next, Phone!Phone, Phone!OnSnapshot, Phone!StartApp, Phone!Ready,
       Phone!HandleEvent, Phone!Report, Phone!Adopt, Phone!StartAdopt, Phone!FinishNative,
       Phone!Notice,
       Phone!TellDecline, Phone!Dismiss, Phone!Media, Phone!SendAccept, Phone!DeclineAgain,
         Phone!CallEnds, Phone!AnsweredElsewhere, Phone!Ring, Phone!Push, Phone!Drop,
           Phone!Connected,
       Phone!Answer, Phone!EndOnScreen, Phone!EndInApp, Phone!vars
  <2>2. /\ ~pAccepted /\ ~Under("media") /\ \A j \in pJobs : j.what # "accept"
        /\ \A i \in 1..Len(pNotices) : pNotices[i] # "answered"
    BY <2>1 DEF Wished
  <2>k. pNotices \in Seq({"added", "answered", "ended"})
    BY DEF Phone!TypeOK
  <2>q. pNotices # <<>> => Head(pNotices) # "answered"
    BY <2>2, <2>k, Queue
  <2>f. \A w, n : Phone!Await(w).what = w /\ Phone!J(w, n).what = w
    BY DEF Phone!Await, Phone!J
  <2>j. ASSUME ~pAccepted', \A j \in pJobs' : j \in pJobs \/ j.what \notin {"media", "accept"},
               \A i \in 1..Len(pNotices') : pNotices'[i] # "answered"
        PROVE  Wished'
    BY <2>2, <2>f, <2>j DEF Wished, Under
  <2>3. ASSUME Phone!OnSnapshot PROVE Wished'
    BY <2>2, <2>f, <2>j, <2>3 DEF Phone!OnSnapshot
  <2>4. ASSUME Phone!StartApp \/ Phone!Ready \/ Phone!HandleEvent \/ Phone!CallEnds
          \/ Phone!AnsweredElsewhere \/ Phone!Ring \/ Phone!Drop PROVE Wished'
    BY <2>2, <2>f, <2>j, <2>4 DEF Phone!StartApp, Phone!Ready, Phone!HandleEvent,
       Phone!CallEnds, Phone!AnsweredElsewhere, Phone!Ring, Phone!Drop
  <2>5. ASSUME Phone!Adopt \/ Phone!StartAdopt \/ Phone!FinishNative \/ Phone!TellDecline
          \/ Phone!Dismiss \/ Phone!Connected PROVE Wished'
    BY <2>2, <2>f, <2>j, <2>5 DEF Phone!Adopt, Phone!StartAdopt, Phone!FinishNative,
       Phone!TellDecline, Phone!Dismiss, Phone!Connected
  <2>6. ASSUME NEW got \in BOOLEAN, Phone!Media(got) PROVE Wished'
    BY <2>2, <2>6 DEF Phone!Media, Under
  <2>7. ASSUME NEW j \in pJobs, Phone!SendAccept(j) \/ Phone!DeclineAgain(j) PROVE Wished'
    <3>1. Phone!DeclineAgain(j)
      BY <2>2, <2>7 DEF Phone!SendAccept
    <3>2. \A i \in pJobs' : i \in pJobs \/ i.what = "decline"
      BY <2>f, <3>1 DEF Phone!DeclineAgain
    <3> QED BY <2>2, <2>j, <3>1, <3>2 DEF Phone!DeclineAgain
  <2>8. ASSUME Phone!Report \/ Phone!Push PROVE Wished'
    <3>1. pNotices' = pNotices \/ pNotices' = Append(pNotices, "added")
      BY <2>8 DEF Phone!Report, Phone!Push, Phone!Notify
    <3>2. \A i \in 1..Len(pNotices') : pNotices'[i] # "answered"
      BY <2>2, <2>k, <3>1, Queue
    <3>3. ~pAccepted' /\ \A i \in pJobs' : i \in pJobs \/ i.what = "adopt"
      BY <2>2, <2>f, <2>8 DEF Phone!Report, Phone!Push
    <3> QED BY <2>j, <3>2, <3>3
  <2>9. ASSUME Phone!Notice PROVE Wished'
    <3>1. pNotices # <<>> /\ pNotices' = Tail(pNotices) /\ Head(pNotices) # "answered"
            /\ ~pAccepted'
      BY <2>2, <2>q, <2>9 DEF Phone!Notice
    <3>2. \A i \in 1..Len(pNotices') : pNotices'[i] # "answered"
      BY <2>2, <2>k, <3>1, Queue
    <3>3. \/ pJobs' = pJobs
          \/ pJobs' = pJobs \cup {Phone!J("decline", PhoneAttempts)}
          \/ pJobs' = pJobs \cup {Phone!Await("tell")}
      BY <2>9, <3>1 DEF Phone!Notice, Phone!HangUp, Phone!SendDecline
    <3> QED BY <2>f, <2>j, <3>1, <3>2, <3>3
  <2>10. ASSUME UNCHANGED Phone!vars PROVE Wished'
    BY <2>2, <2>j, <2>10 DEF Phone!vars
  <2> QED
    BY <2>1, <2>3, <2>4, <2>5, <2>6, <2>7, <2>8, <2>9, <2>10, Zenon DEF Phone!Next, Phone!Phone
<1> QED BY <1>1, <1>2

\* For any number of attempts and drops: the system's call screen has what the call
\* engine has (callBridge.ts:107), and an accept is what the person asked for.
THEOREM PhoneFollows ==
  Phone!Spec => [](Phone!SystemFollows /\ Phone!AcceptMeant)
<1>1. Phone!Init => PhoneInv
  BY PhoneInitHolds
<1>2. PhoneInv /\ [Phone!Next]_(Phone!vars) => PhoneInv'
  BY PhoneTypeNext, FollowedNext, WishedNext DEF PhoneInv
<1>3. PhoneInv => Phone!SystemFollows /\ Phone!AcceptMeant
  BY DEF PhoneInv, Followed, Wished, Phone!SystemFollows, Phone!AcceptMeant, Phone!BridgeIdle,
     Phone!Screen, Dead, Under
<1> QED BY <1>1, <1>2, <1>3, PTL DEF Phone!Spec

(********************** The phone's calls: PhoneCall **********************)

Ringing == ePhase \in {"incoming", "outgoing"}
Silent(c) == eSaid[c] = {}

Late ==
  \A r \in eAsked :
    /\ r.call <= eCall
    /\ r.what \in {"wait", "ice", "camera"} /\ r.call = eCall => ~Ringing
    /\ r.what = "decline" =>
         /\ r.call # 0 /\ (r.call = eCall => ~Engine!Busy) /\ "accept" \notin eSaid[r.call]

Spoken ==
  \A c \in Engine!CallIds :
    /\ c > eCall => eSaid[c] = {}
    /\ "accept" \in eSaid[c] /\ c = eCall /\ Engine!Busy => eAcceptSent /\ Engine!InCall
    /\ "decline" \in eSaid[c] /\ c = eCall => ~Engine!Busy
    /\ ~({"accept", "decline"} \subseteq eSaid[c])

Going ==
  /\ Engine!Busy => eCall # 0
  /\ Engine!Busy /\ ePhase # "incoming" => eMic # 0
  /\ eHiding => eApp # "active"

Kept ==
  /\ eLive \subseteq {eMic, eCam} /\ (~Engine!Busy => eLive = {})
  /\ ePhase = "incoming" => eMic = 0 /\ eCam = 0 /\ ~eShows /\ ~eWants /\ ~ePaused
  /\ Ringing => ePc = Engine!NoConnection
  /\ Engine!Busy =>
       /\ eShows = (eWants /\ ~ePaused)
       /\ eCam = 0 => ~eWants /\ ~ePaused
       /\ eCam # 0 /\ ePc # Engine!NoConnection => eCam \in ePc
       /\ eApp = "active" => ~ePaused
  /\ ePhase = "active" => ePc # Engine!NoConnection /\ (eLost \/ eTold = eShows)

EngineInv == Engine!TypeOK /\ Late /\ Spoken /\ Going /\ (~eStray => Kept)

EngineRequests == [what : {"call", "answer", "wait", "ice", "camera", "decline"},
                   call : 0..EngineCalls]

\* The types one by one.
EngineFlags ==
  /\ eOutgoing \in BOOLEAN /\ eAcceptSent \in BOOLEAN /\ eShows \in BOOLEAN
       /\ eWants \in BOOLEAN
  /\ ePaused \in BOOLEAN /\ eTimer \in BOOLEAN /\ eHiding \in BOOLEAN /\ eUp \in BOOLEAN
  /\ eTold \in BOOLEAN /\ eLost \in BOOLEAN /\ eStray \in BOOLEAN
EngineValues ==
  /\ eCall \in 0..EngineCalls
  /\ ePhase \in {"none", "incoming", "outgoing", "connecting", "active", "reconnecting",
                 "ended"}
  /\ eMic \in 0..EngineTracks /\ eCam \in 0..EngineTracks
  /\ (ePc = Engine!NoConnection \/ ePc \subseteq Engine!Tracks)
  /\ eLive \subseteq Engine!Tracks /\ eOpened \in 0..EngineTracks
       /\ eAsked \subseteq EngineRequests
  /\ eApp \in {"active", "pip", "background"} /\ eDrops \in 0..EngineDrops
  /\ eSaid \in [Engine!CallIds -> SUBSET Engine!Words]

LEMMA EngineTypes == Engine!TypeOK <=> EngineFlags /\ EngineValues
<1>1. /\ {eOutgoing, eAcceptSent, eShows, eWants, ePaused, eTimer} \subseteq BOOLEAN <=>
           /\ eOutgoing \in BOOLEAN /\ eAcceptSent \in BOOLEAN /\ eShows \in BOOLEAN
           /\ eWants \in BOOLEAN /\ ePaused \in BOOLEAN /\ eTimer \in BOOLEAN
      /\ {eHiding, eUp, eTold, eLost, eStray} \subseteq BOOLEAN <=>
           /\ eHiding \in BOOLEAN /\ eUp \in BOOLEAN /\ eTold \in BOOLEAN /\ eLost \in BOOLEAN
           /\ eStray \in BOOLEAN
      /\ {eMic, eCam} \subseteq 0..EngineTracks <=> eMic \in 0..EngineTracks
           /\ eCam \in 0..EngineTracks
  OBVIOUS
<1> QED BY <1>1, Zenon DEF Engine!TypeOK, EngineFlags, EngineValues, EngineRequests

LEMMA EngineInitHolds == ASSUME Engine!Init PROVE EngineInv
<1>0. EngineFlags
  BY Zenon DEF Engine!Init, EngineFlags
<1>1. EngineValues
  BY EngineAssumption DEF Engine!Init, EngineValues, Engine!CallIds, Engine!Words, Engine!Tracks
<1>2. Late /\ Spoken /\ Going /\ Kept
  BY DEF Engine!Init, Late, Spoken, Going, Kept, Engine!Busy, Engine!InCall, Ringing
<1> QED BY <1>0, <1>1, <1>2, EngineTypes DEF EngineInv

\* n tracks more.
LEMMA EngineOpens ==
  ASSUME EngineValues, NEW n \in 1..2, NEW k \in SUBSET Engine!Tracks, Engine!Open(n, k)
  PROVE  /\ eLive' \subseteq Engine!Tracks /\ eOpened' \in 0..EngineTracks
              /\ eOpened + 1 \in Engine!Tracks
         /\ n = 2 => eOpened + 2 \in Engine!Tracks /\ eLive' = k \cup {eOpened + 1, eOpened + 2}
         /\ n = 1 => eLive' = k \cup {eOpened + 1}
<1>1. eOpened + n \in 1..EngineTracks /\ eOpened' = eOpened + n /\ eOpened \in 0..EngineTracks
  BY EngineAssumption DEF Engine!Open, EngineValues
<1>2. eOpened + 1 \in Engine!Tracks /\ (n = 2 => eOpened + 2 \in Engine!Tracks)
  BY <1>1, EngineAssumption DEF Engine!Tracks
<1>3. n = 2 => (eOpened + 1)..(eOpened + n) = {eOpened + 1, eOpened + 2}
  BY <1>1
<1>4. n = 1 => (eOpened + 1)..(eOpened + n) = {eOpened + 1}
  BY <1>1
<1>5. n = 1 \/ n = 2 OBVIOUS
<1> QED BY <1>1, <1>2, <1>3, <1>4, <1>5, EngineAssumption DEF Engine!Open


LEMMA EngineUntouched ==
  /\ UNCHANGED Engine!camera <=> eMic' = eMic /\ eCam' = eCam /\ eShows' = eShows
       /\ eWants' = eWants /\ ePaused' = ePaused
  /\ UNCHANGED Engine!tracks <=> eLive' = eLive /\ eOpened' = eOpened
  /\ UNCHANGED Engine!screen <=> eApp' = eApp /\ eHiding' = eHiding
  /\ UNCHANGED Engine!net <=> eUp' = eUp /\ eDrops' = eDrops
  /\ UNCHANGED Engine!talk <=> eTold' = eTold /\ eLost' = eLost
  BY DEF Engine!camera, Engine!tracks, Engine!screen, Engine!net, Engine!talk

LEMMA EngineFlagsNext ==
  ASSUME EngineFlags, [Engine!Next]_(Engine!vars)
  PROVE  EngineFlags'
<1> USE EngineUntouched
<1>a. ASSUME NEW on \in BOOLEAN, Engine!TellMedia(on) \/ UNCHANGED Engine!talk
      PROVE  eTold' \in BOOLEAN /\ eLost' \in BOOLEAN
  <2>1. CASE UNCHANGED Engine!talk BY <2>1, Zenon DEF EngineFlags
  <2>2. CASE Engine!TellMedia(on) BY <2>2, Zenon DEF Engine!TellMedia, EngineFlags
  <2> QED BY <1>a, <2>1, <2>2
<1>p. ASSUME NEW p \in BOOLEAN, Engine!Pause(p) \/ UNCHANGED <<Engine!camera, Engine!talk>>
      PROVE  /\ eShows' \in BOOLEAN /\ eWants' \in BOOLEAN /\ ePaused' \in BOOLEAN
             /\ eTold' \in BOOLEAN /\ eLost' \in BOOLEAN
  <2>1. CASE UNCHANGED <<Engine!camera, Engine!talk>> BY <2>1, Zenon DEF EngineFlags
  <2>2. CASE Engine!TellMedia(eWants /\ ~p) /\ ePaused' = p /\ eShows' = (eWants /\ ~p)
          /\ eWants' = eWants
    <3>1. (eWants /\ ~p) \in BOOLEAN OBVIOUS
    <3> QED BY <2>2, <3>1, <1>a, Zenon DEF EngineFlags
  <2> QED BY <1>p, <2>1, <2>2 DEF Engine!Pause
<1>1. ASSUME Engine!AskCall \/ Engine!AskAnswer \/ Engine!AskCamera \/ Engine!OnAccepted
        \/ Engine!Dismiss PROVE EngineFlags'
  <2>1. UNCHANGED <<eOutgoing, eAcceptSent, eShows, eWants, ePaused, eTimer, Engine!screen,
                    Engine!net, Engine!talk, eStray>>
    BY <1>1 DEF Engine!AskCall, Engine!AskAnswer, Engine!AskCamera, Engine!OnAccepted,
       Engine!Dismiss
  <2> QED BY <2>1, Zenon DEF EngineFlags
<1>2. ASSUME Engine!Disconnected \/ Engine!Leave \/ Engine!ClosePip \/ Engine!SocketChanges
      PROVE  EngineFlags'
  <2>1. CASE Engine!Disconnected BY <2>1, Zenon DEF Engine!Disconnected, EngineFlags
  <2>2. CASE Engine!Leave BY <2>2, Zenon DEF Engine!Leave, EngineFlags
  <2>3. CASE Engine!ClosePip BY <2>3, Zenon DEF Engine!ClosePip, EngineFlags
  <2>4. CASE Engine!SocketChanges BY <2>4, Zenon DEF Engine!SocketChanges, EngineFlags
  <2> QED BY <1>2, <2>1, <2>2, <2>3, <2>4
<1>3. ASSUME Engine!Finish, UNCHANGED eAcceptSent PROVE EngineFlags'
  BY <1>3, Zenon DEF Engine!Finish, Engine!FinishAs, EngineFlags
<1>4. ASSUME Engine!HangUp \/ Engine!OnEnded \/ Engine!GiveUp PROVE EngineFlags'
  BY <1>4, <1>3, Zenon DEF Engine!HangUp, Engine!OnEnded, Engine!GiveUp
<1>5. ASSUME NEW r \in eAsked, NEW video \in BOOLEAN, Engine!StartOutgoing(r, video)
      PROVE  EngineFlags'
  BY <1>5, Zenon DEF Engine!StartOutgoing, Engine!Fresh, Engine!Acquire, EngineFlags
<1>6. ASSUME Engine!OnIncoming PROVE EngineFlags'
  BY <1>6, Zenon DEF Engine!OnIncoming, Engine!Fresh, EngineFlags
<1>7. ASSUME NEW r \in eAsked, NEW video \in BOOLEAN, Engine!Accept(r, video) PROVE EngineFlags'
  BY <1>7, Zenon DEF Engine!Accept, Engine!Acquire, EngineFlags
<1>8. ASSUME NEW r \in eAsked, Engine!SendAccept(r) PROVE EngineFlags'
  <2>1. CASE Engine!AcceptUnchecked(r)
    BY <2>1, Zenon DEF Engine!AcceptUnchecked, EngineFlags
  <2>2. CASE Engine!Finish /\ UNCHANGED eAcceptSent
    BY <2>2, <1>3
  <2>3. CASE UNCHANGED <<eOutgoing, eAcceptSent, Engine!camera, eTimer, Engine!screen,
                         Engine!net, Engine!talk, eStray>>
    BY <2>3, Zenon DEF EngineFlags
  <2> QED BY <1>8, <2>1, <2>2, <2>3 DEF Engine!SendAccept
<1>9. ASSUME NEW r \in eAsked, Engine!StartPeer(r) PROVE EngineFlags'
  BY <1>9, Zenon DEF Engine!StartPeer, EngineFlags
<1>10. ASSUME NEW r \in eAsked, Engine!SendDecline(r) \/ Engine!Discard(r) PROVE EngineFlags'
  BY <1>10, Zenon DEF Engine!SendDecline, Engine!Discard, EngineFlags
<1>11. ASSUME NEW r \in eAsked, Engine!CameraComes(r) PROVE EngineFlags'
  <2>1. (~ePaused) \in BOOLEAN OBVIOUS
  <2>2. eTold' \in BOOLEAN /\ eLost' \in BOOLEAN
    BY <1>11, <1>a, <2>1 DEF Engine!CameraComes
  <2> QED BY <1>11, <2>2, Zenon DEF Engine!CameraComes, EngineFlags
<1>12. ASSUME Engine!Connected PROVE EngineFlags'
  <2>1. (eWants /\ ~ePaused) \in BOOLEAN OBVIOUS
  <2>2. eTold' \in BOOLEAN /\ eLost' \in BOOLEAN
    BY <1>12, <1>a, <2>1 DEF Engine!Connected
  <2> QED BY <1>12, <2>2, Zenon DEF Engine!Connected, EngineFlags
<1>13. ASSUME Engine!ToggleVideo PROVE EngineFlags'
  <2>1. (eWants' /\ ~ePaused) \in BOOLEAN OBVIOUS
  <2>2. eTold' \in BOOLEAN /\ eLost' \in BOOLEAN
    BY <1>13, <1>a, <2>1 DEF Engine!ToggleVideo
  <2> QED BY <1>13, <2>2, Zenon DEF Engine!ToggleVideo, EngineFlags
<1>14. ASSUME Engine!Hidden \/ Engine!Return PROVE EngineFlags'
  <2>1. Engine!Pause(TRUE) \/ Engine!Pause(FALSE) \/ UNCHANGED <<Engine!camera, Engine!talk>>
    BY <1>14 DEF Engine!Hidden, Engine!Return
  <2>2. /\ eShows' \in BOOLEAN /\ eWants' \in BOOLEAN /\ ePaused' \in BOOLEAN
        /\ eTold' \in BOOLEAN /\ eLost' \in BOOLEAN
    BY <2>1, <1>p
  <2> QED BY <1>14, <2>2, Zenon DEF Engine!Hidden, Engine!Return, EngineFlags
<1>15. CASE UNCHANGED Engine!vars
  <2>1. UNCHANGED <<eOutgoing, eAcceptSent, eShows, eWants, ePaused, eTimer, eHiding, eUp, eTold,
                    eLost, eStray>>
    BY <1>15 DEF Engine!vars
  <2> QED BY <2>1, Zenon DEF EngineFlags
<1> QED
  BY <1>1, <1>2, <1>4, <1>5, <1>6, <1>7, <1>8, <1>9, <1>10, <1>11, <1>12, <1>13, <1>14, <1>15,
     Zenon DEF Engine!Next

LEMMA EngineValuesNext ==
  ASSUME EngineValues, Late, Going, [Engine!Next]_(Engine!vars)
  PROVE  EngineValues'
<1> USE EngineUntouched
<1>b. ASSUME NEW w \in Engine!Words, NEW c \in Engine!CallIds, Engine!Say(w, c)
        \/ UNCHANGED eSaid
      PROVE  eSaid' \in [Engine!CallIds -> SUBSET Engine!Words]
  BY <1>b DEF Engine!Say, EngineValues
<1>c. ASSUME NEW w, NEW c \in 0..EngineCalls, Engine!Ask(w, c),
             w \in {"call", "answer", "wait", "ice", "camera", "decline"}
      PROVE  eAsked' \subseteq EngineRequests
  BY <1>c DEF Engine!Ask, EngineValues, EngineRequests
<1>1. ASSUME Engine!AskCall \/ Engine!AskAnswer \/ Engine!AskCamera \/ Engine!OnAccepted
      PROVE  EngineValues'
  <2>1. eAsked' \subseteq EngineRequests
    BY <1>1, <1>c, EngineAssumption DEF Engine!AskCall, Engine!AskAnswer, Engine!AskCamera,
       Engine!OnAccepted, EngineValues
  <2> QED BY <1>1, <2>1 DEF Engine!AskCall, Engine!AskAnswer, Engine!AskCamera,
     Engine!OnAccepted, EngineValues
<1>2. ASSUME Engine!Disconnected \/ Engine!Dismiss \/ Engine!Leave \/ Engine!ClosePip
      PROVE  EngineValues'
  BY <1>2, EngineAssumption DEF Engine!Disconnected, Engine!Dismiss, Engine!Leave,
     Engine!ClosePip, EngineValues
<1>3. ASSUME Engine!SocketChanges PROVE EngineValues'
  <2>1. eDrops' \in 0..EngineDrops
    BY <1>3, EngineAssumption DEF Engine!SocketChanges, EngineValues
  <2> QED BY <1>3, <2>1 DEF Engine!SocketChanges, EngineValues
<1>4. ASSUME Engine!Finish, eAsked' \subseteq EngineRequests,
             eSaid' \in [Engine!CallIds -> SUBSET Engine!Words] PROVE EngineValues'
  BY <1>4 DEF Engine!Finish, Engine!FinishAs, EngineValues
<1>5. ASSUME Engine!HangUp \/ Engine!OnEnded \/ Engine!GiveUp PROVE EngineValues'
  <2>1. Engine!Busy
    BY <1>5 DEF Engine!HangUp, Engine!OnEnded, Engine!GiveUp, Engine!Busy
  <2>2. eCall \in Engine!CallIds
    BY <2>1, EngineAssumption DEF Going, Engine!CallIds, EngineValues
  <2>3. Engine!Word \in Engine!Words /\ "end" \in Engine!Words
    BY DEF Engine!Word, Engine!Words
  <2>4. eSaid' \in [Engine!CallIds -> SUBSET Engine!Words]
    BY <1>5, <2>2, <2>3, <1>b DEF Engine!HangUp, Engine!OnEnded, Engine!GiveUp
  <2>5. eAsked' \subseteq EngineRequests
    BY <1>5, <1>c DEF Engine!HangUp, Engine!OnEnded, Engine!GiveUp, EngineValues
  <2>6. Engine!Finish
    BY <1>5 DEF Engine!HangUp, Engine!OnEnded, Engine!GiveUp
  <2> QED BY <2>6, <1>4, <2>4, <2>5
<1>6. ASSUME NEW video \in BOOLEAN, Engine!Acquire(video)
      PROVE  /\ eLive' \subseteq Engine!Tracks /\ eOpened' \in 0..EngineTracks
             /\ eMic' \in 0..EngineTracks /\ eCam' \in 0..EngineTracks
  <2>1. 0 \in 0..EngineTracks /\ Engine!Tracks \subseteq 0..EngineTracks
    BY EngineAssumption DEF Engine!Tracks
  <2>2. eLive \in SUBSET Engine!Tracks
    BY DEF EngineValues
  <2>3. CASE video
    BY <1>6, <2>1, <2>2, <2>3, EngineOpens DEF Engine!Acquire
  <2>4. CASE ~video
    BY <1>6, <2>1, <2>2, <2>4, EngineOpens DEF Engine!Acquire
  <2> QED BY <2>3, <2>4
<1>7. ASSUME NEW r \in eAsked, NEW video \in BOOLEAN, Engine!StartOutgoing(r, video)
      PROVE  EngineValues'
  <2>1. eCall' \in 0..EngineCalls /\ ePhase' = "outgoing" /\ ePc' = Engine!NoConnection
    BY <1>7, EngineAssumption DEF Engine!StartOutgoing, Engine!Fresh, EngineValues
  <2> QED BY <1>7, <1>6, <2>1 DEF Engine!StartOutgoing, EngineValues
<1>8. ASSUME Engine!OnIncoming PROVE EngineValues'
  <2>1. eCall' \in 0..EngineCalls /\ ePhase' = "incoming" /\ ePc' = Engine!NoConnection
          /\ 0 \in 0..EngineTracks
    BY <1>8, EngineAssumption DEF Engine!OnIncoming, Engine!Fresh, EngineValues
  <2> QED BY <1>8, <2>1 DEF Engine!OnIncoming, EngineValues
<1>9. ASSUME NEW r \in eAsked, NEW video \in BOOLEAN, Engine!Accept(r, video)
      PROVE  EngineValues'
  <2>1. eAsked' \subseteq EngineRequests
    BY <1>9 DEF Engine!Accept, EngineValues, EngineRequests
  <2> QED BY <1>9, <1>6, <2>1 DEF Engine!Accept, EngineValues
<1>10. ASSUME NEW r \in eAsked, Engine!SendAccept(r) PROVE EngineValues'
  <2>0. r \in EngineRequests /\ eAsked \ {r} \subseteq EngineRequests
    BY DEF EngineValues
  <2>1. CASE Engine!Current(r.call) /\ Engine!AcceptUnchecked(r)
    <3>1. r.call \in Engine!CallIds /\ "accept" \in Engine!Words
      BY <2>0, <2>1, EngineAssumption DEF Engine!Current, Going, Engine!CallIds, Engine!Words,
         EngineRequests
    <3>2. eSaid' \in [Engine!CallIds -> SUBSET Engine!Words]
      BY <2>1, <3>1, <1>b DEF Engine!AcceptUnchecked
    <3>3. eAsked' \subseteq EngineRequests
      BY <2>0, <2>1 DEF Engine!AcceptUnchecked, EngineRequests
    <3> QED BY <2>1, <3>2, <3>3 DEF Engine!AcceptUnchecked, EngineValues
  <2>2. CASE eAsked' = eAsked \ {r} /\ Engine!Finish /\ UNCHANGED eSaid
    BY <2>0, <2>2, <1>4 DEF EngineValues
  <2>3. CASE eAsked' = eAsked \ {r}
          /\ UNCHANGED <<eCall, ePhase, Engine!camera, ePc, Engine!tracks, Engine!screen,
                         Engine!net, eSaid>>
    BY <2>0, <2>3 DEF EngineValues
  <2> QED BY <1>10, <2>1, <2>2, <2>3 DEF Engine!SendAccept
<1>11. ASSUME NEW r \in eAsked, Engine!StartPeer(r) PROVE EngineValues'
  <2>1. ePc' = Engine!NoConnection \/ ePc' \subseteq Engine!Tracks
    BY <1>11, EngineAssumption DEF Engine!StartPeer, EngineValues, Engine!Tracks
  <2> QED BY <1>11, <2>1 DEF Engine!StartPeer, EngineValues
<1>12. ASSUME NEW r \in eAsked, Engine!Discard(r) PROVE EngineValues'
  BY <1>12 DEF Engine!Discard, EngineValues
<1>13. ASSUME NEW r \in eAsked, Engine!SendDecline(r) PROVE EngineValues'
  <2>1. r.call \in Engine!CallIds /\ "decline" \in Engine!Words
    BY <1>13, EngineAssumption DEF Engine!SendDecline, Late, Engine!CallIds, Engine!Words,
       EngineValues, EngineRequests
  <2>2. eSaid' \in [Engine!CallIds -> SUBSET Engine!Words]
    BY <1>13, <2>1, <1>b DEF Engine!SendDecline
  <2> QED BY <1>13, <2>2 DEF Engine!SendDecline, EngineValues
<1>14. ASSUME NEW r \in eAsked, Engine!CameraComes(r) PROVE EngineValues'
  <2>1. /\ eLive' \subseteq Engine!Tracks /\ eOpened' \in 0..EngineTracks
             /\ eOpened + 1 \in Engine!Tracks
    BY <1>14, EngineOpens DEF Engine!CameraComes, EngineValues
  <2>2. Engine!Tracks \subseteq 0..EngineTracks
    BY EngineAssumption DEF Engine!Tracks
  <2>3. eCam' \in 0..EngineTracks
          /\ (ePc' = Engine!NoConnection \/ ePc' \subseteq Engine!Tracks)
    BY <1>14, <2>1, <2>2 DEF Engine!CameraComes, EngineValues
  <2> QED BY <1>14, <2>1, <2>3 DEF Engine!CameraComes, EngineValues
<1>15. ASSUME Engine!Connected \/ Engine!ToggleVideo PROVE EngineValues'
  BY <1>15 DEF Engine!Connected, Engine!ToggleVideo, EngineValues
<1>16. ASSUME Engine!Hidden \/ Engine!Return PROVE EngineValues'
  <2>1. eMic' = eMic /\ eCam' = eCam
    BY <1>16 DEF Engine!Hidden, Engine!Return, Engine!Pause
  <2> QED BY <1>16, <2>1 DEF Engine!Hidden, Engine!Return, EngineValues
<1>17. CASE UNCHANGED Engine!vars
  BY <1>17 DEF Engine!vars, EngineValues
<1> QED
  BY <1>1, <1>2, <1>3, <1>5, <1>7, <1>8, <1>9, <1>10, <1>11, <1>12, <1>13, <1>14, <1>15, <1>16,
     <1>17,
     Zenon DEF Engine!Next

LEMMA LateNext ==
  ASSUME EngineValues, Late, Spoken, Going, [Engine!Next]_(Engine!vars)
  PROVE  Late'
<1> DEFINE Fits(r) ==
      /\ r.call <= eCall
      /\ r.what \in {"wait", "ice", "camera"} /\ r.call = eCall => ~Ringing
      /\ r.what = "decline" =>
           /\ r.call # 0 /\ (r.call = eCall => ~Engine!Busy) /\ "accept" \notin eSaid[r.call]
<1>l. ASSUME \A r \in eAsked' : Fits(r)' PROVE Late'
  BY <1>l DEF Late
<1>a. ASSUME NEW r \in eAsked, eCall' = eCall, eSaid' = eSaid, Ringing' => Ringing, Engine!Busy'
        => Engine!Busy
      PROVE  Fits(r)'
  BY <1>a DEF Late
<1>n. ASSUME NEW r \in eAsked, eCall' = eCall + 1, eSaid' = eSaid
      PROVE  Fits(r)'
  <2>1. r.call <= eCall /\ r.call \in Nat /\ eCall \in Nat
    BY EngineAssumption DEF Late, EngineValues, EngineRequests
  <2> QED BY <1>n, <2>1 DEF Late
<1> HIDE DEF Fits
<1> USE DEF Engine!Busy, Ringing
<1>1. ASSUME Engine!OnIncoming PROVE Late'
  BY <1>1, <1>n, <1>l DEF Engine!OnIncoming, Engine!Fresh
<1>2. ASSUME NEW r \in eAsked, NEW video \in BOOLEAN, Engine!StartOutgoing(r, video) PROVE Late'
  BY <1>2, <1>n, <1>l DEF Engine!StartOutgoing, Engine!Fresh
<1>3. ASSUME UNCHANGED <<eCall, ePhase, eSaid>>, eAsked' \subseteq eAsked PROVE Late'
  BY <1>3, <1>a, <1>l
<1>4. ASSUME Engine!AskCall PROVE Late'
  <2>1. Fits([what |-> "call", call |-> 0])'
    BY <1>4, EngineAssumption DEF Fits, Engine!AskCall, EngineValues
  <2> QED BY <1>4, <2>1, <1>a, <1>l DEF Engine!AskCall, Engine!Ask
<1>5. ASSUME Engine!AskAnswer PROVE Late'
  <2>1. Fits([what |-> "answer", call |-> eCall])'
    BY <1>5, EngineAssumption DEF Fits, Engine!AskAnswer, EngineValues
  <2> QED BY <1>5, <2>1, <1>a, <1>l DEF Engine!AskAnswer, Engine!Ask
<1>6. ASSUME Engine!AskCamera PROVE Late'
  <2>1. ePhase \notin {"incoming", "outgoing"}
    BY <1>6 DEF Engine!AskCamera, Engine!AtControls, Engine!ShownScreen
  <2>2. Fits([what |-> "camera", call |-> eCall])'
    BY <1>6, <2>1, EngineAssumption DEF Fits, Engine!AskCamera, EngineValues
  <2> QED BY <1>6, <2>2, <1>a, <1>l DEF Engine!AskCamera, Engine!Ask
<1>7. ASSUME Engine!OnAccepted PROVE Late'
  <2>1. Fits([what |-> "ice", call |-> eCall])'
    BY <1>7, EngineAssumption DEF Fits, Engine!OnAccepted, EngineValues
  <2> QED BY <1>7, <2>1, <1>a, <1>l DEF Engine!OnAccepted, Engine!Ask
<1>8. ASSUME NEW r \in eAsked, NEW video \in BOOLEAN, Engine!Accept(r, video) PROVE Late'
  <2>1. Fits([what |-> "wait", call |-> eCall])'
    BY <1>8, EngineAssumption DEF Fits, Engine!Accept, EngineValues
  <2> QED BY <1>8, <2>1, <1>a, <1>l DEF Engine!Accept
<1>9. ASSUME Engine!Finish, UNCHANGED eSaid, eAsked' \subseteq eAsked PROVE Late'
  BY <1>9, <1>a, <1>l DEF Engine!Finish, Engine!FinishAs
<1>s. ASSUME NEW w \in Engine!Words \ {"accept"}, NEW c \in Engine!CallIds, Engine!Say(w, c),
             eCall' = eCall,
             Ringing' => Ringing, Engine!Busy' => Engine!Busy, NEW r \in eAsked
      PROVE  Fits(r)'
  <2>1. r.what = "decline" => r.call \in Engine!CallIds
    BY EngineAssumption DEF Late, EngineValues, EngineRequests, Engine!CallIds
  <2>2. r.what = "decline" => ("accept" \in eSaid'[r.call] => "accept" \in eSaid[r.call])
    BY <1>s, <2>1 DEF Engine!Say, EngineValues
  <2> QED BY <1>s, <2>2 DEF Late, Fits
<1>10. ASSUME Engine!HangUp \/ Engine!GiveUp PROVE Late'
  <2>1. Engine!Busy /\ eCall \in Engine!CallIds
    BY <1>10, EngineAssumption DEF Engine!HangUp, Engine!GiveUp, Going, Engine!CallIds,
       EngineValues
  <2>2. Engine!Finish
    BY <1>10 DEF Engine!HangUp, Engine!GiveUp
  <2>3. eCall' = eCall /\ ePhase' = "ended"
    BY <2>2 DEF Engine!Finish, Engine!FinishAs
  <2>4. PICK w \in Engine!Words \ {"accept"} : Engine!Say(w, eCall)
    BY <1>10 DEF Engine!HangUp, Engine!GiveUp, Engine!Word, Engine!Words
  <2>5. \A r \in eAsked : Fits(r)'
    BY <2>1, <2>3, <2>4, <1>s
  <2>6. CASE eAsked' = eAsked
    BY <2>5, <2>6, <1>l
  <2>7. CASE Engine!HangUp /\ Engine!Word = "decline" /\ ~eUp /\ Engine!Ask("decline", eCall)
    <3>1. "accept" \notin eSaid[eCall] /\ eSaid' = eSaid
      BY <2>1, <2>7 DEF Engine!HangUp, Engine!Say, Spoken, Engine!Word, Engine!InCall
    <3>2. Fits([what |-> "decline", call |-> eCall])'
      BY <3>1, <2>1, <2>3, EngineAssumption DEF Fits, EngineValues, Engine!CallIds
    <3> QED BY <2>3, <2>5, <2>7, <3>2, <1>l DEF Engine!Ask
  <2> QED BY <1>10, <2>6, <2>7 DEF Engine!HangUp, Engine!GiveUp
<1>11. ASSUME NEW r \in eAsked, Engine!SendAccept(r) PROVE Late'
  <2>1. CASE UNCHANGED <<eCall, ePhase, eSaid>> /\ eAsked' \subseteq eAsked
    BY <2>1, <1>3
  <2>2. CASE Engine!Finish /\ UNCHANGED eSaid /\ eAsked' \subseteq eAsked
    BY <2>2, <1>9
  <2>3. CASE r.what = "wait" /\ Engine!Current(r.call) /\ Engine!AcceptUnchecked(r)
    <3>1. r.call = eCall /\ Engine!Busy /\ eCall \in Engine!CallIds
      BY <2>3, EngineAssumption DEF Engine!Current, Going, Engine!CallIds, EngineValues
    <3>2. \A q \in eAsked : q.what = "decline" => q.call # eCall
      BY <3>1 DEF Late
    <3>3. \A q \in eAsked : q.what = "decline" => eSaid'[q.call] = eSaid[q.call]
      BY <2>3, <3>1, <3>2 DEF Engine!AcceptUnchecked, Engine!Say, EngineValues
    <3>4. \A q \in eAsked : Fits(q)'
      BY <2>3, <3>3 DEF Fits, Late, Engine!AcceptUnchecked
    <3>5. Fits([what |-> "ice", call |-> eCall])'
      BY <2>3, <3>1 DEF Fits, Late, Engine!AcceptUnchecked
    <3> QED BY <2>3, <3>1, <3>4, <3>5, <1>l DEF Engine!AcceptUnchecked
  <2> QED BY <1>11, <2>1, <2>2, <2>3 DEF Engine!SendAccept
<1>12. ASSUME NEW r \in eAsked, Engine!SendDecline(r) PROVE Late'
  <2>1. r.call \in Engine!CallIds
    BY <1>12, EngineAssumption DEF Engine!SendDecline, Late, Engine!CallIds, EngineValues,
       EngineRequests
  <2>2. \A q \in eAsked : Fits(q)'
    BY <1>12, <1>s, <2>1 DEF Engine!SendDecline, Engine!Words
  <2> QED BY <1>12, <2>2, <1>l DEF Engine!SendDecline
<1>13. ASSUME Engine!Connected \/ Engine!Disconnected \/ Engine!Dismiss PROVE Late'
  BY <1>13, <1>a, <1>l DEF Engine!Connected, Engine!Disconnected, Engine!Dismiss, Engine!InCall
<1>14. ASSUME Engine!OnEnded PROVE Late'
  BY <1>14, <1>9 DEF Engine!OnEnded
<1>15. ASSUME NEW r \in eAsked, Engine!StartPeer(r) \/ Engine!CameraComes(r)
         \/ Engine!Discard(r) PROVE Late'
  BY <1>15, <1>3 DEF Engine!StartPeer, Engine!CameraComes, Engine!Discard
<1>16. ASSUME Engine!ToggleVideo \/ Engine!Leave \/ Engine!ClosePip \/ Engine!Hidden
         \/ Engine!Return \/ Engine!SocketChanges \/ UNCHANGED Engine!vars PROVE Late'
  BY <1>16, <1>3 DEF Engine!ToggleVideo, Engine!Leave, Engine!ClosePip, Engine!Hidden,
     Engine!Return, Engine!SocketChanges, Engine!vars
<1> QED
  BY <1>1, <1>2, <1>4, <1>5, <1>6, <1>7, <1>8, <1>10, <1>11, <1>12, <1>13, <1>14, <1>15, <1>16,
     Zenon DEF Engine!Next

LEMMA SpokenNext ==
  ASSUME EngineValues, Late, Spoken, Going, [Engine!Next]_(Engine!vars)
  PROVE  Spoken'
<1> DEFINE Agrees(c) ==
      /\ c > eCall => eSaid[c] = {}
      /\ "accept" \in eSaid[c] /\ c = eCall /\ Engine!Busy => eAcceptSent /\ Engine!InCall
      /\ "decline" \in eSaid[c] /\ c = eCall => ~Engine!Busy
      /\ ~({"accept", "decline"} \subseteq eSaid[c])
<1>l. ASSUME \A c \in Engine!CallIds : Agrees(c)' PROVE Spoken'
  BY <1>l DEF Spoken
<1>s. \A c \in Engine!CallIds : Agrees(c)
  BY DEF Spoken
<1>t. Engine!CallIds \subseteq Nat /\ eCall \in Nat
  BY EngineAssumption DEF Engine!CallIds, EngineValues
<1> USE DEF Engine!Busy, Engine!InCall
<1>a. ASSUME eCall' = eCall, eSaid' = eSaid, eAcceptSent' = eAcceptSent, Engine!Busy'
        => Engine!Busy, Engine!Busy' /\ Engine!InCall => Engine!InCall' PROVE Spoken'
  BY <1>a, <1>s, <1>l
<1>1. ASSUME eCall' = eCall + 1, eSaid' = eSaid PROVE Spoken'
  <2>1. ASSUME NEW c \in Engine!CallIds, c > eCall PROVE eSaid[c] = {}
    BY <2>1, <1>s
  <2>2. ASSUME NEW c \in Engine!CallIds PROVE Agrees(c)'
    <3>1. CASE c > eCall BY <1>1, <2>1, <3>1, <1>t
    <3>2. CASE ~(c > eCall) BY <1>1, <2>2, <3>2, <1>s, <1>t
    <3> QED BY <3>1, <3>2
  <2> QED BY <2>2, <1>l
<1>2. ASSUME Engine!OnIncoming PROVE Spoken'
  BY <1>1, <1>2 DEF Engine!OnIncoming, Engine!Fresh
<1>3. ASSUME NEW r \in eAsked, NEW video \in BOOLEAN, Engine!StartOutgoing(r, video)
      PROVE  Spoken'
  BY <1>1, <1>3 DEF Engine!StartOutgoing, Engine!Fresh
<1>4. ASSUME NEW r \in eAsked, NEW video \in BOOLEAN, Engine!Accept(r, video) PROVE Spoken'
  <2>1. \A c \in Engine!CallIds : c = eCall => "accept" \notin eSaid[c]
    BY <1>4, <1>s DEF Engine!Accept
  <2> QED BY <1>4, <2>1, <1>s, <1>l DEF Engine!Accept
<1>5. ASSUME Engine!Finish, UNCHANGED eSaid PROVE Spoken'
  BY <1>5, <1>s, <1>l DEF Engine!Finish, Engine!FinishAs
<1>6. ASSUME Engine!HangUp \/ Engine!GiveUp PROVE Spoken'
  <2>1. Engine!Busy /\ eCall \in Engine!CallIds
    BY <1>6, EngineAssumption DEF Engine!HangUp, Engine!GiveUp, Going, Engine!CallIds,
       EngineValues
  <2>2. eCall' = eCall /\ ePhase' = "ended"
    BY <1>6 DEF Engine!HangUp, Engine!GiveUp, Engine!Finish, Engine!FinishAs
  <2>3. \A c \in Engine!CallIds : c # eCall => eSaid'[c] = eSaid[c]
    BY <1>6, <2>1 DEF Engine!HangUp, Engine!GiveUp, Engine!Say, EngineValues
  <2>4. CASE Engine!GiveUp
    <3>1. eSaid'[eCall] \subseteq eSaid[eCall] \cup {"end"}
      BY <2>1, <2>4 DEF Engine!GiveUp, Engine!Say, EngineValues
    <3> QED BY <2>1, <2>2, <2>3, <3>1, <1>s, <1>t, <1>l
  <2>5. CASE Engine!HangUp
    <3>1. eSaid'[eCall] \subseteq eSaid[eCall] \cup {Engine!Word}
      BY <2>1, <2>5 DEF Engine!HangUp, Engine!Say, EngineValues
    <3>2. Engine!Word = "decline" => "accept" \notin eSaid[eCall]
      BY <2>1, <1>s DEF Engine!Word
    <3>3. Engine!Word # "accept"
      BY DEF Engine!Word
    <3> QED BY <2>1, <2>2, <2>3, <3>1, <3>2, <3>3, <1>s, <1>t, <1>l
  <2> QED BY <1>6, <2>4, <2>5
<1>7. ASSUME NEW r \in eAsked, Engine!SendAccept(r) PROVE Spoken'
  <2>1. CASE UNCHANGED <<eCall, ePhase, eAcceptSent, eSaid>>
    BY <2>1, <1>a
  <2>2. CASE Engine!Finish /\ UNCHANGED eSaid
    BY <2>2, <1>5
  <2>3. CASE r.what = "wait" /\ Engine!Current(r.call) /\ Engine!AcceptUnchecked(r)
    <3>1. r.call = eCall /\ Engine!Busy /\ eCall \in Engine!CallIds
      BY <2>3, EngineAssumption DEF Engine!Current, Going, Engine!CallIds, EngineValues
    <3>2. Engine!InCall
      BY <2>3, <3>1 DEF Late, Ringing, EngineValues
    <3>3. eSaid'[eCall] = eSaid[eCall] \cup {"accept"} /\ \A c \in Engine!CallIds : c # eCall
            => eSaid'[c] = eSaid[c]
      BY <2>3, <3>1 DEF Engine!AcceptUnchecked, Engine!Say, EngineValues
    <3> QED BY <2>3, <3>1, <3>2, <3>3, <1>s, <1>t, <1>l DEF Engine!AcceptUnchecked
  <2> QED BY <1>7, <2>1, <2>2, <2>3 DEF Engine!SendAccept
<1>8. ASSUME NEW r \in eAsked, Engine!SendDecline(r) PROVE Spoken'
  <2>1. r.call \in Engine!CallIds /\ r.call <= eCall /\ (r.call = eCall => ~Engine!Busy)
          /\ "accept" \notin eSaid[r.call]
    BY <1>8, EngineAssumption DEF Engine!SendDecline, Late, Engine!CallIds, EngineValues,
       EngineRequests
  <2>2. eSaid'[r.call] = eSaid[r.call] \cup {"decline"} /\ \A c \in Engine!CallIds : c # r.call
          => eSaid'[c] = eSaid[c]
    BY <1>8, <2>1 DEF Engine!SendDecline, Engine!Say, EngineValues
  <2>3. UNCHANGED <<eCall, ePhase, eAcceptSent>>
    BY <1>8 DEF Engine!SendDecline
  <2>4. ASSUME NEW c \in Engine!CallIds, c # r.call PROVE Agrees(c)'
    BY <2>2, <2>3, <2>4, <1>s
  <2>5. Agrees(r.call)'
    <3>0. r.call \in Nat BY <2>1, <1>t
    <3>1. ~(r.call > eCall) BY <2>1, <3>0, <1>t
    <3> QED BY <2>1, <2>2, <2>3, <3>1, <1>s, <1>t
  <2> QED BY <2>4, <2>5, <1>l
<1>9. ASSUME Engine!AskCall \/ Engine!AskAnswer \/ Engine!AskCamera \/ Engine!OnAccepted
        \/ Engine!Connected \/ Engine!Disconnected \/ Engine!Dismiss PROVE Spoken'
  BY <1>9, <1>a DEF Engine!AskCall, Engine!AskAnswer, Engine!AskCamera, Engine!OnAccepted,
     Engine!Connected, Engine!Disconnected, Engine!Dismiss
<1>10. ASSUME NEW r \in eAsked, Engine!StartPeer(r) \/ Engine!CameraComes(r)
         \/ Engine!Discard(r) PROVE Spoken'
  BY <1>10, <1>a DEF Engine!StartPeer, Engine!CameraComes, Engine!Discard
<1>11. ASSUME Engine!ToggleVideo \/ Engine!Leave \/ Engine!ClosePip \/ Engine!Hidden
         \/ Engine!Return \/ Engine!SocketChanges \/ UNCHANGED Engine!vars PROVE Spoken'
  BY <1>11, <1>a DEF Engine!ToggleVideo, Engine!Leave, Engine!ClosePip, Engine!Hidden,
     Engine!Return, Engine!SocketChanges, Engine!vars
<1>12. ASSUME Engine!OnEnded PROVE Spoken'
  BY <1>12, <1>5 DEF Engine!OnEnded
<1> QED
  BY <1>2, <1>3, <1>4, <1>6, <1>7, <1>8, <1>9, <1>10, <1>11, <1>12, Zenon DEF Engine!Next

LEMMA GoingNext ==
  ASSUME EngineValues, Going, [Engine!Next]_(Engine!vars)
  PROVE  Going'
<1> USE EngineUntouched DEF Going, Engine!Busy, Engine!InCall
<1>1. ASSUME eCall' = eCall \/ eCall' = eCall + 1, Engine!Busy' => Engine!Busy
        \/ eCall' = eCall + 1,
             Engine!Busy' /\ ePhase' # "incoming" => eMic' # 0, eHiding' => eApp' # "active"
      PROVE  Going'
  BY <1>1, EngineAssumption DEF EngineValues
<1>2. ASSUME Engine!OnIncoming PROVE Going'
  BY <1>1, <1>2 DEF Engine!OnIncoming, Engine!Fresh
<1>3. ASSUME NEW r \in eAsked, NEW video \in BOOLEAN, Engine!StartOutgoing(r, video)
      PROVE  Going'
  BY <1>1, <1>3, EngineAssumption DEF Engine!StartOutgoing, Engine!Fresh, Engine!Acquire,
     EngineValues
<1>4. ASSUME NEW r \in eAsked, NEW video \in BOOLEAN, Engine!Accept(r, video) PROVE Going'
  BY <1>1, <1>4, EngineAssumption DEF Engine!Accept, Engine!Acquire, EngineValues
<1>5. ASSUME Engine!Finish PROVE Going'
  BY <1>1, <1>5 DEF Engine!Finish, Engine!FinishAs
<1>6. ASSUME Engine!HangUp \/ Engine!GiveUp \/ Engine!OnEnded PROVE Going'
  BY <1>5, <1>6 DEF Engine!HangUp, Engine!GiveUp, Engine!OnEnded
<1>7. ASSUME NEW r \in eAsked, Engine!SendAccept(r) PROVE Going'
  BY <1>1, <1>5, <1>7 DEF Engine!SendAccept, Engine!AcceptUnchecked
<1>8. ASSUME NEW r \in eAsked, Engine!SendDecline(r) \/ Engine!StartPeer(r)
        \/ Engine!CameraComes(r) \/ Engine!Discard(r) PROVE Going'
  BY <1>1, <1>8 DEF Engine!SendDecline, Engine!StartPeer, Engine!CameraComes, Engine!Discard
<1>9. ASSUME Engine!AskCall \/ Engine!AskAnswer \/ Engine!AskCamera \/ Engine!OnAccepted
        \/ Engine!Connected \/ Engine!Disconnected \/ Engine!Dismiss PROVE Going'
  BY <1>1, <1>9 DEF Engine!AskCall, Engine!AskAnswer, Engine!AskCamera, Engine!OnAccepted,
     Engine!Connected, Engine!Disconnected, Engine!Dismiss
<1>10. ASSUME Engine!Leave \/ Engine!ClosePip \/ Engine!SocketChanges \/ Engine!ToggleVideo
       PROVE  Going'
  BY <1>1, <1>10 DEF Engine!Leave, Engine!ClosePip, Engine!SocketChanges, Engine!ToggleVideo
<1>11. ASSUME Engine!Hidden \/ Engine!Return PROVE Going'
  BY <1>1, <1>11 DEF Engine!Hidden, Engine!Return, Engine!Pause
<1>12. ASSUME UNCHANGED Engine!vars PROVE Going'
  BY <1>1, <1>12 DEF Engine!vars
<1> QED
  BY <1>2, <1>3, <1>4, <1>6, <1>7, <1>8, <1>9, <1>10, <1>11, <1>12, Zenon DEF Engine!Next

LEMMA KeptNext ==
  ASSUME EngineValues, EngineFlags, Late, Going, ~eStray => Kept, [Engine!Next]_(Engine!vars),
         ~eStray'
  PROVE  Kept'
<1> USE EngineUntouched DEF Engine!Busy, Engine!InCall, Ringing
<1>s. ~eStray
  BY DEF Engine!Next, Engine!AskCall, Engine!OnIncoming, Engine!AskAnswer, Engine!OnAccepted,
     Engine!HangUp, Engine!OnEnded, Engine!Dismiss, Engine!StartOutgoing, Engine!Accept,
     Engine!SendAccept, Engine!AcceptUnchecked, Engine!Finish, Engine!FinishAs, Engine!StartPeer,
       Engine!SendDecline, Engine!CameraComes, Engine!Discard, Engine!Connected,
         Engine!Disconnected, Engine!GiveUp,
     Engine!ToggleVideo, Engine!AskCamera, Engine!Leave, Engine!ClosePip, Engine!Hidden,
       Engine!Return, Engine!SocketChanges, Engine!vars
<1>k. Kept BY <1>s
<1>0. 0 \notin Engine!Tracks /\ Engine!NoConnection \cap Engine!Tracks = {}
  BY DEF Engine!Tracks, Engine!NoConnection
<1>1. ASSUME Engine!OnIncoming PROVE Kept'
  BY <1>1, <1>k DEF Engine!OnIncoming, Engine!Fresh, Kept
<1>2. ASSUME NEW r \in eAsked, NEW video \in BOOLEAN, Engine!StartOutgoing(r, video) PROVE Kept'
  <2>1. eLive = {} BY <1>2, <1>k DEF Engine!StartOutgoing, Kept
  <2>2. eLive' \subseteq {eMic', eCam'} /\ (eCam' = 0 <=> ~video)
    BY <1>2, <2>1, EngineOpens, EngineAssumption DEF Engine!StartOutgoing, Engine!Acquire,
       EngineValues
  <2>3. ePhase' = "outgoing" /\ ePc' = Engine!NoConnection /\ ~ePaused'
    BY <1>2, Zenon DEF Engine!StartOutgoing, Engine!Fresh
  <2>4. (eShows' <=> video) /\ (eWants' <=> video)
    BY <1>2 DEF Engine!StartOutgoing, Engine!Acquire
  <2>5. eShows' = (eWants' /\ ~ePaused')
    <3>1. CASE video BY <1>2, <2>3, <3>1, Zenon DEF Engine!StartOutgoing, Engine!Acquire
    <3>2. CASE ~video BY <1>2, <2>3, <3>2, Zenon DEF Engine!StartOutgoing, Engine!Acquire
    <3> QED BY <3>1, <3>2
  <2> QED BY <2>2, <2>3, <2>4, <2>5 DEF Kept
<1>3. ASSUME NEW r \in eAsked, NEW video \in BOOLEAN, Engine!Accept(r, video) PROVE Kept'
  <2>1. eLive = {} /\ ~ePaused /\ ePc = Engine!NoConnection
    BY <1>3, <1>k, <1>0 DEF Engine!Accept, Kept, EngineValues
  <2>2. eLive' \subseteq {eMic', eCam'} /\ (eCam' = 0 <=> ~video)
    BY <1>3, <2>1, EngineOpens, EngineAssumption DEF Engine!Accept, Engine!Acquire, EngineValues
  <2>3. ePhase' = "connecting" /\ ePc' = Engine!NoConnection /\ ~ePaused'
    BY <1>3, <2>1 DEF Engine!Accept
  <2>4. (eShows' <=> video) /\ (eWants' <=> video)
    BY <1>3 DEF Engine!Accept, Engine!Acquire
  <2>5. eShows' = (eWants' /\ ~ePaused')
    <3>1. CASE video BY <1>3, <2>3, <3>1, Zenon DEF Engine!Accept, Engine!Acquire
    <3>2. CASE ~video BY <1>3, <2>3, <3>2, Zenon DEF Engine!Accept, Engine!Acquire
    <3> QED BY <3>1, <3>2
  <2> QED BY <2>2, <2>3, <2>4, <2>5 DEF Kept
<1>4. ASSUME Engine!Finish PROVE Kept'
  BY <1>4, <1>k DEF Engine!Finish, Engine!FinishAs, Kept
<1>5. ASSUME Engine!HangUp \/ Engine!GiveUp \/ Engine!OnEnded PROVE Kept'
  BY <1>4, <1>5 DEF Engine!HangUp, Engine!GiveUp, Engine!OnEnded
<1>u. ASSUME UNCHANGED <<Engine!camera, eLive, eApp, Engine!talk>>, ePc' = ePc, ePhase' = ePhase
      PROVE  Kept'
  BY <1>k, <1>u DEF Kept
<1>6. ASSUME NEW r \in eAsked, Engine!SendAccept(r) PROVE Kept'
  <2>1. CASE Engine!Finish BY <2>1, <1>4
  <2>2. CASE UNCHANGED <<Engine!camera, Engine!tracks, ePc, Engine!screen, Engine!talk, ePhase>>
    BY <2>2, <1>u
  <2> QED BY <1>6, <2>1, <2>2 DEF Engine!SendAccept, Engine!AcceptUnchecked
<1>7. ASSUME NEW r \in eAsked, Engine!SendDecline(r) \/ Engine!Discard(r) PROVE Kept'
  BY <1>7, <1>u DEF Engine!SendDecline, Engine!Discard
<1>8. ASSUME Engine!AskCall \/ Engine!AskAnswer \/ Engine!AskCamera \/ Engine!SocketChanges
        \/ UNCHANGED Engine!vars PROVE Kept'
  <2>1. UNCHANGED <<Engine!camera, Engine!tracks, ePc, Engine!screen, Engine!talk, ePhase>>
    BY <1>8 DEF Engine!AskCall, Engine!AskAnswer, Engine!AskCamera, Engine!SocketChanges,
       Engine!vars
  <2>2. eLive' = eLive /\ eApp' = eApp BY <2>1
  <2> QED BY <2>1, <2>2, <1>u
<1>9. ASSUME Engine!OnAccepted \/ Engine!Disconnected PROVE Kept'
  <2>1. UNCHANGED <<Engine!camera, Engine!tracks, ePc, Engine!screen, Engine!talk>>
          /\ ePhase' # "active" /\ ePhase' \notin {"incoming", "outgoing", "none", "ended"}
               /\ Engine!Busy
    BY <1>9 DEF Engine!OnAccepted, Engine!Disconnected
  <2> QED BY <1>k, <2>1 DEF Kept
<1>10. ASSUME Engine!Dismiss PROVE Kept'
  BY <1>10, <1>k DEF Engine!Dismiss, Kept
<1>11. ASSUME NEW r \in eAsked, Engine!StartPeer(r) PROVE Kept'
  <2>1. CASE UNCHANGED ePc
    BY <1>11, <2>1, <1>u DEF Engine!StartPeer
  <2>2. CASE Engine!Busy /\ ePc = Engine!NoConnection /\ ePc' = {eMic, eCam} \ {0}
          /\ r.call = eCall
    <3>1. ePhase \notin {"incoming", "outgoing"} /\ eMic # 0
      BY <1>11, <2>2 DEF Engine!StartPeer, Late, Going
    <3>2. ePc' # Engine!NoConnection /\ (eCam # 0 => eCam \in ePc')
      BY <2>2 DEF Engine!NoConnection
    <3>3. ePhase # "active"
      BY <1>k, <2>2 DEF Kept
    <3>4. UNCHANGED <<Engine!camera, Engine!tracks, Engine!screen, Engine!talk, ePhase>>
      BY <1>11 DEF Engine!StartPeer
    <3> QED BY <1>k, <2>2, <3>1, <3>2, <3>3, <3>4 DEF Kept
  <2> QED BY <1>11, <2>1, <2>2 DEF Engine!StartPeer
<1>12. ASSUME Engine!Connected PROVE Kept'
  <2>1. Engine!Busy /\ eShows = (eWants /\ ~ePaused) /\ ePc # Engine!NoConnection
    BY <1>12, <1>k DEF Engine!Connected, Kept
  <2>2. eLost' \/ eTold' = eShows
    BY <1>12, <2>1, Zenon DEF Engine!Connected, Engine!TellMedia
  <2>3. UNCHANGED <<Engine!camera, ePc, Engine!tracks, Engine!screen>> /\ ePhase' = "active"
    BY <1>12 DEF Engine!Connected
  <2> QED BY <1>k, <2>1, <2>2, <2>3 DEF Kept
<1>13. ASSUME Engine!ToggleVideo PROVE Kept'
  <2>1. ePhase \in {"active", "reconnecting"} /\ eCam # 0
    BY <1>13 DEF Engine!ToggleVideo, Engine!AtControls, Engine!ShownScreen, EngineValues
  <2>2. eShows' = (eWants' /\ ~ePaused) /\ UNCHANGED <<eMic, eCam, ePaused, ePc, Engine!tracks,
                                                       Engine!screen, ePhase>>
    BY <1>13 DEF Engine!ToggleVideo
  <2>3. ePhase = "active" => eLost' \/ eTold' = eShows'
    <3>1. ePhase = "active" => ePc # Engine!NoConnection
      BY <1>k DEF Kept
    <3> QED BY <1>13, <3>1, <2>2, Zenon DEF Engine!ToggleVideo, Engine!TellMedia
  <2> QED BY <1>k, <2>1, <2>2, <2>3 DEF Kept
<1>14. ASSUME NEW r \in eAsked, Engine!CameraComes(r) PROVE Kept'
  <2>1. r.call = eCall /\ eCam = 0 /\ Engine!Busy
    BY <1>14 DEF Engine!CameraComes
  <2>2. ePhase \notin {"incoming", "outgoing"} /\ eMic # 0
    BY <1>14, <2>1 DEF Engine!CameraComes, Late, Going
  <2>3. ~ePaused BY <1>k, <2>1 DEF Kept
  <2>4. eLive' = eLive \cup {eOpened + 1} /\ eCam' = eOpened + 1
          /\ eOpened + 1 \in Engine!Tracks
    BY <1>14, <2>1, EngineOpens DEF Engine!CameraComes, EngineValues
  <2>5. eShows' /\ eWants' /\ UNCHANGED <<eMic, ePaused, ePhase, Engine!screen>>
    BY <1>14, <2>1, Zenon DEF Engine!CameraComes
  <2>6. ePc' = IF ePc = Engine!NoConnection THEN ePc ELSE ePc \cup {eCam'}
    BY <1>14, <2>4 DEF Engine!CameraComes
  <2>7. ePhase = "active" => ePc # Engine!NoConnection /\ ePc' # Engine!NoConnection
    BY <1>0, <1>k, <2>4, <2>6 DEF Kept
  <2>8. ePhase = "active" => eLost' \/ eTold' = eShows'
    <3>1. (eTold' = (IF eUp THEN ~ePaused ELSE eTold) /\ eLost' = (eLost \/ ~eUp))
            \/ ePc = Engine!NoConnection
      BY <1>14 DEF Engine!CameraComes, Engine!TellMedia
    <3>2. ePc # Engine!NoConnection => eLost' \/ eTold'
      BY <3>1, <2>3
    <3> QED BY <2>5, <2>7, <3>2, Zenon
  <2>9. eShows' = (eWants' /\ ~ePaused')
    BY <2>3, <2>5
  <2>10. eLive' \subseteq {eMic', eCam'}
    BY <1>k, <2>1, <2>4, <2>5, <1>0 DEF Kept, EngineValues
  <2> QED BY <2>1, <2>2, <2>3, <2>4, <2>5, <2>6, <2>7, <2>8, <2>9, <2>10, <1>0 DEF Kept
<1>15. ASSUME Engine!Leave \/ Engine!ClosePip PROVE Kept'
  BY <1>15, <1>k DEF Engine!Leave, Engine!ClosePip, Kept
<1>p. ASSUME NEW p \in BOOLEAN, Engine!Pause(p), UNCHANGED <<ePhase, ePc, Engine!tracks>>,
             eApp' = "active" => eApp = "active" \/ ~p, eApp = "active" => eApp' = "active"
               /\ p = FALSE
      PROVE  Kept'
  <2>1. CASE UNCHANGED <<Engine!camera, Engine!talk>> /\ (~Engine!Busy \/ eMic = 0 \/ eCam = 0
          \/ ePaused = p)
    <3>1. Engine!Busy /\ p = FALSE => ~ePaused
      BY <1>k, <2>1 DEF Kept, Going
    <3> QED BY <1>k, <1>p, <2>1, <3>1 DEF Kept
  <2>2. CASE Engine!Busy /\ eMic # 0 /\ eCam # 0 /\ Engine!TellMedia(eWants /\ ~p)
          /\ ePaused' = p /\ eShows' = (eWants /\ ~p)
             /\ UNCHANGED <<eMic, eCam, eWants>>
    <3>1. ePhase # "incoming" BY <1>k, <2>2 DEF Kept
    <3>2. ePhase = "active" => ePc # Engine!NoConnection
      BY <1>k DEF Kept
    <3>3. ePhase = "active" => eLost' \/ eTold' = eShows'
      BY <2>2, <3>2, Zenon DEF Engine!TellMedia
    <3> QED BY <1>k, <1>p, <2>2, <3>1, <3>2, <3>3 DEF Kept
  <2> QED BY <1>p, <2>1, <2>2 DEF Engine!Pause
<1>16. ASSUME Engine!Hidden PROVE Kept'
  <2>1. eApp # "active" BY <1>16 DEF Engine!Hidden, Going
  <2>2. CASE Engine!Pause(TRUE)
    BY <1>16, <2>1, <2>2, <1>p DEF Engine!Hidden
  <2>3. CASE UNCHANGED <<Engine!camera, Engine!talk>>
    BY <1>16, <2>3, <1>u DEF Engine!Hidden
  <2> QED BY <1>16, <2>2, <2>3 DEF Engine!Hidden
<1>17. ASSUME Engine!Return PROVE Kept'
  BY <1>17, <1>p DEF Engine!Return
<1> QED
  BY <1>1, <1>2, <1>3, <1>5, <1>6, <1>7, <1>8, <1>9, <1>10, <1>11, <1>12, <1>13, <1>14, <1>15,
     <1>16, <1>17,
     Zenon DEF Engine!Next

LEMMA EngineNextHolds == ASSUME EngineInv, [Engine!Next]_(Engine!vars) PROVE EngineInv'
<1>1. EngineFlags /\ EngineValues
  BY EngineTypes DEF EngineInv
<1>2. EngineFlags' /\ EngineValues'
  BY <1>1, EngineFlagsNext, EngineValuesNext DEF EngineInv
<1>3. Engine!TypeOK'
  BY <1>2, EngineTypes, PTL
<1>4. Late' /\ Spoken' /\ Going'
  BY <1>1, LateNext, SpokenNext, GoingNext DEF EngineInv
<1>5. ~eStray' => Kept'
  BY <1>1, KeptNext DEF EngineInv
<1> QED BY <1>3, <1>4, <1>5 DEF EngineInv

\* For any number of calls and tracks: one verdict on a call, nothing on after its end,
\* the picture as the other side was told, the camera back when the app is
\* (CallEngine.ts:226, :671, :370, :68).
THEOREM EngineSound ==
  Engine!Spec => [](Engine!OneVerdict /\ Engine!ReleasedAtEnd /\ Engine!PictureAsTold
    /\ Engine!ComesBack)
<1>1. Engine!Init => EngineInv BY EngineInitHolds
<1>2. EngineInv /\ [Engine!Next]_(Engine!vars) => EngineInv' BY EngineNextHolds
<1>3. EngineInv => Engine!OneVerdict /\ Engine!ReleasedAtEnd /\ Engine!PictureAsTold
        /\ Engine!ComesBack
  <2> SUFFICES ASSUME EngineInv
               PROVE  Engine!OneVerdict /\ Engine!ReleasedAtEnd /\ Engine!PictureAsTold
                 /\ Engine!ComesBack
    OBVIOUS
  <2>1. Engine!OneVerdict
    BY DEF EngineInv, Engine!OneVerdict, Spoken
  <2>2. Engine!ReleasedAtEnd
    BY DEF EngineInv, Engine!ReleasedAtEnd, Kept
  <2>3. ASSUME ePhase = "active", ~eLost, ~eStray PROVE eTold = (eCam \in ePc /\ eShows)
    <3>1. Engine!Busy /\ ePc # Engine!NoConnection /\ eTold = eShows
      BY <2>3 DEF EngineInv, Kept, Engine!Busy
    <3>2. eShows => eCam \in ePc
      BY <2>3, <3>1 DEF EngineInv, Kept
    <3>3. eShows \in BOOLEAN
      BY EngineTypes DEF EngineInv, EngineFlags
    <3> QED BY <3>1, <3>2, <3>3
  <2>4. Engine!ComesBack
    <3>1. eShows \in BOOLEAN /\ eWants \in BOOLEAN
      BY EngineTypes DEF EngineInv, EngineFlags
    <3> QED BY <3>1 DEF EngineInv, Engine!ComesBack, Kept
  <2> QED BY <2>1, <2>2, <2>3, <2>4 DEF Engine!PictureAsTold
<1> QED BY <1>1, <1>2, <1>3, PTL DEF Engine!Spec

(********************** The sound route: AudioRoute ***********************)

\* The session runs only during live audio, of the kind of the call; what was
\* reported last is where the sound is; with nothing to handle nor to read
\* back, that is where the session has it.
RouteInStep ==
  /\ (rRunning \/ rAsking) => rLive
  /\ rRunning => rMedia = Sound!Kind(rVideo)
  /\ rDark => rRunning /\ rMedia = "audio"
  /\ rRunning /\ rReports # <<>> => rReports[Len(rReports)] = rActual
  /\ rRunning /\ rReports = <<>> /\ ~rReadback => rCurrent = rActual

RouteInv == Sound!TypeOK /\ RouteInStep

LEMMA RouteInitHolds == Sound!Init => RouteInv
<1> SUFFICES ASSUME Sound!Init PROVE RouteInv
  OBVIOUS
<1>1. ~rLive /\ ~rAsking /\ ~rRunning /\ ~rDark
  BY Zenon DEF Sound!Init
<1>2. rLive \in BOOLEAN /\ rAsking \in BOOLEAN /\ rRunning \in BOOLEAN /\ rDark \in BOOLEAN
      /\ rForced \in BOOLEAN /\ rReadback \in BOOLEAN /\ rSettled \in BOOLEAN
           /\ rVideo \in BOOLEAN
  BY Zenon DEF Sound!Init
<1>3. Sound!TypeOK
  BY <1>2 DEF Sound!Init, Sound!TypeOK, Sound!Routes, Sound!Nowhere
<1> QED BY <1>1, <1>3 DEF RouteInv, RouteInStep

LEMMA RouteUntouched ==
  /\ UNCHANGED Sound!system <=> rAttached' = rAttached /\ rForced' = rForced
       /\ rActual' = rActual /\ rReports' = rReports /\ rReadback' = rReadback
  /\ UNCHANGED Sound!callOf <=> rLive' = rLive /\ rVideo' = rVideo /\ rAsking' = rAsking
  /\ UNCHANGED Sound!session <=> rRunning' = rRunning /\ rMedia' = rMedia /\ rPicked' = rPicked
       /\ rSettled' = rSettled /\ rAvailable' = rAvailable /\ rCurrent' = rCurrent
            /\ rSeen' = rSeen /\ rDark' = rDark
  BY DEF Sound!system, Sound!callOf, Sound!session

\* A route is given, and reported when it is another.
LEMMA RouteGiven ==
  ASSUME NEW f \in BOOLEAN, NEW att \in SUBSET Headsets, NEW pending \in Seq(Sound!Routes),
         rActual \in Sound!Routes, rRunning \in BOOLEAN, Sound!Route(f, att, pending)
  PROVE  /\ rForced' \in BOOLEAN /\ rAttached' \subseteq Headsets /\ rActual' \in Sound!Routes
         /\ rReports' \in Seq(Sound!Routes)
         /\ rRunning /\ (pending # <<>> => pending[Len(pending)] = rActual)
              => \/ rReports' # <<>> /\ rReports'[Len(rReports')] = rActual'
                 \/ rReports' = <<>> /\ rActual' = rActual
         /\ rActual' = rActual => rReports' = pending
<1>1. rActual' \in Sound!Routes
  BY DEF Sound!Route, Sound!Chosen, Sound!Routes
<1>2. CASE rActual' = rActual
  BY <1>1, <1>2 DEF Sound!Route
<1>3. CASE rActual' # rActual /\ ~rRunning
  BY <1>1, <1>3 DEF Sound!Route
<1>4. CASE rActual' # rActual /\ rRunning
  <2>1. rReports' = Append(pending, rActual')
    BY <1>4 DEF Sound!Route
  <2>2. rReports' \in Seq(Sound!Routes) /\ rReports' # <<>>
          /\ rReports'[Len(rReports')] = rActual'
    BY <1>1, <2>1
  <2> QED BY <1>1, <1>4, <2>2 DEF Sound!Route
<1> QED BY <1>2, <1>3, <1>4

LEMMA RestLasts ==
  ASSUME NEW s \in Seq(Sound!Routes), s # <<>>
  PROVE  /\ Tail(s) \in Seq(Sound!Routes) /\ Head(s) \in Sound!Routes
         /\ Tail(s) # <<>> => Tail(s)[Len(Tail(s))] = s[Len(s)]
         /\ Tail(s) = <<>> => Head(s) = s[Len(s)]
<1>1. Len(s) \in Nat \ {0} /\ Head(s) = s[1] /\ s[1] \in Sound!Routes
  OBVIOUS
<1>2. Tail(s) \in Seq(Sound!Routes) /\ Len(Tail(s)) = Len(s) - 1
  OBVIOUS
<1>3. \A i \in 1..(Len(s) - 1) : Tail(s)[i] = s[i + 1]
  BY <1>1
<1>4. Tail(s) # <<>> => Len(s) - 1 \in 1..(Len(s) - 1)
  BY <1>1, <1>2
<1>5. Tail(s) = <<>> => Len(s) = 1
  <2>0. Len(<<>>) = 0 OBVIOUS
  <2>1. Tail(s) = <<>> => Len(Tail(s)) = 0 BY <2>0, Zenon
  <2> QED BY <1>1, <1>2, <2>1
<1> QED BY <1>1, <1>2, <1>3, <1>4, <1>5

LEMMA DefaultIs ==
  ASSUME NEW kind, NEW avail \in SUBSET Sound!Routes, NEW r \in Sound!Default(kind, avail)
  PROVE  r \in Sound!Routes
  BY DEF Sound!Default, Sound!Routes

\* The parts of the state that an action leaves to others.
Flags == rLive \in BOOLEAN /\ rVideo \in BOOLEAN /\ rAsking \in BOOLEAN /\ rRunning \in BOOLEAN
         /\ rSettled \in BOOLEAN /\ rDark \in BOOLEAN /\ rForced \in BOOLEAN
              /\ rReadback \in BOOLEAN

\* Devices are handled: what is left to do is `rest`, whose last is the route.
LEMMA DevicesHandled ==
  ASSUME Sound!TypeOK, rRunning, rRunning' = rRunning, NEW rest \in Seq(Sound!Routes),
         NEW route \in Sound!Routes, NEW timer \in BOOLEAN,
         Sound!OnDevices(route, rest, timer),
         rest # <<>> => rest[Len(rest)] = rActual,
         rest = <<>> => route = rActual
  PROVE  /\ rAttached' \subseteq Headsets /\ rForced' \in BOOLEAN /\ rActual' \in Sound!Routes
         /\ rReports' \in Seq(Sound!Routes) /\ rReadback' \in BOOLEAN
         /\ rPicked' \in Sound!Routes \cup {Sound!Nowhere} /\ rSettled' \in BOOLEAN
         /\ rAvailable' \subseteq Sound!Routes /\ rSeen' \subseteq Sound!Routes
              /\ rCurrent' \in Sound!Routes \cup {Sound!Nowhere}
         /\ rReports' # <<>> => rReports'[Len(rReports')] = rActual'
         /\ rReports' = <<>> /\ ~rReadback' => rCurrent' = rActual'
<1> DEFINE avail == Sound!Tracked(route)
           stays == IF rPicked \in avail THEN rPicked ELSE Sound!Nowhere
           Stay == /\ rCurrent' = route /\ rReadback' = timer /\ rReports' = rest
                   /\ UNCHANGED <<rAttached, rForced, rActual>>
<1>1. avail \in SUBSET Sound!Routes
  BY DEF Sound!Tracked, Sound!TypeOK
<1>2. rSeen' = avail /\ rAvailable' = avail /\ rSettled' = TRUE
  BY DEF Sound!OnDevices
<1>3. rPicked' \in Sound!Routes \cup {Sound!Nowhere}
        /\ (Stay \/ \E r \in Sound!Routes : Sound!Apply(r, rest))
  <2>1. stays \in Sound!Routes \cup {Sound!Nowhere}
    BY DEF Sound!TypeOK
  <2>2. \A r : r \in Sound!Default(rMedia, avail) => r \in Sound!Routes
    BY <1>1, DefaultIs
  <2>3. \/ rPicked' = Sound!Nowhere /\ Stay
        \/ /\ rPicked' = stays
           /\ \E r \in (IF stays # Sound!Nowhere THEN {stays} ELSE Sound!Default(rMedia,
                                                                                 avail)) : Sound!Apply(r, rest)
        \/ rPicked' = rPicked /\ (Stay \/ \E r \in Sound!Default(rMedia, avail) : Sound!Apply(r,
                                                                                              rest))
    BY Zenon DEF Sound!OnDevices
  <2> HIDE DEF avail, stays, Stay
  <2> QED BY <2>1, <2>2, <2>3 DEF Sound!TypeOK
<1>4. CASE Stay
  BY <1>1, <1>2, <1>3, <1>4 DEF Sound!TypeOK
<1>5. CASE \E r \in Sound!Routes : Sound!Apply(r, rest)
  <2>1. PICK r \in Sound!Routes : Sound!Apply(r, rest)
    BY <1>5
  <2>2. Sound!Route(r = "speaker", rAttached, rest) /\ rCurrent' = r /\ rReadback' = TRUE
    BY <2>1 DEF Sound!Apply
  <2>3. (r = "speaker") \in BOOLEAN /\ rAttached \in SUBSET Headsets /\ rActual \in Sound!Routes
          /\ rRunning \in BOOLEAN
    BY DEF Sound!TypeOK
  <2>4. /\ rForced' \in BOOLEAN /\ rAttached' \subseteq Headsets /\ rActual' \in Sound!Routes
        /\ rReports' \in Seq(Sound!Routes)
        /\ rReports' # <<>> => rReports'[Len(rReports')] = rActual'
    BY <2>2, <2>3, RouteGiven
  <2>5. rReadback' \in BOOLEAN /\ rSettled' \in BOOLEAN /\ rReadback'
    BY <2>2, <1>2, Zenon
  <2> QED BY <1>1, <1>2, <1>3, <2>2, <2>4, <2>5
<1> QED BY <1>3, <1>4, <1>5

LEMMA RouteNextHolds == ASSUME RouteInv, [Sound!Next]_(Sound!vars) PROVE RouteInv'
<1> USE RouteUntouched
<1> DEFINE Sequel == /\ rAttached' \subseteq Headsets /\ rForced' \in BOOLEAN
                          /\ rActual' \in Sound!Routes
                     /\ rReports' \in Seq(Sound!Routes) /\ rReadback' \in BOOLEAN
                     /\ rLive' \in BOOLEAN /\ rVideo' \in BOOLEAN /\ rAsking' \in BOOLEAN
                     /\ rRunning' \in BOOLEAN /\ rMedia' \in {"audio", "video"}
                     /\ rPicked' \in Sound!Routes \cup {Sound!Nowhere} /\ rSettled' \in BOOLEAN
                     /\ rAvailable' \subseteq Sound!Routes /\ rSeen' \subseteq Sound!Routes
                     /\ rCurrent' \in Sound!Routes \cup {Sound!Nowhere} /\ rDark' \in BOOLEAN
<1>t. Sequel => Sound!TypeOK'
  BY DEF Sound!TypeOK
<1>k. /\ rAttached \subseteq Headsets /\ rAttached \in SUBSET Headsets /\ rForced \in BOOLEAN
           /\ rActual \in Sound!Routes
      /\ rReports \in Seq(Sound!Routes) /\ rReadback \in BOOLEAN
      /\ rLive \in BOOLEAN /\ rVideo \in BOOLEAN /\ rAsking \in BOOLEAN
      /\ rRunning \in BOOLEAN /\ rMedia \in {"audio", "video"}
      /\ rPicked \in Sound!Routes \cup {Sound!Nowhere} /\ rSettled \in BOOLEAN
      /\ rAvailable \subseteq Sound!Routes /\ rAvailable \in SUBSET Sound!Routes
           /\ rSeen \subseteq Sound!Routes
      /\ rCurrent \in Sound!Routes \cup {Sound!Nowhere} /\ rDark \in BOOLEAN
  BY DEF RouteInv, Sound!TypeOK
<1>s. RouteInStep
  BY DEF RouteInv
<1>w. Sound!WantsDark \in BOOLEAN /\ (Sound!WantsDark => rRunning' /\ rMedia' = "audio")
  BY DEF Sound!WantsDark
<1>d. \A v \in BOOLEAN : Sound!Kind(v) \in {"audio", "video"}
  BY DEF Sound!Kind
<1>1. ASSUME NEW e \in Headsets, Sound!Plug(e) PROVE RouteInv'
  <2>1. PICK f \in BOOLEAN, att \in SUBSET Headsets : Sound!Route(f, att, rReports)
    <3>1. rAttached \cup {e} \in SUBSET Headsets /\ rAttached \ {e} \in SUBSET Headsets
            /\ FALSE \in BOOLEAN
      BY <1>1, <1>k
    <3> QED BY <1>1, <1>k, <3>1, Zenon DEF Sound!Plug
  <2>2. UNCHANGED <<rRunning, Sound!callOf, rReadback, rMedia, rPicked, rSettled, rAvailable,
                    rCurrent, rSeen, rDark>>
    BY <1>1 DEF Sound!Plug
  <2>3. /\ rForced' \in BOOLEAN /\ rAttached' \subseteq Headsets /\ rActual' \in Sound!Routes
        /\ rReports' \in Seq(Sound!Routes)
        /\ rRunning /\ (rReports # <<>> => rReports[Len(rReports)] = rActual)
              => \/ rReports' # <<>> /\ rReports'[Len(rReports')] = rActual'
                 \/ rReports' = <<>> /\ rActual' = rActual
        /\ rActual' = rActual => rReports' = rReports
    BY <2>1, <1>k, RouteGiven
  <2>4. Sequel
    BY <2>2, <2>3, <1>k, Zenon
  <2>5. rReports' = <<>> /\ rRunning => rActual' = rActual /\ rReports = <<>>
    BY <2>3, <1>s DEF RouteInStep
  <2> QED BY <2>2, <2>3, <2>4, <2>5, <1>t, <1>s DEF RouteInv, RouteInStep
<1>2. ASSUME Sound!Report PROVE RouteInv'
  <2>1. /\ rRunning /\ rReports # <<>> /\ Sound!OnDevices(Head(rReports), Tail(rReports),
                                                          rReadback)
        /\ UNCHANGED <<Sound!callOf, rRunning, rMedia>> /\ rDark' = Sound!WantsDark
    BY <1>2 DEF Sound!Report
  <2>2. /\ Tail(rReports) \in Seq(Sound!Routes) /\ Head(rReports) \in Sound!Routes
        /\ Tail(rReports) # <<>> => Tail(rReports)[Len(Tail(rReports))] = rActual
        /\ Tail(rReports) = <<>> => Head(rReports) = rActual
    BY <2>1, <1>k, <1>s, RestLasts DEF RouteInStep
  <2>3. Sound!TypeOK BY DEF RouteInv
  <2> DEFINE Handled ==
         /\ rAttached' \subseteq Headsets /\ rForced' \in BOOLEAN /\ rActual' \in Sound!Routes
         /\ rReports' \in Seq(Sound!Routes) /\ rReadback' \in BOOLEAN
         /\ rPicked' \in Sound!Routes \cup {Sound!Nowhere} /\ rSettled' \in BOOLEAN
         /\ rAvailable' \subseteq Sound!Routes /\ rSeen' \subseteq Sound!Routes
              /\ rCurrent' \in Sound!Routes \cup {Sound!Nowhere}
         /\ rReports' # <<>> => rReports'[Len(rReports')] = rActual'
         /\ rReports' = <<>> /\ ~rReadback' => rCurrent' = rActual'
  <2>4. Handled
    BY <2>1, <2>2, <2>3, <1>k, DevicesHandled
  <2>5. Sequel
    BY <2>1, <2>4, <1>k, <1>w, Zenon
  <2> QED BY <2>1, <2>4, <2>5, <1>t, <1>s, <1>w DEF RouteInv, RouteInStep
<1>3. ASSUME Sound!ReadBack PROVE RouteInv'
  <2>1. UNCHANGED <<Sound!callOf, rRunning, rMedia>>
    BY <1>3 DEF Sound!ReadBack
  <2>2. CASE rRunning
    <3>1. Sound!OnDevices(rActual, rReports, FALSE) /\ rDark' = Sound!WantsDark
      BY <1>3, <2>2 DEF Sound!ReadBack
    <3>2. Sound!TypeOK /\ FALSE \in BOOLEAN BY DEF RouteInv
    <3> DEFINE Handled ==
         /\ rAttached' \subseteq Headsets /\ rForced' \in BOOLEAN /\ rActual' \in Sound!Routes
         /\ rReports' \in Seq(Sound!Routes) /\ rReadback' \in BOOLEAN
         /\ rPicked' \in Sound!Routes \cup {Sound!Nowhere} /\ rSettled' \in BOOLEAN
         /\ rAvailable' \subseteq Sound!Routes /\ rSeen' \subseteq Sound!Routes
              /\ rCurrent' \in Sound!Routes \cup {Sound!Nowhere}
         /\ rReports' # <<>> => rReports'[Len(rReports')] = rActual'
         /\ rReports' = <<>> /\ ~rReadback' => rCurrent' = rActual'
    <3>3. rReports # <<>> => rReports[Len(rReports)] = rActual
      BY <2>2, <1>s DEF RouteInStep
    <3>4. Handled
      BY <2>1, <2>2, <3>1, <3>2, <3>3, <1>k, DevicesHandled
    <3>5. Sequel
      BY <2>1, <3>1, <3>4, <1>k, <1>w, Zenon
    <3> QED BY <2>1, <3>1, <3>4, <3>5, <1>t, <1>s, <1>w DEF RouteInv, RouteInStep
  <2>3. CASE ~rRunning
    <3>1. rReadback' = FALSE /\ UNCHANGED <<rAttached, rForced, rActual, rReports, rPicked,
                                            rSettled,
                                            rAvailable, rCurrent, rSeen, rDark>>
      BY <1>3, <2>3 DEF Sound!ReadBack
    <3>2. rReadback' \in BOOLEAN BY <3>1, Zenon
    <3>3. Sequel BY <2>1, <3>1, <3>2, <1>k
    <3> QED BY <2>1, <2>3, <3>1, <3>3, <1>t, <1>s DEF RouteInv, RouteInStep
  <2> QED BY <2>2, <2>3
<1>4. ASSUME Sound!Connect PROVE RouteInv'
  <2>1. rLive' /\ rLive' \in BOOLEAN /\ rAsking' \in BOOLEAN
    BY <1>4, Zenon DEF Sound!Connect
  <2>2. UNCHANGED <<Sound!system, rVideo, Sound!session>>
    BY <1>4 DEF Sound!Connect
  <2>3. Sequel BY <2>1, <2>2, <1>k, Zenon
  <2> QED BY <2>1, <2>2, <2>3, <1>t, <1>s DEF RouteInv, RouteInStep
<1>5. ASSUME Sound!Begin PROVE RouteInv'
  <2>1. /\ rAsking' \in BOOLEAN /\ rRunning' /\ rRunning' \in BOOLEAN /\ rSettled' \in BOOLEAN
             /\ rDark' \in BOOLEAN /\ ~rDark'
    BY <1>5, Zenon DEF Sound!Begin, Sound!BeginWith
  <2>2. /\ rMedia' = Sound!Kind(rVideo) /\ rPicked' = Sound!Nowhere /\ rAvailable' = {}
             /\ rCurrent' = Sound!Nowhere /\ rSeen' = {}
        /\ rReports' = <<rActual>> /\ UNCHANGED <<rLive, rVideo, rAttached, rForced, rActual,
                                                  rReadback>> /\ rAsking
    BY <1>5 DEF Sound!Begin, Sound!BeginWith
  <2>3. rReports' \in Seq(Sound!Routes) /\ rReports' # <<>>
          /\ rReports'[Len(rReports')] = rActual'
    BY <2>2, <1>k
  <2>4. Sequel BY <2>1, <2>2, <2>3, <1>k, <1>d
  <2> QED BY <2>1, <2>2, <2>3, <2>4, <1>t, <1>s DEF RouteInv, RouteInStep
<1>6. ASSUME Sound!SetMedia PROVE RouteInv'
  <2>1. /\ UNCHANGED <<rLive, rAsking, rRunning, rPicked, rSettled, rAvailable, rSeen>>
             /\ rDark' = Sound!WantsDark
        /\ rVideo' \in BOOLEAN
    <3>1. (~rVideo) \in BOOLEAN OBVIOUS
    <3> QED BY <1>6, <3>1 DEF Sound!SetMedia
  <2>2. CASE UNCHANGED rCurrent /\ Sound!Keep /\ (rRunning => rMedia' = Sound!Kind(rVideo'))
          /\ rMedia' \in {"audio", "video"}
    <3>1. Sequel BY <2>1, <2>2, <1>k, <1>w, Zenon DEF Sound!Keep
    <3> QED BY <2>1, <2>2, <3>1, <1>t, <1>s, <1>w DEF RouteInv, RouteInStep, Sound!Keep
  <2>3. CASE rMedia' = Sound!Kind(rVideo')
          /\ \E r \in Sound!Default(rMedia', rAvailable) : Sound!Apply(r, rReports)
    <3>1. PICK r \in Sound!Routes : Sound!Apply(r, rReports)
      BY <2>3, <1>k, DefaultIs
    <3>2. Sound!Route(r = "speaker", rAttached, rReports) /\ rCurrent' = r /\ rReadback' = TRUE
      BY <3>1 DEF Sound!Apply
    <3>3. (r = "speaker") \in BOOLEAN OBVIOUS
    <3>4. /\ rForced' \in BOOLEAN /\ rAttached' \subseteq Headsets /\ rActual' \in Sound!Routes
          /\ rReports' \in Seq(Sound!Routes)
          /\ rRunning /\ (rReports # <<>> => rReports[Len(rReports)] = rActual)
                => \/ rReports' # <<>> /\ rReports'[Len(rReports')] = rActual'
                   \/ rReports' = <<>> /\ rActual' = rActual
      BY <3>2, <3>3, <1>k, RouteGiven
    <3>5. rReadback' \in BOOLEAN /\ rReadback' BY <3>2, Zenon
    <3>6. rMedia' \in {"audio", "video"} BY <2>1, <2>3, <1>d
    <3>7. Sequel
      BY <2>1, <3>2, <3>4, <3>5, <3>6, <1>k, <1>w, Zenon
    <3> QED BY <2>1, <2>3, <3>4, <3>5, <3>7, <1>t, <1>s, <1>w DEF RouteInv, RouteInStep
  <2>4. CASE ~rRunning
    BY <1>6, <2>2, <2>4, <1>k DEF Sound!SetMedia
  <2>5. CASE rRunning
    <3>1. rMedia' = Sound!Kind(rVideo') /\ rMedia' \in {"audio", "video"}
      BY <1>6, <2>1, <2>5, <1>d DEF Sound!SetMedia
    <3> QED BY <1>6, <2>2, <2>3, <2>5, <3>1 DEF Sound!SetMedia
  <2> QED BY <2>4, <2>5
<1>7. ASSUME NEW route \in Sound!Routes, Sound!Choose(route) PROVE RouteInv'
  <2>1. /\ rRunning /\ rPicked' = route /\ Sound!Apply(route, rReports)
             /\ rDark' = Sound!WantsDark
        /\ UNCHANGED <<Sound!callOf, rRunning, rMedia, rSettled, rAvailable, rSeen>>
    BY <1>7 DEF Sound!Choose
  <2>2. Sound!Route(route = "speaker", rAttached, rReports) /\ rCurrent' = route
          /\ rReadback' = TRUE
    BY <2>1 DEF Sound!Apply
  <2>3. (route = "speaker") \in BOOLEAN OBVIOUS
  <2>4. /\ rForced' \in BOOLEAN /\ rAttached' \subseteq Headsets /\ rActual' \in Sound!Routes
        /\ rReports' \in Seq(Sound!Routes)
        /\ rRunning /\ (rReports # <<>> => rReports[Len(rReports)] = rActual)
              => \/ rReports' # <<>> /\ rReports'[Len(rReports')] = rActual'
                 \/ rReports' = <<>> /\ rActual' = rActual
    BY <2>2, <2>3, <1>k, RouteGiven
  <2>5. rReadback' \in BOOLEAN /\ rReadback' BY <2>2, Zenon
  <2>6. Sequel
    BY <2>1, <2>2, <2>4, <2>5, <1>k, <1>w, Zenon
  <2> QED BY <2>1, <2>4, <2>5, <2>6, <1>t, <1>s, <1>w DEF RouteInv, RouteInStep
<1>8. ASSUME Sound!HangUp PROVE RouteInv'
  <2>1. /\ ~rLive' /\ ~rAsking' /\ ~rRunning' /\ rLive' \in BOOLEAN /\ rAsking' \in BOOLEAN
             /\ rRunning' \in BOOLEAN
        /\ rSettled' \in BOOLEAN /\ rForced' \in BOOLEAN
    BY <1>8, Zenon DEF Sound!HangUp
  <2>2. /\ rPicked' = Sound!Nowhere /\ rAvailable' = {} /\ rCurrent' = Sound!Nowhere
             /\ rReports' = <<>>
        /\ UNCHANGED <<rAttached, rReadback, rVideo, rMedia, rSeen>> /\ rDark' = Sound!WantsDark
        /\ rActual' \in Sound!Chosen(FALSE, rAttached)
    BY <1>8 DEF Sound!HangUp
  <2>3. rActual' \in Sound!Routes /\ rReports' \in Seq(Sound!Routes)
    BY <2>2, <1>k DEF Sound!Chosen, Sound!Routes
  <2>4. Sequel BY <2>1, <2>2, <2>3, <1>k, <1>w
  <2> QED BY <2>1, <2>2, <2>4, <1>t, <1>w DEF RouteInv, RouteInStep
<1>9. CASE UNCHANGED Sound!vars
  <2>1. UNCHANGED <<Sound!system, Sound!callOf, Sound!session>> BY <1>9 DEF Sound!vars
  <2>2. Sequel BY <2>1, <1>k, Zenon
  <2> QED BY <2>1, <2>2, <1>t, <1>s DEF RouteInv, RouteInStep
<1> QED BY <1>1, <1>2, <1>3, <1>4, <1>5, <1>6, <1>7, <1>8, <1>9, Zenon DEF Sound!Next

\* For any set of headsets: the route that is shown is the one in use (nativeAudio.ts:33)
\* and the screen is never dark on a video call (proximity.ts:9).
THEOREM RouteSound == Sound!Spec => [](Sound!Truthful /\ Sound!NeverDarkOnVideo)
<1>1. RouteInv => Sound!Truthful /\ Sound!NeverDarkOnVideo
  <2> SUFFICES ASSUME RouteInv PROVE Sound!Truthful /\ Sound!NeverDarkOnVideo
    OBVIOUS
  <2>1. rVideo \in BOOLEAN BY DEF RouteInv, Sound!TypeOK
  <2>2. rDark => rLive /\ Sound!Kind(rVideo) = "audio" BY DEF RouteInv, RouteInStep
  <2> QED BY <2>1, <2>2 DEF RouteInv, RouteInStep, Sound!Truthful, Sound!NeverDarkOnVideo,
     Sound!Kind
<1> QED BY <1>1, RouteInitHolds, RouteNextHolds, PTL DEF Sound!Spec


(******************* Voice, in a browser: VoiceRecorder *******************)

\* As long as no press met an earlier one at work: one microphone at most is asked
\* for or on, that of the stream; what the recorder runs for and what was collected
\* is that stream's; and nothing of an earlier one is still to come when the next
\* begins.
OneMicrophone ==
  /\ vAsked <= 1 /\ (vAsked = 1 => vStream = 0 /\ vPhase # "recording")
  /\ vPhase = "idle" => vStream = 0
  /\ vPhase = "recording" <=> vRecorder # 0
  /\ vRecorder # 0 => vRecorder = vStream /\ vStopping \subseteq {vRecorder}
                     /\ vChunks \subseteq {vRecorder} \X {"begin", "end"}
  /\ vLive \subseteq {vStream} /\ vRunning \subseteq {vRecorder}
       /\ vAwaited \subseteq {vRecorder}
  /\ vRunning \cap vStopping = {}
  /\ vPhase = "starting" => vStopping = {}
  /\ ~vOpen => vPhase = "idle"
  /\ \A s \in vSent : s.data = {<<s.of, "begin">>, <<s.of, "end">>}

RecorderInv == Recorder!TypeOK /\ vAsked + vOpened <= VoiceRecordings
  /\ (~vStray => OneMicrophone)

LEMMA RecorderInit == Recorder!Init => RecorderInv
<1> SUFFICES ASSUME Recorder!Init PROVE RecorderInv OBVIOUS
<1>1. vOpen \in BOOLEAN /\ vStray \in BOOLEAN /\ vOpen
  BY Zenon DEF Recorder!Init
<1>2. Recorder!TypeOK
  BY <1>1, VoiceAssumption DEF Recorder!Init, Recorder!TypeOK
<1>3. OneMicrophone
  BY <1>1, VoiceAssumption DEF Recorder!Init, OneMicrophone
<1> QED BY <1>2, <1>3, VoiceAssumption DEF RecorderInv, Recorder!Init

\* The types of the flags, and of the rest.
LEMMA RecorderFlags == ASSUME Recorder!TypeOK, [Recorder!Next]_(Recorder!vars)
                       PROVE  vOpen' \in BOOLEAN /\ vStray' \in BOOLEAN
<1>0. vOpen \in BOOLEAN /\ vStray \in BOOLEAN
  BY DEF Recorder!TypeOK
<1>1. ASSUME NEW a, NEW b PROVE (vStray \/ a \/ b) \in BOOLEAN /\ (vStray \/ a) \in BOOLEAN
  OBVIOUS
<1>2. CASE Recorder!Start \/ Recorder!Granted \/ Recorder!Denied \/ Recorder!Finish
  BY <1>0, <1>1, <1>2, Zenon DEF Recorder!Start, Recorder!Granted, Recorder!Denied,
     Recorder!Finish
<1>3. CASE Recorder!Cancel \/ Recorder!LeaveChat
  BY <1>0, <1>1, <1>3, Zenon DEF Recorder!Cancel, Recorder!LeaveChat, Recorder!Cancelled
<1>4. CASE \E r \in Recorder!Recordings : Recorder!Data(r) \/ Recorder!Stopped(r)
        \/ Recorder!Unplug(r)
  BY <1>0, <1>4, Zenon DEF Recorder!Data, Recorder!Stopped, Recorder!Unplug
<1>5. CASE UNCHANGED Recorder!vars
  BY <1>0, <1>5, Zenon DEF Recorder!vars
<1> QED BY <1>2, <1>3, <1>4, <1>5 DEF Recorder!Next

LEMMA RecorderTypes == ASSUME RecorderInv, [Recorder!Next]_(Recorder!vars)
                       PROVE  Recorder!TypeOK' /\ vAsked' + vOpened' <= VoiceRecordings
<1> USE VoiceAssumption DEF RecorderInv, Recorder!TypeOK, Recorder!Recordings, Recorder!Parts
<1>0. vOpen' \in BOOLEAN /\ vStray' \in BOOLEAN
  BY RecorderFlags
<1>1. CASE Recorder!Start
  BY <1>0, <1>1 DEF Recorder!Start
<1>2. CASE Recorder!Granted
  BY <1>0, <1>2 DEF Recorder!Granted, Recorder!Release
<1>3. CASE Recorder!Denied
  BY <1>0, <1>3 DEF Recorder!Denied
<1>4. CASE Recorder!Cancel \/ Recorder!LeaveChat
  BY <1>0, <1>4 DEF Recorder!Cancel, Recorder!LeaveChat, Recorder!Cancelled, Recorder!Release
<1>5. CASE Recorder!Finish
  BY <1>0, <1>5 DEF Recorder!Finish, Recorder!media
<1>6. ASSUME NEW r \in Recorder!Recordings, Recorder!Data(r)
      PROVE  Recorder!TypeOK' /\ vAsked' + vOpened' <= VoiceRecordings
  BY <1>0, <1>6 DEF Recorder!Data, Recorder!media
<1>7. ASSUME NEW r \in Recorder!Recordings, Recorder!Stopped(r)
      PROVE  Recorder!TypeOK' /\ vAsked' + vOpened' <= VoiceRecordings
  BY <1>0, <1>7 DEF Recorder!Stopped, Recorder!Release
<1>8. ASSUME NEW r \in Recorder!Recordings, Recorder!Unplug(r)
      PROVE  Recorder!TypeOK' /\ vAsked' + vOpened' <= VoiceRecordings
  BY <1>0, <1>8 DEF Recorder!Unplug
<1>9. CASE UNCHANGED Recorder!vars
  BY <1>0, <1>9 DEF Recorder!vars
<1> QED BY <1>1, <1>2, <1>3, <1>4, <1>5, <1>6, <1>7, <1>8, <1>9 DEF Recorder!Next

LEMMA OneMicrophoneNext == ASSUME RecorderInv, [Recorder!Next]_(Recorder!vars), ~vStray'
                           PROVE  OneMicrophone'
<1> USE VoiceAssumption DEF Recorder!TypeOK, Recorder!Recordings, OneMicrophone
<1>0. Recorder!TypeOK /\ OneMicrophone
  <2>1. ~vStray
    BY DEF Recorder!Next, Recorder!vars, Recorder!Start, Recorder!Granted, Recorder!Denied,
       Recorder!Cancel, Recorder!LeaveChat, Recorder!Cancelled, Recorder!Finish, Recorder!Data,
       Recorder!Stopped, Recorder!Unplug
  <2> QED BY <2>1 DEF RecorderInv
<1>1. CASE Recorder!Start
  <2>1. ~(vAsked > 0) /\ vStopping = {}
    BY <1>1, Zenon DEF Recorder!Start
  <2>2. vAsked = 0
    BY <2>1, <1>0
  <2>3. /\ vOpen /\ vPhase = "idle" /\ vPhase' = "starting" /\ vAsked' = 1
        /\ UNCHANGED <<vOpen, vStream, vRecorder, vChunks, vLive, vRunning, vStopping, vAwaited,
                       vSent>>
    BY <1>1, <2>2 DEF Recorder!Start
  <2> QED BY <1>0, <2>1, <2>2, <2>3
<1>2. CASE Recorder!Granted
  BY <1>0, <1>2 DEF Recorder!Granted, Recorder!Release
<1>3. CASE Recorder!Denied
  BY <1>0, <1>3 DEF Recorder!Denied
<1>4. CASE Recorder!Cancel \/ Recorder!LeaveChat
  BY <1>0, <1>4 DEF Recorder!Cancel, Recorder!LeaveChat, Recorder!Cancelled, Recorder!Release
<1>5. CASE Recorder!Finish
  BY <1>0, <1>5 DEF Recorder!Finish, Recorder!media
<1>6. ASSUME NEW r \in Recorder!Recordings, Recorder!Data(r) PROVE OneMicrophone'
  BY <1>0, <1>6 DEF Recorder!Data, Recorder!media
<1>7. ASSUME NEW r \in Recorder!Recordings, Recorder!Stopped(r) PROVE OneMicrophone'
  <2> DEFINE data == vChunks \cup {<<r, "begin">>, <<r, "end">>}
  <2>1. UNCHANGED <<vOpen, vAsked, vRunning>> /\ vStopping' = vStopping \ {r}
          /\ vAwaited' = vAwaited \ {r}
    BY <1>7 DEF Recorder!Stopped
  <2>2. CASE r \notin vAwaited /\ vChunks' = data
          /\ UNCHANGED <<vPhase, vStream, vRecorder, vLive, vSent>>
    <3>1. vRecorder # 0 => r = vRecorder
      BY <1>0, <1>7 DEF Recorder!Stopped
    <3>2. vRecorder # 0 => vChunks' \subseteq {vRecorder} \X {"begin", "end"}
      BY <1>0, <2>2, <3>1
    <3> QED BY <1>0, <2>1, <2>2, <3>2
  <2>3. CASE r \in vAwaited /\ Recorder!Release(vStream)
          /\ vSent' \in {vSent, vSent \cup {[of |-> r, data |-> data]}}
    <3>1. r = vRecorder /\ vPhase = "recording" /\ vRunning = {}
      BY <1>0, <1>7, <2>3 DEF Recorder!Stopped
    <3>2. data = {<<r, "begin">>, <<r, "end">>}
      BY <1>0, <3>1
    <3>3. \A s \in vSent' : s.data = {<<s.of, "begin">>, <<s.of, "end">>}
      BY <1>0, <2>3, <3>2
    <3> QED BY <1>0, <2>1, <2>3, <3>1, <3>3 DEF Recorder!Release
  <2> QED BY <1>7, <2>2, <2>3 DEF Recorder!Stopped
<1>8. ASSUME NEW r \in Recorder!Recordings, Recorder!Unplug(r) PROVE OneMicrophone'
  BY <1>0, <1>8 DEF Recorder!Unplug
<1>9. CASE UNCHANGED Recorder!vars
  BY <1>0, <1>9 DEF Recorder!vars
<1> QED BY <1>1, <1>2, <1>3, <1>4, <1>5, <1>6, <1>7, <1>8, <1>9 DEF Recorder!Next

\* For any number of recordings, as long as no press meets an earlier one at work: the
\* microphone is on only while that is shown, and what is sent is one recording, whole
\* (voiceRecorder.ts:83).
THEOREM RecorderSound == Recorder!Spec => [](Recorder!MicrophoneShown /\ Recorder!WholeIfSent)
<1>1. RecorderInv => Recorder!MicrophoneShown /\ Recorder!WholeIfSent
  BY DEF RecorderInv, Recorder!TypeOK, OneMicrophone, Recorder!MicrophoneShown,
     Recorder!WholeIfSent, Recorder!Recordings
<1>2. RecorderInv /\ [Recorder!Next]_(Recorder!vars) => RecorderInv'
  BY RecorderTypes, OneMicrophoneNext DEF RecorderInv
<1> QED BY <1>1, <1>2, RecorderInit, PTL DEF Recorder!Spec


(****************** Voice, held on a phone: HoldToRecord ******************)

\* As long as no press met an earlier one at work: one recording is started, runs or
\* is stopped at a time; the button, the capture and the recorder have the same one.
Steady ==
  /\ \A m, n \in Hold!Begins : Hold!Starting(m) /\ Hold!Starting(n) => m = n
  /\ \A n \in Hold!Begins : /\ Hold!Starting(n) => hEnds = {} /\ ~hActive /\ ~hRecording
                            /\ hBegins[n] = "prepare" => hAllowed
  /\ hActive = hCapturing
  /\ hActive => hRecording /\ hAllowed /\ hTimer = hCurrent /\ hCurrent # 0 /\ hEnds = {}
  /\ ~hActive => hTimer = 0
  /\ (hActive \/ hEnds # {}) => hFile = hCurrent
  /\ hRecording /\ ~hActive => \E e \in hEnds : e.at = "stop"
  /\ \A e, f \in hEnds : e = f
  /\ \A e \in hEnds : e.of = hFile
  /\ hTicking \subseteq {hTimer}
  /\ \A s \in hSent : s[1] = s[2]

\* What is captured, and what is stopped, has a number and a file.
Captured == (hCapturing => hCurrent # 0) /\ (hCapturing \/ hEnds # {} => hFile # 0)

HoldInv == Hold!TypeOK /\ Captured /\ (~hStray => Steady)

LEMMA HoldInit == Hold!Init => HoldInv
<1> SUFFICES ASSUME Hold!Init PROVE HoldInv OBVIOUS
<1>1. /\ hOpen \in BOOLEAN /\ hPressed \in BOOLEAN /\ hActive \in BOOLEAN
           /\ hCancelling \in BOOLEAN
      /\ hCapturing \in BOOLEAN /\ hRecording \in BOOLEAN /\ hAllowed \in BOOLEAN
           /\ hStray \in BOOLEAN
      /\ ~hActive /\ ~hCapturing /\ ~hRecording
  BY Zenon DEF Hold!Init
<1>2. {hOpen, hPressed, hActive, hCancelling, hCapturing, hRecording, hAllowed,
       hStray} \subseteq BOOLEAN
  BY <1>1
<1>3. Hold!TypeOK
  BY <1>2, VoiceAssumption DEF Hold!Init, Hold!TypeOK
<1>4. Steady
  BY <1>1 DEF Hold!Init, Steady, Hold!Starting
<1>5. Captured
  BY <1>1 DEF Captured, Hold!Init
<1> QED BY <1>3, <1>4, <1>5 DEF HoldInv

HoldFlags ==
  /\ hOpen \in BOOLEAN /\ hPressed \in BOOLEAN /\ hActive \in BOOLEAN /\ hCancelling \in BOOLEAN
  /\ hCapturing \in BOOLEAN /\ hRecording \in BOOLEAN /\ hAllowed \in BOOLEAN
       /\ hStray \in BOOLEAN
HoldValues ==
  /\ hTimer \in 0..Holds /\ hTicking \subseteq Hold!Begins
  /\ hCurrent \in 0..Holds /\ hFile \in 0..Holds
  /\ hBegins \in [Hold!Begins -> {"none", "permission", "session", "prepare", "over"}]
  /\ hEnds \subseteq [of : Hold!Begins, send : BOOLEAN, at : {"stop", "session"}]
  /\ hSent \subseteq Hold!Begins \X Hold!Begins

LEMMA HoldTypes == Hold!TypeOK <=> HoldFlags /\ HoldValues
<1>1. {hOpen, hPressed, hActive, hCancelling, hCapturing, hRecording, hAllowed,
       hStray} \subseteq BOOLEAN
        <=> HoldFlags
  BY DEF HoldFlags
<1>2. {hCurrent, hFile} \subseteq 0..Holds <=> hCurrent \in 0..Holds /\ hFile \in 0..Holds
  OBVIOUS
<1> QED BY <1>1, <1>2, Zenon DEF Hold!TypeOK, HoldValues

LEMMA HoldUntouched ==
  /\ UNCHANGED Hold!session <=>
       hActive' = hActive /\ hCancelling' = hCancelling /\ hTimer' = hTimer
         /\ hTicking' = hTicking
  /\ UNCHANGED Hold!capture <=> hCapturing' = hCapturing /\ hCurrent' = hCurrent
  /\ UNCHANGED Hold!native <=> hFile' = hFile /\ hRecording' = hRecording
       /\ hAllowed' = hAllowed
  BY DEF Hold!session, Hold!capture, Hold!native

LEMMA HoldFlagsNext == ASSUME HoldFlags, [Hold!Next]_(Hold!vars) PROVE HoldFlags'
<1> USE HoldUntouched DEF HoldFlags
<1>1. ASSUME NEW n \in Hold!Begins, Hold!Begin(n) PROVE HoldFlags'
  BY <1>1, Zenon DEF Hold!Begin
<1>2. ASSUME NEW n \in Hold!Begins, Hold!GiveUp(n) \/ Hold!Permitted(n) \/ Hold!SessionSet(n)
      PROVE  HoldFlags'
  BY <1>2, Zenon DEF Hold!GiveUp, Hold!Permitted, Hold!SessionSet
<1>3. ASSUME NEW n \in Hold!Begins, Hold!Started(n) PROVE HoldFlags'
  BY <1>3, Zenon DEF Hold!Started
<1>4. CASE Hold!Slide
  BY <1>4, Zenon DEF Hold!Slide
<1>5. ASSUME NEW send, Hold!End(send), hOpen' \in BOOLEAN PROVE HoldFlags'
  BY <1>5, Zenon DEF Hold!End
<1>6. CASE Hold!LetGo \/ Hold!TakenAway \/ Hold!LeaveChat \/ Hold!Limit
  BY <1>5, <1>6, Zenon DEF Hold!LetGo, Hold!TakenAway, Hold!LeaveChat, Hold!Limit
<1>7. ASSUME NEW e \in hEnds, Hold!NativeStop(e) \/ Hold!SessionReset(e) PROVE HoldFlags'
  BY <1>7, Zenon DEF Hold!NativeStop, Hold!SessionReset
<1>8. CASE UNCHANGED Hold!vars
  BY <1>8, Zenon DEF Hold!vars
<1> QED BY <1>1, <1>2, <1>3, <1>4, <1>6, <1>7, <1>8, Zenon DEF Hold!Next

\* A recording being stopped, at its next step.
LEMMA StopsOn ==
  ASSUME HoldValues, NEW e \in hEnds
  PROVE  /\ [e EXCEPT !.at = "session"] \in [of : Hold!Begins, send : BOOLEAN, at : {"stop",
                                                                                     "session"}]
         /\ [e EXCEPT !.at = "session"].of = e.of /\ [e EXCEPT !.at = "session"].at = "session"
         /\ e.of \in Hold!Begins /\ e.send \in BOOLEAN
  BY DEF HoldValues

LEMMA HoldValuesNext ==
  ASSUME Captured, HoldFlags, HoldValues, [Hold!Next]_(Hold!vars)
  PROVE  HoldValues'
<1> USE HoldUntouched, VoiceAssumption DEF HoldValues, Captured
<1>1. ASSUME NEW n \in Hold!Begins, Hold!Begin(n) PROVE HoldValues'
  BY <1>1 DEF Hold!Begin
<1>2. ASSUME NEW n \in Hold!Begins, Hold!GiveUp(n) \/ Hold!Permitted(n) \/ Hold!SessionSet(n)
      PROVE  HoldValues'
  BY <1>2 DEF Hold!GiveUp, Hold!Permitted, Hold!SessionSet
<1>3. ASSUME NEW n \in Hold!Begins, Hold!Started(n) PROVE HoldValues'
  <2>1. /\ hBegins' \in [Hold!Begins -> {"none", "permission", "session", "prepare", "over"}]
        /\ hFile' \in 0..Holds /\ hCurrent' \in 0..Holds /\ hCurrent' # 0 /\ hSent' = hSent
    BY <1>3 DEF Hold!Started, Hold!Begins
  <2>2. hEnds' \subseteq [of : Hold!Begins, send : BOOLEAN, at : {"stop", "session"}]
    <3>1. hEnds' = hEnds \/ hEnds' = hEnds \cup {[of |-> n, send |-> FALSE, at |-> "stop"]}
      BY <1>3 DEF Hold!Started
    <3>2. [of |-> n, send |-> FALSE, at |-> "stop"] \in [of : Hold!Begins, send : BOOLEAN,
                                                         at : {"stop", "session"}]
      OBVIOUS
    <3>3. hEnds \subseteq [of : Hold!Begins, send : BOOLEAN, at : {"stop", "session"}]
      OBVIOUS
    <3> HIDE HoldUntouched, VoiceAssumption DEF HoldValues, Captured
    <3>4. CASE hEnds' = hEnds BY <3>3, <3>4
    <3>5. CASE hEnds' = hEnds \cup {[of |-> n, send |-> FALSE, at |-> "stop"]}
      BY <3>2, <3>3, <3>5
    <3> QED BY <3>1, <3>4, <3>5
  <2>3. hTimer' \in 0..Holds /\ hTicking' \subseteq Hold!Begins
    <3>1. (hTimer' = n /\ hTicking' = hTicking \cup {n}) \/ UNCHANGED <<hTimer, hTicking>>
      BY <1>3 DEF Hold!Started
    <3>2. hTimer \in 0..Holds /\ hTicking \subseteq Hold!Begins /\ n \in 0..Holds
      BY DEF Hold!Begins
    <3> HIDE HoldUntouched, VoiceAssumption DEF HoldValues, Captured
    <3> QED BY <3>1, <3>2
  <2> QED BY <2>1, <2>2, <2>3
<1>4. CASE Hold!Slide
  BY <1>4 DEF Hold!Slide
<1>5. ASSUME NEW send \in BOOLEAN, Hold!End(send) PROVE HoldValues'
  BY <1>5 DEF Hold!End, Hold!Begins
<1>6. CASE Hold!LetGo \/ Hold!TakenAway \/ Hold!LeaveChat \/ Hold!Limit
  <2>1. \E send \in BOOLEAN : Hold!End(send)
    BY <1>6, Zenon DEF Hold!LetGo, Hold!TakenAway, Hold!LeaveChat, Hold!Limit, HoldFlags
  <2> QED BY <1>5, <2>1
<1>7. ASSUME NEW e \in hEnds, Hold!NativeStop(e) PROVE HoldValues'
  BY <1>7, StopsOn DEF Hold!NativeStop
<1>8. ASSUME NEW e \in hEnds, Hold!SessionReset(e) PROVE HoldValues'
  <2>1. UNCHANGED <<hTimer, hTicking, hCurrent, hCapturing, hBegins, hFile>>
          /\ hEnds' \subseteq hEnds
    BY <1>8 DEF Hold!SessionReset
  <2>2. hSent' = hSent \/ hSent' = hSent \cup {<<e.of, hFile>>}
    BY <1>8 DEF Hold!SessionReset
  <2>3. e.of \in Hold!Begins /\ hFile \in Hold!Begins
    BY StopsOn DEF Hold!Begins
  <2> QED BY <2>1, <2>2, <2>3
<1>9. CASE UNCHANGED Hold!vars
  BY <1>9 DEF Hold!vars
<1> QED BY <1>1, <1>2, <1>3, <1>4, <1>6, <1>7, <1>8, <1>9 DEF Hold!Next

\* What is captured keeps its number.
LEMMA CapturedNext == ASSUME Captured, HoldValues, [Hold!Next]_(Hold!vars) PROVE Captured'
<1> USE HoldUntouched
<1>1. \/ /\ UNCHANGED <<hCurrent, hFile>> /\ (hCapturing' => hCapturing)
         /\ hEnds' # {} => hEnds # {} \/ hCapturing
      \/ hCurrent' \in Hold!Begins /\ hFile' \in Hold!Begins
  <2>1. CASE \E n \in Hold!Begins : Hold!Begin(n) \/ Hold!GiveUp(n) \/ Hold!Permitted(n)
          \/ Hold!SessionSet(n) \/ Hold!Started(n)
    BY <2>1, Zenon DEF Hold!Begin, Hold!GiveUp, Hold!Permitted, Hold!SessionSet, Hold!Started
  <2>2. CASE Hold!Slide \/ Hold!LetGo \/ Hold!TakenAway \/ Hold!LeaveChat \/ Hold!Limit
    BY <2>2, Zenon DEF Hold!Slide, Hold!LetGo, Hold!TakenAway, Hold!LeaveChat, Hold!Limit,
       Hold!End
  <2>3. CASE (\E e \in hEnds : Hold!NativeStop(e) \/ Hold!SessionReset(e))
          \/ UNCHANGED Hold!vars
    BY <2>3, Zenon DEF Hold!NativeStop, Hold!SessionReset, Hold!vars
  <2> QED BY <2>1, <2>2, <2>3, Zenon DEF Hold!Next
<1> QED BY <1>1, VoiceAssumption DEF Captured, Hold!Begins, HoldValues

LEMMA SteadyNext == ASSUME Captured, HoldFlags, HoldValues, Steady, [Hold!Next]_(Hold!vars),
                           ~hStray' PROVE Steady'
<1> USE HoldUntouched, VoiceAssumption DEF HoldValues, HoldFlags, Steady, Hold!Starting
<1>1. ASSUME NEW n \in Hold!Begins, Hold!Begin(n) PROVE Steady'
  <2>1. hEnds = {} /\ ~hActive /\ ~\E m \in Hold!Begins : Hold!Starting(m)
    BY <1>1, Zenon DEF Hold!Begin
  <2>2. \A m \in Hold!Begins : hBegins'[m] = IF m = n THEN "permission" ELSE hBegins[m]
    BY <1>1 DEF Hold!Begin
  <2>3. \A m \in Hold!Begins : Hold!Starting(m)' <=> m = n
    BY <2>1, <2>2
  <2>4. hBegins'[n] # "prepare" /\ ~hRecording
    BY <2>1, <2>2
  <2>5. UNCHANGED <<hActive, hTimer, hTicking, hCapturing, hCurrent, hEnds, hFile, hRecording,
                    hAllowed, hSent>>
    BY <1>1 DEF Hold!Begin
  <2> HIDE DEF Hold!Starting
  <2>6. \A m \in Hold!Begins : hBegins'[m] = "prepare" => Hold!Starting(m)'
    BY DEF Hold!Starting
  <2> QED BY <2>1, <2>3, <2>4, <2>5, <2>6
<1>2. ASSUME NEW n \in Hold!Begins, Hold!GiveUp(n) \/ Hold!Permitted(n) \/ Hold!SessionSet(n)
      PROVE  Steady'
  <2>1. /\ Hold!Starting(n) /\ UNCHANGED <<hActive, hTimer, hTicking, hCapturing, hCurrent,
                                           hEnds, hFile, hRecording, hSent>>
        /\ \A m \in Hold!Begins : m # n => hBegins'[m] = hBegins[m]
    BY <1>2 DEF Hold!GiveUp, Hold!Permitted, Hold!SessionSet
  <2>2. (hBegins'[n] = "prepare" => hAllowed') /\ (hAllowed => hAllowed')
    BY <1>2 DEF Hold!GiveUp, Hold!Permitted, Hold!SessionSet
  <2>3. \A m \in Hold!Begins : Hold!Starting(m)' => Hold!Starting(m)
    BY <2>1
  <2> QED BY <2>1, <2>2, <2>3
<1>3. ASSUME NEW n \in Hold!Begins, Hold!Started(n) PROVE Steady'
  <2>1. /\ hBegins[n] = "prepare" /\ hBegins'[n] = "over" /\ \A m \in Hold!Begins : m # n
             => hBegins'[m] = hBegins[m]
        /\ hFile' = n /\ hRecording' /\ hCurrent' = n /\ UNCHANGED <<hAllowed, hSent>>
    BY <1>3 DEF Hold!Started
  <2>2. hAllowed /\ hEnds = {} /\ ~hActive /\ ~hCapturing /\ hTimer = 0 /\ hTicking = {}
    BY <2>1 DEF Hold!Begins
  <2>3. \A m \in Hold!Begins : ~Hold!Starting(m)'
    BY <2>1
  <2>4. CASE hPressed /\ hCapturing' = TRUE /\ hActive' = TRUE /\ hTimer' = n
          /\ hTicking' = hTicking \cup {n} /\ UNCHANGED hEnds
    <3>1. hTicking' \subseteq {n} /\ n # 0 /\ hEnds' = {}
      BY <2>2, <2>4 DEF Hold!Begins
    <3> QED BY <2>1, <2>2, <2>3, <2>4, <3>1
  <2>5. CASE /\ hCapturing' = FALSE /\ UNCHANGED <<hActive, hTimer, hTicking>>
             /\ hEnds' = hEnds \cup {[of |-> n, send |-> FALSE, at |-> "stop"]}
    <3>1. hEnds' = {[of |-> n, send |-> FALSE, at |-> "stop"]}
      BY <2>2, <2>5
    <3>2. /\ \E e \in hEnds' : e.at = "stop"
          /\ \A e, f \in hEnds' : e = f
          /\ \A e \in hEnds' : e.of = hFile'
      BY <2>1, <3>1
    <3>3. ~hActive' /\ hTimer' = 0 /\ hTicking' = {} /\ hFile' = hCurrent'
      BY <2>1, <2>2, <2>5
    <3> QED BY <2>1, <2>3, <2>5, <3>2, <3>3
  <2> QED BY <1>3, <2>4, <2>5 DEF Hold!Started
<1>4. CASE Hold!Slide
  BY <1>4 DEF Hold!Slide
<1>5. ASSUME NEW send \in BOOLEAN, Hold!End(send) PROVE Steady'
  <2>1. /\ hTicking' = hTicking \ {hTimer} /\ hTimer' = 0 /\ hActive' = FALSE
             /\ hCapturing' = FALSE
        /\ UNCHANGED <<hCurrent, hBegins, hFile, hRecording, hAllowed, hSent>>
    BY <1>5 DEF Hold!End
  <2>2. hTicking' = {}
    BY <2>1
  <2>3. \A m \in Hold!Begins : Hold!Starting(m)' <=> Hold!Starting(m)
    BY <2>1
  <2>4. CASE hCapturing
    <3>1. hEnds' = {[of |-> hCurrent, send |-> send, at |-> "stop"]}
      BY <1>5, <2>4 DEF Hold!End
    <3>2. \A m \in Hold!Begins : ~Hold!Starting(m)
      BY <2>4
    <3> HIDE DEF Hold!Starting
    <3>3. \A m \in Hold!Begins : ~Hold!Starting(m)'
      BY <3>2, <2>3
    <3>4. \A m \in Hold!Begins : hBegins'[m] = "prepare" => Hold!Starting(m)'
      BY DEF Hold!Starting
    <3>5. /\ \E e \in hEnds' : e.at = "stop"
          /\ \A e, f \in hEnds' : e = f
          /\ \A e \in hEnds' : e.of = hCurrent
      BY <3>1
    <3>6. hFile' = hCurrent' /\ hFile = hCurrent
      BY <2>1, <2>4
    <3> HIDE DEF Hold!Begins
    <3> QED BY <2>1, <2>2, <3>3, <3>4, <3>5, <3>6
  <2>5. CASE ~hCapturing
    <3>1. UNCHANGED hEnds
      BY <1>5, <2>5 DEF Hold!End
    <3> QED BY <2>1, <2>2, <2>3, <2>5, <3>1
  <2> QED BY <2>4, <2>5
<1>6. CASE Hold!LetGo \/ Hold!TakenAway \/ Hold!LeaveChat \/ Hold!Limit
  <2>1. \E send \in BOOLEAN : Hold!End(send)
    BY <1>6, Zenon DEF Hold!LetGo, Hold!TakenAway, Hold!LeaveChat, Hold!Limit, HoldFlags
  <2> QED BY <1>5, <2>1
<1>7. ASSUME NEW e \in hEnds, Hold!NativeStop(e) PROVE Steady'
  BY <1>7, StopsOn DEF Hold!NativeStop
<1>8. ASSUME NEW e \in hEnds, Hold!SessionReset(e) PROVE Steady'
  BY <1>8, StopsOn DEF Hold!SessionReset
<1>9. CASE UNCHANGED Hold!vars
  BY <1>9 DEF Hold!vars
<1> QED BY <1>1, <1>2, <1>3, <1>4, <1>6, <1>7, <1>8, <1>9 DEF Hold!Next

\* For any number of presses, as long as none meets an earlier one at work: a phone records
\* only while it shows that it does, and what it sends is the recording of the press that
\* asked for it (holdSession.ts:72).
THEOREM HoldSound == Hold!Spec => []Hold!RecordsAsShown
<1>1. HoldInv => Hold!RecordsAsShown
  BY DEF HoldInv, Steady, Hold!RecordsAsShown
<1>2. HoldInv /\ [Hold!Next]_(Hold!vars) => HoldInv'
  <2> SUFFICES ASSUME HoldInv, [Hold!Next]_(Hold!vars) PROVE HoldInv' OBVIOUS
  <2>1. HoldFlags /\ HoldValues
    BY HoldTypes DEF HoldInv
  <2>2. HoldFlags' /\ HoldValues'
    BY <2>1, HoldFlagsNext, HoldValuesNext DEF HoldInv
  <2>5. Captured'
    BY <2>1, CapturedNext DEF HoldInv
  <2>3. hStray => hStray'
    BY <2>1, Zenon DEF Hold!Next, Hold!vars, Hold!Begin, Hold!GiveUp, Hold!Permitted,
       Hold!SessionSet, Hold!Started, Hold!Slide, Hold!LetGo,
       Hold!TakenAway, Hold!LeaveChat, Hold!Limit, Hold!End, Hold!NativeStop, Hold!SessionReset,
         HoldFlags
  <2>4. ~hStray' => Steady'
    BY <2>1, <2>3, SteadyNext DEF HoldInv
  <2>6. Hold!TypeOK'
    BY <2>2 DEF Hold!TypeOK, HoldFlags, HoldValues
  <2> QED BY <2>4, <2>5, <2>6 DEF HoldInv
<1> QED BY <1>1, <1>2, HoldInit, PTL DEF Hold!Spec


(**************** Voice heard in a browser: VoicePlayback *****************)

\* The last event on its way from an element that is silent says so.
Silenced ==
  bSound = "off" /\ bEvents # <<>> => bEvents[Len(bEvents)] \in {"pause", "ended", "error"}

\* As long as no press met a URL on its way: the URLs that come are of the message
\* shown, and one that plays has its recording in the element, or is recovered.
PlaybackInTune ==
  /\ \A c \in Playback!AtUrl : c.of = bId
  /\ Playback!AtUrl = {} /\ ~bError => bSrc = bId
  /\ bSound = "off" /\ bId # None /\ bEvents = <<>> /\ bPlaying
       => \E c \in Playback!AtUrl : c.what = "recover"
  /\ ~bSignedIn => bId = None /\ bSound = "off"

PlaybackInv == Playback!TypeOK /\ Silenced /\ (~bStray => PlaybackInTune)

PlaybackFlags ==
  /\ bPlaying \in BOOLEAN /\ bLoading \in BOOLEAN /\ bError \in BOOLEAN /\ bRetried \in BOOLEAN
  /\ bSignedIn \in BOOLEAN /\ bStray \in BOOLEAN
PlaybackValues ==
  /\ bId \in VoiceMessages \cup {None} /\ bSrc \in VoiceMessages \cup {None}
  /\ bSound \in {"off", "waiting", "on"} /\ bCalls \subseteq Playback!Calls
  /\ bEvents \in Seq({"playing", "pause", "ended", "error"}) /\ bErrors \in 0..PlaybackErrors

LEMMA PlaybackTypes == Playback!TypeOK <=> PlaybackFlags /\ PlaybackValues
<1>1. {bPlaying, bLoading, bError, bRetried} \subseteq BOOLEAN
        /\ {bSignedIn, bStray} \subseteq BOOLEAN
        <=> PlaybackFlags
  BY DEF PlaybackFlags
<1>2. {bId, bSrc} \subseteq VoiceMessages \cup {None} <=>
        bId \in VoiceMessages \cup {None} /\ bSrc \in VoiceMessages \cup {None}
  OBVIOUS
<1> QED BY <1>1, <1>2, Zenon DEF Playback!TypeOK, PlaybackValues

LEMMA PlaybackInitHolds == Playback!Init => PlaybackInv
<1> SUFFICES ASSUME Playback!Init PROVE PlaybackInv OBVIOUS
<1>1. PlaybackFlags /\ bSignedIn /\ ~bPlaying
  BY Zenon DEF Playback!Init, PlaybackFlags
<1>2. PlaybackValues
  BY VoiceAssumption DEF Playback!Init, PlaybackValues
<1>3. Silenced /\ PlaybackInTune
  BY <1>1 DEF Playback!Init, Silenced, PlaybackInTune, Playback!AtUrl
<1> QED BY <1>1, <1>2, <1>3, PlaybackTypes DEF PlaybackInv

\* Whether something failed, or was asked, is true or false.
LEMMA PlaybackFlagsNext == ASSUME PlaybackFlags, [Playback!Next]_(Playback!vars)
                           PROVE  PlaybackFlags'
<1> USE DEF PlaybackFlags
<1>0. ASSUME NEW a, NEW b PROVE (a \/ b) \in BOOLEAN /\ (a /\ b) \in BOOLEAN /\ (~a) \in BOOLEAN
  OBVIOUS
<1>b. ASSUME NEW cs PROVE (\E c \in cs : c.what = "recover") \in BOOLEAN
  OBVIOUS
<1>s. ASSUME NEW cs, Playback!ShowRejected(cs)
      PROVE  bError' \in BOOLEAN /\ bLoading' \in BOOLEAN /\ bPlaying' \in BOOLEAN
  BY <1>s, <1>0, Zenon DEF Playback!ShowRejected
<1>1. ASSUME NEW m \in VoiceMessages, Playback!Play(m) PROVE PlaybackFlags'
  BY <1>1, <1>0, Zenon DEF Playback!Play
<1>2. CASE Playback!Pause
  BY <1>2, <1>s, Zenon DEF Playback!Pause
<1>3. CASE Playback!Begins \/ Playback!Ends
  BY <1>3, Zenon DEF Playback!Begins, Playback!Ends
<1>4. CASE Playback!Breaks
  BY <1>4, <1>s, Zenon DEF Playback!Breaks
<1>5. CASE Playback!OnEvent
  BY <1>5, Zenon DEF Playback!OnEvent, Playback!OnPlaying, Playback!OnPaused, Playback!Recover
<1>6. CASE Playback!Stop
  BY <1>6, <1>0, <1>b, Zenon DEF Playback!Stop
<1>7. ASSUME NEW c \in bCalls, Playback!LoadUrl(c) \/ Playback!LoadUrlFails(c)
      PROVE  PlaybackFlags'
  BY <1>7, <1>s, Zenon DEF Playback!LoadUrl, Playback!LoadUrlFails
<1>8. CASE UNCHANGED Playback!vars
  BY <1>8, Zenon DEF Playback!vars
<1> QED BY <1>1, <1>2, <1>3, <1>4, <1>5, <1>6, <1>7, <1>8, Zenon DEF Playback!Next

\* A queue and what comes to it or goes.
LEMMA Queued ==
  ASSUME NEW S, NEW q \in Seq(S)
  PROVE  /\ \A x \in S : /\ Append(q, x) \in Seq(S) /\ Append(q, x) # <<>>
                         /\ Append(q, x)[Len(Append(q, x))] = x
         /\ q # <<>> => /\ Tail(q) \in Seq(S) /\ Head(q) \in S
                        /\ Tail(q) # <<>> => Tail(q)[Len(Tail(q))] = q[Len(q)]
                        /\ Tail(q) = <<>> => Head(q) = q[Len(q)]
<1>1. ASSUME NEW x \in S
      PROVE /\ Append(q, x) \in Seq(S) /\ Append(q, x) # <<>>
                 /\ Append(q, x)[Len(Append(q, x))] = x
  OBVIOUS
<1>2. ASSUME q # <<>>
      PROVE  /\ Tail(q) \in Seq(S) /\ Head(q) \in S
             /\ Tail(q) # <<>> => Tail(q)[Len(Tail(q))] = q[Len(q)]
             /\ Tail(q) = <<>> => Head(q) = q[Len(q)]
  <2>1. Len(q) \in Nat \ {0} /\ Tail(q) \in Seq(S) /\ Len(Tail(q)) = Len(q) - 1
          /\ Head(q) = q[1]
    BY <1>2
  <2>2. \A i \in 1..(Len(q) - 1) : Tail(q)[i] = q[i + 1]
    BY <1>2
  <2>3. Head(q) \in S BY <1>2
  <2>4. Tail(q) # <<>> => Len(q) - 1 \in 1..(Len(q) - 1)
    BY <2>1
  <2>5. Tail(q) = <<>> => Len(q) = 1
    <3>1. Len(<<>>) = 0 OBVIOUS
    <3>2. Tail(q) = <<>> => Len(Tail(q)) = 0 BY <3>1, Zenon
    <3> QED BY <2>1, <3>2
  <2> QED BY <2>1, <2>2, <2>3, <2>4, <2>5
<1> QED BY <1>1, <1>2

LEMMA PlaybackValuesNext ==
  ASSUME PlaybackValues, Silenced, [Playback!Next]_(Playback!vars)
  PROVE  PlaybackValues' /\ Silenced'
<1> USE VoiceAssumption DEF PlaybackValues, Silenced
<1>q. \A x \in {"playing", "pause", "ended", "error"} :
        /\ Append(bEvents, x) \in Seq({"playing", "pause", "ended", "error"})
        /\ Append(bEvents, x) # <<>> /\ Append(bEvents, x)[Len(Append(bEvents, x))] = x
  BY Queued
<1>s. ASSUME Playback!Silence
      PROVE  bSound' = "off" /\ Silenced'
        /\ bEvents' \in Seq({"playing", "pause", "ended", "error"})
  BY <1>s, <1>q DEF Playback!Silence
<1>c. Playback!AtUrl \subseteq Playback!Calls
  BY DEF Playback!AtUrl
<1>1. ASSUME NEW m \in VoiceMessages, Playback!Play(m) PROVE PlaybackValues' /\ Silenced'
  <2>1. /\ bId' = m /\ UNCHANGED <<bSrc, bEvents, bErrors>>
        /\ \/ bCalls' = bCalls \cup {[of |-> m, what |-> "play", at |-> "playing"]}
           \/ bCalls' = bCalls \cup {[of |-> m, what |-> "play", at |-> "url"]}
    BY <1>1 DEF Playback!Play
  <2>2. bSound' = bSound \/ bSound' = "waiting"
    BY <1>1 DEF Playback!Play
  <2>3. bCalls' \subseteq Playback!Calls
    BY <2>1 DEF Playback!Calls
  <2> QED BY <2>1, <2>2, <2>3
<1>2. CASE Playback!Pause
  BY <1>2, <1>s, <1>c DEF Playback!Pause
<1>3. CASE Playback!Begins
  BY <1>3, <1>q, <1>c DEF Playback!Begins
<1>4. CASE Playback!Breaks
  BY <1>4, <1>q, <1>c DEF Playback!Breaks
<1>5. CASE Playback!Ends
  BY <1>5, <1>q DEF Playback!Ends
<1>6. CASE Playback!OnEvent
  <2>1. /\ bEvents # <<>> /\ bEvents' = Tail(bEvents)
             /\ UNCHANGED <<bId, bSrc, bSound, bErrors>>
        /\ \/ bCalls' = bCalls
           \/ bId # None /\ bCalls' = bCalls \cup {[of |-> bId, what |-> "recover",
                                                    at |-> "url"]}
    BY <1>6 DEF Playback!OnEvent, Playback!OnPlaying, Playback!OnPaused, Playback!Recover
  <2>2. Tail(bEvents) \in Seq({"playing", "pause", "ended", "error"})
        /\ (Tail(bEvents) # <<>> => Tail(bEvents)[Len(Tail(bEvents))] = bEvents[Len(bEvents)])
    BY <2>1, Queued
  <2>3. bCalls' \subseteq Playback!Calls
    BY <2>1 DEF Playback!Calls
  <2> QED BY <2>1, <2>2, <2>3
<1>7. CASE Playback!Stop
  BY <1>7, <1>s, <1>c DEF Playback!Stop
<1>8. ASSUME NEW c \in bCalls, Playback!LoadUrl(c) PROVE PlaybackValues' /\ Silenced'
  <2>1. c \in Playback!Calls /\ [c EXCEPT !.at = "playing"] \in Playback!Calls
    BY DEF Playback!Calls
  <2>2. /\ bSrc' = c.of /\ bEvents' = <<>> /\ bSound' \in {"off", "waiting"}
             /\ UNCHANGED <<bId, bErrors>>
        /\ bCalls' = (Playback!AtUrl \ {c}) \cup {[c EXCEPT !.at = "playing"]}
             \/ bCalls' = Playback!AtUrl \ {c}
    BY <1>8 DEF Playback!LoadUrl
  <2>3. bCalls' \subseteq Playback!Calls /\ c.of \in VoiceMessages
    BY <1>c, <2>1, <2>2 DEF Playback!Calls
  <2> QED BY <2>2, <2>3
<1>9. ASSUME NEW c \in bCalls, Playback!LoadUrlFails(c) PROVE PlaybackValues' /\ Silenced'
  BY <1>9 DEF Playback!LoadUrlFails
<1>10. CASE UNCHANGED Playback!vars
  BY <1>10 DEF Playback!vars
<1> QED BY <1>1, <1>2, <1>3, <1>4, <1>5, <1>6, <1>7, <1>8, <1>9, <1>10 DEF Playback!Next

LEMMA PlaybackInTuneNext ==
  ASSUME PlaybackFlags, PlaybackValues, Silenced, ~bStray, PlaybackInTune,
         [Playback!Next]_(Playback!vars), ~bStray'
  PROVE  PlaybackInTune'
<1>u. Playback!AtUrl = {c \in bCalls : c.at = "url"}
        /\ Playback!AtUrl' = {c \in bCalls' : c.at = "url"}
             /\ Playback!Pending = bCalls \ Playback!AtUrl
  BY DEF Playback!AtUrl, Playback!Pending
<1>n. None \notin VoiceMessages /\ (\A c \in bCalls : c.of \in VoiceMessages)
  BY VoiceAssumption DEF PlaybackValues, Playback!Calls
<1>v. ASSUME Playback!AtUrl' = Playback!AtUrl, UNCHANGED <<bId, bSrc>>, bError => bError',
             bPlaying' => bPlaying, 
             UNCHANGED bSignedIn,
             bSound = "off" => bSound' = "off",
             bSound' = "off" /\ bEvents' = <<>> => bSound = "off" /\ bEvents = <<>>
      PROVE  PlaybackInTune'
  BY <1>v DEF PlaybackInTune
<1>s. ASSUME NEW cs, Playback!ShowRejected(cs)
      PROVE  (bError => bError') /\ (bPlaying' => bPlaying)
  BY <1>s, Zenon DEF Playback!ShowRejected
<1>q. \A x \in {"playing", "pause", "ended", "error"} : Append(bEvents, x) # <<>>
  BY Queued DEF PlaybackValues
<1>p. ASSUME Playback!Silence, bSound' = "off" /\ bEvents' = <<>>
      PROVE  bSound = "off" /\ bEvents = <<>>
  BY <1>p, <1>q DEF Playback!Silence
<1>1. ASSUME NEW m \in VoiceMessages, Playback!Play(m) PROVE PlaybackInTune'
  <2>1. Playback!AtUrl = {} /\ bSignedIn /\ bId' = m /\ ~bPlaying' /\ ~bError'
          /\ UNCHANGED <<bSrc, bEvents, bSignedIn>>
    BY <1>1, Zenon DEF Playback!Play, Playback!MayPlay
  <2>2. CASE Playback!Same(m) /\ bCalls' = bCalls \cup {[of |-> m, what |-> "play",
                                                         at |-> "playing"]}
    <3>1. Playback!AtUrl' = {}
      BY <1>u, <2>1, <2>2
    <3>2. bId = m /\ ~bError
      BY <2>2, Zenon DEF Playback!Same
    <3> QED BY <2>1, <3>1, <3>2 DEF PlaybackInTune
  <2>3. CASE bCalls' = bCalls \cup {[of |-> m, what |-> "play", at |-> "url"]}
    <3>1. Playback!AtUrl' = {[of |-> m, what |-> "play", at |-> "url"]}
      BY <1>u, <2>1, <2>3
    <3>2. Playback!AtUrl' # {} /\ (\A c \in Playback!AtUrl' : c.of = bId')
      BY <2>1, <3>1
    <3>3. ~bPlaying' /\ bSignedIn'
      BY <2>1
    <3> QED BY <3>2, <3>3, Zenon DEF PlaybackInTune
  <2> QED BY <1>1, <2>2, <2>3, Zenon DEF Playback!Play
<1>2. CASE Playback!Pause
  <2>1. Playback!AtUrl' = Playback!AtUrl
    BY <1>2, <1>u DEF Playback!Pause
  <2> QED BY <1>2, <2>1, <1>s, <1>p, <1>v, Zenon DEF Playback!Pause, Playback!Silence
<1>3. CASE Playback!Begins
  <2>1. Playback!AtUrl' = Playback!AtUrl /\ bSound = "waiting" /\ bSound' = "on"
          /\ UNCHANGED <<bId, bSrc, bError, bSignedIn>>
    BY <1>3, <1>u DEF Playback!Begins
  <2> QED BY <2>1 DEF PlaybackInTune
<1>4. CASE Playback!Breaks
  <2>1. Playback!AtUrl' = Playback!AtUrl /\ bSound # "off" /\ bEvents' # <<>>
          /\ UNCHANGED <<bId, bSrc, bSignedIn>>
    BY <1>4, <1>u, <1>q DEF Playback!Breaks
  <2>2. bError => bError'
    BY <1>4, <1>s DEF Playback!Breaks
  <2> QED BY <2>1, <2>2 DEF PlaybackInTune
<1>5. CASE Playback!Ends
  <2>1. Playback!AtUrl' = Playback!AtUrl /\ bSound # "off" /\ bEvents' # <<>>
          /\ UNCHANGED <<bId, bSrc, bError, bSignedIn>>
    BY <1>5, <1>u, <1>q DEF Playback!Ends
  <2> QED BY <2>1 DEF PlaybackInTune
<1>6. CASE Playback!OnEvent
  <2>1. /\ bEvents # <<>> /\ bEvents' = Tail(bEvents)
             /\ UNCHANGED <<bId, bSrc, bSound, bSignedIn>>
        /\ (Playback!OnPlaying \/ Playback!OnPaused \/ Playback!Recover)
    BY <1>6 DEF Playback!OnEvent
  <2>2. Tail(bEvents) = <<>> => Head(bEvents) = bEvents[Len(bEvents)]
    BY <2>1, Queued DEF PlaybackValues
  <2>3. CASE Playback!OnPlaying
    <3>1. Playback!AtUrl' = Playback!AtUrl /\ bError' = bError
      BY <2>3, <1>u DEF Playback!OnPlaying
    <3>2. ~(bSound = "off" /\ bEvents' = <<>>)
      BY <2>1, <2>2, <2>3 DEF Playback!OnPlaying, Silenced
    <3> QED BY <2>1, <3>1, <3>2 DEF PlaybackInTune
  <2>4. CASE Playback!OnPaused
    <3>1. Playback!AtUrl' = Playback!AtUrl /\ bError' = bError /\ ~bPlaying'
      BY <2>4, <1>u DEF Playback!OnPaused
    <3> QED BY <2>1, <3>1 DEF PlaybackInTune
  <2>5. CASE Playback!Recover
    <3>1. CASE bId = None /\ UNCHANGED <<bPlaying, bError, bCalls>>
      BY <2>1, <3>1, <1>u DEF PlaybackInTune
    <3>2. CASE bId # None /\ bPlaying' = FALSE /\ bError' = TRUE /\ UNCHANGED bCalls
      BY <2>1, <3>2, <1>u DEF PlaybackInTune
    <3>3. CASE bId # None /\ bCalls' = bCalls \cup {[of |-> bId, what |-> "recover",
                                                     at |-> "url"]} /\ UNCHANGED <<bPlaying,
                                                                                   bError>>
      <4>1. Playback!AtUrl' = Playback!AtUrl \cup {[of |-> bId, what |-> "recover",
                                                    at |-> "url"]}
        BY <1>u, <3>3
      <4>2. /\ Playback!AtUrl' # {} /\ (\A c \in Playback!AtUrl' : c.of = bId')
            /\ \E c \in Playback!AtUrl' : c.what = "recover"
        <5>1. DEFINE r == [of |-> bId, what |-> "recover", at |-> "url"]
        <5>2. r.of = bId /\ r.what = "recover" /\ r \in Playback!AtUrl'
          BY <4>1
        <5>3. \A c \in Playback!AtUrl' : c \in Playback!AtUrl \/ c = r
          BY <4>1
        <5>4. (\A c \in Playback!AtUrl : c.of = bId) /\ bId' = bId
          BY <2>1 DEF PlaybackInTune
        <5> HIDE DEF r
        <5> QED BY <5>2, <5>3, <5>4
      <4>3. bSignedIn' /\ bId' # None
        BY <2>1, <3>3 DEF PlaybackInTune
      <4> QED BY <4>2, <4>3, Zenon DEF PlaybackInTune
    <3> QED BY <2>5, <3>1, <3>2, <3>3, Zenon DEF Playback!Recover
  <2> QED BY <2>1, <2>3, <2>4, <2>5
<1>7. CASE Playback!Stop
  <2>1. Playback!AtUrl = {} /\ bSound' = "off" /\ bSrc' = None /\ bId' = None
          /\ bCalls' = Playback!AtUrl
    BY <1>7, Zenon DEF Playback!Stop, Playback!Silence
  <2>2. Playback!AtUrl' = {}
    BY <1>u, <2>1
  <2> QED BY <2>1, <2>2 DEF PlaybackInTune
<1>8. ASSUME NEW c \in bCalls, Playback!LoadUrl(c) PROVE PlaybackInTune'
  <2>1. c \in Playback!AtUrl /\ c.of = bId /\ bSrc' = c.of /\ UNCHANGED <<bId, bSignedIn>>
    BY <1>8 DEF Playback!LoadUrl, PlaybackInTune
  <2>2. bSound' = "waiting"
          /\ bCalls' = (Playback!AtUrl \ {c}) \cup {[c EXCEPT !.at = "playing"]}
    BY <1>8, <2>1 DEF Playback!LoadUrl
  <2>3. Playback!AtUrl' \subseteq Playback!AtUrl
    BY <1>u, <2>1, <2>2 DEF PlaybackValues, Playback!Calls
  <2>4. bSignedIn
    BY <2>1, <1>n DEF PlaybackInTune
  <2> QED BY <2>1, <2>2, <2>3, <2>4 DEF PlaybackInTune
<1>9. ASSUME NEW c \in bCalls, Playback!LoadUrlFails(c) PROVE PlaybackInTune'
  <2>1. c \in Playback!AtUrl /\ c.of = bId /\ Playback!ShowRejected({c})
          /\ UNCHANGED <<bId, bSrc, bSound, bEvents, bSignedIn>>
        /\ Playback!AtUrl' = Playback!AtUrl \ {c}
    BY <1>9, <1>u DEF Playback!LoadUrlFails, PlaybackInTune
  <2>2. bError' /\ (bPlaying' => bPlaying) /\ (c.what = "recover" => ~bPlaying')
    BY <2>1, Zenon DEF Playback!ShowRejected, Playback!Failed
  <2> QED BY <2>1, <2>2 DEF PlaybackInTune
<1>10. CASE UNCHANGED Playback!vars
  BY <1>10 DEF Playback!vars, PlaybackInTune, Playback!AtUrl
<1> QED BY <1>1, <1>2, <1>3, <1>4, <1>5, <1>6, <1>7, <1>8, <1>9, <1>10, Zenon DEF Playback!Next

\* For any messages and failures, as long as no press meets a URL on its way: a browser
\* plays the message it shows as playing, and nothing once signed out
\* (voicePlayback.ts:71).
THEOREM PlaybackSound == Playback!Spec => []Playback!PlaysAsShown
<1>1. PlaybackInv => Playback!PlaysAsShown
  <2> SUFFICES ASSUME PlaybackInv, ~bStray, bEvents = <<>>
               PROVE  /\ bSound = "on" /\ Playback!AtUrl = {} /\ ~bError => bSrc = bId
                      /\ bPlaying /\ bId # None => bSound # "off" \/ Playback!AtUrl # {}
                      /\ ~bSignedIn => bSound = "off"
    BY DEF Playback!PlaysAsShown
  <2> QED BY DEF PlaybackInv, PlaybackInTune
<1>2. PlaybackInv /\ [Playback!Next]_(Playback!vars) => PlaybackInv'
  <2> SUFFICES ASSUME PlaybackInv, [Playback!Next]_(Playback!vars) PROVE PlaybackInv' OBVIOUS
  <2>1. PlaybackFlags /\ PlaybackValues /\ Silenced
    BY PlaybackTypes DEF PlaybackInv
  <2>2. PlaybackFlags' /\ PlaybackValues' /\ Silenced'
    BY <2>1, PlaybackFlagsNext, PlaybackValuesNext
  <2>3. Playback!TypeOK'
    BY <2>2 DEF Playback!TypeOK, PlaybackFlags, PlaybackValues
  <2>4. bStray => bStray'
    BY Zenon DEF Playback!Next, Playback!vars, Playback!Play, Playback!Pause, Playback!Begins,
       Playback!Breaks, Playback!Ends, Playback!OnEvent, Playback!Stop, Playback!LoadUrl,
       Playback!LoadUrlFails
  <2>5. ~bStray' => PlaybackInTune'
    BY <2>1, <2>4, PlaybackInTuneNext DEF PlaybackInv
  <2> QED BY <2>2, <2>3, <2>5 DEF PlaybackInv
<1> QED BY <1>1, <1>2, PlaybackInitHolds, PTL DEF Playback!Spec


(***************** Voice heard on a phone: PhonePlayback ******************)

\* As long as no press met another one at work: what is awaited is for the message
\* shown, and the player has its recording before it plays; with none shown, it is
\* silent and off the lock screen.
PlayerInTune ==
  /\ \A c \in lCalls : c.of = lId /\ (c.same \/ c.at = "seek" => lSource = lId)
  /\ lCalls = {} /\ ~lError /\ lId # None => lSource = lId
  /\ lId = None => ~lSounds /\ ~lLockScreen
  /\ lQuiet => lId = None

PlayerInv == Player!TypeOK /\ (~lStray => PlayerInTune)

PlayerFlags ==
  /\ lPlaying \in BOOLEAN /\ lLoading \in BOOLEAN /\ lError \in BOOLEAN /\ lLoaded \in BOOLEAN
  /\ lRetried \in BOOLEAN /\ lSounds \in BOOLEAN /\ lLockScreen \in BOOLEAN
  /\ lQuiet \in BOOLEAN /\ lStray \in BOOLEAN
PlayerValues ==
  /\ lId \in VoiceMessages \cup {None} /\ lSource \in VoiceMessages \cup {None}
  /\ lStatuses \in Seq({"playing", "paused", "finished", "failed"})
       /\ lCalls \subseteq Player!Calls
  /\ lErrors \in 0..PlayerErrors

LEMMA PlayerTypes == Player!TypeOK <=> PlayerFlags /\ PlayerValues
<1>1. {lPlaying, lLoading, lError, lLoaded, lRetried, lSounds, lLockScreen, lQuiet,
       lStray} \subseteq BOOLEAN
        <=> PlayerFlags
  BY DEF PlayerFlags
<1>2. {lId, lSource} \subseteq VoiceMessages \cup {None} <=>
        lId \in VoiceMessages \cup {None} /\ lSource \in VoiceMessages \cup {None}
  OBVIOUS
<1> QED BY <1>1, <1>2, Zenon DEF Player!TypeOK, PlayerValues

LEMMA PlayerInit == Player!Init => PlayerInv
<1> SUFFICES ASSUME Player!Init PROVE PlayerInv OBVIOUS
<1>1. PlayerFlags
  BY Zenon DEF Player!Init, PlayerFlags
<1>2. PlayerValues
  BY VoiceAssumption DEF Player!Init, PlayerValues
<1>3. ~lSounds /\ ~lLockScreen
  BY Zenon DEF Player!Init
<1>4. PlayerInTune
  BY <1>3 DEF Player!Init, PlayerInTune
<1> QED BY <1>1, <1>2, <1>4, PlayerTypes DEF PlayerInv

LEMMA PlayerUntouched ==
  /\ UNCHANGED Player!shown => lId' = lId /\ lPlaying' = lPlaying /\ lLoading' = lLoading
       /\ lError' = lError
  /\ UNCHANGED Player!player => lSource' = lSource /\ lSounds' = lSounds
       /\ lLockScreen' = lLockScreen
BY DEF Player!shown, Player!player

\* Whether something failed, plays or is awaited in vain is true or false.
LEMMA PlayerFlagsNext == ASSUME PlayerFlags, [Player!Next]_(Player!vars) PROVE PlayerFlags'
<1> USE DEF PlayerFlags
<1>0. ASSUME NEW a, NEW b PROVE (a \/ b) \in BOOLEAN /\ (a /\ b) \in BOOLEAN /\ (~a) \in BOOLEAN
  OBVIOUS
<1>n. ASSUME NEW a, NEW b PROVE (a # b) \in BOOLEAN /\ (a = b) \in BOOLEAN
  OBVIOUS
<1>p. Player!PauseSound => lSounds' \in BOOLEAN
  BY Zenon DEF Player!PauseSound
<1>1. ASSUME NEW m \in VoiceMessages, Player!Play(m) PROVE PlayerFlags'
  <2>1. \E same : lLoading' = ~same
    BY <1>1, Zenon DEF Player!Play
  <2>2. lLoading' \in BOOLEAN
    BY <2>1, <1>0, Zenon
  <2>3. lStray' \in BOOLEAN
    BY <1>1, <1>0, Zenon DEF Player!Play
  <2>4. lError' = FALSE /\ lPlaying' = FALSE /\ lQuiet' = FALSE
        /\ lLoaded' = lLoaded /\ lRetried' = lRetried /\ UNCHANGED Player!player
    BY <1>1, Zenon DEF Player!Play
  <2> QED BY <2>2, <2>3, <2>4, PlayerUntouched, Zenon
<1>2. CASE Player!Pause
  BY <1>2, <1>p, PlayerUntouched, Zenon DEF Player!Pause
<1>3. CASE Player!Finishes
  BY <1>3, PlayerUntouched, Zenon DEF Player!Finishes
<1>4. CASE Player!Breaks
  BY <1>4, PlayerUntouched, Zenon DEF Player!Breaks
<1>5. CASE Player!OnStatus
  <2>1. /\ UNCHANGED <<lLoaded, lSounds, lQuiet, lStray>>
        /\ \/ UNCHANGED <<lPlaying, lLoading, lError, lRetried, lLockScreen>>
           \/ Player!Recover /\ UNCHANGED lLockScreen
           \/ lPlaying' = FALSE /\ lLoading' = FALSE /\ lLockScreen' = FALSE
                /\ UNCHANGED <<lError, lRetried>>
           \/ /\ \E s : lPlaying' = (s = "playing")
              /\ \E s : lLoading' = (lLoading /\ s # "playing")
              /\ UNCHANGED <<lError, lRetried, lLockScreen>>
    BY <1>5, Zenon DEF Player!OnStatus
  <2>2. Player!Recover => /\ lPlaying' \in BOOLEAN /\ lLoading' \in BOOLEAN
                               /\ lError' \in BOOLEAN
                          /\ lRetried' \in BOOLEAN
    BY Zenon DEF Player!Recover
  <2> QED BY <2>1, <2>2, <1>0, <1>n, Zenon
<1>6. CASE Player!Stop
  <2>1. lSounds' \in BOOLEAN /\ lLockScreen' \in BOOLEAN
    BY <1>6, <1>p, Zenon DEF Player!Stop
  <2>2. lStray' \in BOOLEAN
    BY <1>6, <1>0, Zenon DEF Player!Stop
  <2> QED BY <1>6, <2>1, <2>2, Zenon DEF Player!Stop
<1>7. ASSUME NEW c \in lCalls, Player!Prepared(c) PROVE PlayerFlags'
  BY <1>7, PlayerUntouched, Zenon DEF Player!Prepared
<1>8. ASSUME NEW c \in lCalls, Player!LoadUrl(c) PROVE PlayerFlags'
  <2>1. lLoaded' \in BOOLEAN /\ lSounds' \in BOOLEAN /\ lLockScreen' \in BOOLEAN
    BY <1>8, <1>0, <1>p, PlayerUntouched, Zenon DEF Player!LoadUrl
  <2> QED BY <1>8, <2>1, PlayerUntouched, Zenon DEF Player!LoadUrl
<1>9. ASSUME NEW c \in lCalls, Player!Plays(c) PROVE PlayerFlags'
  <2>1. lSounds' \in BOOLEAN /\ lLockScreen' \in BOOLEAN
    BY <1>9, <1>0, <1>n, Zenon DEF Player!Plays
  <2> QED BY <1>9, <2>1, PlayerUntouched, Zenon DEF Player!Plays
<1>10. ASSUME NEW c \in lCalls, Player!Fails(c) PROVE PlayerFlags'
  BY <1>10, PlayerUntouched, Zenon DEF Player!Fails
<1>11. CASE UNCHANGED Player!vars
  BY <1>11, Zenon DEF Player!vars
<1> QED BY <1>1, <1>2, <1>3, <1>4, <1>5, <1>6, <1>7, <1>8, <1>9, <1>10, <1>11, Zenon
   DEF Player!Next

LEMMA PlayerValuesNext == ASSUME PlayerValues, [Player!Next]_(Player!vars) PROVE PlayerValues'
<1> USE VoiceAssumption, PlayerUntouched DEF PlayerValues
<1>s. ASSUME NEW s \in {"playing", "paused", "finished", "failed"}, Player!Says(s)
      PROVE  lStatuses' \in Seq({"playing", "paused", "finished", "failed"})
  BY <1>s DEF Player!Says
<1>p. Player!PauseSound => lStatuses' \in Seq({"playing", "paused", "finished", "failed"})
  BY <1>s DEF Player!PauseSound
<1>1. ASSUME NEW m \in VoiceMessages, Player!Play(m) PROVE PlayerValues'
  <2>1. /\ lId' = m /\ UNCHANGED <<lSource, lStatuses, lErrors>>
        /\ \E same \in BOOLEAN :
             lCalls' = lCalls \cup {[of |-> m, same |-> same, what |-> "play",
                                     at |-> "prepare"]}
    <3>1. (lId = m /\ lLoaded /\ ~lError) \in BOOLEAN OBVIOUS
    <3> QED BY <1>1, <3>1 DEF Player!Play
  <2>2. lCalls' \subseteq Player!Calls
    BY <2>1 DEF Player!Calls
  <2> QED BY <2>1, <2>2
<1>2. CASE Player!Pause
  BY <1>2, <1>p DEF Player!Pause
<1>3. CASE Player!Finishes
  BY <1>3, <1>s DEF Player!Finishes
<1>4. CASE Player!Breaks
  BY <1>4, <1>s DEF Player!Breaks
<1>5. CASE Player!OnStatus
  <2>1. /\ lStatuses # <<>> /\ lStatuses' = Tail(lStatuses)
             /\ UNCHANGED <<lId, lSource, lErrors>>
        /\ \/ lCalls' = lCalls
           \/ /\ lId # None
              /\ lCalls' = lCalls \cup {[of |-> lId, same |-> FALSE, what |-> "recover",
                                         at |-> "url"]}
    BY <1>5 DEF Player!OnStatus, Player!Recover
  <2>2. lId # None => [of |-> lId, same |-> FALSE, what |-> "recover",
                       at |-> "url"] \in Player!Calls
    BY DEF Player!Calls
  <2>3. lCalls' \subseteq Player!Calls
    <3> DEFINE r == [of |-> lId, same |-> FALSE, what |-> "recover", at |-> "url"]
    <3>1. lCalls' = lCalls \/ (r \in Player!Calls /\ lCalls' = lCalls \cup {r})
      BY <2>1, <2>2
    <3> HIDE DEF r
    <3> QED BY <3>1
  <2>4. Tail(lStatuses) \in Seq({"playing", "paused", "finished", "failed"})
    BY <2>1
  <2> QED BY <2>1, <2>3, <2>4
<1>6. CASE Player!Stop
  BY <1>6, <1>p DEF Player!Stop
<1>7. ASSUME NEW c \in lCalls, NEW at \in {"url", "seek"}, Player!Goes(c, at)
      PROVE  lCalls' \subseteq Player!Calls
  <2>1. [c EXCEPT !.at = at] \in Player!Calls
    BY DEF Player!Calls
  <2> QED BY <2>1, <1>7 DEF Player!Goes
<1>8. ASSUME NEW c \in lCalls, Player!Prepared(c) PROVE PlayerValues'
  BY <1>7, <1>8 DEF Player!Prepared
<1>9. ASSUME NEW c \in lCalls, Player!LoadUrl(c) PROVE PlayerValues'
  <2>1. c.of \in VoiceMessages
    BY DEF Player!Calls
  <2>2. lCalls' \subseteq Player!Calls
    BY <1>7, <1>9 DEF Player!LoadUrl
  <2>3. lSource' \in VoiceMessages \cup {None} /\ lId' = lId /\ lErrors' = lErrors
    BY <1>9, <2>1 DEF Player!LoadUrl
  <2>4. lStatuses' \in Seq({"playing", "paused", "finished", "failed"})
    BY <1>9, <1>p DEF Player!LoadUrl
  <2> QED BY <2>2, <2>3, <2>4
<1>10. ASSUME NEW c \in lCalls, Player!Plays(c) PROVE PlayerValues'
  BY <1>10, <1>s DEF Player!Plays
<1>11. ASSUME NEW c \in lCalls, Player!Fails(c) PROVE PlayerValues'
  BY <1>11 DEF Player!Fails
<1>12. CASE UNCHANGED Player!vars
  BY <1>12 DEF Player!vars
<1> QED BY <1>1, <1>2, <1>3, <1>4, <1>5, <1>6, <1>8, <1>9, <1>10, <1>11, <1>12 DEF Player!Next

LEMMA PlayerInTuneNext ==
  ASSUME PlayerFlags, PlayerValues, ~lStray, PlayerInTune, [Player!Next]_(Player!vars), ~lStray'
  PROVE  PlayerInTune'
<1> USE VoiceAssumption, PlayerUntouched
<1>m. (\A c \in lCalls : c.of \in VoiceMessages) /\ lCalls \subseteq Player!Calls
  BY DEF PlayerValues, Player!Calls
<1>v. ASSUME lCalls' = lCalls, UNCHANGED <<lId, lSource>>, lError => lError', lSounds'
        => lSounds,
             lLockScreen' => lLockScreen, lQuiet' => lQuiet
      PROVE  PlayerInTune'
  BY <1>v DEF PlayerInTune
<1>p. Player!PauseSound => ~lSounds'
  BY Zenon DEF Player!PauseSound
<1>1. ASSUME NEW m \in VoiceMessages, Player!Play(m) PROVE PlayerInTune'
  <2>1. lCalls = {} /\ lId' = m /\ m # None /\ lSource' = lSource /\ lQuiet' = FALSE
    BY <1>1, Zenon DEF Player!Play
  <2>2. PICK same \in BOOLEAN :
          /\ same => lId = m /\ ~lError
          /\ lCalls' = lCalls \cup {[of |-> m, same |-> same, what |-> "play",
                                     at |-> "prepare"]}
    <3>1. (lId = m /\ lLoaded /\ ~lError) \in BOOLEAN OBVIOUS
    <3> QED BY <1>1, <3>1 DEF Player!Play
  <2>3. same => lSource = m
    BY <2>1, <2>2 DEF PlayerInTune
  <2>4. \A c \in lCalls' : c.of = m /\ c.same = same /\ c.at = "prepare"
    BY <2>1, <2>2
  <2>5. lCalls' # {}
    BY <2>2
  <2> QED BY <2>1, <2>3, <2>4, <2>5 DEF PlayerInTune
<1>2. CASE Player!Pause
  <2>1. UNCHANGED <<lCalls, lSource, lLockScreen, lQuiet>> /\ UNCHANGED Player!shown
          /\ ~lSounds'
    BY <1>2, <1>p, Zenon DEF Player!Pause
  <2> QED BY <2>1, <1>v
<1>3. CASE Player!Finishes
  <2>1. UNCHANGED <<lCalls, lSource, lLockScreen, lQuiet>> /\ UNCHANGED Player!shown
          /\ ~lSounds'
    BY <1>3, Zenon DEF Player!Finishes
  <2> QED BY <2>1, <1>v
<1>4. CASE Player!Breaks
  <2>1. UNCHANGED <<lCalls, lSource, lLockScreen, lQuiet>> /\ UNCHANGED Player!shown
          /\ ~lSounds'
    BY <1>4, Zenon DEF Player!Breaks
  <2> QED BY <2>1, <1>v
<1>5. CASE Player!OnStatus
  <2>1. /\ UNCHANGED <<lId, lSource, lSounds, lQuiet>>
        /\ \/ UNCHANGED <<lCalls, lError, lLockScreen>>
           \/ UNCHANGED <<lCalls, lError>> /\ lLockScreen' = FALSE
           \/ lId # None /\ Player!Recover /\ UNCHANGED lLockScreen
    BY <1>5, Zenon DEF Player!OnStatus
  <2>2. CASE UNCHANGED lCalls /\ (lError => lError') /\ (lLockScreen' => lLockScreen)
    BY <2>1, <2>2, <1>v
  <2>3. CASE /\ lId # None /\ UNCHANGED <<lError, lLockScreen>>
             /\ lCalls' = lCalls \cup {[of |-> lId, same |-> FALSE, what |-> "recover",
                                        at |-> "url"]}
    <3> DEFINE r == [of |-> lId, same |-> FALSE, what |-> "recover", at |-> "url"]
    <3>1. r.of = lId /\ ~r.same /\ r.at = "url" OBVIOUS
    <3>2. lCalls' # {} /\ (\A c \in lCalls' : c \in lCalls \/ c = r)
      BY <2>3
    <3> HIDE DEF r
    <3> QED BY <2>1, <2>3, <3>1, <3>2 DEF PlayerInTune
  <2>4. Player!Recover =>
          \/ UNCHANGED lCalls /\ lError'
          \/ /\ UNCHANGED lError
             /\ lCalls' = lCalls \cup {[of |-> lId, same |-> FALSE, what |-> "recover",
                                        at |-> "url"]}
    BY Zenon DEF Player!Recover
  <2> QED BY <2>1, <2>2, <2>3, <2>4
<1>6. CASE Player!Stop
  <2>1. lCalls = {} /\ UNCHANGED lCalls /\ lId' = None
    BY <1>6, Zenon DEF Player!Stop
  <2>2. ~lSounds' /\ ~lLockScreen'
    <3>1. CASE lId # None /\ Player!PauseSound /\ lLockScreen' = FALSE
      BY <3>1, <1>p
    <3>2. CASE lId = None /\ UNCHANGED <<lSounds, lLockScreen>>
      BY <3>2 DEF PlayerInTune
    <3> QED BY <1>6, <3>1, <3>2, Zenon DEF Player!Stop
  <2> QED BY <2>1, <2>2 DEF PlayerInTune
<1>g. ASSUME NEW c \in lCalls, NEW at \in {"url", "seek"}, Player!Goes(c, at)
      PROVE  /\ lCalls' # {}
             /\ \A d \in lCalls' : \/ d \in lCalls
                                   \/ d.of = c.of /\ d.same = c.same /\ d.at = at
  <2>1. c \in Player!Calls BY <1>m
  <2>2. /\ [c EXCEPT !.at = at].of = c.of /\ [c EXCEPT !.at = at].same = c.same
        /\ [c EXCEPT !.at = at].at = at
    BY <2>1 DEF Player!Calls
  <2> QED BY <1>g, <2>2 DEF Player!Goes
<1>7. ASSUME NEW c \in lCalls, Player!Prepared(c) PROVE PlayerInTune'
  <2>1. UNCHANGED Player!shown /\ UNCHANGED Player!player /\ lQuiet' = lQuiet
    BY <1>7, Zenon DEF Player!Prepared
  <2>2. \E at \in {"url", "seek"} : Player!Goes(c, at) /\ (at = "seek" => c.same)
    BY <1>7 DEF Player!Prepared
  <2>3. /\ lCalls' # {}
        /\ \A d \in lCalls' : \/ d \in lCalls
                              \/ d.of = c.of /\ d.same = c.same /\ (d.at = "seek" => c.same)
    BY <2>2, <1>g
  <2> QED BY <2>1, <2>3 DEF PlayerInTune
<1>8. ASSUME NEW c \in lCalls, Player!LoadUrl(c) PROVE PlayerInTune'
  <2>1. c.of = lId /\ lId # None
    BY <1>m DEF PlayerInTune
  <2>2. /\ Player!Goes(c, "seek") /\ lSource' = lId /\ Player!PauseSound /\ lId' = lId
             /\ lQuiet' = lQuiet
    BY <1>8, <2>1 DEF Player!LoadUrl
  <2>3. lCalls' # {} /\ \A d \in lCalls' : d.of = lId
    BY <2>1, <2>2, <1>g DEF PlayerInTune
  <2> QED BY <2>1, <2>2, <2>3 DEF PlayerInTune
<1>9. ASSUME NEW c \in lCalls, Player!Plays(c) PROVE PlayerInTune'
  <2>1. c.of = lId /\ lId # None /\ (c.at = "seek" => lSource = lId)
    BY <1>m DEF PlayerInTune
  <2>2. c.at = "seek" /\ lCalls' = lCalls \ {c} /\ UNCHANGED <<lSource, lQuiet>>
          /\ UNCHANGED Player!shown
    BY <1>9, Zenon DEF Player!Plays
  <2> QED BY <2>1, <2>2 DEF PlayerInTune
<1>10. ASSUME NEW c \in lCalls, Player!Fails(c) PROVE PlayerInTune'
  <2>1. c.of = lId /\ lId # None
    BY <1>m DEF PlayerInTune
  <2>2. lCalls' = lCalls \ {c} /\ lError' /\ UNCHANGED <<lId, lQuiet>>
          /\ UNCHANGED Player!player
    BY <1>10, <2>1, Zenon DEF Player!Fails
  <2> QED BY <2>1, <2>2 DEF PlayerInTune
<1>11. CASE UNCHANGED Player!vars
  BY <1>11, <1>v, Zenon DEF Player!vars
<1> QED BY <1>1, <1>2, <1>3, <1>4, <1>5, <1>6, <1>7, <1>8, <1>9, <1>10, <1>11, Zenon
   DEF Player!Next

\* For any messages and failures, as long as no press meets an earlier one at work: a phone
\* plays the message it shows, and nothing in a call or once signed out
\* (playback.ts:89).
THEOREM PlayerSound == Player!Spec => []Player!HeardAsShown
<1>1. PlayerInv => Player!HeardAsShown
  <2> SUFFICES ASSUME PlayerInv, ~lStray
               PROVE  /\ lSounds /\ lCalls = {} /\ ~lError => lSource = lId
                      /\ lQuiet => ~lSounds /\ ~lLockScreen
    BY DEF Player!HeardAsShown
  <2> QED BY DEF PlayerInv, PlayerInTune
<1>2. PlayerInv /\ [Player!Next]_(Player!vars) => PlayerInv'
  <2> SUFFICES ASSUME PlayerInv, [Player!Next]_(Player!vars) PROVE PlayerInv' OBVIOUS
  <2>1. PlayerFlags /\ PlayerValues
    BY PlayerTypes DEF PlayerInv
  <2>2. PlayerFlags' /\ PlayerValues'
    BY <2>1, PlayerFlagsNext, PlayerValuesNext
  <2>3. Player!TypeOK'
    BY <2>2 DEF Player!TypeOK, PlayerFlags, PlayerValues
  <2>4. lStray => lStray'
    BY Zenon DEF Player!Next, Player!vars, Player!Play, Player!Pause, Player!Finishes,
       Player!Breaks, Player!OnStatus, Player!Stop, Player!Prepared, Player!LoadUrl,
       Player!Plays, Player!Fails
  <2>5. ~lStray' => PlayerInTune'
    BY <2>1, <2>4, PlayerInTuneNext DEF PlayerInv
  <2> QED BY <2>3, <2>5 DEF PlayerInv
<1> QED BY <1>1, <1>2, PlayerInit, PTL DEF Player!Spec

(**************** A group call on screen: GroupCallScreens ****************)

\* A screen that is not there opens nothing and shows nothing.
RoomGone ==
  ~Room!Session => "screen" \notin gStarting \cup gOpening \cup gCameras /\ gTurning = {}

\* As long as nobody left or pressed while something was awaited: the phone's audio
\* session is that of the call there is, and everything is its screen's.
AudioIs ==
  gClient = "phone" =>
    /\ gAudio = "call" <=> gOneToOne = "live"
    /\ gAudio = "group" => Room!Session
    /\ "left" \notin gStarting \cup gOpening \cup gCameras

\* And LiveKit is asked for one thing at a time, which the switch says and is not so.
TurningAsTold ==
  /\ "set" \in gTurning => gBlur /\ ~gProcessor
  /\ "stop" \in gTurning => ~gBlur /\ gProcessor
  /\ gClient = "web" /\ ~gMinimised /\ "screen" \in gCameras /\ gTurning = {}
       => gProcessor = gBlur

RoomInv ==
  /\ Room!TypeOK /\ Room!OneKindOfCall /\ Room!InTheirOwnCall /\ RoomGone
  /\ ~gHasty => AudioIs /\ (gClient = "web" => TurningAsTold)

RoomFlags == gBlur \in BOOLEAN /\ gProcessor \in BOOLEAN /\ gMinimised \in BOOLEAN
  /\ gHasty \in BOOLEAN
RoomValues ==
  /\ gClient \in {"web", "phone"} /\ gAuth \in {"in", "loading", "out"}
  /\ gUser \in Callers \cup {None} /\ gOneToOne \in {"none", "incoming", "live"}
  /\ gJoined \in Room!Sessions \cup {None} /\ gJoining \in CallGroups \cup {None}
  /\ gJoins \subseteq Room!Sessions
  /\ gAudio \in {"off", "group", "call"} /\ gStarting \subseteq Room!Of
       /\ gOpening \subseteq Room!Of
  /\ gCameras \subseteq Room!Of /\ gTurning \subseteq {"set", "stop"}

LEMMA RoomTypes == Room!TypeOK <=> RoomFlags /\ RoomValues
<1>1. {gBlur, gProcessor, gMinimised, gHasty} \subseteq BOOLEAN <=> RoomFlags
  BY DEF RoomFlags
<1> QED BY <1>1, Zenon DEF Room!TypeOK, RoomValues

LEMMA RoomUntouched ==
  /\ UNCHANGED Room!people => gClient' = gClient /\ gAuth' = gAuth /\ gUser' = gUser
                         /\ gOneToOne' = gOneToOne /\ gJoined' = gJoined
  /\ UNCHANGED Room!blurs => gBlur' = gBlur /\ gProcessor' = gProcessor /\ gTurning' = gTurning
                        /\ gMinimised' = gMinimised
BY DEF Room!people, Room!blurs

\* What a render may do to the screen and the sound: the screen leaves, a phone's or
\* a browser's screen comes, or the sound follows the 1:1 call.
RendersIs(j, a, u, one) ==
  /\ gAuth' = a /\ gUser' = u /\ gOneToOne' = one
  /\ gJoined' \in {j, None}
  /\ gJoined' # None => one # "live" /\ (u # None => gJoined'.user = u)
  /\ \/ Room!Session /\ gJoined' = None /\ Room!ScreenLeaves
       /\ gAudio' = Room!AudioLeft(one = "live")
     \/ /\ ~Room!Session /\ j # None /\ gClient = "phone"
        /\ \/ one # "live" /\ gStarting' = gStarting \cup {"screen"} /\ gHasty' = gHasty
             /\ gJoined' = j
           \/ one = "live" /\ gStarting' = gStarting \cup {"left"} /\ gHasty' = TRUE
        /\ UNCHANGED <<gAudio, gOpening, gCameras, Room!blurs>>
     \/ /\ ~Room!Session /\ j # None /\ gClient = "web" /\ gBlur' \in BOOLEAN
        /\ UNCHANGED <<gAudio, gStarting, gOpening, gCameras, gProcessor, gTurning, gMinimised,
                       gHasty>>
     \/ /\ (gJoined' # None <=> Room!Session)
        /\ gAudio' = IF one = "live" THEN "call" ELSE IF gOneToOne = "live" THEN "off" ELSE gAudio
        /\ UNCHANGED <<gStarting, gOpening, gCameras, Room!blurs, gHasty>>

LEMMA WhatRenders ==
  ASSUME NEW j, NEW a, NEW u, NEW one, RoomFlags, Room!Renders(j, a, u, one)
  PROVE  RendersIs(j, a, u, one)
<1> DEFINE keeps == Room!Mine(j, a, u)
<1>1. /\ gAuth' = a /\ gUser' = u /\ gOneToOne' = one
      /\ gJoined' = IF keeps /\ one # "live" THEN j ELSE None
  BY Zenon DEF Room!Renders, Room!Answered
<1>2. keeps => j # None /\ (u # None => j.user = u)
  BY Zenon DEF Room!Mine
<1>3. gJoined' \in {j, None}
        /\ (gJoined' # None => one # "live" /\ (u # None => gJoined'.user = u))
  BY <1>1, <1>2
<1>4. \/ Room!Session /\ gJoined' = None /\ Room!ScreenLeaves
           /\ gAudio' = Room!AudioLeft(one = "live")
      \/ /\ keeps /\ ~Room!Session /\ gClient = "phone"
         /\ gStarting' = gStarting \cup {IF one = "live" THEN "left" ELSE "screen"}
         /\ gHasty' = (gHasty \/ one = "live")
         /\ UNCHANGED <<gAudio, gOpening, gCameras, Room!blurs>>
      \/ /\ keeps /\ ~Room!Session /\ gClient = "web" /\ gBlur' \in BOOLEAN
         /\ UNCHANGED <<gAudio, gStarting, gOpening, gCameras, gProcessor, gTurning, gMinimised,
                        gHasty>>
      \/ /\ ~(keeps /\ ~Room!Session) /\ (Room!Session => gJoined' # None)
         /\ gAudio' = IF one = "live" THEN "call"
                     ELSE IF gOneToOne = "live" THEN "off" ELSE gAudio
         /\ UNCHANGED <<gStarting, gOpening, gCameras, Room!blurs, gHasty>>
  BY Zenon DEF Room!Renders, Room!Answered
<1>5. ASSUME keeps, ~Room!Session, gClient = "phone",
             gStarting' = gStarting \cup {IF one = "live" THEN "left" ELSE "screen"},
             gHasty' = (gHasty \/ one = "live"),
               UNCHANGED <<gAudio, gOpening, gCameras, Room!blurs>>
      PROVE  RendersIs(j, a, u, one)
  <2>1. CASE one = "live"
    <3>1. gHasty' = TRUE BY <1>5, <2>1
    <3>2. gStarting' = gStarting \cup {"left"} BY <1>5, <2>1
    <3> QED BY <1>1, <1>2, <1>3, <1>5, <2>1, <3>1, <3>2, Zenon DEF RendersIs
  <2>2. CASE one # "live"
    <3>1. gHasty' = gHasty BY <1>5, <2>2, Zenon DEF RoomFlags
    <3>2. gStarting' = gStarting \cup {"screen"} BY <1>5, <2>2
    <3>3. gJoined' = j BY <1>1, <1>5, <2>2
    <3> QED BY <1>1, <1>2, <1>3, <1>5, <2>2, <3>1, <3>2, <3>3, Zenon DEF RendersIs
  <2> QED BY <2>1, <2>2
<1>6. ASSUME ~(keeps /\ ~Room!Session), Room!Session => gJoined' # None
      PROVE  gJoined' # None <=> Room!Session
  BY <1>1, <1>6
<1> HIDE DEF keeps
<1> QED BY <1>1, <1>2, <1>3, <1>4, <1>5, <1>6, Zenon DEF RendersIs

\* A render is of a call one is in, or of an answer that came for the person who is
\* signed in; who is signed in changes or the 1:1 call does, never both and a join.
RendersOf(j, a, u, one) ==
  /\ Room!Renders(j, a, u, one) /\ gClient' = gClient
  /\ j \in Room!Sessions \cup {None} /\ a \in {"in", "loading", "out"}
       /\ u \in Callers \cup {None}
  /\ one \in {"none", "incoming", "live"}
  /\ j \in {gJoined, None} \/ one = gOneToOne
  /\ gJoins' \subseteq Room!Sessions /\ gJoining' \in CallGroups \cup {None}

LEMMA WhoRenders ==
  ASSUME RoomValues,
         \/ \E r \in gJoins : Room!Joined(r)
         \/ Room!Leave \/ Room!Loads \/ Room!SignsOut \/ Room!Calls
         \/ \E u \in Callers : Room!SignsIn(u)
  PROVE  \E j, a, u, one : RendersOf(j, a, u, one)
<1> USE DEF RoomValues
<1>1. ASSUME NEW r \in gJoins, Room!Joined(r) PROVE RendersOf(r, gAuth, gUser, gOneToOne)
  BY <1>1 DEF Room!Joined, RendersOf
<1>2. CASE Room!Leave
  <2>1. RendersOf(None, gAuth, gUser, gOneToOne)
    BY <1>2 DEF Room!Leave, RendersOf
  <2> QED BY <2>1
<1>3. CASE Room!Loads
  <2>1. RendersOf(gJoined, "loading", None, gOneToOne)
    BY <1>3 DEF Room!Loads, RendersOf
  <2> QED BY <2>1
<1>4. CASE Room!SignsOut
  <2>1. RendersOf(gJoined, "out", None, "none")
    BY <1>4 DEF Room!SignsOut, RendersOf
  <2> QED BY <2>1
<1>5. CASE Room!Calls
  <2>1. \E one \in {"none", "incoming", "live"} :
          Room!Renders(gJoined, gAuth, gUser, one) /\ UNCHANGED <<gClient, gJoining, gJoins>>
    BY <1>5 DEF Room!Calls
  <2>2. PICK one \in {"none", "incoming", "live"} : RendersOf(gJoined, gAuth, gUser, one)
    BY <2>1 DEF RendersOf
  <2> QED BY <2>2
<1>6. ASSUME NEW u \in Callers, Room!SignsIn(u) PROVE RendersOf(gJoined, "in", u, gOneToOne)
  BY <1>6 DEF Room!SignsIn, RendersOf
<1> QED BY <1>1, <1>2, <1>3, <1>4, <1>5, <1>6

LEMMA RendersKeeps ==
  ASSUME RoomInv, NEW j, NEW a, NEW u, NEW one, RendersOf(j, a, u, one)
  PROVE  RoomInv'
<1>0. RoomFlags /\ RoomValues
  BY RoomTypes DEF RoomInv
<1>1. RendersIs(j, a, u, one) /\ gClient' = gClient
  BY <1>0, WhatRenders DEF RendersOf
<1>2. Room!OneKindOfCall' /\ Room!InTheirOwnCall'
  BY <1>1 DEF RendersIs, Room!OneKindOfCall, Room!InTheirOwnCall, Room!Session
<1>3. CASE Room!Session /\ gJoined' = None /\ Room!ScreenLeaves
        /\ gAudio' = Room!AudioLeft(one = "live")
  <2>1. /\ gStarting' = Room!Left(gStarting) /\ gTurning' = {}
             /\ gCameras' = gCameras \ {"screen"}
        /\ gOpening' = IF gClient = "phone" THEN Room!Left(gOpening) ELSE {}
        /\ gProcessor' = FALSE /\ gBlur' = FALSE /\ gMinimised' = FALSE
        /\ gHasty' = (gHasty \/ gStarting # {} \/ gOpening # {} \/ gTurning # {})
    BY <1>3, Zenon DEF Room!ScreenLeaves
  <2>2. gHasty' \in BOOLEAN
    BY <2>1, Zenon
  <2>3. RoomFlags'
    BY <2>1, <2>2, Zenon DEF RoomFlags
  <2>4. gStarting' \subseteq {"left"} /\ gOpening' \subseteq {"left"}
          /\ gAudio' \in {"off", "group", "call"}
    BY <1>0, <1>3, <2>1 DEF Room!Left, Room!AudioLeft, RoomValues
  <2>5. RoomValues'
    BY <1>0, <1>1, <2>1, <2>4 DEF RoomValues, RendersOf, RendersIs, Room!Of
  <2>6. RoomGone'
    BY <2>1, <2>4 DEF RoomGone
  <2>7. ~gHasty' => AudioIs'
    <3>1. SUFFICES ASSUME ~gHasty', gClient = "phone" PROVE AudioIs' BY <1>1 DEF AudioIs
    <3>2. ~gHasty /\ gStarting = {} /\ gOpening = {}
      BY <2>1, <3>1, Zenon
    <3>3. AudioIs
      BY <3>2 DEF RoomInv
    <3>4. gAudio' = IF one = "live" THEN "call" ELSE "off"
      BY <1>3, <3>1 DEF Room!AudioLeft
    <3>5. gStarting' = {} /\ gOpening' = {} /\ "left" \notin gCameras'
      BY <2>1, <3>1, <3>2, <3>3 DEF AudioIs, Room!Left
    <3> QED BY <1>1, <1>3, <3>1, <3>4, <3>5 DEF AudioIs, RendersIs
  <2>8. TurningAsTold'
    BY <2>1 DEF TurningAsTold
  <2> QED BY <1>2, <2>3, <2>5, <2>6, <2>7, <2>8, RoomTypes DEF RoomInv, Room!TypeOK, RoomFlags,
     RoomValues
<1>4. CASE /\ ~Room!Session /\ j # None /\ gClient = "phone"
           /\ \/ one # "live" /\ gStarting' = gStarting \cup {"screen"} /\ gHasty' = gHasty
                /\ gJoined' = j
              \/ one = "live" /\ gStarting' = gStarting \cup {"left"} /\ gHasty' = TRUE
           /\ UNCHANGED <<gAudio, gOpening, gCameras, Room!blurs>>
  <2>1. /\ gBlur' = gBlur /\ gProcessor' = gProcessor /\ gTurning' = gTurning
             /\ gMinimised' = gMinimised
        /\ gAudio' = gAudio /\ gOpening' = gOpening /\ gCameras' = gCameras
    BY <1>4, RoomUntouched
  <2>2. RoomFlags'
    BY <1>0, <1>4, <2>1, Zenon DEF RoomFlags
  <2>3. RoomValues'
    BY <1>0, <1>1, <1>4, <2>1 DEF RoomValues, RendersOf, RendersIs, Room!Of
  <2>4. RoomGone'
    BY <1>1, <1>4, <2>1 DEF RoomInv, RoomGone, Room!Session, RendersIs
  <2>5. ~gHasty' => AudioIs'
    <3>1. SUFFICES ASSUME ~gHasty' PROVE AudioIs' OBVIOUS
    <3>2. ~gHasty /\ one # "live" /\ gStarting' = gStarting \cup {"screen"} /\ gJoined' = j
      BY <1>4, <3>1
    <3>3. AudioIs /\ one = gOneToOne
      BY <1>4, <3>2 DEF RoomInv, RendersOf, Room!Session
    <3> QED BY <1>1, <1>4, <2>1, <3>2, <3>3 DEF AudioIs, Room!Session, RendersIs
  <2> QED BY <1>1, <1>2, <1>4, <2>2, <2>3, <2>4, <2>5 DEF RoomInv, Room!TypeOK, RoomFlags,
     RoomValues
<1>5. CASE /\ ~Room!Session /\ j # None /\ gClient = "web" /\ gBlur' \in BOOLEAN
           /\ UNCHANGED <<gAudio, gStarting, gOpening, gCameras, gProcessor, gTurning,
                          gMinimised, gHasty>>
  <2>2. RoomFlags'
    BY <1>0, <1>5, Zenon DEF RoomFlags
  <2>3. RoomValues'
    BY <1>0, <1>1, <1>5 DEF RoomValues, RendersOf, RendersIs
  <2>4. RoomGone' /\ "screen" \notin gCameras' /\ gTurning' = {}
    BY <1>5 DEF RoomInv, RoomGone
  <2>5. AudioIs' /\ TurningAsTold'
    BY <1>1, <1>5, <2>4 DEF AudioIs, TurningAsTold
  <2> QED BY <1>2, <2>2, <2>3, <2>4, <2>5 DEF RoomInv, Room!TypeOK, RoomFlags, RoomValues
<1>6. CASE /\ (gJoined' # None <=> Room!Session)
           /\ gAudio' = IF one = "live" THEN "call" ELSE IF gOneToOne = "live" THEN "off" ELSE gAudio
           /\ UNCHANGED <<gStarting, gOpening, gCameras, Room!blurs, gHasty>>
  <2>1. /\ gBlur' = gBlur /\ gProcessor' = gProcessor /\ gTurning' = gTurning
             /\ gMinimised' = gMinimised
    BY <1>6, RoomUntouched
  <2>2. RoomFlags'
    BY <1>0, <1>6, <2>1, Zenon DEF RoomFlags
  <2>3. RoomValues'
    BY <1>0, <1>1, <1>6, <2>1 DEF RoomValues, RendersOf, RendersIs
  <2>4. RoomGone'
    BY <1>6, <2>1 DEF RoomInv, RoomGone, Room!Session
  <2>5. ~gHasty' => AudioIs'
    <3>1. SUFFICES ASSUME ~gHasty', gClient = "phone" PROVE AudioIs' BY <1>1 DEF AudioIs
    <3>2. AudioIs /\ (Room!Session => gOneToOne # "live")
      BY <1>6, <3>1 DEF RoomInv, Room!OneKindOfCall
    <3> QED BY <1>1, <1>6, <3>1, <3>2 DEF AudioIs, Room!Session, RendersIs
  <2>6. ~gHasty' => (gClient' = "web" => TurningAsTold')
    BY <1>1, <1>6, <2>1 DEF RoomInv, TurningAsTold
  <2> QED BY <1>2, <2>2, <2>3, <2>4, <2>5, <2>6 DEF RoomInv, Room!TypeOK, RoomFlags, RoomValues
<1> QED BY <1>1, <1>3, <1>4, <1>5, <1>6, Zenon DEF RendersIs

\* The browser's Effects ask for what the switch says and is not so.
LEMMA RoomStepIs ==
  ASSUME NEW on \in BOOLEAN, NEW has \in BOOLEAN, NEW hidden \in BOOLEAN
  PROVE  /\ Room!Step(on, has, hidden) \subseteq {"set", "stop"}
         /\ "set" \in Room!Step(on, has, hidden) => on /\ ~has
         /\ "stop" \in Room!Step(on, has, hidden) => ~on /\ has
         /\ Room!Step(on, has, hidden) = {} /\ gClient = "web" /\ ~hidden => has = on
         /\ gClient = "phone" => Room!Step(on, has, hidden) = {}
BY DEF Room!Step

\* The actions that leave the calls and the people alone.
LEMMA ScreenKeeps ==
  ASSUME RoomInv,
         \/ \E of \in Room!Of : Room!AudioStarts(of) \/ Room!CameraOpens(of)
         \/ Room!CameraTapped \/ Room!Minimise \/ Room!BlurPressed \/ Room!TooSlow
         \/ \E what \in {"set", "stop"} : Room!Turned(what)
  PROVE  RoomInv'
<1>0. RoomFlags /\ RoomValues
  BY RoomTypes DEF RoomInv
<1>p. UNCHANGED Room!people => /\ gClient' = gClient /\ gAuth' = gAuth /\ gUser' = gUser
                               /\ gOneToOne' = gOneToOne /\ gJoined' = gJoined
  BY RoomUntouched
<1>k. UNCHANGED Room!people => Room!OneKindOfCall' /\ Room!InTheirOwnCall'
  BY <1>p DEF RoomInv, Room!OneKindOfCall, Room!InTheirOwnCall, Room!Session
<1>t. RoomFlags' /\ RoomValues' => Room!TypeOK'
  BY DEF Room!TypeOK, RoomFlags, RoomValues
<1>1. ASSUME NEW of \in Room!Of, Room!AudioStarts(of) PROVE RoomInv'
  <2>1. /\ of \in gStarting /\ gStarting' = gStarting \ {of} /\ gAudio' \in {"group", gAudio}
        /\ UNCHANGED Room!people /\ UNCHANGED <<gJoining, gJoins, gOpening, gCameras, gHasty>>
        /\ gBlur' = gBlur /\ gProcessor' = gProcessor /\ gTurning' = gTurning
             /\ gMinimised' = gMinimised
    BY <1>1, RoomUntouched DEF Room!AudioStarts
  <2>2. RoomFlags' /\ RoomValues'
    <3>1. RoomFlags' BY <1>0, <2>1, Zenon DEF RoomFlags
    <3>2. RoomValues' BY <1>0, <1>p, <2>1 DEF RoomValues
    <3> QED BY <3>1, <3>2
  <2>3. RoomGone'
    BY <1>p, <2>1 DEF RoomInv, RoomGone, Room!Session
  <2>4. ~gHasty' => AudioIs'
    <3> SUFFICES ASSUME ~gHasty', gClient = "phone" PROVE AudioIs' BY <1>p, <2>1 DEF AudioIs
    <3>1. AudioIs /\ of = "screen" BY <1>0, <2>1 DEF RoomInv, AudioIs, RoomValues, Room!Of
    <3>2. Room!Session /\ gOneToOne # "live"
      BY <2>1, <3>1 DEF RoomInv, RoomGone, Room!OneKindOfCall
    <3> QED BY <1>p, <2>1, <3>1, <3>2 DEF AudioIs, Room!Session
  <2>5. ~gHasty' => (gClient' = "web" => TurningAsTold')
    BY <1>p, <2>1 DEF RoomInv, TurningAsTold
  <2> QED BY <1>k, <1>t, <2>1, <2>2, <2>3, <2>4, <2>5 DEF RoomInv
<1>2. ASSUME NEW of \in Room!Of, Room!CameraOpens(of) PROVE RoomInv'
  <2>1. /\ of \in gOpening /\ gOpening' = gOpening \ {of}
             /\ gCameras' \in {gCameras, gCameras \cup {of}}
        /\ UNCHANGED Room!people /\ UNCHANGED <<gJoining, gJoins, gAudio, gStarting, gBlur,
                                                gMinimised, gHasty>>
    BY <1>2 DEF Room!CameraOpens
  <2>2. \/ gProcessor' = gProcessor /\ gTurning' = gTurning
           /\ ("screen" \in gCameras' => "screen" \in gCameras \/ gClient = "phone")
        \/ /\ of = "screen" /\ gClient = "web" /\ gProcessor' \in BOOLEAN
           /\ gTurning' = Room!Step(gBlur, gProcessor', gMinimised)
    <3>1. CASE UNCHANGED <<gCameras, gProcessor, gTurning>> BY <3>1
    <3>2. CASE /\ gCameras' = gCameras \cup {of}
               /\ IF gClient = "web" /\ of = "screen"
                  THEN \E has \in BOOLEAN :
                         gProcessor' = has /\ gTurning' = Room!Step(gBlur, has, gMinimised)
                  ELSE UNCHANGED <<gProcessor, gTurning>>
      <4>1. CASE gClient = "web" /\ of = "screen"
        BY <3>2, <4>1, Zenon
      <4>2. CASE ~(gClient = "web" /\ of = "screen")
        BY <1>0, <3>2, <4>2 DEF RoomValues, Room!Of
      <4> QED BY <4>1, <4>2
    <3> QED BY <1>2, <3>1, <3>2 DEF Room!CameraOpens
  <2>3. \/ Room!Step(gBlur, gProcessor', gMinimised) \subseteq {"set", "stop"}
        \/ (gProcessor' = gProcessor /\ gTurning' = gTurning)
    <3>0. gBlur \in BOOLEAN /\ gMinimised \in BOOLEAN BY <1>0 DEF RoomFlags
    <3>1. CASE gProcessor' \in BOOLEAN
      BY <3>0, <3>1, RoomStepIs
    <3> QED BY <2>2, <3>1
  <2>4. RoomFlags' /\ RoomValues'
    <3>1. RoomFlags' BY <1>0, <2>1, <2>2, Zenon DEF RoomFlags
    <3>2. gTurning' \subseteq {"set", "stop"} BY <1>0, <2>2, <2>3 DEF RoomValues
    <3>3. RoomValues' BY <1>0, <1>p, <2>1, <3>2 DEF RoomValues
    <3> QED BY <3>1, <3>3
  <2>5. RoomGone'
    BY <1>p, <2>1, <2>2 DEF RoomInv, RoomGone, Room!Session
  <2>6. ~gHasty' => AudioIs'
    BY <1>p, <2>1 DEF RoomInv, AudioIs, Room!Session
  <2>7. ~gHasty' => (gClient' = "web" => TurningAsTold')
    <3> SUFFICES ASSUME ~gHasty', gClient = "web" PROVE TurningAsTold' BY <1>p, <2>1
    <3>1. CASE gProcessor' = gProcessor /\ gTurning' = gTurning
            /\ ("screen" \in gCameras' => "screen" \in gCameras)
      BY <2>1, <3>1 DEF RoomInv, TurningAsTold
    <3>2. CASE gProcessor' \in BOOLEAN /\ gTurning' = Room!Step(gBlur, gProcessor', gMinimised)
      <4>1. /\ "set" \in gTurning' => gBlur /\ ~gProcessor'
            /\ "stop" \in gTurning' => ~gBlur /\ gProcessor'
            /\ gTurning' = {} /\ ~gMinimised => gProcessor' = gBlur
        BY <1>0, <3>2, RoomStepIs DEF RoomFlags
      <4> QED BY <2>1, <4>1 DEF TurningAsTold
    <3> QED BY <2>2, <3>1, <3>2
  <2> QED BY <1>k, <1>t, <2>1, <2>4, <2>5, <2>6, <2>7 DEF RoomInv
<1>3. CASE Room!CameraTapped
  <2>1. /\ Room!Session /\ UNCHANGED Room!people
             /\ UNCHANGED <<gJoining, gJoins, gAudio, gStarting, gHasty>>
        /\ gCameras' \subseteq gCameras /\ gOpening' \in {gOpening, gOpening \cup {"screen"}}
        /\ gBlur' = gBlur /\ gProcessor' = gProcessor /\ gTurning' = gTurning
             /\ gMinimised' = gMinimised
    BY <1>3, RoomUntouched DEF Room!CameraTapped
  <2>2. RoomFlags' /\ RoomValues'
    <3>1. RoomFlags' BY <1>0, <2>1, Zenon DEF RoomFlags
    <3>2. RoomValues' BY <1>0, <1>p, <2>1 DEF RoomValues, Room!Of
    <3> QED BY <3>1, <3>2
  <2>3. RoomGone'
    BY <1>p, <2>1 DEF RoomGone, Room!Session
  <2>4. ~gHasty' => AudioIs'
    BY <1>p, <2>1 DEF RoomInv, AudioIs, Room!Session
  <2>5. ~gHasty' => (gClient' = "web" => TurningAsTold')
    BY <1>p, <2>1 DEF RoomInv, TurningAsTold
  <2> QED BY <1>k, <1>t, <2>1, <2>2, <2>3, <2>4, <2>5 DEF RoomInv
<1>s. ASSUME NEW on \in BOOLEAN, NEW hidden \in BOOLEAN, Room!Session, UNCHANGED Room!people,
             gBlur' = on, gMinimised' = hidden,
             gTurning' = gTurning \cup
               (IF "screen" \in gCameras THEN Room!Step(on, gProcessor, hidden) ELSE {}),
             gHasty' = (gHasty \/ gTurning # {}),
             UNCHANGED <<gJoining, gJoins, gAudio, gStarting, gOpening, gCameras, gProcessor>>
      PROVE  RoomInv'
  <2>1. Room!Step(on, gProcessor, hidden) \subseteq {"set", "stop"}
    BY <1>0, RoomStepIs DEF RoomFlags
  <2>2. RoomFlags' /\ RoomValues'
    <3>1. gHasty' \in BOOLEAN BY <1>s, Zenon
    <3>2. RoomFlags' BY <1>0, <1>s, <3>1, Zenon DEF RoomFlags
    <3>3. RoomValues' BY <1>0, <1>p, <1>s, <2>1 DEF RoomValues
    <3> QED BY <3>2, <3>3
  <2>3. RoomGone'
    BY <1>p, <1>s DEF RoomGone, Room!Session
  <2>4. ~gHasty' => ~gHasty /\ gTurning = {}
    BY <1>s, Zenon
  <2>5. ~gHasty' => AudioIs'
    BY <1>p, <1>s, <2>4 DEF RoomInv, AudioIs, Room!Session
  <2>6. ~gHasty' => (gClient' = "web" => TurningAsTold')
    <3> SUFFICES ASSUME ~gHasty', gClient = "web" PROVE TurningAsTold' BY <1>p, <1>s
    <3>1. gTurning' = IF "screen" \in gCameras THEN Room!Step(on, gProcessor, hidden) ELSE {}
      BY <1>s, <2>4
    <3>2. /\ "set" \in gTurning' => on /\ ~gProcessor
          /\ "stop" \in gTurning' => ~on /\ gProcessor
          /\ gTurning' = {} /\ ~hidden /\ "screen" \in gCameras => gProcessor = on
      BY <1>0, <3>1, RoomStepIs DEF RoomFlags
    <3>3. gBlur' = on /\ gMinimised' = hidden /\ gProcessor' = gProcessor
            /\ gCameras' = gCameras
      BY <1>s
    <3> QED BY <3>2, <3>3 DEF TurningAsTold
  <2> QED BY <1>k, <1>t, <1>s, <2>2, <2>3, <2>5, <2>6 DEF RoomInv
<1>4. CASE Room!Minimise
  <2>1. gBlur \in BOOLEAN /\ (~gMinimised) \in BOOLEAN
    BY <1>0, Zenon DEF RoomFlags
  <2> QED BY <1>4, <1>s, <2>1, Zenon DEF Room!Minimise
<1>5. CASE Room!BlurPressed \/ Room!TooSlow
  <2>1. PICK to \in BOOLEAN : Room!Switches(to)
    <3>1. (~gBlur) \in BOOLEAN OBVIOUS
    <3> QED BY <1>5, <3>1, Zenon DEF Room!BlurPressed, Room!TooSlow
  <2>2. gMinimised \in BOOLEAN
    BY <1>0, Zenon DEF RoomFlags
  <2> QED BY <1>s, <2>1, <2>2, Zenon DEF Room!Switches
<1>6. ASSUME NEW what \in {"set", "stop"}, Room!Turned(what) PROVE RoomInv'
  <2>1. /\ what \in gTurning /\ gTurning' = gTurning \ {what}
        /\ UNCHANGED Room!people
        /\ UNCHANGED <<gJoining, gJoins, gAudio, gStarting, gOpening, gCameras, gMinimised,
                       gHasty>>
        /\ \/ gProcessor' = (what = "set") /\ gBlur' = gBlur
           \/ what = "set" /\ gBlur' = FALSE /\ gProcessor' = gProcessor
    BY <1>6, Zenon DEF Room!Turned
  <2>2. RoomFlags' /\ RoomValues'
    <3>1. (what = "set") \in BOOLEAN OBVIOUS
    <3>2. RoomFlags' BY <1>0, <2>1, <3>1, Zenon DEF RoomFlags
    <3>3. RoomValues' BY <1>0, <1>p, <2>1 DEF RoomValues
    <3> QED BY <3>2, <3>3
  <2>3. RoomGone'
    BY <1>p, <2>1 DEF RoomInv, RoomGone, Room!Session
  <2>4. ~gHasty' => AudioIs'
    BY <1>p, <2>1 DEF RoomInv, AudioIs, Room!Session
  <2>5. ~gHasty' => (gClient' = "web" => TurningAsTold')
    <3> SUFFICES ASSUME ~gHasty', gClient = "web" PROVE TurningAsTold' BY <1>p, <2>1
    <3>1. /\ "set" \in gTurning => gBlur /\ ~gProcessor
          /\ "stop" \in gTurning => ~gBlur /\ gProcessor
      BY <2>1 DEF RoomInv, TurningAsTold
    <3>2. gTurning' = {}
      BY <1>0, <2>1, <3>1 DEF RoomValues
    <3>3. CASE what = "set" /\ gProcessor' = TRUE /\ gBlur' = gBlur
      BY <2>1, <3>1, <3>2, <3>3, <1>0, Zenon DEF TurningAsTold, RoomFlags
    <3>4. CASE what = "set" /\ gBlur' = FALSE /\ gProcessor' = gProcessor
      BY <2>1, <3>1, <3>2, <3>4, <1>0, Zenon DEF TurningAsTold, RoomFlags
    <3>5. CASE what = "stop" /\ gProcessor' = FALSE /\ gBlur' = gBlur
      BY <2>1, <3>1, <3>2, <3>5, <1>0, Zenon DEF TurningAsTold, RoomFlags
    <3>6. what = "set" \/ (what = "stop" /\ what # "set") OBVIOUS
    <3> QED BY <2>1, <3>3, <3>4, <3>5, <3>6, Zenon
  <2> QED BY <1>k, <1>t, <2>1, <2>2, <2>3, <2>4, <2>5 DEF RoomInv
<1> QED BY <1>1, <1>2, <1>3, <1>4, <1>5, <1>6

LEMMA RoomInitHolds == Room!Init => RoomInv
<1> SUFFICES ASSUME Room!Init PROVE RoomInv OBVIOUS
<1>1. RoomFlags /\ ~gProcessor /\ ~gBlur
  BY Zenon DEF Room!Init, RoomFlags
<1>2. RoomValues
  BY DEF Room!Init, RoomValues
<1>3. gJoined = None /\ gOneToOne = "none" /\ gAudio = "off"
      /\ gStarting = {} /\ gOpening = {} /\ gCameras = {} /\ gTurning = {}
  BY Zenon DEF Room!Init
<1>4. Room!OneKindOfCall /\ Room!InTheirOwnCall /\ RoomGone /\ AudioIs /\ TurningAsTold
  BY <1>3 DEF Room!OneKindOfCall, Room!InTheirOwnCall, RoomGone, AudioIs, TurningAsTold,
     Room!Session
<1> QED BY <1>1, <1>2, <1>4, RoomTypes DEF RoomInv

LEMMA RoomNextHolds == ASSUME RoomInv, [Room!Next]_(Room!vars) PROVE RoomInv'
<1>0. RoomFlags /\ RoomValues
  BY RoomTypes DEF RoomInv
<1>1. CASE \/ \E r \in gJoins : Room!Joined(r)
           \/ Room!Leave \/ Room!Loads \/ Room!SignsOut \/ Room!Calls
           \/ \E u \in Callers : Room!SignsIn(u)
  <2>1. PICK j, a, u, one : RendersOf(j, a, u, one)
    BY <1>0, <1>1, WhoRenders
  <2> QED BY <2>1, RendersKeeps
<1>2. CASE \/ \E of \in Room!Of : Room!AudioStarts(of) \/ Room!CameraOpens(of)
           \/ Room!CameraTapped \/ Room!Minimise \/ Room!BlurPressed \/ Room!TooSlow
           \/ \E what \in {"set", "stop"} : Room!Turned(what)
  BY <1>2, ScreenKeeps
<1>3. ASSUME gJoins' \subseteq Room!Sessions, gJoining' \in CallGroups \cup {None},
             UNCHANGED Room!people,
             UNCHANGED Room!blurs, UNCHANGED <<gAudio, gStarting, gOpening, gCameras, gHasty>>
      PROVE  RoomInv'
  <2>1. /\ gBlur' = gBlur /\ gProcessor' = gProcessor /\ gTurning' = gTurning
             /\ gMinimised' = gMinimised
        /\ gClient' = gClient /\ gAuth' = gAuth /\ gUser' = gUser /\ gOneToOne' = gOneToOne
             /\ gJoined' = gJoined
    BY <1>3, RoomUntouched
  <2>2. RoomFlags' BY <1>0, <1>3, <2>1, Zenon DEF RoomFlags
  <2>3. RoomValues' BY <1>0, <1>3, <2>1 DEF RoomValues
  <2>4. Room!OneKindOfCall' /\ Room!InTheirOwnCall' /\ RoomGone'
    BY <1>3, <2>1 DEF RoomInv, Room!OneKindOfCall, Room!InTheirOwnCall, RoomGone, Room!Session
  <2>5. ~gHasty' => AudioIs' /\ (gClient' = "web" => TurningAsTold')
    BY <1>3, <2>1 DEF RoomInv, AudioIs, TurningAsTold, Room!Session
  <2> QED BY <2>2, <2>3, <2>4, <2>5 DEF RoomInv, Room!TypeOK, RoomFlags, RoomValues
<1>4. ASSUME NEW g \in CallGroups, Room!Join(g) PROVE RoomInv'
  <2>1. gUser \in Callers /\ [user |-> gUser, group |-> g] \in Room!Sessions
    BY <1>0, <1>4 DEF Room!Join, RoomValues, Room!Sessions
  <2>2. gJoins' \subseteq Room!Sessions
    BY <1>0, <1>4, <2>1 DEF Room!Join, RoomValues
  <2> QED BY <1>3, <1>4, <2>2 DEF Room!Join
<1>5. ASSUME NEW r \in gJoins, Room!JoinFails(r) PROVE RoomInv'
  BY <1>0, <1>3, <1>5 DEF Room!JoinFails, RoomValues
<1>6. CASE UNCHANGED Room!vars
  BY <1>0, <1>3, <1>6 DEF Room!vars, Room!people, Room!blurs, RoomValues
<1> QED BY <1>1, <1>2, <1>4, <1>5, <1>6, Zenon DEF Room!Next

\* For any people and groups: one kind of call at a time, one's own, and as long as
\* nobody left or pressed while something was awaited, with the sound and the blur of
\* the call there is (GroupCallProvider.tsx:45, :71, GroupCallScreen.tsx:83,
\* GroupCallView.tsx:119).
THEOREM RoomSound ==
  Room!Spec => [](Room!OneKindOfCall /\ Room!InTheirOwnCall /\ Room!AudioOfTheCall
    /\ Room!BlurInStep)
<1>1. RoomInv => Room!OneKindOfCall /\ Room!InTheirOwnCall /\ Room!AudioOfTheCall
        /\ Room!BlurInStep
  <2> SUFFICES ASSUME RoomInv PROVE Room!AudioOfTheCall /\ Room!BlurInStep BY DEF RoomInv
  <2>1. Room!AudioOfTheCall
    <3> SUFFICES ASSUME ~gHasty, gClient = "phone"
                 PROVE  /\ gAudio = "call" <=> gOneToOne = "live"
                        /\ gAudio = "group" => Room!Session
                        /\ ~Room!Session => gCameras = {}
      BY DEF Room!AudioOfTheCall
    <3>1. gCameras \subseteq {"screen"}
      BY RoomTypes DEF RoomInv, AudioIs, RoomValues, Room!Of
    <3> QED BY <3>1 DEF RoomInv, AudioIs, RoomGone
  <2>2. Room!BlurInStep
    BY DEF RoomInv, Room!BlurInStep, TurningAsTold
  <2> QED BY <2>1, <2>2
<1> QED BY <1>1, RoomInitHolds, RoomNextHolds, PTL DEF Room!Spec


(**************** The blur of a phone's camera: VideoBlur *****************)

\* Cameras are numbered as they are opened, and one that runs has its track.
CamerasNumbered ==
  /\ Blur!Running(uLive) \subseteq uTracks /\ uTracks \subseteq 1..uOpened
       /\ uEffects \subseteq 1..uOpened

\* A mask is kept under the shape it was made for.
MaskOfShape == (uMask # None => uMask[1] = uMask[2]) /\ Blur!MasksFit

\* As long as no two calls met: one call, one camera; a call that had one has its
\* choice, and the frames of the camera go through the processor if it is to blur.
OneChoice ==
  /\ uOne = "none" \/ ~uRoom
  /\ \A l, m \in uLive : l = m
  /\ uChoice = None <=> uIdle
  /\ uChoice # None => uOn = uChoice
  /\ \A t \in Blur!Running(uLive) : t \in uEffects <=> uOn

BlurInv ==
  Blur!TypeOK /\ CamerasNumbered /\ MaskOfShape /\ (uTurnedOffSlow => ~uOn)
    /\ (~uMixed => OneChoice)

BlurFlags ==
  /\ uPlatform \in {"android", "ios"} /\ uOne \in {"none", "ringing", "live"}
  /\ uPreference \in BOOLEAN /\ uRoom \in BOOLEAN /\ uOn \in BOOLEAN
  /\ uTurnedOffSlow \in BOOLEAN /\ uIdle \in BOOLEAN /\ uMixed \in BOOLEAN
CameraValues ==
  /\ uLive \subseteq Blur!Cameras \X {"one", "group"} /\ uOpened \in 0..BlurCameras
  /\ uTracks \subseteq Blur!Cameras /\ uEffects \subseteq Blur!Cameras
       /\ uSlowSeconds \in 0..SlowSeconds
  /\ uChoice \in {None} \cup BOOLEAN
FrameValues ==
  /\ uMask \in {None} \cup FrameShapes \X FrameShapes /\ uRequest \in {None} \cup FrameShapes
  /\ uShape \in FrameShapes /\ uSent \in {None, "black", "blurred", "fits", "misfits"}

LEMMA BlurTypes == Blur!TypeOK <=> BlurFlags /\ CameraValues /\ FrameValues
<1>1. {uPreference, uRoom, uOn, uTurnedOffSlow, uIdle, uMixed} \subseteq BOOLEAN <=>
        /\ uPreference \in BOOLEAN /\ uRoom \in BOOLEAN /\ uOn \in BOOLEAN
        /\ uTurnedOffSlow \in BOOLEAN /\ uIdle \in BOOLEAN /\ uMixed \in BOOLEAN
  BY Zenon
<1> QED BY <1>1, Zenon DEF Blur!TypeOK, BlurFlags, CameraValues, FrameValues

LEMMA BlurTypesNext == BlurFlags' /\ CameraValues' /\ FrameValues' => Blur!TypeOK'
<1> SUFFICES ASSUME BlurFlags', CameraValues', FrameValues' PROVE Blur!TypeOK' OBVIOUS
<1>1. {uPreference', uRoom', uOn', uTurnedOffSlow', uIdle', uMixed'} \subseteq BOOLEAN
  BY Zenon DEF BlurFlags
<1> QED BY <1>1, Zenon DEF Blur!TypeOK, BlurFlags, CameraValues, FrameValues

LEMMA BlurUntouched == BlurInv /\ UNCHANGED Blur!vars => BlurInv'
BY DEF BlurInv, Blur!vars, Blur!control, Blur!frames, Blur!TypeOK, CamerasNumbered,
   MaskOfShape, Blur!MasksFit, OneChoice, Blur!Running

\* The frames keep what holds of them while only the switch and the calls move.
LEMMA FramesKept == FrameValues /\ MaskOfShape /\ UNCHANGED Blur!frames => FrameValues'
  /\ MaskOfShape'
BY DEF FrameValues, MaskOfShape, Blur!MasksFit, Blur!frames

\* A smaller set of cameras runs no camera that did not run before.
LEMMA RunningIs ==
  /\ \A A, B : A \subseteq B => Blur!Running(A) \subseteq Blur!Running(B)
  /\ \A A : A = {} => Blur!Running(A) = {}
  /\ \A A, t, c : Blur!Running(A \cup {<<t, c>>}) = Blur!Running(A) \cup {t}
<1>1. /\ \A A, B : A \subseteq B => Blur!Running(A) \subseteq Blur!Running(B)
      /\ \A A : A = {} => Blur!Running(A) = {}
  BY DEF Blur!Running
<1>2. ASSUME NEW A, NEW t, NEW c
      PROVE  Blur!Running(A \cup {<<t, c>>}) = Blur!Running(A) \cup {t}
  <2>1. <<t, c>>[1] = t OBVIOUS
  <2> QED BY <2>1, Zenon DEF Blur!Running
<1> QED BY <1>1, <1>2

LEMMA SetKeeps ==
  ASSUME BlurInv, NEW is \in BOOLEAN, Blur!Set(is), uTurnedOffSlow' \in BOOLEAN, uTurnedOffSlow'
    => ~is,
         UNCHANGED <<uPlatform, uPreference, uOne, uRoom, uLive, uOpened, uMixed, Blur!frames>>
  PROVE  BlurInv'
<1>t. BlurFlags /\ CameraValues /\ FrameValues BY BlurTypes DEF BlurInv
<1>f. FrameValues' /\ MaskOfShape' BY <1>t, FramesKept DEF BlurInv
<1>1. /\ uOn' = is /\ uSlowSeconds' = (IF is THEN 0 ELSE uSlowSeconds)
      /\ uTracks' = uTracks \cap Blur!Running(uLive)
      /\ uEffects' = (IF is THEN uEffects \cup uTracks' ELSE uEffects \ uTracks')
      /\ uChoice' = (IF uChoice = None THEN None ELSE is) /\ uIdle' = uIdle
  BY Zenon DEF Blur!Set
<1>2. Blur!Running(uLive') = Blur!Running(uLive) OBVIOUS
<1>3. uTracks' = Blur!Running(uLive) BY <1>1 DEF BlurInv, CamerasNumbered
<1>4. BlurFlags' BY <1>t, <1>1, Zenon DEF BlurFlags
<1>5. CameraValues' BY <1>t, <1>1, BlurAssumption DEF CameraValues
<1>6. CamerasNumbered' BY <1>1, <1>2, <1>3 DEF BlurInv, CamerasNumbered
<1>7. ~uMixed' => OneChoice'
  <2> SUFFICES ASSUME ~uMixed PROVE OneChoice' OBVIOUS
  <2>1. uChoice' # None => uChoice' = is BY <1>1
  <2>2. uChoice' = None <=> uChoice = None BY <1>1, BlurAssumption
  <2>3. \A t \in Blur!Running(uLive) : t \in uEffects' <=> is BY <1>1, <1>3
  <2> QED BY <1>1, <1>2, <2>1, <2>2, <2>3 DEF BlurInv, OneChoice
<1> QED BY <1>f, <1>4, <1>5, <1>6, <1>7, <1>1, BlurTypesNext DEF BlurInv

\* A call ends and its cameras stop, or stay on for a while.
LEMMA EndKeeps ==
  ASSUME BlurInv, uLive' \subseteq uLive, Blur!CallEnded(uLive'), uChoice' \in {uChoice, None},
         ~uMixed => uChoice' = None /\ (uOne' = "none" \/ ~uRoom'),
         uOne' \in {"none", "ringing", "live"}, uRoom' \in BOOLEAN,
         UNCHANGED <<uPlatform, uPreference, uOpened, uMixed, Blur!frames>>
  PROVE  BlurInv'
<1>t. BlurFlags /\ CameraValues /\ FrameValues BY BlurTypes DEF BlurInv
<1>f. FrameValues' /\ MaskOfShape' BY <1>t, FramesKept DEF BlurInv
<1>1. /\ uIdle' = TRUE /\ uTracks' = uTracks \cap Blur!Running(uLive')
      /\ \/ uTracks' = {} /\ uOn' = uPreference /\ uTurnedOffSlow' = FALSE
         \/ uTracks' # {} /\ uOn' = uOn /\ uTurnedOffSlow' = uTurnedOffSlow
      /\ UNCHANGED <<uSlowSeconds, uEffects>>
  BY Zenon DEF Blur!CallEnded
<1>2. Blur!Running(uLive') \subseteq Blur!Running(uLive) BY RunningIs
<1>3. uTracks' = Blur!Running(uLive') BY <1>1, <1>2 DEF BlurInv, CamerasNumbered
<1>4. BlurFlags' BY <1>t, <1>1, Zenon DEF BlurFlags
<1>5. CameraValues' BY <1>t, <1>1 DEF CameraValues
<1>6. CamerasNumbered' BY <1>1, <1>2, <1>3 DEF BlurInv, CamerasNumbered
<1>7. ~uMixed' => OneChoice'
  <2> SUFFICES ASSUME ~uMixed PROVE OneChoice' OBVIOUS
  <2>1. \A t \in Blur!Running(uLive') : t \in uEffects' <=> uOn'
    BY <1>1, <1>2, <1>3 DEF BlurInv, OneChoice
  <2>2. \A l, m \in uLive' : l = m BY DEF BlurInv, OneChoice
  <2> QED BY <1>1, <2>1, <2>2 DEF OneChoice
<1>8. uTurnedOffSlow' => ~uOn' BY <1>1 DEF BlurInv
<1> QED BY <1>f, <1>4, <1>5, <1>6, <1>7, <1>8, BlurTypesNext DEF BlurInv

\* A call comes, is answered, or the Settings change: the cameras stay as they are.
LEMMA CallsKeep ==
  ASSUME BlurInv, uOne' \in {"none", "ringing", "live"}, uRoom' \in BOOLEAN,
         uPreference' \in BOOLEAN, uMixed' \in BOOLEAN,
         ~uMixed' => ~uMixed /\ (uOne' = "none" \/ ~uRoom'),
         UNCHANGED <<uPlatform, uLive, uOpened, uChoice, Blur!control, Blur!frames>>
  PROVE  BlurInv'
<1>t. BlurFlags /\ CameraValues /\ FrameValues BY BlurTypes DEF BlurInv
<1>f. FrameValues' /\ MaskOfShape' BY <1>t, FramesKept DEF BlurInv
<1>1. UNCHANGED <<uOn, uTurnedOffSlow, uIdle, uTracks, uSlowSeconds, uEffects>>
  BY DEF Blur!control
<1>4. BlurFlags' BY <1>t, <1>1, Zenon DEF BlurFlags
<1>5. CameraValues' BY <1>t, <1>1 DEF CameraValues
<1>6. CamerasNumbered' BY <1>1 DEF BlurInv, CamerasNumbered, Blur!Running
<1>7. ~uMixed' => OneChoice' BY <1>1 DEF BlurInv, OneChoice, Blur!Running
<1> QED BY <1>f, <1>1, <1>4, <1>5, <1>6, <1>7, BlurTypesNext DEF BlurInv

LEMMA CameraOnKeeps == ASSUME BlurInv, NEW c \in {"one", "group"}, Blur!CameraOn(c)
                       PROVE  BlurInv'
<1>t. BlurFlags /\ CameraValues /\ FrameValues BY BlurTypes DEF BlurInv
<1> DEFINE held == uTracks \cap Blur!Running(uLive)
<1> DEFINE fresh == uIdle /\ held = {}
<1>1. /\ uOpened < BlurCameras /\ uOpened' = uOpened + 1
      /\ IF c = "one" THEN uOne # "none" ELSE uRoom
      /\ uLive' = uLive \cup {<<uOpened', c>>}
      /\ uChoice' = (IF uChoice = None THEN uPreference ELSE uChoice)
      /\ uMixed' = (uMixed \/ uLive # {})
      /\ UNCHANGED <<uPlatform, uPreference, uOne, uRoom, Blur!frames>>
  BY Zenon DEF Blur!CameraOn
<1>2. /\ uOn' = IF fresh THEN uPreference ELSE uOn
      /\ uTurnedOffSlow' = (uTurnedOffSlow /\ ~fresh)
      /\ uSlowSeconds' = IF fresh THEN 0 ELSE uSlowSeconds
      /\ uIdle' = FALSE /\ uTracks' = held \cup {uOpened'}
      /\ uEffects' = IF uOn' THEN uEffects \cup {uOpened'} ELSE uEffects
  BY Zenon DEF Blur!CameraOn, Blur!Attach
<1>f. FrameValues' /\ MaskOfShape' BY <1>t, <1>1, FramesKept DEF BlurInv
<1>3. uOpened' \in Blur!Cameras /\ uOpened' \notin 1..uOpened
        /\ 1..uOpened \subseteq 1..uOpened'
  BY <1>t, <1>1, BlurAssumption DEF CameraValues, Blur!Cameras
<1>4. Blur!Running(uLive') = Blur!Running(uLive) \cup {uOpened'} BY <1>1, RunningIs
<1>5. held = Blur!Running(uLive) BY DEF BlurInv, CamerasNumbered
<1> HIDE DEF held
<1>6. BlurFlags'
  <2>1. fresh \in BOOLEAN BY <1>t, Zenon DEF BlurFlags
  <2>2. (uTurnedOffSlow /\ ~fresh) \in BOOLEAN BY Zenon
  <2>3. (uMixed \/ uLive # {}) \in BOOLEAN BY Zenon
  <2> QED BY <1>t, <1>1, <1>2, <2>1, <2>2, <2>3, Zenon DEF BlurFlags
<1>7. CameraValues'
  <2>1. uLive' \subseteq Blur!Cameras \X {"one", "group"} BY <1>t, <1>1, <1>3 DEF CameraValues
  <2>2. uOpened' \in 0..BlurCameras BY <1>3 DEF Blur!Cameras
  <2>3. uSlowSeconds' \in 0..SlowSeconds BY <1>t, <1>2, BlurAssumption DEF CameraValues
  <2>4. uChoice' \in {None} \cup BOOLEAN BY <1>t, <1>1 DEF CameraValues, BlurFlags
  <2>5. uTracks' \subseteq Blur!Cameras BY <1>t, <1>2, <1>3 DEF CameraValues, held
  <2>6. uEffects' \subseteq Blur!Cameras BY <1>t, <1>2, <1>3 DEF CameraValues
  <2> QED BY <2>1, <2>2, <2>3, <2>4, <2>5, <2>6 DEF CameraValues
<1>8. CamerasNumbered'
  <2>1. uOpened' \in 1..uOpened' BY <1>t, <1>1 DEF CameraValues
  <2>2. uTracks' \subseteq 1..uOpened' BY <1>2, <1>3, <2>1 DEF BlurInv, CamerasNumbered, held
  <2>3. uEffects' \subseteq 1..uOpened' BY <1>2, <1>3, <2>1 DEF BlurInv, CamerasNumbered
  <2> QED BY <1>2, <1>4, <1>5, <2>2, <2>3 DEF CamerasNumbered
<1>9. ~uMixed' => OneChoice'
  <2> SUFFICES ASSUME ~uMixed, uLive = {} PROVE OneChoice' BY <1>1
  <2>1. held = {} BY <1>5, RunningIs
  <2>2. Blur!Running(uLive') = {uOpened'} BY <1>4, <1>5, <2>1
  <2>3. \A l, m \in uLive' : l = m BY <1>1
  <2>4. uPreference # None BY <1>t, BlurAssumption DEF BlurFlags
  <2>5. uChoice' # None /\ uOn' = uChoice'
    <3>1. (uChoice = None <=> uIdle) /\ (uChoice # None => uOn = uChoice)
      BY DEF BlurInv, OneChoice
    <3> QED BY <1>1, <1>2, <2>1, <2>4, <3>1
  <2>6. uOpened' \notin uEffects BY <1>3 DEF BlurInv, CamerasNumbered
  <2>7. uOpened' \in uEffects' <=> uOn' BY <1>2, <2>6
  <2>8. uOne' = "none" \/ ~uRoom' BY <1>1 DEF BlurInv, OneChoice
  <2> QED BY <1>2, <2>2, <2>3, <2>5, <2>7, <2>8 DEF OneChoice
<1>10. uTurnedOffSlow' => ~uOn' BY <1>2 DEF BlurInv
<1> QED BY <1>f, <1>6, <1>7, <1>8, <1>9, <1>10, BlurTypesNext DEF BlurInv

LEMMA BlurInitHolds == Blur!Init => BlurInv
<1> SUFFICES ASSUME Blur!Init PROVE BlurInv OBVIOUS
<1>1. BlurFlags BY Zenon DEF Blur!Init, BlurFlags
<1>2. CameraValues BY BlurAssumption DEF Blur!Init, CameraValues
<1>3. FrameValues BY DEF Blur!Init, FrameValues
<1>4. CamerasNumbered BY RunningIs DEF Blur!Init, CamerasNumbered
<1>5. MaskOfShape BY BlurAssumption DEF Blur!Init, MaskOfShape, Blur!MasksFit
<1>6. OneChoice BY RunningIs DEF Blur!Init, OneChoice
<1>7. ~uTurnedOffSlow BY Zenon DEF Blur!Init
<1> QED BY <1>1, <1>2, <1>3, <1>4, <1>5, <1>6, <1>7, BlurTypes DEF BlurInv

LEMMA BlurNextHolds == BlurInv /\ Blur!Next => BlurInv'
<1> SUFFICES ASSUME BlurInv, Blur!Next PROVE BlurInv' OBVIOUS
<1>t. BlurFlags /\ CameraValues /\ FrameValues BY BlurTypes DEF BlurInv
<1>1. CASE Blur!SetOn
  <2>1. (~uOn) \in BOOLEAN OBVIOUS
  <2>2. /\ Blur!Set(~uOn) /\ uTurnedOffSlow' = (uTurnedOffSlow /\ uOn)
        /\ UNCHANGED <<uPlatform, uPreference, uOne, uRoom, uLive, uOpened, uMixed,
                       Blur!frames>>
    BY <1>1, Zenon DEF Blur!SetOn
  <2>3. uTurnedOffSlow' \in BOOLEAN /\ (uTurnedOffSlow' => uOn) BY <2>2, Zenon
  <2> QED BY <2>1, <2>2, <2>3, SetKeeps, Zenon
<1>2. CASE Blur!SetBackgroundBlur
  <2>1. (~uPreference) \in BOOLEAN OBVIOUS
  <2>2. uPreference' = ~uPreference /\ UNCHANGED <<uPlatform, uOne, uRoom, uLive, uOpened,
                                                   uChoice, uMixed, Blur!control, Blur!frames>>
    BY <1>2 DEF Blur!SetBackgroundBlur
  <2>3. uOne' \in {"none", "ringing", "live"} /\ uRoom' \in BOOLEAN /\ uMixed' \in BOOLEAN
          /\ uPreference' \in BOOLEAN
    BY <1>t, <2>1, <2>2, Zenon DEF BlurFlags
  <2>4. ~uMixed' => ~uMixed /\ (uOne' = "none" \/ ~uRoom') BY <2>2 DEF BlurInv, OneChoice
  <2> QED BY <2>2, <2>3, <2>4, CallsKeep
<1>3. ASSUME NEW tooSlow \in BOOLEAN, Blur!Report(tooSlow) PROVE BlurInv'
  <2>1. /\ uSlowSeconds < SlowSeconds
        /\ UNCHANGED <<uPlatform, uPreference, uOne, uRoom, uLive, uOpened, uMixed,
                       Blur!frames>>
        /\ \/ Blur!Set(FALSE) /\ uTurnedOffSlow' = TRUE
           \/ /\ uSlowSeconds' = (IF tooSlow THEN uSlowSeconds + 1 ELSE 0)
              /\ UNCHANGED <<uOn, uTurnedOffSlow, uIdle, uTracks, uEffects, uChoice>>
    BY <1>3, Zenon DEF Blur!Report
  <2>2. CASE Blur!Set(FALSE) /\ uTurnedOffSlow' = TRUE
    BY <2>1, <2>2, SetKeeps, Zenon
  <2>3. CASE /\ uSlowSeconds' = (IF tooSlow THEN uSlowSeconds + 1 ELSE 0)
             /\ UNCHANGED <<uOn, uTurnedOffSlow, uIdle, uTracks, uEffects, uChoice>>
    <3>f. FrameValues' /\ MaskOfShape' BY <1>t, <2>1, FramesKept DEF BlurInv
    <3>1. BlurFlags' BY <1>t, <2>1, <2>3, Zenon DEF BlurFlags
    <3>2. CameraValues' BY <1>t, <2>1, <2>3, BlurAssumption DEF CameraValues
    <3>3. CamerasNumbered' BY <2>1, <2>3 DEF BlurInv, CamerasNumbered, Blur!Running
    <3>4. ~uMixed' => OneChoice' BY <2>1, <2>3 DEF BlurInv, OneChoice, Blur!Running
    <3> QED BY <2>3, <3>f, <3>1, <3>2, <3>3, <3>4, BlurTypesNext DEF BlurInv
  <2> QED BY <2>1, <2>2, <2>3
<1>4. CASE Blur!Rings
  <2>1. /\ uOne' = "ringing" /\ uMixed' = (uMixed \/ uRoom)
        /\ UNCHANGED <<uPlatform, uPreference, uRoom, uLive, uOpened, uChoice, Blur!control,
                       Blur!frames>>
    BY <1>4, Zenon DEF Blur!Rings
  <2>2. uRoom' \in BOOLEAN /\ uMixed' \in BOOLEAN /\ uPreference' \in BOOLEAN
    BY <1>t, <2>1, Zenon DEF BlurFlags
  <2> QED BY <2>1, <2>2, CallsKeep
<1>5. CASE Blur!Answers
  <2>1. /\ uOne = "ringing" \/ (uOne = "none" /\ ~uRoom)
        /\ uOne' = "live"
        /\ UNCHANGED <<uPlatform, uPreference, uRoom, uLive, uOpened, uChoice, uMixed,
                       Blur!control, Blur!frames>>
    BY <1>5, Zenon DEF Blur!Answers
  <2>2. uRoom' \in BOOLEAN /\ uMixed' \in BOOLEAN /\ uPreference' \in BOOLEAN
    BY <1>t, <2>1, Zenon DEF BlurFlags
  <2>3. ~uMixed => ~uRoom' BY <2>1 DEF BlurInv, OneChoice
  <2> QED BY <2>1, <2>2, <2>3, CallsKeep
<1>6. CASE Blur!OneEnds
  <2>1. /\ uOne # "none" /\ uOne' = "none" /\ uLive' \subseteq uLive /\ Blur!CallEnded(uLive')
        /\ uChoice' = (IF uRoom THEN uChoice ELSE None)
        /\ UNCHANGED <<uPlatform, uPreference, uRoom, uOpened, uMixed, Blur!frames>>
    BY <1>6 DEF Blur!OneEnds
  <2>2. ~uMixed => uChoice' = None BY <2>1 DEF BlurInv, OneChoice
  <2>3. uRoom' \in BOOLEAN BY <1>t, <2>1, Zenon DEF BlurFlags
  <2> QED BY <2>1, <2>2, <2>3, EndKeeps
<1>7. CASE Blur!Joins
  <2>1. /\ uOne = "none" /\ uRoom' = TRUE
        /\ UNCHANGED <<uPlatform, uPreference, uOne, uLive, uOpened, uChoice, uMixed,
                       Blur!control, Blur!frames>>
    BY <1>7, Zenon DEF Blur!Joins
  <2>2. uOne' \in {"none", "ringing", "live"} /\ uMixed' \in BOOLEAN /\ uPreference' \in BOOLEAN
    BY <1>t, <2>1, Zenon DEF BlurFlags
  <2> QED BY <2>1, <2>2, CallsKeep
<1>8. CASE Blur!Leaves
  <2>1. /\ uRoom' = FALSE /\ uLive' \subseteq uLive /\ Blur!CallEnded(uLive') /\ uChoice' = None
        /\ UNCHANGED <<uPlatform, uPreference, uOne, uOpened, uMixed, Blur!frames>>
    BY <1>8 DEF Blur!Leaves
  <2>2. uOne' \in {"none", "ringing", "live"} BY <1>t, <2>1, Zenon DEF BlurFlags
  <2> QED BY <2>1, <2>2, EndKeeps
<1>9. CASE Blur!CameraOff
  <2>1. /\ uLive' \subseteq uLive
        /\ UNCHANGED <<uPlatform, uPreference, uOne, uRoom, uOpened, uChoice, uMixed,
                       Blur!control, Blur!frames>>
    BY <1>9 DEF Blur!CameraOff
  <2>2. UNCHANGED <<uOn, uTurnedOffSlow, uIdle, uTracks, uSlowSeconds, uEffects>>
    BY <2>1, Zenon DEF Blur!control
  <2>f. FrameValues' /\ MaskOfShape' BY <1>t, <2>1, FramesKept DEF BlurInv
  <2>r. Blur!Running(uLive') \subseteq Blur!Running(uLive) BY <2>1, RunningIs
  <2>3. BlurFlags' BY <1>t, <2>1, <2>2, Zenon DEF BlurFlags
  <2>4. CameraValues' BY <1>t, <2>1, <2>2 DEF CameraValues
  <2>5. CamerasNumbered' BY <2>1, <2>2, <2>r DEF BlurInv, CamerasNumbered
  <2>6. ~uMixed' => OneChoice' BY <2>1, <2>2, <2>r DEF BlurInv, OneChoice
  <2> QED BY <2>2, <2>f, <2>3, <2>4, <2>5, <2>6, BlurTypesNext DEF BlurInv
<1>10. ASSUME NEW c \in {"one", "group"}, Blur!CameraOn(c) PROVE BlurInv'
  BY <1>10, CameraOnKeeps
<1>11. ASSUME NEW s \in FrameShapes, Blur!Process(s) PROVE BlurInv'
  <2>1. /\ uShape' = s /\ uSent' \in {"black", Blur!PictureOf(s)}
        /\ uRequest' \in {uRequest, IF uRequest = None THEN s ELSE uRequest}
        /\ UNCHANGED <<uPlatform, uPreference, uOne, uRoom, uLive, uOpened, uChoice, uMixed,
                       uMask>>
        /\ UNCHANGED <<uOn, uTurnedOffSlow, uIdle, uTracks, uSlowSeconds, uEffects>>
    BY <1>11, Zenon DEF Blur!Process, Blur!control
  <2>2. Blur!PictureOf(s) \in {"blurred", "fits"}
    BY DEF Blur!PictureOf, Blur!UsableOnIos, Blur!UsableOnAndroid, BlurInv, MaskOfShape
  <2>3. BlurFlags' BY <1>t, <2>1, Zenon DEF BlurFlags
  <2>4. CameraValues' BY <1>t, <2>1, Zenon DEF CameraValues
  <2>5. FrameValues' BY <1>t, <2>1, <2>2 DEF FrameValues
  <2>6. MaskOfShape' BY <2>1, <2>2 DEF BlurInv, MaskOfShape, Blur!MasksFit
  <2>7. CamerasNumbered' BY <2>1 DEF BlurInv, CamerasNumbered, Blur!Running
  <2>8. ~uMixed' => OneChoice' BY <2>1 DEF BlurInv, OneChoice, Blur!Running
  <2> QED BY <2>1, <2>3, <2>4, <2>5, <2>6, <2>7, <2>8, BlurTypesNext DEF BlurInv
<1>12. CASE Blur!Segmented
  <2>1. /\ uRequest # None /\ uRequest' = None /\ uMask' \in {uMask, <<uRequest, uRequest>>}
        /\ UNCHANGED <<uPlatform, uPreference, uOne, uRoom, uLive, uOpened, uChoice, uMixed,
                       uShape, uSent>>
        /\ UNCHANGED <<uOn, uTurnedOffSlow, uIdle, uTracks, uSlowSeconds, uEffects>>
    BY <1>12, Zenon DEF Blur!Segmented, Blur!control
  <2>3. BlurFlags' BY <1>t, <2>1, Zenon DEF BlurFlags
  <2>4. CameraValues' BY <1>t, <2>1, Zenon DEF CameraValues
  <2>5. FrameValues' BY <1>t, <2>1 DEF FrameValues
  <2>6. MaskOfShape' BY <2>1 DEF BlurInv, MaskOfShape, Blur!MasksFit
  <2>7. CamerasNumbered' BY <2>1 DEF BlurInv, CamerasNumbered, Blur!Running
  <2>8. ~uMixed' => OneChoice' BY <2>1 DEF BlurInv, OneChoice, Blur!Running
  <2> QED BY <2>1, <2>3, <2>4, <2>5, <2>6, <2>7, <2>8, BlurTypesNext DEF BlurInv
<1> QED
  BY <1>1, <1>2, <1>3, <1>4, <1>5, <1>6, <1>7, <1>8, <1>9, <1>10, <1>11, <1>12 DEF Blur!Next

\* For any number of cameras and any shapes of frames: a phone's camera is blurred as was
\* chosen, while no two calls meet (blur.ts:66), and a mask cuts out the person as the frame
\* lies (BlurProcessor.kt:102).
THEOREM BlurSound == Blur!Spec => [](Blur!BlurredAsChosen /\ Blur!MasksFit)
<1>1. BlurInv => Blur!BlurredAsChosen /\ Blur!MasksFit
  <2> SUFFICES ASSUME BlurInv PROVE Blur!BlurredAsChosen BY DEF BlurInv, MaskOfShape
  <2> SUFFICES ASSUME ~uMixed, uLive # {}, uChoice # None
               PROVE  uOn = uChoice /\ (uTurnedOffSlow => ~uOn)
                 /\ ((uEffects \cap Blur!Running(uLive) # {}) <=> uOn)
    BY DEF Blur!BlurredAsChosen
  <2>1. Blur!Running(uLive) # {} BY BlurTypes DEF BlurInv, CameraValues, Blur!Running
  <2>2. \A t \in Blur!Running(uLive) : t \in uEffects <=> uOn BY DEF BlurInv, OneChoice
  <2> QED BY <2>1, <2>2 DEF BlurInv, OneChoice
<1>2. BlurInv /\ [Blur!Next]_(Blur!vars) => BlurInv' BY BlurNextHolds, BlurUntouched
<1> QED BY <1>1, <1>2, BlurInitHolds, PTL DEF Blur!Spec

(*************************** The clients together **************************)

\* A behaviour of the clients is one of each of them: at a step one component moves
\* and the others stand.
LEMMA OneMoves ==
  [ClientsNext]_clientsVars =>
    /\ [Next]_vars /\ [Phone!Next]_(Phone!vars) /\ [Engine!Next]_(Engine!vars)
    /\ [Sound!Next]_(Sound!vars)
<1> SUFFICES ASSUME [ClientsNext]_clientsVars
             PROVE  /\ [Next]_vars /\ [Phone!Next]_(Phone!vars)
                    /\ [Engine!Next]_(Engine!vars) /\ [Sound!Next]_(Sound!vars)
  OBVIOUS
<1>1. /\ UNCHANGED phoneVars => UNCHANGED Phone!vars
      /\ UNCHANGED engineVars => UNCHANGED Engine!vars
      /\ UNCHANGED routeVars => UNCHANGED Sound!vars
  BY DEF phoneVars, engineVars, routeVars, Phone!vars, Engine!vars, Sound!vars, Sound!system,
     Sound!callOf, Sound!session
<1>2. UNCHANGED callVars =>
        UNCHANGED vars /\ UNCHANGED phoneVars /\ UNCHANGED engineVars /\ UNCHANGED routeVars
  BY DEF callVars
<1>3. UNCHANGED clientsVars => UNCHANGED callVars
  BY DEF clientsVars
<1>4. CASE UNCHANGED callVars
  BY <1>1, <1>2, <1>4
<1>5. CASE CallsNext
  <2>1. \/ Next /\ UNCHANGED phoneVars /\ UNCHANGED engineVars /\ UNCHANGED routeVars
        \/ Phone!Next /\ UNCHANGED vars /\ UNCHANGED engineVars /\ UNCHANGED routeVars
        \/ Engine!Next /\ UNCHANGED vars /\ UNCHANGED phoneVars /\ UNCHANGED routeVars
        \/ Sound!Next /\ UNCHANGED vars /\ UNCHANGED phoneVars /\ UNCHANGED engineVars
        \/ /\ UNCHANGED vars /\ UNCHANGED phoneVars
           /\ UNCHANGED engineVars /\ UNCHANGED routeVars
    BY <1>5 DEF CallsNext
  <2> QED BY <2>1, <1>1
<1>6. CallsNext \/ UNCHANGED callVars
  BY <1>3 DEF ClientsNext, VoiceNext, RoomNext, PaneNext, ScreenNext
<1> QED BY <1>4, <1>5, <1>6

\* Among the clients: the system's call screen follows the engine's end
\* (callBridge.ts:107).
THEOREM SystemScreenFollows == ClientsSpec => []SystemFollows
<1>1. ClientsInit => Phone!Init BY DEF ClientsInit
<1>2. Phone!SystemFollows => SystemFollows BY DEF SystemFollows
<1> QED BY <1>1, <1>2, OneMoves, PhoneFollows, PTL DEF ClientsSpec, Phone!Spec

\* Among the clients: one verdict on a call, nothing left on after it, the picture as
\* the other side was told, the camera back when the app is (CallEngine.ts:226, :370,
\* :671, :68); the sound where it is shown, the screen dark only at the ear
\* (nativeAudio.ts:33, proximity.ts:9).
THEOREM PhoneCallsSound == ClientsSpec => []PhoneCallSound
<1>1. ClientsInit => Engine!Init /\ Sound!Init BY DEF ClientsInit
<1>2. ClientsSpec => Engine!Spec
  BY <1>1, OneMoves, PTL DEF ClientsSpec, Engine!Spec
<1>3. ClientsSpec => Sound!Spec
  BY <1>1, OneMoves, PTL DEF ClientsSpec, Sound!Spec
<1>4. Engine!OneVerdict /\ Engine!ReleasedAtEnd /\ Engine!PictureAsTold /\ Engine!ComesBack
        /\ Sound!Truthful /\ Sound!NeverDarkOnVideo => PhoneCallSound
  BY DEF PhoneCallSound
<1> QED BY <1>2, <1>3, <1>4, EngineSound, RouteSound, PTL

LEMMA OneVoiceMoves ==
  [ClientsNext]_clientsVars =>
    /\ [Recorder!Next]_(Recorder!vars) /\ [Hold!Next]_(Hold!vars)
    /\ [Playback!Next]_(Playback!vars) /\ [Player!Next]_(Player!vars)
<1> SUFFICES ASSUME [ClientsNext]_clientsVars
             PROVE  /\ [Recorder!Next]_(Recorder!vars) /\ [Hold!Next]_(Hold!vars)
                    /\ [Playback!Next]_(Playback!vars) /\ [Player!Next]_(Player!vars)
  OBVIOUS
<1>1. /\ UNCHANGED recorderVars => UNCHANGED Recorder!vars
      /\ UNCHANGED holdVars => UNCHANGED Hold!vars
      /\ UNCHANGED playbackVars => UNCHANGED Playback!vars
      /\ UNCHANGED playerVars => UNCHANGED Player!vars
  BY DEF recorderVars, holdVars, playbackVars, playerVars, Recorder!vars, Hold!vars,
     Playback!vars, Player!vars
<1>2. UNCHANGED voiceVars =>
        /\ UNCHANGED recorderVars /\ UNCHANGED holdVars
        /\ UNCHANGED playbackVars /\ UNCHANGED playerVars
  BY DEF voiceVars
<1>3. UNCHANGED clientsVars => UNCHANGED voiceVars
  BY DEF clientsVars
<1>4. CASE UNCHANGED voiceVars
  BY <1>1, <1>2, <1>4
<1>5. CASE VoiceNext
  <2>1. \/ /\ Recorder!Next
           /\ UNCHANGED holdVars /\ UNCHANGED playbackVars /\ UNCHANGED playerVars
        \/ /\ Hold!Next
           /\ UNCHANGED recorderVars /\ UNCHANGED playbackVars /\ UNCHANGED playerVars
        \/ /\ Playback!Next
           /\ UNCHANGED recorderVars /\ UNCHANGED holdVars /\ UNCHANGED playerVars
        \/ /\ Player!Next
           /\ UNCHANGED recorderVars /\ UNCHANGED holdVars /\ UNCHANGED playbackVars
    BY <1>5 DEF VoiceNext
  <2> QED BY <2>1, <1>1
<1>6. VoiceNext \/ UNCHANGED voiceVars
  BY <1>3 DEF ClientsNext, CallsNext, RoomNext, PaneNext, ScreenNext
<1> QED BY <1>4, <1>5, <1>6

\* Among the clients: the microphone is on only while that is shown and what is sent
\* is the recording (voiceRecorder.ts:83, holdSession.ts:72); what is heard is what is
\* shown (voicePlayback.ts:71, playback.ts:89).
THEOREM VoiceMessagesSound == ClientsSpec => []VoiceSound
<1>1. ClientsInit => Recorder!Init /\ Hold!Init /\ Playback!Init /\ Player!Init
  BY DEF ClientsInit
<1>2. ClientsSpec => Recorder!Spec
  BY <1>1, OneVoiceMoves, PTL DEF ClientsSpec, Recorder!Spec
<1>3. ClientsSpec => Hold!Spec
  BY <1>1, OneVoiceMoves, PTL DEF ClientsSpec, Hold!Spec
<1>4. ClientsSpec => Playback!Spec
  BY <1>1, OneVoiceMoves, PTL DEF ClientsSpec, Playback!Spec
<1>5. ClientsSpec => Player!Spec
  BY <1>1, OneVoiceMoves, PTL DEF ClientsSpec, Player!Spec
<1>6. /\ Recorder!MicrophoneShown /\ Recorder!WholeIfSent /\ Hold!RecordsAsShown
      /\ Playback!PlaysAsShown /\ Player!HeardAsShown
      => VoiceSound
  BY DEF VoiceSound
<1> QED
  BY <1>2, <1>3, <1>4, <1>5, <1>6, RecorderSound, HoldSound, PlaybackSound, PlayerSound, PTL

LEMMA OneOfRoomMoves ==
  [ClientsNext]_clientsVars => [Room!Next]_(Room!vars) /\ [Blur!Next]_(Blur!vars)
<1> SUFFICES ASSUME [ClientsNext]_clientsVars
             PROVE  [Room!Next]_(Room!vars) /\ [Blur!Next]_(Blur!vars)
  OBVIOUS
<1>1. /\ UNCHANGED roomVars => UNCHANGED Room!vars
      /\ UNCHANGED blurVars => UNCHANGED Blur!vars
  BY DEF roomVars, blurVars, Room!vars, Blur!vars
<1>2. UNCHANGED clientsVars => UNCHANGED roomVars /\ UNCHANGED blurVars
  BY DEF clientsVars
<1>3. CASE UNCHANGED roomVars /\ UNCHANGED blurVars
  BY <1>1, <1>3
<1>4. CASE RoomNext
  <2>1. \/ Blur!Next /\ UNCHANGED roomVars
        \/ Room!Next /\ UNCHANGED blurVars
    BY <1>4 DEF RoomNext
  <2> QED BY <2>1, <1>1
<1>5. RoomNext \/ (UNCHANGED roomVars /\ UNCHANGED blurVars)
  BY <1>2 DEF ClientsNext, CallsNext, VoiceNext, PaneNext, ScreenNext
<1> QED BY <1>3, <1>4, <1>5

\* Among the clients: one kind of call at a time, whose people, audio and cameras are
\* its own (GroupCallProvider.tsx:71, GroupCallScreen.tsx:83), blurred as was chosen, as
\* the frame lies (GroupCallView.tsx:119, blur.ts:66, BlurProcessor.kt:102).
THEOREM GroupCallsOnScreenSound == ClientsSpec => []GroupScreenSound
<1>1. ClientsInit => Room!Init /\ Blur!Init
  BY DEF ClientsInit
<1>2. ClientsSpec => Room!Spec
  BY <1>1, OneOfRoomMoves, PTL DEF ClientsSpec, Room!Spec
<1>3. ClientsSpec => Blur!Spec
  BY <1>1, OneOfRoomMoves, PTL DEF ClientsSpec, Blur!Spec
<1>4. /\ Room!OneKindOfCall /\ Room!InTheirOwnCall /\ Room!AudioOfTheCall /\ Room!BlurInStep
      /\ Blur!BlurredAsChosen /\ Blur!MasksFit
      => GroupScreenSound
  BY DEF GroupScreenSound
<1> QED
  BY <1>2, <1>3, <1>4, RoomSound, BlurSound, PTL

LEMMA OneChatMoves ==
  [ClientsNext]_clientsVars =>
    /\ [Web!Next]_(Web!vars) /\ [Pane!Next]_(Pane!vars)
    /\ [Reading!Next]_(Reading!vars) /\ [Screen!Next]_(Screen!vars)
<1> SUFFICES ASSUME [ClientsNext]_clientsVars
             PROVE  /\ [Web!Next]_(Web!vars) /\ [Pane!Next]_(Pane!vars)
                    /\ [Reading!Next]_(Reading!vars) /\ [Screen!Next]_(Screen!vars)
  OBVIOUS
<1>1. /\ UNCHANGED webVars => UNCHANGED Web!vars
      /\ UNCHANGED paneVars => UNCHANGED Pane!vars
      /\ UNCHANGED readVars => UNCHANGED Reading!vars
      /\ UNCHANGED screenVars => UNCHANGED Screen!vars
  BY DEF webVars, paneVars, readVars, screenVars, Web!vars, Pane!vars, Reading!vars, Screen!vars
<1>2. UNCHANGED clientsVars =>
        /\ UNCHANGED webVars /\ UNCHANGED paneVars
        /\ UNCHANGED readVars /\ UNCHANGED screenVars
  BY DEF clientsVars, callVars
<1>3. Web!Next \/ UNCHANGED webVars
  BY <1>2 DEF ClientsNext, CallsNext, VoiceNext, RoomNext, PaneNext, ScreenNext, callVars
<1>4. Pane!Next \/ UNCHANGED paneVars
  BY <1>2 DEF ClientsNext, CallsNext, VoiceNext, RoomNext, PaneNext, ScreenNext
<1>5. Reading!Next \/ UNCHANGED readVars
  BY <1>2 DEF ClientsNext, CallsNext, VoiceNext, RoomNext, PaneNext, ScreenNext
<1>6. Screen!Next \/ UNCHANGED screenVars
  BY <1>2 DEF ClientsNext, CallsNext, VoiceNext, RoomNext, PaneNext, ScreenNext
<1> QED BY <1>1, <1>3, <1>4, <1>5, <1>6

\* Among the clients: what is submitted in a tab is never forgotten behind its author's
\* back (ChatPane.tsx:693) and sent in order (outboxFlush.ts:24); a text goes where it
\* was begun or stays, in a browser (ChatPane.tsx:271, :835) and on a phone
\* (Composer.tsx:75, :80), a cancelled upload does not go (useAttachmentUploads.ts:93),
\* and what is told and marked of the reading is so (readReceipts.ts:63,
\* c/[id]/index.tsx:158), with one sheet over the chat (:178).
THEOREM ChatsSound == ClientsSpec => []ChatSound
<1>1. ClientsInit => Web!Init /\ Pane!Init /\ Reading!Init /\ Screen!Init
  BY DEF ClientsInit
<1>2. ClientsSpec => Web!Spec
  BY <1>1, OneChatMoves, PTL DEF ClientsSpec, Web!Spec
<1>3. ClientsSpec => Pane!Spec
  BY <1>1, OneChatMoves, PTL DEF ClientsSpec, Pane!Spec
<1>4. ClientsSpec => Reading!Spec
  BY <1>1, OneChatMoves, PTL DEF ClientsSpec, Reading!Spec
<1>5. ClientsSpec => Screen!Spec
  BY <1>1, OneChatMoves, PTL DEF ClientsSpec, Screen!Spec
<1>6. /\ Web!NothingForgotten /\ Web!FlushInOrder
      /\ Pane!SentWhereWritten /\ Pane!NothingWrittenLost /\ Pane!CancelledNeverSent
      /\ Reading!ReceiptsTrue /\ Reading!SeenIsReported /\ Reading!CountsTrue
      /\ Screen!SentAsWritten /\ Screen!NothingTypedLost /\ Screen!OneSheet /\ Screen!MarksTrue
      => ChatSound
  BY DEF ChatSound
<1> QED
  BY <1>2, <1>3, <1>4, <1>5, <1>6, WebOutboxSound, PaneSound, ReadingSound, ScreenSound, PTL
==============================================================================
