---------------------------- MODULE GroupCallScreens ----------------------------
(* The one group call a browser tab or a phone can be in: who joined it, the    *)
(* 1:1 call beside it, the phone's audio session and camera, the browser's blur. *)
(* apps/web/src/features/groupCalls: GroupCallProvider.tsx, GroupCallView.tsx,   *)
(* GroupCallBar.tsx, busy.ts; apps/mobile/src/groupCalls: GroupCallProvider.tsx, *)
(* GroupCallScreen.tsx, GroupCallBanner.tsx.                                     *)
(*                                                                               *)
(* React renders and runs the effects of a change at once; LiveKit's promises    *)
(* and the API's are awaited.                                                    *)
EXTENDS Naturals, FiniteSets

CONSTANTS Users, Groups, None

VARIABLES
  client,     \* "web" or "phone"
  auth, user, \* signed in, as whom (None while that is loading)
  oneToOne,   \* the phase of the 1:1 call
  joined, joining,
  joins,      \* join requests on their way
  audio,      \* the phone's audio session: whose it is
  starting,   \* useCallAudio at an await, its screen still there or not
  opening, cameras, \* being opened, and running: the screen's, or that of one that left
  blur, processor, \* the browser's switch, and what its camera goes through
  turning,    \* setProcessor and stopProcessor on their way
  minimised,  \* the screen is a bar
  hasty       \* left or pressed while something was awaited

vars == <<client, auth, user, oneToOne, joined, joining, joins, audio, starting, opening,
          cameras, blur, processor, turning, minimised, hasty>>
people == <<client, auth, user, oneToOne, joined>>
blurs == <<blur, processor, turning, minimised>>

Of == {"screen", "left"}
Sessions == [user : Users, group : Groups]

TypeOK ==
  /\ client \in {"web", "phone"} /\ auth \in {"in", "loading", "out"}
  /\ user \in Users \cup {None} /\ oneToOne \in {"none", "incoming", "live"}
  /\ joined \in Sessions \cup {None} /\ joining \in Groups \cup {None}
  /\ joins \subseteq Sessions
  /\ audio \in {"off", "group", "call"} /\ starting \subseteq Of /\ opening \subseteq Of
  /\ cameras \subseteq Of /\ turning \subseteq {"set", "stop"}
  /\ {blur, processor, minimised, hasty} \subseteq BOOLEAN

Init ==
  /\ client \in {"web", "phone"} /\ auth = "in" /\ user \in Users /\ oneToOne = "none"
  /\ joined = None /\ joining = None /\ joins = {} /\ audio = "off" /\ starting = {}
  /\ opening = {} /\ cameras = {} /\ blur = FALSE /\ processor = FALSE /\ turning = {}
  /\ minimised = FALSE /\ hasty = FALSE

-----------------------------------------------------------------------------
(* What is rendered *)

\* Whoever signs in inherits it.
MineUnchecked(j, a, u) == j # None /\ a # "out"
\* session: the call of whoever is signed in, also while that is loading.
Mine(j, a, u) == j # None /\ a # "out" /\ (u = None \/ j.user = u)
Session == joined # None
Answered(one) == one = "live"

\* The screen gives its audio session back, whatever it leaves for.
AudioStopped(handedOver) == IF client = "phone" THEN "off" ELSE audio
\* The screen leaves: useCallAudio's cleanup, unless a 1:1 call was answered,
\* which sets up its own.
AudioLeft(handedOver) ==
  IF handedOver THEN "call" ELSE IF client = "phone" THEN "off" ELSE audio
Left(waiting) == IF waiting = {} THEN {} ELSE {"left"}
ScreenLeaves ==
  /\ starting' = Left(starting) /\ turning' = {}
  /\ opening' = IF client = "phone" THEN Left(opening) ELSE {}
  /\ cameras' = cameras \ {"screen"} /\ processor' = FALSE
  /\ blur' = FALSE /\ minimised' = FALSE
  /\ hasty' = (hasty \/ starting # {} \/ opening # {} \/ turning # {})

\* joined, auth, user and the 1:1 call changed: the session goes that is not
\* theirs any more, or that an answered 1:1 call ends; a new one shows its screen.
Renders(j, a, u, one) ==
  LET keeps == Mine(j, a, u)
      starts == keeps /\ ~Session
      answered == Answered(one) IN
  /\ auth' = a /\ user' = u /\ oneToOne' = one
  /\ joined' = IF keeps /\ ~answered THEN j ELSE None
  /\ \/ /\ Session /\ joined' = None /\ ScreenLeaves /\ audio' = AudioLeft(answered)
     \/ /\ starts /\ client = "phone"
        /\ starting' = starting \cup {IF answered THEN "left" ELSE "screen"}
        /\ hasty' = (hasty \/ answered)
        /\ UNCHANGED <<audio, opening, cameras, blurs>>
     \/ /\ starts /\ client = "web" /\ blur' \in BOOLEAN
        /\ UNCHANGED <<audio, starting, opening, cameras, processor, turning, minimised, hasty>>
     \/ /\ ~starts /\ (Session => joined' # None)
        /\ audio' = IF answered THEN "call"
                    ELSE IF oneToOne = "live" THEN "off" ELSE audio
        /\ UNCHANGED <<starting, opening, cameras, blurs, hasty>>

-----------------------------------------------------------------------------
(* Joining and leaving *)

Busy == oneToOne # "none" \/ Session
\* The browser's buttons are off while busy; the phone asks to finish first.
CanPressOnWeb == ~Busy /\ joining = None
CanPressOnPhone == joining = None
Join(g) ==
  /\ IF client = "web" THEN CanPressOnWeb ELSE CanPressOnPhone
  /\ ~Session /\ oneToOne = "none" /\ user # None
  /\ joining' = g /\ joins' = joins \cup {[user |-> user, group |-> g]}
  /\ UNCHANGED <<people, audio, starting, opening, cameras, blurs, hasty>>
Joined(r) ==
  /\ r \in joins /\ joins' = joins \ {r} /\ joining' = None
  /\ Renders(r, auth, user, oneToOne) /\ UNCHANGED client
JoinFails(r) ==
  /\ r \in joins /\ joins' = joins \ {r} /\ joining' = None
  /\ UNCHANGED <<people, audio, starting, opening, cameras, blurs, hasty>>
\* "Leave", or the SFU's disconnection or error.
Leave ==
  /\ Session /\ Renders(None, auth, user, oneToOne) /\ UNCHANGED <<client, joining, joins>>

SignsIn(u) ==
  /\ auth # "in" /\ Renders(joined, "in", u, oneToOne)
  /\ UNCHANGED <<client, joining, joins>>
Loads ==
  /\ auth = "in" /\ Renders(joined, "loading", None, oneToOne)
  /\ UNCHANGED <<client, joining, joins>>
\* CallProvider hangs up.
SignsOut ==
  /\ auth # "out" /\ Renders(joined, "out", None, "none")
  /\ UNCHANGED <<client, joining, joins>>

\* A 1:1 call: made (not in a group call), coming in at any time, answered, over.
Calls ==
  /\ auth = "in"
  /\ \/ oneToOne = "none" /\ ~Session /\ Renders(joined, auth, user, "live")
     \/ oneToOne = "none" /\ Renders(joined, auth, user, "incoming")
     \/ oneToOne = "incoming" /\ Renders(joined, auth, user, "live")
     \/ oneToOne # "none" /\ Renders(joined, auth, user, "none")
  /\ UNCHANGED <<client, joining, joins>>

-----------------------------------------------------------------------------
(* The phone's audio session, the cameras, the browser's blur *)

\* Effects' effect: what LiveKit is asked for when a camera has a processor or
\* not.  The minimised browser shows no Effects, the phone has its own blur.
Step(on, has, hidden) ==
  IF client = "phone" \/ hidden \/ on = has THEN {} ELSE {IF on THEN "set" ELSE "stop"}

\* configureAudio came back: startAudioSession, whether the screen is still there or not.
AudioStarts(of) ==
  /\ of \in starting /\ starting' = starting \ {of} /\ audio' \in {"group", audio}
  /\ UNCHANGED <<people, joining, joins, opening, cameras, blurs, hasty>>
Ready == client = "web" \/ "screen" \notin starting
\* The screen as a bar, or back: the browser's ControlBar stays, its Effects go.
Minimise ==
  /\ Session /\ Ready /\ minimised' = ~minimised
  /\ turning' = turning \cup IF "screen" \in cameras THEN Step(blur, processor, ~minimised) ELSE {}
  /\ hasty' = (hasty \/ turning # {})
  /\ UNCHANGED <<people, joining, joins, audio, starting, opening, cameras, blur, processor>>

\* "Turn camera on" opens one and publishes it; on the phone off unpublishes and
\* stops it, in the browser LiveKit keeps it, muted, with its processor.
CameraTapped ==
  /\ Session /\ Ready /\ (client = "phone" => ~minimised)
  /\ \/ /\ client = "phone" /\ "screen" \in cameras /\ cameras' = cameras \ {"screen"}
        /\ UNCHANGED opening
     \/ /\ "screen" \notin cameras \cup opening /\ opening' = opening \cup {"screen"}
        /\ UNCHANGED cameras
  /\ UNCHANGED <<people, joining, joins, audio, starting, blurs, hasty>>
\* The publication of a screen that left fails, and nothing stops its camera.
CameraOpens(of) ==
  /\ of \in opening /\ opening' = opening \ {of}
  /\ \/ UNCHANGED <<cameras, processor, turning>>
     \/ /\ cameras' = cameras \cup {of}
        /\ IF client = "web" /\ of = "screen"
           THEN \* with a processor if blur was chosen when joining; Effects' effect follows
                \E has \in BOOLEAN :
                  /\ processor' = has
                  /\ turning' = Step(blur, has, minimised)
           ELSE UNCHANGED <<processor, turning>>
  /\ UNCHANGED <<people, joining, joins, audio, starting, blur, minimised, hasty>>

\* The switch, or the detector that this device is too slow; then Effects' effect.
Switches(to) ==
  /\ Session /\ client = "web" /\ blur' = to
  /\ turning' = turning \cup
       (IF "screen" \in cameras THEN Step(to, processor, minimised) ELSE {})
  /\ hasty' = (hasty \/ turning # {})
  /\ UNCHANGED <<people, joining, joins, audio, starting, opening, cameras, processor, minimised>>
BlurPressed == ~minimised /\ Switches(~blur)
TooSlow == processor /\ blur /\ Switches(FALSE)
Turned(what) ==
  /\ what \in turning /\ turning' = turning \ {what}
  /\ \/ processor' = (what = "set") /\ UNCHANGED blur
     \/ what = "set" /\ blur' = FALSE /\ UNCHANGED processor
  /\ UNCHANGED <<people, joining, joins, audio, starting, opening, cameras, minimised, hasty>>

Next ==
  \/ \E g \in Groups : Join(g)
  \/ \E r \in joins : Joined(r) \/ JoinFails(r)
  \/ Leave \/ Loads \/ SignsOut \/ Calls
  \/ \E u \in Users : SignsIn(u)
  \/ \E of \in Of : AudioStarts(of) \/ CameraOpens(of)
  \/ CameraTapped \/ Minimise \/ BlurPressed \/ TooSlow
  \/ \E what \in {"set", "stop"} : Turned(what)
Spec == Init /\ [][Next]_vars

(****************************** Properties ********************************)

\* "One kind of call at a time" (mobile GroupCallProvider.tsx:45), also when the
\* token comes after a 1:1 call was made or answered.
OneKindOfCall == Session => oneToOne # "live"

\* "The session belongs to the person who joined" (GroupCallProvider.tsx:71):
\* nobody is in a call that somebody else joined on this device.
InTheirOwnCall == Session /\ user # None => joined.user = user

\* The phone's audio session is the call's there is, also after the group call
\* handed over to a 1:1 call, and no camera outlives its call; not so for who
\* leaves while configureAudio or the camera is awaited (GroupCallScreen.tsx:71, :146).
AudioOfTheCall ==
  ~hasty /\ client = "phone" =>
    /\ audio = "call" <=> oneToOne = "live"
    /\ audio = "group" => Session
    /\ ~Session => cameras = {}

\* The browser's camera goes through the blur as the switch says once LiveKit is
\* done; not so when the switch is pressed before that (GroupCallView.tsx:119), nor
\* behind the minimised bar, where a device too slow for the blur keeps it while
\* told that it was turned off (GroupCallView.tsx:247, :298).
BlurInStep ==
  ~hasty /\ ~minimised /\ client = "web" /\ "screen" \in cameras /\ turning = {} => processor = blur
=============================================================================
