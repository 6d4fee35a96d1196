----------------------------- MODULE AudioRoute -----------------------------
(* Where the sound of the phone's call comes out: AudioSession between the   *)
(* call's screens and the native call library, which routes by itself and    *)
(* reports the route it took; the screen is off against the ear.             *)
(* apps/mobile/src/calls: audioRoute.ts, nativeAudio.ts, proximity.ts,       *)
(* CallProvider.tsx; reports as on Android: the route in use, not the list.  *)
EXTENDS Integers, Sequences

CONSTANTS External,  \* kinds of headset: they can be attached
          MaxReports \* bound on reports not handled yet

VARIABLES
  \* the phone
  attached,  \* headsets attached
  forced,    \* the loudspeaker is forced
  actual,    \* where the sound is
  reports,   \* route changes reported and not handled
  readback,  \* the driver's timer to read the route is set
  \* the call
  live,      \* hasLiveAudio: it connects or is connected
  video,     \* isVideoCall
  asking,    \* Bluetooth permission is asked for before the session begins
  \* AudioSession
  running, media, picked, settled, available, current,
  seen,      \* RouteTracker
  dark       \* ProximityGuard: the screen goes off at the ear

system  == <<attached, forced, actual, reports, readback>>
callOf  == <<live, video, asking>>
session == <<running, media, picked, settled, available, current, seen, dark>>
vars == <<system, callOf, session>>

Routes == {"earpiece", "speaker"} \cup External
Nowhere == "none"

TypeOK ==
  /\ attached \subseteq External /\ forced \in BOOLEAN /\ actual \in Routes
  /\ reports \in Seq(Routes) /\ readback \in BOOLEAN
  /\ live \in BOOLEAN /\ video \in BOOLEAN /\ asking \in BOOLEAN
  /\ running \in BOOLEAN /\ media \in {"audio", "video"} /\ picked \in Routes \cup {Nowhere}
  /\ settled \in BOOLEAN /\ available \subseteq Routes /\ seen \subseteq Routes
  /\ current \in Routes \cup {Nowhere} /\ dark \in BOOLEAN

Init ==
  /\ attached = {} /\ forced = FALSE /\ actual = "earpiece" /\ reports = <<>> /\ readback = FALSE
  /\ live = FALSE /\ video \in BOOLEAN /\ asking = FALSE
  /\ running = FALSE /\ media = "audio" /\ picked = Nowhere /\ settled = FALSE
  /\ available = {} /\ current = Nowhere /\ seen = {} /\ dark = FALSE

(****************************** The phone *********************************)

\* The system prefers a headset to the earpiece; the app can force the speaker.
Chosen(f, att) == IF f THEN {"speaker"} ELSE IF att = {} THEN {"earpiece"} ELSE att

\* What it changes to, it reports, while the session listens.
Route(f, att, pending) ==
  /\ forced' = f /\ attached' = att
  /\ actual' \in (IF actual \in Chosen(f, att) THEN {actual} ELSE Chosen(f, att))
  /\ reports' = IF actual' # actual /\ running THEN Append(pending, actual') ELSE pending

\* A headset comes (the forced speaker may give way) or goes.
Plug(e) ==
  /\ Len(reports) < MaxReports /\ UNCHANGED <<running, callOf, readback>>
  /\ \/ e \notin attached /\ \E f \in {forced, FALSE} : Route(f, attached \cup {e}, reports)
     \/ e \in attached /\ Route(forced, attached \ {e}, reports)
  /\ UNCHANGED <<media, picked, settled, available, current, seen, dark>>

(***************************** The session ********************************)

Default(kind, avail) ==
  IF avail \cap External # {} THEN avail \cap External
  ELSE IF kind = "video" \/ "earpiece" \notin avail THEN {"speaker"} ELSE {"earpiece"}

\* RouteTracker: an external route is forgotten once the system uses another
\* of its own choice.
Tracked(route) ==
  {route} \cup (seen \ (IF route = "speaker" THEN {} ELSE External))

WantsDark == running' /\ media' = "audio" /\ current' = "earpiece"

\* apply: the driver can only force the speaker or leave it to the system, and
\* reads back later what that did.
ApplyBlind(route, pending) ==
  /\ current' = route /\ UNCHANGED readback /\ Route(route = "speaker", attached, pending)
Apply(route, pending) ==
  /\ current' = route /\ readback' = TRUE /\ Route(route = "speaker", attached, pending)

Keep == UNCHANGED <<attached, forced, actual, reports, readback>>

\* onDevices, for a route reported by a change, a read or the start of the
\* session; what arrives is the route itself, and `rest` is still to be handled.
OnDevices(route, rest, timer) ==
  LET avail   == Tracked(route)
      arrived == (avail \cap External) \ available
      gone    == current # Nowhere /\ current \notin avail /\ current # "speaker"
      stays   == IF picked \in avail THEN picked ELSE Nowhere
      Stay    == /\ current' = route /\ readback' = timer /\ reports' = rest
                 /\ UNCHANGED <<attached, forced, actual>>
  IN /\ seen' = avail /\ available' = avail /\ settled' = TRUE
     /\ \/ arrived # {} /\ picked' = Nowhere /\ Stay
        \/ /\ arrived = {} /\ gone /\ picked' = stays
           /\ \E r \in (IF stays # Nowhere THEN {stays} ELSE Default(media, avail)) : Apply(r, rest)
        \/ /\ arrived = {} /\ ~gone /\ UNCHANGED picked
           /\ IF ~settled /\ route \notin External /\ route \notin Default(media, avail)
              THEN \E r \in Default(media, avail) : Apply(r, rest) ELSE Stay

Report ==
  /\ running /\ reports # <<>> /\ OnDevices(Head(reports), Tail(reports), readback)
  /\ UNCHANGED <<callOf, running, media>> /\ dark' = WantsDark

ReadBack ==
  /\ readback /\ UNCHANGED <<callOf, running, media>>
  /\ IF running THEN OnDevices(actual, reports, FALSE) /\ dark' = WantsDark
     ELSE readback' = FALSE /\ UNCHANGED <<attached, forced, actual, reports, picked, settled,
                                           available, current, seen, dark>>

Kind(v) == IF v THEN "video" ELSE "audio"

\* The call connects: permission is asked, then the session begins with the
\* kind of call it is by then; the system says where it put the sound.
Connect ==
  /\ ~live /\ live' = TRUE /\ asking' = TRUE
  /\ UNCHANGED <<system, video, session>>

BeginWith(kind) ==
  /\ asking /\ asking' = FALSE
  /\ running' = TRUE /\ media' = kind /\ picked' = Nowhere /\ settled' = FALSE
  /\ available' = {} /\ current' = Nowhere /\ seen' = {} /\ dark' = FALSE
  /\ reports' = <<actual>>
  /\ UNCHANGED <<live, video, attached, forced, actual, readback>>

BeginAsAsked == BeginWith("audio")
Begin == BeginWith(Kind(video))

\* A camera is turned on or off at either end: with nothing picked and no
\* headset, the default for the new kind.
SetMedia ==
  /\ Len(reports) < MaxReports /\ video' = ~video
  /\ IF ~running THEN UNCHANGED <<media, current>> /\ Keep
     ELSE /\ media' = Kind(video')
          /\ IF picked = Nowhere /\ available \cap External = {}
             THEN \E r \in Default(media', available) : Apply(r, reports)
             ELSE UNCHANGED current /\ Keep
  /\ UNCHANGED <<live, asking, running, picked, settled, available, seen>>
  /\ dark' = WantsDark

\* The person picks a route from those on offer.
Choose(route) ==
  /\ running /\ route \in available \cup {"speaker"} /\ Len(reports) < MaxReports
  /\ picked' = route /\ Apply(route, reports)
  /\ UNCHANGED <<callOf, running, media, settled, available, seen>>
  /\ dark' = WantsDark

\* The call ends; the library puts the sound back.
HangUp ==
  /\ live /\ live' = FALSE /\ asking' = FALSE /\ running' = FALSE
  /\ picked' = Nowhere /\ settled' = FALSE /\ available' = {} /\ current' = Nowhere
  /\ forced' = FALSE /\ actual' \in Chosen(FALSE, attached) /\ reports' = <<>>
  /\ UNCHANGED <<attached, readback, video, media, seen>>
  /\ dark' = WantsDark

Next ==
  \/ \E e \in External : Plug(e)
  \/ Report \/ ReadBack \/ Connect \/ Begin \/ SetMedia \/ HangUp
  \/ \E r \in Routes : Choose(r)

Spec == Init /\ [][Next]_vars

(****************************** Properties ********************************)

\* "The route button never claims otherwise" (nativeAudio.ts:33): once every
\* report is handled and the route read back, the one shown is the one in use.
Truthful == running /\ reports = <<>> /\ ~readback => current = actual

\* "The screen goes off against the ear only during a live audio call"
\* (proximity.ts:9), never while a picture is shown.
NeverDarkOnVideo == dark => live /\ ~video
=============================================================================
