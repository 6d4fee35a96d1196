---------------------------- MODULE VoicePlayback -----------------------------
(* A browser plays voice messages through one audio element: the presses, the  *)
(* signed URLs, the element's events, and one retry with a fresh URL.          *)
(* apps/web/src/features/voice: voicePlayback.ts, VoicePlaybackProvider.tsx,   *)
(* VoiceMessage.tsx.                                                           *)
(*                                                                             *)
(* Of HTMLMediaElement, as its standard says: setting src pauses it, drops its *)
(* queued events and rejects the pending play(); so does pause(), which queues *)
(* its own event.  Positions and the speed are left out.                       *)
EXTENDS Naturals, Sequences

CONSTANTS Messages, None, MaxErrors, MaxEvents

VARIABLES
  id, playing, loading, error,  \* the state that is shown
  retried,  \* a fresh URL was asked for
  src,      \* whose recording the element has
  sound,    \* "off", "waiting" for data after play(), "on"
  events,   \* the element's events on their way
  calls,    \* play() and recover() of the store, at an await
  signedIn,
  errors,   \* failures so far
  stray     \* a press or a sign-out while a URL was being fetched

vars == <<id, playing, loading, error, retried, src, sound, events, calls, signedIn, errors,
          stray>>

Calls == [of : Messages, what : {"play", "recover"}, at : {"url", "playing"}]

TypeOK ==
  /\ {id, src} \subseteq Messages \cup {None} /\ {playing, loading, error, retried} \subseteq BOOLEAN
  /\ sound \in {"off", "waiting", "on"} /\ calls \subseteq Calls /\ {signedIn, stray} \subseteq BOOLEAN
  /\ events \in Seq({"playing", "pause", "ended", "error"}) /\ errors \in 0..MaxErrors

Init ==
  /\ id = None /\ playing = FALSE /\ loading = FALSE /\ error = FALSE /\ retried = FALSE
  /\ src = None /\ sound = "off" /\ events = <<>> /\ calls = {} /\ signedIn = TRUE /\ errors = 0
  /\ stray = FALSE

AtUrl == {c \in calls : c.at = "url"}
Pending == calls \ AtUrl

\* What is shown once play() of the element was rejected: an error, if the
\* message is still the one shown, or if recover() asked.
Failed(cs) == \E c \in cs : c.of = id \/ c.what = "recover"
ShowRejected(cs) ==
  /\ error' = (error \/ Failed(cs)) /\ loading' = (loading /\ ~Failed(cs))
  /\ playing' = (playing /\ ~\E c \in cs : c.what = "recover")

Silence == sound' = "off" /\ events' = IF sound = "off" THEN events ELSE Append(events, "pause")

\* The button of a message pauses it while it plays and is disabled while it loads.
MayPlay(m) == signedIn /\ ~(id = m /\ (playing \/ loading))
\* toggle(), or seek() in another message.
Same(m) == id = m /\ src # None /\ ~error
Play(m) ==
  /\ MayPlay(m) /\ Len(events) < MaxEvents
  /\ id' = m /\ loading' = ~Same(m) /\ error' = FALSE /\ playing' = FALSE
  /\ \/ /\ Same(m) /\ calls' = calls \cup {[of |-> m, what |-> "play", at |-> "playing"]}
        /\ sound' = (IF sound = "off" THEN "waiting" ELSE sound) /\ UNCHANGED retried
     \/ /\ ~Same(m) /\ calls' = calls \cup {[of |-> m, what |-> "play", at |-> "url"]}
        /\ retried' = FALSE /\ UNCHANGED sound
  /\ stray' = (stray \/ AtUrl # {}) /\ UNCHANGED <<src, events, signedIn, errors>>
Pause ==
  /\ playing /\ Len(events) < MaxEvents /\ Silence /\ ShowRejected(Pending) /\ calls' = AtUrl
  /\ UNCHANGED <<id, retried, src, signedIn, errors, stray>>

\* The URL is there, and goes into the element, whatever is shown by then.
LoadUrl(c) ==
  /\ c \in AtUrl /\ src' = c.of /\ events' = <<>>
  /\ ShowRejected(Pending)
  /\ \/ /\ c.what = "recover" \/ id = c.of
        /\ sound' = "waiting" /\ calls' = (AtUrl \ {c}) \cup {[c EXCEPT !.at = "playing"]}
     \/ c.what = "play" /\ id # c.of /\ sound' = "off" /\ calls' = AtUrl \ {c}
  /\ UNCHANGED <<id, retried, signedIn, errors, stray>>
LoadUrlFails(c) ==
  /\ c \in AtUrl /\ errors < MaxErrors /\ errors' = errors + 1
  /\ ShowRejected({c}) /\ calls' = calls \ {c}
  /\ UNCHANGED <<id, retried, src, sound, events, signedIn, stray>>

\* The element: data come, or do not (the URL expired), or come to an end.
Begins ==
  /\ sound = "waiting" /\ sound' = "on" /\ events' = Append(events, "playing") /\ calls' = AtUrl
  /\ UNCHANGED <<id, playing, loading, error, retried, src, signedIn, errors, stray>>
Breaks ==
  /\ sound \in {"waiting", "on"} /\ errors < MaxErrors /\ errors' = errors + 1
  /\ sound' = "off" /\ events' = Append(events, "error") /\ ShowRejected(Pending)
  /\ calls' = AtUrl /\ UNCHANGED <<id, retried, src, signedIn, stray>>
Ends ==
  /\ sound = "on" /\ sound' = "off" /\ events' = Append(events, "ended")
  /\ UNCHANGED <<id, playing, loading, error, retried, src, calls, signedIn, errors, stray>>

\* element(): what the store makes of the events.
OnPlaying == Head(events) = "playing" /\ playing' = TRUE /\ loading' = FALSE
             /\ UNCHANGED <<error, retried, calls>>
OnPaused == Head(events) \in {"pause", "ended"} /\ playing' = FALSE
            /\ UNCHANGED <<loading, error, retried, calls>>
\* recover(): once per message.
Recover ==
  /\ Head(events) = "error"
  /\ \/ id = None /\ UNCHANGED <<playing, loading, error, retried, calls>>
     \/ /\ id # None /\ retried /\ playing' = FALSE /\ loading' = FALSE /\ error' = TRUE
        /\ UNCHANGED <<retried, calls>>
     \/ /\ id # None /\ ~retried /\ retried' = TRUE
        /\ calls' = calls \cup {[of |-> id, what |-> "recover", at |-> "url"]}
        /\ UNCHANGED <<playing, loading, error>>
OnEvent ==
  /\ events # <<>> /\ events' = Tail(events) /\ (OnPlaying \/ OnPaused \/ Recover)
  /\ UNCHANGED <<id, src, sound, signedIn, errors, stray>>

\* What is shown is reset, and the element plays on.
StopShown ==
  /\ signedIn /\ signedIn' = FALSE /\ id' = None /\ playing' = FALSE /\ loading' = FALSE
  /\ error' = FALSE /\ stray' = (stray \/ AtUrl # {})
  /\ UNCHANGED <<retried, src, sound, events, calls, errors>>
\* Signing out: stop().
Stop ==
  /\ signedIn /\ signedIn' = FALSE /\ Silence /\ src' = None /\ calls' = AtUrl
  /\ id' = None /\ playing' = FALSE /\ loading' = FALSE
  /\ error' = (\E c \in Pending : c.what = "recover")
  /\ stray' = (stray \/ AtUrl # {}) /\ UNCHANGED <<retried, errors>>

Next ==
  \/ \E m \in Messages : Play(m)
  \/ Pause \/ Begins \/ Breaks \/ Ends \/ OnEvent \/ Stop
  \/ \E c \in calls : LoadUrl(c) \/ LoadUrlFails(c)
Spec == Init /\ [][Next]_vars

(****************************** Properties ********************************)

\* Unless something is pressed while a URL is on its way: what is heard is what
\* is shown, and a message shown as playing is heard (events of the element
\* that are on their way apart); nothing is heard after signing out.
PlaysAsShown ==
  ~stray /\ events = <<>> =>
    /\ sound = "on" /\ AtUrl = {} /\ ~error => src = id
    /\ playing /\ id # None => sound # "off" \/ AtUrl # {}
    /\ ~signedIn => sound = "off"

\* What `stray` sets aside: a URL that comes late replaces the newer one, and a
\* retry whose URL is on its way plays after the sign-out.
=============================================================================
