---------------------------- MODULE PhonePlayback -----------------------------
(* A phone plays voice messages through one native player: the presses, the    *)
(* signed URLs, the player's statuses, the lock screen, and stops for a call   *)
(* or a sign-out.                                                              *)
(* apps/mobile/src/voice: playback.ts, expoAudio.ts, index.ts,                 *)
(* VoiceMessageView.tsx.                                                       *)
(*                                                                             *)
(* Positions and the speed are left out; a seek is an await like the others.   *)
EXTENDS Naturals, Sequences, FiniteSets

CONSTANTS Messages, None, MaxErrors, MaxStatuses, MaxAwaited

VARIABLES
  id, playing, loading, error,  \* the state that is shown
  loaded, retried,
  source,   \* whose recording the player has
  sounds,   \* it plays
  lockScreen, \* its controls are on the lock screen
  statuses, \* the player's statuses on their way
  calls,    \* play() and recover() at an await
  quiet,    \* stopped, for a call or a sign-out, and nothing pressed since
  errors,   \* failures so far
  stray     \* a press or a stop while an earlier press, or a status, was on its way

vars == <<id, playing, loading, error, loaded, retried, source, sounds, lockScreen, statuses,
          calls, quiet, errors, stray>>
shown == <<id, playing, loading, error>>
player == <<source, sounds, lockScreen>>

Calls == [of : Messages, same : BOOLEAN, what : {"play", "recover"},
          at : {"prepare", "url", "seek"}]

TypeOK ==
  /\ {id, source} \subseteq Messages \cup {None}
  /\ {playing, loading, error, loaded, retried, sounds, lockScreen, quiet, stray} \subseteq BOOLEAN
  /\ statuses \in Seq({"playing", "paused", "finished", "failed"}) /\ calls \subseteq Calls
  /\ errors \in 0..MaxErrors

Init ==
  /\ id = None /\ playing = FALSE /\ loading = FALSE /\ error = FALSE /\ loaded = FALSE
  /\ retried = FALSE /\ source = None /\ sounds = FALSE /\ lockScreen = FALSE /\ statuses = <<>>
  /\ calls = {} /\ quiet = TRUE /\ errors = 0 /\ stray = FALSE

Says(status) == statuses' = Append(statuses, status)
PauseSound ==
  /\ sounds' = FALSE /\ IF sounds THEN Says("paused") ELSE UNCHANGED statuses

\* The button of a message pauses it while it plays.
MayPlay(m) == ~(id = m /\ playing)
\* toggle(), or seek() in another message.
Play(m) ==
  /\ MayPlay(m) /\ Len(statuses) < MaxStatuses /\ Cardinality(calls) < MaxAwaited
  /\ LET same == id = m /\ loaded /\ ~error
         call == [of |-> m, same |-> same, what |-> "play", at |-> "prepare"] IN
     /\ call \notin calls /\ calls' = calls \cup {call} /\ loading' = ~same
  /\ id' = m /\ error' = FALSE /\ playing' = FALSE /\ quiet' = FALSE
  /\ stray' = (stray \/ calls # {} \/ statuses # <<>>)
  /\ UNCHANGED <<loaded, retried, player, statuses, errors>>
Pause ==
  /\ playing /\ Len(statuses) < MaxStatuses /\ PauseSound
  /\ UNCHANGED <<shown, loaded, retried, source, lockScreen, calls, quiet, errors, stray>>

\* play() goes on: the audio session is ready, the URL is there, the seek done.
Goes(c, at) == calls' = (calls \ {c}) \cup {[c EXCEPT !.at = at]}
Prepared(c) ==
  /\ c \in calls /\ c.at = "prepare"
  /\ \/ c.same /\ Goes(c, "seek") /\ UNCHANGED <<loaded, retried>>
     \/ ~c.same /\ Goes(c, "url") /\ loaded' = FALSE /\ retried' = FALSE
  /\ UNCHANGED <<shown, player, statuses, quiet, errors, stray>>
LoadUrl(c) ==
  /\ c \in calls /\ c.at = "url"
  /\ \/ /\ c.what = "play" /\ id # c.of /\ calls' = calls \ {c}
        /\ UNCHANGED <<loaded, player, statuses>>
     \/ /\ c.what = "recover" \/ id = c.of
        /\ Goes(c, "seek") /\ source' = c.of /\ PauseSound
        /\ loaded' = (loaded \/ c.what = "play") /\ UNCHANGED lockScreen
  /\ UNCHANGED <<shown, retried, quiet, errors, stray>>
Plays(c) ==
  /\ c \in calls /\ c.at = "seek" /\ calls' = calls \ {c}
  /\ sounds' = (source # None)
  /\ IF source # None /\ ~sounds THEN Says("playing") ELSE UNCHANGED statuses
  /\ lockScreen' = (lockScreen \/ c.what = "play")
  /\ UNCHANGED <<shown, loaded, retried, source, quiet, errors, stray>>
Fails(c) ==
  /\ c \in calls /\ errors < MaxErrors /\ errors' = errors + 1 /\ calls' = calls \ {c}
  /\ \/ /\ c.what = "recover" /\ playing' = FALSE /\ loading' = FALSE /\ error' = TRUE
     \/ /\ c.what = "play" /\ UNCHANGED playing
        /\ \/ id = c.of /\ loading' = FALSE /\ error' = TRUE
           \/ id # c.of /\ UNCHANGED <<loading, error>>
  /\ UNCHANGED <<id, loaded, retried, player, statuses, quiet, stray>>

\* The player finishes, or fails (the URL expired).
Finishes ==
  /\ sounds /\ Len(statuses) < MaxStatuses /\ sounds' = FALSE /\ Says("finished")
  /\ UNCHANGED <<shown, loaded, retried, source, lockScreen, calls, quiet, errors, stray>>
Breaks ==
  /\ sounds /\ Len(statuses) < MaxStatuses /\ errors < MaxErrors /\ errors' = errors + 1
  /\ sounds' = FALSE /\ Says("failed")
  /\ UNCHANGED <<shown, loaded, retried, source, lockScreen, calls, quiet, stray>>

\* onStatus, and recover(): once per message.
Recover ==
  \/ /\ retried /\ playing' = FALSE /\ loading' = FALSE /\ error' = TRUE
     /\ UNCHANGED <<retried, calls>>
  \/ /\ ~retried /\ retried' = TRUE /\ UNCHANGED <<playing, loading, error>>
     /\ calls' = calls \cup {[of |-> id, same |-> FALSE, what |-> "recover", at |-> "url"]}
OnStatus ==
  /\ statuses # <<>> /\ statuses' = Tail(statuses)
  /\ LET s == Head(statuses) IN
     \/ id = None /\ UNCHANGED <<playing, loading, error, retried, calls, lockScreen>>
     \/ id # None /\ s = "failed" /\ Recover /\ UNCHANGED lockScreen
     \/ /\ id # None /\ s = "finished" /\ playing' = FALSE /\ loading' = FALSE
        /\ lockScreen' = FALSE /\ UNCHANGED <<error, retried, calls>>
     \/ /\ id # None /\ s \in {"playing", "paused"} /\ playing' = (s = "playing")
        /\ loading' = (loading /\ s # "playing") /\ UNCHANGED <<error, retried, calls, lockScreen>>
  /\ UNCHANGED <<id, loaded, source, sounds, quiet, errors, stray>>

\* The lock screen keeps its controls.
StopKeepsControls ==
  /\ ~quiet /\ Len(statuses) < MaxStatuses /\ quiet' = TRUE
  /\ stray' = (stray \/ calls # {} \/ statuses # <<>>)
  /\ IF id = None THEN UNCHANGED <<sounds, statuses>> ELSE PauseSound
  /\ loaded' = FALSE /\ id' = None /\ playing' = FALSE /\ loading' = FALSE /\ error' = FALSE
  /\ UNCHANGED <<retried, source, lockScreen, calls, errors>>
\* A call starts, or the account signs out: stop().
Stop ==
  /\ ~quiet /\ Len(statuses) < MaxStatuses /\ quiet' = TRUE
  /\ stray' = (stray \/ calls # {} \/ statuses # <<>>)
  /\ \/ id # None /\ PauseSound /\ lockScreen' = FALSE
     \/ id = None /\ UNCHANGED <<sounds, statuses, lockScreen>>
  /\ loaded' = FALSE /\ id' = None /\ playing' = FALSE /\ loading' = FALSE /\ error' = FALSE
  /\ UNCHANGED <<retried, source, calls, errors>>

Next ==
  \/ \E m \in Messages : Play(m)
  \/ Pause \/ Finishes \/ Breaks \/ OnStatus \/ Stop
  \/ \E c \in calls : Prepared(c) \/ LoadUrl(c) \/ Plays(c) \/ Fails(c)
Spec == Init /\ [][Next]_vars

(****************************** Properties ********************************)

\* "Starting another message stops the current one" (playback.ts:4) and "one
\* account's voice messages never keep playing for the next" (index.ts:24): what
\* is heard is what is shown, and nothing is heard in a call or after signing
\* out.  Both fail once something is pressed, or a stop comes, while an earlier
\* press is at an await: pressed twice, a message plays the one before, and the
\* stop comes too early.
HeardAsShown ==
  ~stray =>
    /\ sounds /\ calls = {} /\ ~error => source = id
    /\ quiet => ~sounds /\ ~lockScreen
=============================================================================
