----------------------------- MODULE HoldToRecord -----------------------------
(* A phone records voice messages: hold the button, let go to send, slide to   *)
(* cancel; the native recorder, its file and the audio session behind it.      *)
(* apps/mobile/src/voice: holdSession.ts, capture.ts, expoAudio.ts,            *)
(* HoldToRecordButton.tsx.                                                     *)
(*                                                                             *)
(* A recording is numbered by its begin(), its file by the prepare that made   *)
(* it.  It may be too short, or at the limit, at any time.                     *)
EXTENDS Integers

CONSTANT MaxBegins

VARIABLES
  open,       \* the chat is open
  pressed, active, cancelling,  \* HoldToRecord's
  timer,      \* the interval it knows, or 0
  ticking,    \* intervals that run, by the begin() that set them
  capturing,  \* VoiceCapture's active
  current,    \* the begin() whose recording that is, or 0
  begins,     \* begins[n]: where the nth begin() is
  ends,       \* recordings being stopped: of which begin(), to be sent, what is next
  file,       \* what the native recorder last prepared, or 0
  recording,  \* it records
  allowed,    \* the audio session is set to recording
  sent,       \* recordings handed over, with their file
  stray       \* a press while the one before was still starting or stopping

vars == <<open, pressed, active, cancelling, timer, ticking, capturing, current, begins, ends,
          file, recording, allowed, sent, stray>>
session == <<active, cancelling, timer, ticking>>
capture == <<capturing, current>>
native == <<file, recording, allowed>>

Begins == 1..MaxBegins
Starting(n) == begins[n] \in {"permission", "session", "prepare"}

TypeOK ==
  /\ {open, pressed, active, cancelling, capturing, recording, allowed, stray} \subseteq BOOLEAN
  /\ timer \in 0..MaxBegins /\ ticking \subseteq Begins /\ {current, file} \subseteq 0..MaxBegins
  /\ begins \in [Begins -> {"none", "permission", "session", "prepare", "over"}]
  /\ ends \subseteq [of : Begins, send : BOOLEAN, at : {"stop", "session"}]
  /\ sent \subseteq Begins \X Begins

Init ==
  /\ open = TRUE /\ pressed = FALSE /\ active = FALSE /\ cancelling = FALSE /\ timer = 0
  /\ ticking = {} /\ capturing = FALSE /\ current = 0 /\ begins = [n \in Begins |-> "none"]
  /\ ends = {} /\ file = 0 /\ recording = FALSE /\ allowed = FALSE /\ sent = {} /\ stray = FALSE

\* begin(): unless a call is on.
Begin(n) ==
  /\ open /\ ~active /\ begins[n] = "none" /\ \A m \in 1..(n - 1) : begins[m] # "none"
  /\ pressed' = TRUE /\ begins' = [begins EXCEPT ![n] = "permission"]
  /\ stray' = (stray \/ ends # {} \/ \E m \in Begins : Starting(m))
  /\ UNCHANGED <<open, session, capture, ends, native, sent>>

\* The person is asked, or refused before; or start() fails.
GiveUp(n) ==
  /\ Starting(n) /\ begins' = [begins EXCEPT ![n] = "over"]
  /\ UNCHANGED <<open, pressed, session, capture, ends, native, sent, stray>>
Permitted(n) ==
  /\ begins[n] = "permission" /\ begins' = [begins EXCEPT ![n] = "session"]
  /\ UNCHANGED <<open, pressed, session, capture, ends, native, sent, stray>>
\* expoRecorder's start: the session, then a file for the recorder.
SessionSet(n) ==
  /\ begins[n] = "session" /\ begins' = [begins EXCEPT ![n] = "prepare"] /\ allowed' = TRUE
  /\ UNCHANGED <<open, pressed, session, capture, ends, file, recording, sent, stray>>
\* Without the check whether the button is still held.
StartedUnchecked(n) ==
  /\ begins[n] = "prepare" /\ begins' = [begins EXCEPT ![n] = "over"]
  /\ file' = n /\ recording' = TRUE /\ current' = n /\ capturing' = TRUE
  /\ UNCHANGED <<open, pressed, session, ends, allowed, sent, stray>>
\* It records: a recording, if the button is still held, or a tap.
Started(n) ==
  /\ begins[n] = "prepare" /\ begins' = [begins EXCEPT ![n] = "over"]
  /\ file' = n /\ recording' = TRUE /\ current' = n
  /\ \/ /\ pressed /\ capturing' = TRUE /\ active' = TRUE /\ cancelling' = FALSE
        /\ timer' = n /\ ticking' = ticking \cup {n} /\ UNCHANGED ends
     \/ /\ ~pressed /\ capturing' = FALSE
        /\ ends' = ends \cup {[of |-> n, send |-> FALSE, at |-> "stop"]}
        /\ UNCHANGED session
  /\ UNCHANGED <<open, pressed, allowed, sent, stray>>

Slide ==
  /\ active /\ cancelling' = ~cancelling
  /\ UNCHANGED <<open, pressed, active, timer, ticking, capture, begins, ends, native, sent, stray>>

\* end(): what is recorded is stopped, to be sent or thrown away.
End(send) ==
  /\ pressed' = FALSE /\ ticking' = ticking \ {timer} /\ timer' = 0 /\ active' = FALSE
  /\ capturing' = FALSE
  /\ ends' = IF capturing THEN ends \cup {[of |-> current, send |-> send, at |-> "stop"]}
             ELSE ends
  /\ UNCHANGED <<cancelling, current, begins, native, sent, stray>>
LetGo == open /\ pressed /\ End(~cancelling) /\ UNCHANGED open
TakenAway == open /\ pressed /\ End(FALSE) /\ UNCHANGED open
LeaveChat == open /\ open' = FALSE /\ End(FALSE)
\* An interval's tick finds the five minutes over.
Limit == capturing /\ ticking # {} /\ End(TRUE) /\ UNCHANGED open

\* expoRecorder's stop: the recorder, then the session; the file it has then.
NativeStop(e) ==
  /\ e \in ends /\ e.at = "stop" /\ recording' = FALSE
  /\ ends' = (ends \ {e}) \cup {[e EXCEPT !.at = "session"]}
  /\ UNCHANGED <<open, pressed, session, capture, begins, file, allowed, sent, stray>>
SessionReset(e) ==
  /\ e \in ends /\ e.at = "session" /\ ends' = ends \ {e} /\ allowed' = FALSE
  /\ sent' \in {sent} \cup IF e.send THEN {sent \cup {<<e.of, file>>}} ELSE {}
  /\ UNCHANGED <<open, pressed, session, capture, begins, file, recording, stray>>

Next ==
  \/ \E n \in Begins : Begin(n) \/ GiveUp(n) \/ Permitted(n) \/ SessionSet(n) \/ Started(n)
  \/ Slide \/ LetGo \/ TakenAway \/ LeaveChat \/ Limit
  \/ \E e \in ends : NativeStop(e) \/ SessionReset(e)
Spec == Init /\ [][Next]_vars

(****************************** Properties ********************************)

\* Unless the button is pressed again before the last recording has started or
\* stopped: the phone records only while the button says so (or until the stop
\* is through), in a session that lets it; and what is sent is the file of that
\* recording, also when the finger lets go before the microphone is ready.
RecordsAsShown ==
  ~stray =>
    /\ recording => active \/ ends # {}
    /\ active => recording /\ allowed /\ capturing /\ timer = current
    /\ ticking \subseteq {timer}
    /\ \A s \in sent : s[1] = s[2]

\* What `stray` sets aside: who presses again at once gets the file of the new
\* recording sent as the old one.
=============================================================================
