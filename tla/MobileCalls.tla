----------------------------- MODULE MobileCalls ------------------------------
(* One incoming call on a phone: the server, the phone's own call screen     *)
(* (CallKit or Telecom), the CallEngine and the CallBridge that keeps the    *)
(* two in step, while the app starts, the socket comes and goes and the      *)
(* system answers late.                                                      *)
(* apps/mobile/src/calls/callBridge.ts, CallEngine.ts, CallProvider.tsx.     *)
EXTENDS Naturals, Sequences

CONSTANTS
  Attempts, \* SIGNAL_ATTEMPTS
  MaxDrops  \* bound on how often the socket goes down

VARIABLES
  server,   \* the call, as the server has it
  wire,     \* events on the way to the phone
  app,      \* the process runs, and the bridge listens
  ready,    \* the socket is registered: getConnectionId() is not null
  drops,
  os,       \* the system's call screen; "off" when it takes no call at all
  notices,  \* its events on the way to the bridge
  phase,    \* the engine's phase
  accepted, \* acceptSent
  unseen,   \* the engine changed and onSnapshot has not run
  known,    \* the bridge: what it has of the call, a set of
            \* "id", "request", "registered", "connected", "handled", "local"
  jobs,     \* what is awaited, with the attempts left
  wish      \* what the person last asked for

vars == <<server, wire, app, ready, drops, os, notices, phase, accepted, unseen, known,
          jobs, wish>>

Job == [what : {"report", "adopt", "start", "media", "accept", "decline", "finish", "tell"},
        left : 0..Attempts]
TypeOK ==
  /\ server \in {"ringing", "active", "declined", "ended"}
  /\ wire \in Seq({"incoming", "accepted", "elsewhere", "ended"})
  /\ {app, ready, accepted, unseen} \subseteq BOOLEAN /\ drops \in 0..MaxDrops
  /\ os \in {"off", "none", "ringing", "answered", "connected", "ended"}
  /\ notices \in Seq({"added", "answered", "ended"})
  /\ phase \in {"none", "incoming", "connecting", "active", "ended"}
  /\ known \subseteq {"id", "request", "registered", "connected", "handled", "local"}
  /\ jobs \subseteq Job /\ wish \in {"none", "answer", "decline"}

Init ==
  /\ server = "ringing" /\ wire = <<>> /\ app = FALSE /\ ready = FALSE /\ drops = 0
  /\ os \in {"off", "none"} /\ notices = <<>> /\ phase = "none" /\ accepted = FALSE /\ unseen = FALSE
  /\ known = {} /\ jobs = {} /\ wish = "none"

net == <<wire, ready, drops>>
system == <<os, notices>>
engine == <<phase, accepted, unseen>>

J(what, left) == [what |-> what, left |-> left]
Await(what) == J(what, 0)
InCall == phase \in {"connecting", "active"}
Screen == os \in {"ringing", "answered", "connected"}

Tell(what) == wire' = IF ready THEN Append(wire, what) ELSE wire
To(p) == phase' = p /\ unseen' = TRUE
\* hangUp and decline reach the server, which ends what is not ended.
Ends(reason) == server' = IF server \in {"ringing", "active"} THEN reason ELSE server
Notify(what) == notices' = IF app THEN Append(notices, what) ELSE notices

(******************************* The server *******************************)

\* The caller gives up, the ring times out, or somebody hangs up.
CallEnds ==
  /\ server \in {"ringing", "active"} /\ server' = "ended" /\ Tell("ended")
  /\ UNCHANGED <<app, ready, drops, system, engine, known, jobs, wish>>
AnsweredElsewhere ==
  /\ server = "ringing" /\ server' = "active" /\ Tell("elsewhere")
  /\ UNCHANGED <<app, ready, drops, system, engine, known, jobs, wish>>
\* `incoming` goes to sockets, a push to the system.
Ring ==
  /\ server = "ringing" /\ phase = "none" /\ ready /\ wire = <<>> /\ Tell("incoming")
  /\ UNCHANGED <<server, app, ready, drops, system, engine, known, jobs, wish>>
Push ==
  /\ server = "ringing" /\ os = "none" /\ os' = "ringing" /\ Notify("added")
  /\ UNCHANGED <<server, net, app, engine, known, jobs, wish>>

(****************************** App and socket ****************************)

\* The provider mounts: bridge.start() listens and looks for a system call.
StartApp ==
  /\ ~app /\ app' = TRUE /\ jobs' = jobs \cup {Await("start")}
  /\ UNCHANGED <<server, net, system, engine, known, wish>>
\* realtime.ready: a call that is answered is re-attached (onSignallingReconnected).
\* The server tells a device of a call that has ended.
Ready ==
  /\ app /\ ~ready /\ ready' = TRUE
  /\ wire' = IF InCall /\ server \notin {"ringing", "active"} THEN Append(wire, "ended") ELSE wire
  /\ UNCHANGED <<server, app, drops, system, engine, known, jobs, wish>>
Drop ==
  /\ ready /\ drops < MaxDrops /\ drops' = drops + 1 /\ ready' = FALSE /\ wire' = <<>>
  /\ UNCHANGED <<server, app, system, engine, known, jobs, wish>>

\* handleEvent.
HandleEvent ==
  /\ wire # <<>> /\ wire' = Tail(wire)
  /\ LET what == Head(wire) IN
     \/ /\ what = "incoming" /\ phase = "none" /\ To("incoming")
     \/ /\ what \in {"elsewhere", "ended"} /\ (phase = "incoming" \/ InCall) /\ To("ended")
     \/ /\ ~(what = "incoming" /\ phase = "none")
        /\ ~(what \in {"elsewhere", "ended"} /\ (phase = "incoming" \/ InCall))
        /\ UNCHANGED <<phase, unseen>>
  /\ UNCHANGED <<server, app, ready, drops, system, accepted, known, jobs, wish>>

(******************************** The engine ******************************)

\* A decline must reach the server: sent, or sent once the socket is up.
SendDecline(left) ==
  IF ready THEN Ends("declined") /\ UNCHANGED jobs
           ELSE jobs' = jobs \cup {J("decline", left)} /\ UNCHANGED server
DeclineAgain(j) ==
  /\ j \in jobs /\ j.what = "decline"
  /\ \/ ready /\ Ends("declined") /\ jobs' = jobs \ {j}
     \/ \* up when the wait ended, down again when it sends
        /\ ~ready /\ drops > 0 /\ jobs' = (jobs \ {j}) \cup
             (IF j.left > 1 THEN {J("decline", j.left - 1)} ELSE {})
        /\ UNCHANGED server
  /\ UNCHANGED <<net, app, system, engine, known, wish>>

\* hangUp() and decline(): before the accept went out it is a decline.
HangUp ==
  IF phase = "incoming" \/ (phase = "connecting" /\ ~accepted) THEN SendDecline(Attempts)
  ELSE UNCHANGED jobs /\ IF ready THEN Ends("ended") ELSE UNCHANGED server

\* answerNow: the microphone, then accept() of the ringing call.
Media(got) ==
  /\ Await("media") \in jobs
  /\ \/ /\ got /\ phase = "incoming" /\ To("connecting") /\ accepted' = FALSE
        /\ jobs' = (jobs \ {Await("media")}) \cup {J("accept", Attempts)}
        /\ UNCHANGED <<server, os>>
     \/ /\ got /\ phase # "incoming" /\ jobs' = jobs \ {Await("media")}
        /\ UNCHANGED <<engine, server, os>>
     \/ \* failAnswer
        /\ ~got /\ "request" \in known /\ os' = (IF Screen THEN "ended" ELSE os)
        /\ IF phase = "incoming"
           THEN /\ To("ended") /\ jobs' = (jobs \ {Await("media")}) \cup
                     (IF ready THEN {} ELSE {J("decline", Attempts)})
                /\ IF ready THEN Ends("declined") ELSE UNCHANGED server
           ELSE jobs' = jobs \ {Await("media")} /\ UNCHANGED <<server, phase, unseen>>
        /\ UNCHANGED accepted
     \/ /\ ~got /\ "request" \notin known /\ jobs' = jobs \ {Await("media")}
        /\ UNCHANGED <<engine, server, os>>
  /\ UNCHANGED <<net, app, notices, known, wish>>

\* accept() once the socket is up; a lost race is answered by the server.
SendAccept(j) ==
  /\ j \in jobs /\ j.what = "accept" /\ jobs' = jobs \ {j}
  /\ \/ phase # "connecting" /\ UNCHANGED <<server, wire, phase, accepted, unseen>>
     \/ /\ phase = "connecting" /\ ready /\ accepted' = TRUE
        /\ server' = (IF server = "ringing" THEN "active" ELSE server)
        /\ wire' = Append(wire, CASE server = "ringing" -> "accepted"
                                  [] server = "active" -> "elsewhere"
                                  [] OTHER -> "ended")
        /\ UNCHANGED <<phase, unseen>>
     \/ \* no socket in time, or none for any attempt
        /\ phase = "connecting" /\ ~ready /\ To("ended") /\ UNCHANGED <<server, wire, accepted>>
  /\ UNCHANGED <<app, ready, drops, system, known, wish>>

Connected ==
  /\ phase = "connecting" /\ accepted /\ server = "active" /\ To("active")
  /\ UNCHANGED <<server, net, app, system, accepted, known, jobs, wish>>

\* The call screen goes ENDED_LINGER_MS after the end was shown; the system
\* says what call it has well before that.
Dismiss ==
  /\ phase = "ended" /\ To("none")
  /\ {Await("start"), Await("report"), Await("adopt")} \cap jobs = {}
  /\ UNCHANGED <<server, net, app, system, accepted, known, jobs, wish>>

(******************************** The bridge ******************************)

Handle(seen) == {"id", "handled"} \cap seen = {"id"}

\* onSnapshot: end the system's call, register, or confirm the answer.
OnSnapshot ==
  /\ unseen /\ unseen' = FALSE
  /\ \/ /\ phase = "ended" /\ Handle(known)
        /\ known' = known \cup {"handled"} /\ jobs' = jobs \cup {Await("finish")} /\ UNCHANGED os
     \/ /\ phase \in {"incoming", "connecting", "active"} /\ "registered" \notin known
        /\ known' = known \cup {"registered"} /\ jobs' = jobs \cup {Await("report")} /\ UNCHANGED os
     \/ /\ phase = "active" /\ {"registered", "id", "request"} \subseteq known
        /\ known' = known \cup {"connected"}
        /\ os' = (IF os = "answered" THEN "connected" ELSE os) /\ UNCHANGED jobs
     \/ /\ ~(phase = "ended" /\ Handle(known))
        /\ ~(phase \in {"incoming", "connecting", "active"} /\ "registered" \notin known)
        /\ ~(phase = "active" /\ {"registered", "id", "request"} \subseteq known)
        /\ UNCHANGED <<known, jobs, os>>
  /\ UNCHANGED <<server, net, app, notices, phase, accepted, wish>>

\* register: reportIncoming, refused when the push was first or by the system.
Report ==
  /\ Await("report") \in jobs /\ jobs' = (jobs \ {Await("report")}) \cup {Await("adopt")}
  /\ \/ os = "none" /\ os' = "ringing" /\ Notify("added")
     \/ os # "none" /\ UNCHANGED system
  /\ UNCHANGED <<server, net, app, engine, known, wish>>

\* adoptActiveSession, and what register looks at after it.
Present == phase = "none" /\ To("incoming")
AdoptUnchecked ==
  /\ Await("adopt") \in jobs /\ jobs' = jobs \ {Await("adopt")}
  /\ known' = (IF Screen THEN known \cup {"id"} ELSE known)
  /\ \/ Screen /\ Present
     \/ ~(Screen /\ phase = "none") /\ UNCHANGED <<phase, unseen>>
  /\ UNCHANGED <<server, net, app, system, accepted, wish>>
Adopt ==
  /\ Await("adopt") \in jobs
  /\ jobs' = jobs \ {Await("adopt")}
  /\ known' = (IF Screen THEN known \cup {"id"} ELSE known)
  /\ \/ Screen /\ Present
     \/ /\ ~(Screen /\ phase = "none") /\ UNCHANGED phase
        /\ unseen' = (unseen \/ (phase # "none" /\ "id" \in known'))
  /\ UNCHANGED <<server, net, app, system, accepted, wish>>

StartAdopt ==
  /\ Await("start") \in jobs /\ jobs' = jobs \ {Await("start")}
  /\ known' = (IF Screen THEN known \cup {"id"} ELSE known)
  /\ \/ Screen /\ Present
     \/ ~(Screen /\ phase = "none") /\ UNCHANGED <<phase, unseen>>
  /\ UNCHANGED <<server, net, app, system, accepted, wish>>

\* finishNative: the system's call ends with the right reason, and is forgotten.
FinishNative ==
  /\ Await("finish") \in jobs /\ jobs' = jobs \ {Await("finish")}
  /\ os' = (IF Screen THEN "ended" ELSE os) /\ known' = {}
  /\ UNCHANGED <<server, net, app, notices, engine, wish>>

(************************** The person, the system ************************)

\* On the system's screen, or in the app, which asks the system if it can.
Answer ==
  /\ wish # "decline" /\ wish' = "answer"
  /\ \/ /\ os = "ringing" /\ os' = "answered" /\ Notify("answered") /\ UNCHANGED jobs
     \/ /\ phase = "incoming" /\ "id" \notin known
        /\ jobs' = jobs \cup {Await("media")} /\ UNCHANGED system
  /\ UNCHANGED <<server, net, app, engine, known>>
EndOnScreen ==
  /\ Screen /\ os' = "ended" /\ Notify("ended") /\ wish' = "decline"
  /\ UNCHANGED <<server, net, app, engine, known, jobs>>
EndInApp ==
  /\ phase = "incoming" \/ InCall
  /\ wish' = "decline" /\ known' = known \cup {"local"} /\ HangUp /\ To("ended")
  /\ UNCHANGED <<net, app, system, accepted>>

\* mapSession, onAnswered, onNativeEnded.
Notice ==
  /\ notices # <<>> /\ notices' = Tail(notices)
  /\ LET what == Head(notices) IN
     \/ /\ what = "added" /\ known' = known \cup {"id"}
        /\ UNCHANGED <<server, os, phase, unseen, jobs>>
     \/ /\ what = "answered" /\ phase \in {"none", "incoming"}
        /\ known' = known \cup {"request", "id"}
        /\ jobs' = jobs \cup {Await("media")}
        /\ phase' = "incoming" /\ unseen' = (unseen \/ phase = "none") /\ UNCHANGED <<server, os>>
     \/ /\ what = "answered" /\ phase \notin {"none", "incoming"}
        /\ known' = known \cup {"request"} /\ UNCHANGED <<server, os, phase, unseen, jobs>>
     \/ /\ what = "ended" /\ (phase = "incoming" \/ InCall)
        /\ known' = known \cup {"id", "local"} /\ HangUp /\ To("ended") /\ UNCHANGED os
     \/ \* declined before the app ran: the server is told once the socket is up
        /\ what = "ended" /\ phase = "none" /\ known' = known \cup {"id"}
        /\ jobs' = (IF "request" \in known THEN jobs ELSE jobs \cup {Await("tell")})
        /\ UNCHANGED <<server, os, phase, unseen>>
     \/ what = "ended" /\ phase = "ended" /\ UNCHANGED <<server, os, phase, unseen, known, jobs>>
  /\ UNCHANGED <<net, app, accepted, wish>>
TellDecline ==
  /\ Await("tell") \in jobs /\ jobs' = jobs \ {Await("tell")}
  /\ IF ready /\ phase = "none" THEN Ends("declined") /\ To("ended")
                                ELSE UNCHANGED <<server, phase, unseen>>
  /\ UNCHANGED <<net, app, system, accepted, known, wish>>

Phone ==
  \/ StartApp \/ Ready \/ HandleEvent \/ Report \/ Adopt \/ StartAdopt
  \/ FinishNative \/ Notice \/ TellDecline \/ Dismiss
  \/ \E got \in BOOLEAN : Media(got)
  \/ \E j \in jobs : SendAccept(j) \/ DeclineAgain(j)
\* The effect that calls onSnapshot runs before the next event is handled.
Next ==
  \/ OnSnapshot
  \/ /\ ~unseen
     /\ \/ Phone \/ CallEnds \/ AnsweredElsewhere \/ Ring \/ Push \/ Drop \/ Connected
        \/ Answer \/ EndOnScreen \/ EndInApp

Spec == Init /\ [][Next]_vars

(****************************** Properties ********************************)

\* "the engine ending (the caller hung up, another device answered) ends the
\* system call" (callBridge.ts:107), also when it was still being registered:
\* with nothing left to do for the bridge, an ended call has no system screen.
BridgeIdle ==
  /\ ~unseen /\ notices = <<>>
  /\ \A what \in {"start", "report", "adopt", "finish", "media"} : Await(what) \notin jobs
SystemFollows == app /\ phase = "ended" /\ BridgeIdle => ~Screen

\* An accept is only ever what the person asked for.
AcceptMeant == accepted => wish # "none"
=============================================================================
